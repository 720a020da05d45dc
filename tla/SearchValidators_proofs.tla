------------------------ MODULE SearchValidators_proofs ------------------------
(***************************************************************************)
(* The schedule the search returns passes the post-solve validators, and   *)
(* nobody teaches beyond the weekly maximum: for every problem and every   *)
(* score.  The invariant is about every schedule the search may fall back  *)
(* to: the placements, the running best and what an undo goes back to.     *)
(* The last parts add the class caps, for problems with one-hour blocks,   *)
(* and travel time, where no hour that needs it can be swapped.            *)
(***************************************************************************)
EXTENDS TimetableSearch_proofs

-----------------------------------------------------------------------------
(* Whole numbers of blocks.                                                 *)

\* A multiple is divisible.
LEMMA MultipleDivides ==
  ASSUME NEW n \in Nat \ {0}, NEW k \in Nat
  PROVE  (n * k) % n = 0 /\ n * k \in Nat
OBVIOUS

\* What is divisible is a multiple.
LEMMA Quotient ==
  ASSUME NEW n \in Nat \ {0}, NEW a \in Nat, a % n = 0
  PROVE  a = n * (a \div n) /\ a \div n \in Nat
OBVIOUS

\* One more block.
LEMMA OneMoreBlock ==
  ASSUME NEW n \in Nat \ {0}, NEW a \in Nat, a % n = 0
  PROVE  (a + n) % n = 0
<1>1. PICK k \in Nat : a = n * k
  BY Quotient
<1>2. a + n = n * (k + 1) /\ k + 1 \in Nat
  BY <1>1
<1>3. (n * (k + 1)) % n = 0
  BY <1>2, MultipleDivides
<1> QED
  BY <1>2, <1>3

\* A part of a block is not a whole number of blocks.
LEMMA NoPartOfBlock ==
  ASSUME NEW n \in Nat \ {0}, NEW a \in Nat, NEW j \in 0..(n - 1),
         a % n = 0, (a + j) % n = 0
  PROVE  j = 0
<1>1. PICK k \in Nat : a = n * k
  BY Quotient
<1>2. PICK m \in Nat : a + j = n * m
  <2> DEFINE b == a + j
  <2>1. b \in Nat
    OBVIOUS
  <2> HIDE DEF b
  <2>2. b % n = 0
    BY DEF b
  <2> QED
    BY <2>1, <2>2, Quotient DEF b
<1>3. m > k => n * (m - k) >= n
  OBVIOUS
<1>4. m < k => n * (m - k) <= -n
  OBVIOUS
<1>5. n * (m - k) = j
  BY <1>1, <1>2
<1> QED
  BY <1>3, <1>4, <1>5

-----------------------------------------------------------------------------
(* Days tiled by blocks.                                                    *)

\* The rows of a lesson on a day are the blocks that start at the positions
\* T.  Before any position that is not inside a block there is a whole number
\* of blocks: that is what the shape validator counts.
Tiling(R, l, d, T) ==
    LET n == BlockSize[l]
        D == RowsOfOn(R, l, d)
    IN  /\ \A r \in D : \E s \in T : s <= Pos(r.slot) /\ Pos(r.slot) < s + n
        /\ \A s \in T : \A k \in 0..(n - 1) : \E r \in D : Pos(r.slot) = s + k
        /\ \A s, u \in T : s = u \/ s + n <= u \/ u + n <= s
        /\ Cardinality(D) % n = 0
        /\ \A p \in Nat : (\A s \in T : p <= s \/ s + n <= p) =>
             Cardinality({r \in D : Pos(r.slot) < p}) % n = 0

Tiled(R) ==
    \A l \in Lessons \ Pinned, d \in Days : \E T \in SUBSET Nat : Tiling(R, l, d, T)

\* A lesson's block size is a positive number.
LEMMA BlockSizes ==
  ASSUME NEW l \in Lessons
  PROVE  /\ BlockSize[l] \in Nat \ {0} /\ Hours[l] \in Nat \ {0}
         /\ Hours[l] % BlockSize[l] = 0 /\ BlockSize[l] <= Hours[l]
         /\ Blocks(l) \in Nat /\ BlockSize[l] * Blocks(l) = Hours[l]
<1>1. /\ BlockSize[l] \in Nat \ {0} /\ Hours[l] \in Nat \ {0}
      /\ Hours[l] % BlockSize[l] = 0
  BY ProblemAssumption DEF ValidLessons, ValidGroups
<1>2. ASSUME NEW n \in Nat \ {0}, NEW h \in Nat \ {0}, h % n = 0
      PROVE  n <= h /\ h \div n \in Nat /\ n * (h \div n) = h
  <2>1. PICK k \in Nat : h = n * k /\ k = h \div n
    BY <1>2, Quotient
  <2>2. k # 0
    BY <2>1
  <2> QED
    BY <2>1, <2>2
<1> QED
  BY <1>1, <1>2 DEF Blocks

\* Rows of one lesson and day are told apart by their positions.
LEMMA DayRows ==
  ASSUME NEW R \in SUBSET Row, NEW l, NEW d
  PROVE  /\ RowsOfOn(R, l, d) \in SUBSET Row /\ IsFiniteSet(RowsOfOn(R, l, d))
         /\ \A r \in RowsOfOn(R, l, d) : Pos(r.slot) \in Nat /\ r.slot = <<d, Pos(r.slot)>>
         /\ NoDoubleBooking(R) => \A r, q \in RowsOfOn(R, l, d) :
              Pos(r.slot) = Pos(q.slot) => r = q
<1>1. RowsOfOn(R, l, d) \in SUBSET Row
  BY DEF RowsOfOn
<1>2. ASSUME NEW r \in RowsOfOn(R, l, d)
      PROVE  Pos(r.slot) \in Nat /\ r.slot = <<d, Pos(r.slot)>> /\ r.lesson = l /\ r \in R
  <2>1. r.slot \in Nat \X Nat
    BY ProblemAssumption DEF RowsOfOn, Row
  <2> QED
    BY <2>1 DEF RowsOfOn, Day, Pos
<1>3. ASSUME NoDoubleBooking(R), NEW r \in RowsOfOn(R, l, d), NEW q \in RowsOfOn(R, l, d),
             Pos(r.slot) = Pos(q.slot)
      PROVE  r = q
  <2>1. r.slot = q.slot /\ r.lesson = q.lesson /\ r \in R /\ q \in R
    BY <1>2, <1>3
  <2> QED
    BY <1>3, <2>1, SameLessonClashes
<1> QED
  BY <1>1, <1>2, <1>3, ScheduleFinite

\* A day without rows is tiled by no block.
LEMMA EmptyTiled ==
  ASSUME NEW R, NEW l \in Lessons, NEW d, RowsOfOn(R, l, d) = {}
  PROVE  \E T \in SUBSET Nat : Tiling(R, l, d, T)
<1> DEFINE n == BlockSize[l]
<1>1. n \in Nat \ {0} /\ 0 % n = 0
  <2>1. n \in Nat \ {0}
    BY BlockSizes
  <2> HIDE DEF n
  <2>2. (n * 0) % n = 0 /\ n * 0 = 0
    BY <2>1, MultipleDivides
  <2> QED
    BY <2>1, <2>2
<1>2. Cardinality({}) = 0
  BY FS_EmptySet
<1>3. \A p \in Nat : {r \in {} : Pos(r.slot) < p} = {}
  OBVIOUS
<1>4. Tiling(R, l, d, {})
  BY <1>1, <1>2, <1>3 DEF Tiling
<1> QED
  BY <1>4

\* Any rows tile a day when the lesson comes in single hours.
LEMMA SinglesTiled ==
  ASSUME NEW R \in SUBSET Row, NEW l \in Lessons, NEW d, BlockSize[l] = 1
  PROVE  \E T \in SUBSET Nat : Tiling(R, l, d, T)
<1> DEFINE D == RowsOfOn(R, l, d)
           T == {Pos(r.slot) : r \in D}
<1>1. D \in SUBSET Row /\ \A r \in D : Pos(r.slot) \in Nat
  BY DayRows
<1>2. ASSUME NEW S, S \subseteq D PROVE Cardinality(S) % 1 = 0
  <2>1. Cardinality(S) \in Nat
    BY <1>1, <1>2, ScheduleFinite
  <2> QED
    BY <2>1
<1> HIDE DEF D
<1>3. T \in SUBSET Nat
  BY <1>1
<1>4. \A r \in D : \E s \in T : s <= Pos(r.slot) /\ Pos(r.slot) < s + 1
  BY <1>1
<1>5. \A s \in T : \A k \in 0..0 : \E r \in D : Pos(r.slot) = s + k
  BY <1>1
<1>6. \A s, u \in T : s = u \/ s + 1 <= u \/ u + 1 <= s
  BY <1>3
<1>7. Cardinality(D) % 1 = 0 /\ \A p \in Nat : Cardinality({r \in D : Pos(r.slot) < p}) % 1 = 0
  BY <1>2
<1>8. Tiling(R, l, d, T)
  <2> HIDE DEF T
  <2> QED
    BY <1>4, <1>5, <1>6, <1>7 DEF Tiling, D
<1> QED
  BY <1>3, <1>8

\* A day whose rows stay stays tiled.
LEMMA SameTiled ==
  ASSUME NEW R, NEW S, NEW l, NEW d, RowsOfOn(R, l, d) = RowsOfOn(S, l, d),
         \E T \in SUBSET Nat : Tiling(R, l, d, T)
  PROVE  \E T \in SUBSET Nat : Tiling(S, l, d, T)
BY DEF Tiling

\* A block is as many rows as it has hours, at the positions from its start.
LEMMA BlockOfRows ==
  ASSUME NEW l \in Lessons, NEW s \in Slots, NEW room, NEW t, NEW B, B = Block(l, s, room, t)
  PROVE  /\ IsFiniteSet(B) /\ Cardinality(B) = BlockSize[l] /\ B # {}
         /\ Pos(s) \in Nat
         /\ \A r \in B : /\ r.lesson = l /\ r.room = room /\ r.teacher = t
                         /\ Day(r.slot) = Day(s) /\ Pos(r.slot) \in Nat
                         /\ Pos(s) <= Pos(r.slot) /\ Pos(r.slot) < Pos(s) + BlockSize[l]
         /\ \A k \in 0..(BlockSize[l] - 1) : \E r \in B : Pos(r.slot) = Pos(s) + k
<1> DEFINE n == BlockSize[l]
           W == Window(s, n)
           f == [w \in W |-> [lesson |-> l, slot |-> w, room |-> room, teacher |-> t]]
<1>1. n \in Nat \ {0} /\ Pos(s) \in Nat
  BY BlockSizes, ProblemAssumption DEF Pos
<1>2. IsFiniteSet(W) /\ Cardinality(W) = n
  BY <1>1, WindowSize
<1>3. B = {[lesson |-> l, slot |-> w, room |-> room, teacher |-> t] : w \in W}
  BY DEF Block
<1>4. \A w \in W : \E k \in 0..(n - 1) : w = <<Day(s), Pos(s) + k>>
  BY DEF Window
<1>5. \A k \in 0..(n - 1) : <<Day(s), Pos(s) + k>> \in W
  BY DEF Window
<1> HIDE DEF n, W
<1>6. f \in Bijection(W, B)
  <2>1. f \in [W -> B]
    BY <1>3
  <2>2. \A v, w \in W : f[v] = f[w] => v = w
    OBVIOUS
  <2>3. \A r \in B : \E w \in W : f[w] = r
    BY <1>3
  <2> HIDE DEF f
  <2> QED
    BY <2>1, <2>2, <2>3, Fun_IsBij
<1>7. IsFiniteSet(B) /\ Cardinality(B) = n
  <2>1. ExistsBijection(W, B)
    BY <1>6 DEF ExistsBijection
  <2> QED
    BY <1>2, <2>1, FS_Bijection
<1>8. ASSUME NEW r \in B
      PROVE  /\ r.lesson = l /\ r.room = room /\ r.teacher = t
             /\ Day(r.slot) = Day(s) /\ Pos(r.slot) \in Nat
             /\ Pos(s) <= Pos(r.slot) /\ Pos(r.slot) < Pos(s) + n
  <2>1. PICK k \in 0..(n - 1) : r.slot = <<Day(s), Pos(s) + k>>
    BY <1>3, <1>4
  <2>2. Day(r.slot) = Day(s) /\ Pos(r.slot) = Pos(s) + k
    BY <2>1 DEF Day, Pos
  <2>3. r.lesson = l /\ r.room = room /\ r.teacher = t
    BY <1>3
  <2> HIDE DEF f
  <2> QED
    BY <1>1, <2>2, <2>3
<1>9. ASSUME NEW k \in 0..(n - 1) PROVE \E r \in B : Pos(r.slot) = Pos(s) + k
  <2>1. [lesson |-> l, slot |-> <<Day(s), Pos(s) + k>>, room |-> room, teacher |-> t] \in B
    BY <1>3, <1>5
  <2> QED
    BY <2>1 DEF Pos
<1>10. B # {}
  BY <1>1, <1>9
<1> QED
  BY <1>1, <1>7, <1>8, <1>9, <1>10 DEF n

\* A block beside the others leaves a tiled day tiled.
LEMMA MoreTiled ==
  ASSUME NEW R \in SUBSET Row, NEW l \in Lessons, NEW s \in Slots, NEW room, NEW t,
         NEW B \in SUBSET Row, B = Block(l, s, room, t), R \cap B = {},
         NoDoubleBooking(R \cup B),
         \E T \in SUBSET Nat : Tiling(R, l, Day(s), T)
  PROVE  \E T \in SUBSET Nat : Tiling(R \cup B, l, Day(s), T)
<1> DEFINE n == BlockSize[l]
           d == Day(s)
           D == RowsOfOn(R, l, d)
           E == RowsOfOn(R \cup B, l, d)
           z == Pos(s)
<1>1. PICK T \in SUBSET Nat : Tiling(R, l, d, T)
  OBVIOUS
<1>2. /\ IsFiniteSet(B) /\ Cardinality(B) = n /\ z \in Nat
      /\ \A r \in B : /\ r.lesson = l /\ Day(r.slot) = d /\ Pos(r.slot) \in Nat
                      /\ z <= Pos(r.slot) /\ Pos(r.slot) < z + n
      /\ \A k \in 0..(n - 1) : \E r \in B : Pos(r.slot) = z + k
  BY BlockOfRows
<1>3. n \in Nat \ {0}
  BY BlockSizes
<1>4. E = D \cup B /\ D \cap B = {} /\ IsFiniteSet(D)
  <2>1. E = D \cup B /\ D \cap B = {}
    BY <1>2 DEF RowsOfOn
  <2> QED
    BY <2>1, DayRows
<1>5. /\ \A r \in E : Pos(r.slot) \in Nat
      /\ \A r, q \in E : Pos(r.slot) = Pos(q.slot) => r = q
  BY DayRows
<1>6. /\ \A r \in D : \E u \in T : u <= Pos(r.slot) /\ Pos(r.slot) < u + n
      /\ \A u \in T : \A k \in 0..(n - 1) : \E r \in D : Pos(r.slot) = u + k
      /\ \A u, v \in T : u = v \/ u + n <= v \/ v + n <= u
      /\ Cardinality(D) % n = 0
      /\ \A p \in Nat : (\A u \in T : p <= u \/ u + n <= p) =>
           Cardinality({r \in D : Pos(r.slot) < p}) % n = 0
  BY <1>1 DEF Tiling
<1> HIDE DEF n, d, D, E, z
<1>7. ASSUME NEW u \in T PROVE u + n <= z \/ z + n <= u
  <2> SUFFICES ASSUME u < z + n, z < u + n PROVE FALSE
    BY <1>2, <1>3
  <2>1. \E i \in 0..(n - 1), j \in 0..(n - 1) : u + i = z + j
    <3>1. CASE u <= z
      <4>1. z - u \in 0..(n - 1) /\ u + (z - u) = z + 0 /\ 0 \in 0..(n - 1)
        BY <1>2, <1>3, <3>1
      <4> QED
        BY <4>1
    <3>2. CASE z <= u
      <4>1. u - z \in 0..(n - 1) /\ u + 0 = z + (u - z) /\ 0 \in 0..(n - 1)
        BY <1>2, <1>3, <3>2
      <4> QED
        BY <4>1
    <3> QED
      BY <1>2, <3>1, <3>2
  <2>2. PICK i \in 0..(n - 1), j \in 0..(n - 1) : u + i = z + j
    BY <2>1
  <2>3. PICK r \in D : Pos(r.slot) = u + i
    BY <1>6
  <2>4. PICK q \in B : Pos(q.slot) = z + j
    BY <1>2
  <2>5. r \in E /\ q \in E /\ Pos(r.slot) = Pos(q.slot)
    BY <1>4, <2>2, <2>3, <2>4
  <2> QED
    BY <1>4, <1>5, <2>5
<1> DEFINE V == T \cup {z}
<1>8. V \in SUBSET Nat
  BY <1>2
<1>9. \A r \in E : \E u \in V : u <= Pos(r.slot) /\ Pos(r.slot) < u + n
  BY <1>2, <1>4, <1>6
<1>10. \A u \in V : \A k \in 0..(n - 1) : \E r \in E : Pos(r.slot) = u + k
  <2>1. \A k \in 0..(n - 1) : \E r \in E : Pos(r.slot) = z + k
    BY <1>2, <1>4
  <2>2. \A u \in T : \A k \in 0..(n - 1) : \E r \in E : Pos(r.slot) = u + k
    BY ONLY <1>4, <1>6
  <2> QED
    BY ONLY <2>1, <2>2
<1>11. \A u, v \in V : u = v \/ u + n <= v \/ v + n <= u
  BY <1>6, <1>7
<1>12. Cardinality(E) % n = 0
  <2>1. Cardinality(E) = Cardinality(D) + n /\ Cardinality(D) \in Nat
    BY <1>2, <1>4, SizeOfUnion
  <2> QED
    BY <1>3, <1>6, <2>1, OneMoreBlock
<1>13. ASSUME NEW p \in Nat, \A u \in V : p <= u \/ u + n <= p
       PROVE  Cardinality({r \in E : Pos(r.slot) < p}) % n = 0
  <2> DEFINE L == {r \in D : Pos(r.slot) < p}
             M == {r \in E : Pos(r.slot) < p}
  <2>1. Cardinality(L) % n = 0
    BY <1>6, <1>13
  <2>2. CASE p <= z
    <3>1. M = L
      BY <1>2, <1>4, <2>2
    <3> QED
      BY <2>1, <3>1
  <2>3. CASE z + n <= p
    <3>1. M = L \cup B /\ L \cap B = {} /\ L \subseteq D
      BY <1>2, <1>3, <1>4, <2>3
    <3>2. IsFiniteSet(L)
      BY <1>4, <3>1, FS_Subset
    <3> HIDE DEF L, M
    <3>3. Cardinality(M) = Cardinality(L) + n /\ Cardinality(L) \in Nat
      BY <1>2, <3>1, <3>2, SizeOfUnion
    <3>4. Cardinality(M) % n = 0
      BY <1>3, <2>1, <3>3, OneMoreBlock
    <3> QED
      BY <3>4 DEF M
  <2> QED
    BY <1>13, <2>2, <2>3
<1>14. Tiling(R \cup B, l, d, V)
  <2> HIDE DEF V
  <2> QED
    BY <1>9, <1>10, <1>11, <1>12, <1>13 DEF Tiling, n, E
<1> QED
  BY <1>8, <1>14 DEF d

\* Rows at consecutive positions are as many as the positions.
LEMMA Consecutive ==
  ASSUME NEW D, IsFiniteSet(D), NEW s \in Nat, NEW p \in Nat, s <= p,
         \A r \in D : Pos(r.slot) \in Nat,
         \A r, q \in D : Pos(r.slot) = Pos(q.slot) => r = q,
         \A k \in s..(p - 1) : \E r \in D : Pos(r.slot) = k
  PROVE  Cardinality({r \in D : s <= Pos(r.slot) /\ Pos(r.slot) < p}) = p - s
<1> DEFINE S == {r \in D : s <= Pos(r.slot) /\ Pos(r.slot) < p}
           f == [r \in S |-> Pos(r.slot)]
<1>1. IsFiniteSet(S)
  BY FS_Subset
<1>2. \A r \in S : r \in D /\ Pos(r.slot) \in s..(p - 1)
  OBVIOUS
<1>3. \A k \in s..(p - 1) : \E r \in S : Pos(r.slot) = k
  OBVIOUS
<1> HIDE DEF S
<1>4. f \in Bijection(S, s..(p - 1))
  <2>1. f \in [S -> s..(p - 1)]
    BY <1>2
  <2>2. \A r, q \in S : f[r] = f[q] => r = q
    BY <1>2
  <2>3. \A k \in s..(p - 1) : \E r \in S : f[r] = k
    BY <1>3
  <2> HIDE DEF f
  <2> QED
    BY <2>1, <2>2, <2>3, Fun_IsBij
<1>5. ExistsBijection(S, s..(p - 1))
  BY <1>4 DEF ExistsBijection
<1>6. Cardinality(s..(p - 1)) = Cardinality(S)
  BY <1>1, <1>5, FS_Bijection
<1>7. Cardinality(s..(p - 1)) = p - s
  BY FS_Interval
<1> QED
  BY <1>6, <1>7 DEF S

\* A tiled day has the shape the validator asks for.
LEMMA TiledShape ==
  ASSUME NEW R \in SUBSET Row, Orderly(R), NEW l \in Lessons, NEW d,
         \E T \in SUBSET Nat : Tiling(R, l, d, T),
         NEW D, D = RowsOfOn(R, l, d)
  PROVE  /\ Cardinality(D) % BlockSize[l] = 0
         /\ \A r \in D :
              Cardinality({q \in D : Pos(q.slot) < Pos(r.slot)}) % BlockSize[l] = 0 =>
                \A k \in 1..(BlockSize[l] - 1) :
                  \E q \in D : Pos(q.slot) = Pos(r.slot) + k /\ q.room = r.room
<1> DEFINE n == BlockSize[l]
<1>1. PICK T \in SUBSET Nat : Tiling(R, l, d, T)
  OBVIOUS
<1>2. n \in Nat \ {0}
  BY BlockSizes
<1>3. /\ IsFiniteSet(D) /\ \A r \in D : Pos(r.slot) \in Nat
      /\ \A r, q \in D : Pos(r.slot) = Pos(q.slot) => r = q
  BY DayRows DEF Orderly
<1>4. /\ \A r \in D : \E u \in T : u <= Pos(r.slot) /\ Pos(r.slot) < u + n
      /\ \A u \in T : \A k \in 0..(n - 1) : \E r \in D : Pos(r.slot) = u + k
      /\ \A u, v \in T : u = v \/ u + n <= v \/ v + n <= u
      /\ Cardinality(D) % n = 0
      /\ \A p \in Nat : (\A u \in T : p <= u \/ u + n <= p) =>
           Cardinality({r \in D : Pos(r.slot) < p}) % n = 0
  BY <1>1 DEF Tiling
<1>5. \A r, q \in D : r.room = q.room
  <2> SUFFICES ASSUME NEW r \in D, NEW q \in D PROVE r.room = q.room
    OBVIOUS
  <2>1. /\ r \in R /\ q \in R /\ r.lesson = l /\ q.lesson = l
        /\ Day(r.slot) = Day(q.slot)
    BY DEF RowsOfOn
  <2>2. ClassesOf[l] # {}
    BY ProblemAssumption DEF ValidLessons, ValidGroups
  <2> QED
    BY <2>1, <2>2 DEF Orderly, NoRoomHopping
<1> HIDE DEF n
<1>6. ASSUME NEW r \in D, Cardinality({q \in D : Pos(q.slot) < Pos(r.slot)}) % n = 0,
             NEW k \in 1..(n - 1)
      PROVE  \E q \in D : Pos(q.slot) = Pos(r.slot) + k /\ q.room = r.room
  <2> DEFINE p == Pos(r.slot)
  <2>1. PICK u \in T : u <= p /\ p < u + n
    BY <1>4
  <2> DEFINE L == {q \in D : Pos(q.slot) < u}
             M == {q \in D : u <= Pos(q.slot) /\ Pos(q.slot) < p}
             B == {q \in D : Pos(q.slot) < p}
  <2>2. u \in Nat /\ p \in Nat
    BY <1>3
  <2>3. Cardinality(L) % n = 0
    <3>1. \A v \in T : u <= v \/ v + n <= u
      BY <1>2, <1>4, <2>2
    <3> QED
      BY <1>4, <2>2, <3>1
  <2>4. Cardinality(M) = p - u
    <3>1. ASSUME NEW i \in u..(p - 1) PROVE \E q \in D : Pos(q.slot) = i
      <4>1. i - u \in 0..(n - 1) /\ u + (i - u) = i
        BY <1>2, <2>1, <2>2
      <4>2. \E q \in D : Pos(q.slot) = u + (i - u)
        BY <1>4, <4>1
      <4> QED
        BY <4>1, <4>2
    <3> HIDE DEF p
    <3> QED
      BY <1>3, <2>1, <2>2, <3>1, Consecutive
  <2>5. B = L \cup M /\ L \cap M = {} /\ L \subseteq D /\ M \subseteq D
    BY <1>3, <2>1, <2>2
  <2>6. IsFiniteSet(L) /\ IsFiniteSet(M)
    BY <1>3, <2>5, FS_Subset
  <2>7. Cardinality(B) % n = 0
    BY <1>6
  <2> HIDE DEF L, M, B, p
  <2>8. Cardinality(B) = Cardinality(L) + (p - u) /\ Cardinality(L) \in Nat
    BY <2>4, <2>5, <2>6, SizeOfUnion
  <2>9. p - u \in 0..(n - 1)
    BY <1>2, <2>1, <2>2
  <2> DEFINE j == p - u
  <2>10. j = 0
    <3>1. (Cardinality(L) + j) % n = 0 /\ j \in 0..(n - 1)
      BY <2>7, <2>8, <2>9
    <3> HIDE DEF j
    <3> QED
      BY <1>2, <2>3, <2>8, <3>1, NoPartOfBlock
  <2>11. p = u
    BY <2>2, <2>10
  <2>12. PICK q \in D : Pos(q.slot) = u + k
    <3>1. k \in 0..(n - 1)
      BY <1>2
    <3> QED
      BY <1>4, <3>1
  <2> QED
    BY <1>5, <2>11, <2>12 DEF p
<1> QED
  BY <1>4, <1>6 DEF n

\* A day that holds at most a block of a lesson, but something, holds one.
LEMMA WholeBlockOnDay ==
  ASSUME NEW R \in SUBSET Row, Orderly(R), NEW l \in Lessons, NEW d,
         \E T \in SUBSET Nat : Tiling(R, l, d, T), RowsOfOn(R, l, d) # {}
  PROVE  /\ BlockSize[l] <= Cardinality(RowsOfOn(R, l, d))
         /\ Cardinality(RowsOfOn(R, l, d)) \in Nat
<1> DEFINE c == Cardinality(RowsOfOn(R, l, d))
           n == BlockSize[l]
<1>1. c \in Nat \ {0}
  BY DayRows, SizeZero
<1>2. c % n = 0
  BY TiledShape
<1>3. n \in Nat \ {0}
  BY BlockSizes
<1> HIDE DEF c, n
<1>4. n <= c
  BY <1>1, <1>2, <1>3
<1> QED
  BY <1>1, <1>4 DEF c, n

-----------------------------------------------------------------------------
(* What every schedule of the search keeps to.                              *)

\* A class has one lesson per subject, and the teacher pinned to a lesson is
\* one of its candidates.  The solver locks a (class, subject) pair to a
\* teacher without asking whether the teacher is a candidate of the other
\* lessons of the pair, and takes a pinned teacher unseen.
Unambiguous ==
    /\ \A l, m \in Lessons : l # m /\ SubjectOf[l] = SubjectOf[m] =>
         ClassesOf[l] \cap ClassesOf[m] = {}
    /\ \A l \in Lessons : TeacherPin[l] \in Candidates[l] \cup {NoTeacher}

\* No teacher beyond the weekly maximum, who teaches more than pins.
HoursCapped(R) ==
    \A t \in Teachers : (\E r \in R : r.teacher = t /\ r.lesson \notin Pinned) =>
      Cardinality({r \in R : r.teacher = t}) <= TeacherMax[t]

\* No lesson beyond its weekly hours, pins aside.
HoursKept(R) == \A l \in Lessons \ Pinned : Cardinality(RowsOf(R, l)) <= Hours[l]

Passing(R) ==
    /\ HoursKept(R) /\ Tiled(R) /\ SubjectCaps(R) /\ HoursCapped(R)
    /\ OneTeacherPerClassSubject(R)
    /\ Unambiguous => TeachersAllowed(R)

\* A (class, subject) pair is locked to a teacher only while it has rows.
LocksLive(R, L) ==
    \A x \in Classes \X Subjects : L[x] # NoTeacher =>
      \E r \in R : x[1] \in ClassesOf[r.lesson] /\ SubjectOf[r.lesson] = x[2]

\* A part of a schedule keeps all of this, but for the shape of its days.
LEMMA PartPassing ==
  ASSUME NEW R \in SUBSET Row, NEW S \in SUBSET R, Passing(R)
  PROVE  /\ HoursKept(S) /\ SubjectCaps(S) /\ HoursCapped(S)
         /\ OneTeacherPerClassSubject(S)
         /\ Unambiguous => TeachersAllowed(S)
         /\ \A l : /\ Cardinality(RowsOf(S, l)) <= Cardinality(RowsOf(R, l))
                   /\ Cardinality(RowsOf(S, l)) \in Nat /\ Cardinality(RowsOf(R, l)) \in Nat
<1>1. ASSUME NEW A, NEW B, B \subseteq R, A \subseteq B
      PROVE  Cardinality(A) <= Cardinality(B) /\ Cardinality(A) \in Nat /\ Cardinality(B) \in Nat
  BY <1>1, SmallerCount
<1>2. ASSUME NEW l
      PROVE  /\ Cardinality(RowsOf(S, l)) <= Cardinality(RowsOf(R, l))
             /\ Cardinality(RowsOf(S, l)) \in Nat /\ Cardinality(RowsOf(R, l)) \in Nat
  <2>1. RowsOf(S, l) \subseteq RowsOf(R, l) /\ RowsOf(R, l) \subseteq R
    BY DEF RowsOf
  <2> QED
    BY <1>1, <2>1
<1>3. HoursKept(S)
  <2> SUFFICES ASSUME NEW l \in Lessons \ Pinned PROVE Cardinality(RowsOf(S, l)) <= Hours[l]
    BY DEF HoursKept
  <2>1. Hours[l] \in Nat
    BY BlockSizes
  <2>2. Cardinality(RowsOf(R, l)) <= Hours[l]
    BY DEF Passing, HoursKept
  <2> QED
    BY <1>2, <2>1, <2>2
<1>4. SubjectCaps(S)
  <2> SUFFICES ASSUME NEW c \in Classes, NEW d \in Days, NEW s \in Subjects
               PROVE  Cardinality(TripleRows(S, c, d, s)) <= SubjectCap[s]
    BY DEF SubjectCaps
  <2>1. TripleRows(S, c, d, s) \subseteq TripleRows(R, c, d, s) /\ TripleRows(R, c, d, s) \subseteq R
    BY DEF TripleRows
  <2>2. Cardinality(TripleRows(R, c, d, s)) <= SubjectCap[s] /\ SubjectCap[s] \in Nat
    BY ProblemAssumption DEF Passing, SubjectCaps
  <2>3. /\ Cardinality(TripleRows(S, c, d, s)) <= Cardinality(TripleRows(R, c, d, s))
        /\ Cardinality(TripleRows(S, c, d, s)) \in Nat
        /\ Cardinality(TripleRows(R, c, d, s)) \in Nat
    BY <1>1, <2>1
  <2> QED
    BY <2>2, <2>3
<1>5. HoursCapped(S)
  <2> SUFFICES ASSUME NEW t \in Teachers, NEW r \in S, r.teacher = t, r.lesson \notin Pinned
               PROVE  Cardinality({q \in S : q.teacher = t}) <= TeacherMax[t]
    BY DEF HoursCapped
  <2>1. Cardinality({q \in R : q.teacher = t}) <= TeacherMax[t] /\ TeacherMax[t] \in Nat
    BY ProblemAssumption DEF Passing, HoursCapped
  <2> DEFINE A == {q \in S : q.teacher = t}
             B == {q \in R : q.teacher = t}
  <2>2. A \subseteq B /\ B \subseteq R
    OBVIOUS
  <2> HIDE DEF A, B
  <2>3. Cardinality(A) <= Cardinality(B) /\ Cardinality(A) \in Nat /\ Cardinality(B) \in Nat
    BY <1>1, <2>2
  <2> QED
    BY <2>1, <2>3 DEF A, B
<1>6. OneTeacherPerClassSubject(S)
  BY PartOfSound DEF Passing
<1>7. Unambiguous => TeachersAllowed(S)
  BY DEF Passing, TeachersAllowed
<1> QED
  BY <1>2, <1>3, <1>4, <1>5, <1>6, <1>7

\* Taking out whole days of a lesson, or single hours, leaves tiled days.
LEMMA PartTiled ==
  ASSUME NEW R \in SUBSET Row, NEW S \in SUBSET R, Tiled(R),
         \A l \in Lessons \ Pinned, d \in Days :
            \/ BlockSize[l] = 1
            \/ RowsOfOn(S, l, d) \in {{}, RowsOfOn(R, l, d)}
  PROVE  Tiled(S)
<1> SUFFICES ASSUME NEW l \in Lessons \ Pinned, NEW d \in Days
             PROVE  \E T \in SUBSET Nat : Tiling(S, l, d, T)
  BY DEF Tiled
<1>1. CASE BlockSize[l] = 1
  BY <1>1, SinglesTiled
<1>2. CASE RowsOfOn(S, l, d) = {}
  BY <1>2, EmptyTiled
<1>3. CASE RowsOfOn(S, l, d) = RowsOfOn(R, l, d)
  BY <1>3, SameTiled DEF Tiled
<1> QED
  BY <1>1, <1>2, <1>3

\* Locks live on when a pair's rows are replaced by others of the same lessons.
LEMMA LocksLiveOn ==
  ASSUME NEW R, NEW S, NEW L, LocksLive(R, L),
         \A r \in R : \E q \in S : q.lesson = r.lesson
  PROVE  LocksLive(S, L)
BY DEF LocksLive

-----------------------------------------------------------------------------
(* Placing a block.                                                         *)

\* What the block B of l adds to the counts of lessons, teachers and triples.
Grows(R, B, l, d, t) ==
    /\ \A m : /\ Cardinality(RowsOf(R \cup B, m))
                   = Cardinality(RowsOf(R, m)) + (IF m = l THEN BlockSize[l] ELSE 0)
              /\ Cardinality(RowsOf(R, m)) \in Nat
    /\ \A u \in Teachers :
         /\ Cardinality({r \in R \cup B : r.teacher = u})
              = Cardinality({r \in R : r.teacher = u}) + (IF u = t THEN BlockSize[l] ELSE 0)
         /\ Cardinality({r \in R : r.teacher = u}) \in Nat
    /\ \A x \in Triples :
         /\ TripleCount(R \cup B, x)
              = TripleCount(R, x) + (IF x \in LockKeys(l, d) THEN BlockSize[l] ELSE 0)
         /\ TripleCount(R, x) \in Nat

\* A block adds its hours, to its lesson, its teacher and its triples.
LEMMA BlockCounts ==
  ASSUME NEW R \in SUBSET Row, NEW l \in Lessons, NEW s \in Slots, NEW room, NEW t,
         NEW B \in SUBSET Row, B = Block(l, s, room, t), R \cap B = {}
  PROVE  Grows(R, B, l, Day(s), t)
<1> DEFINE n == BlockSize[l]
<1>1. /\ IsFiniteSet(B) /\ Cardinality(B) = n
      /\ \A r \in B : r.lesson = l /\ r.teacher = t /\ Day(r.slot) = Day(s)
  BY BlockOfRows
<1>2. Cardinality({}) = 0 /\ n \in Nat
  BY FS_EmptySet, BlockSizes
<1>3. IsFiniteSet(R)
  BY ScheduleFinite
<1>4. ASSUME NEW m
      PROVE  /\ Cardinality(RowsOf(R \cup B, m))
                  = Cardinality(RowsOf(R, m)) + (IF m = l THEN n ELSE 0)
             /\ Cardinality(RowsOf(R, m)) \in Nat
  <2>1. /\ RowsOf(R \cup B, m) = RowsOf(R, m) \cup RowsOf(B, m)
        /\ RowsOf(R, m) \cap RowsOf(B, m) = {}
        /\ RowsOf(R, m) \subseteq R /\ RowsOf(B, m) \subseteq B
        /\ RowsOf(B, m) = IF m = l THEN B ELSE {}
    BY <1>1 DEF RowsOf
  <2>2. IsFiniteSet(RowsOf(R, m)) /\ IsFiniteSet(RowsOf(B, m))
    BY <1>1, <1>3, <2>1, FS_Subset
  <2>3. /\ Cardinality(RowsOf(R \cup B, m))
             = Cardinality(RowsOf(R, m)) + Cardinality(RowsOf(B, m))
        /\ Cardinality(RowsOf(R, m)) \in Nat
    BY <2>1, <2>2, SizeOfUnion
  <2>4. Cardinality(RowsOf(B, m)) = IF m = l THEN n ELSE 0
    BY <1>1, <1>2, <2>1
  <2> QED
    BY <2>3, <2>4
<1>5. ASSUME NEW u \in Teachers
      PROVE  /\ Cardinality({r \in R \cup B : r.teacher = u})
                  = Cardinality({r \in R : r.teacher = u}) + (IF u = t THEN n ELSE 0)
             /\ Cardinality({r \in R : r.teacher = u}) \in Nat
  <2>1. {r \in B : r.teacher = u} = IF u = t THEN B ELSE {}
    BY <1>1
  <2>2. Cardinality({r \in B : r.teacher = u}) = IF u = t THEN n ELSE 0
    BY <1>1, <1>2, <2>1
  <2>3. Cardinality({r \in R \cup B : r.teacher = u})
          = Cardinality({r \in R : r.teacher = u}) + Cardinality({r \in B : r.teacher = u})
    BY CountsOfUnion
  <2>4. {r \in R : r.teacher = u} \in SUBSET Row
    OBVIOUS
  <2>5. Cardinality({r \in R : r.teacher = u}) \in Nat
    BY <2>4, ScheduleFinite
  <2> QED
    BY <2>2, <2>3, <2>5
<1>6. ASSUME NEW x \in Triples
      PROVE  /\ TripleCount(R \cup B, x)
                  = TripleCount(R, x) + (IF x \in LockKeys(l, Day(s)) THEN n ELSE 0)
             /\ TripleCount(R, x) \in Nat
  <2>1. \A r \in B : x \in LockKeys(l, Day(s)) <=> r \in TripleRows(B, x[1], x[2], x[3])
    BY <1>1, TripleOfRow
  <2>2. TripleRows(B, x[1], x[2], x[3]) = IF x \in LockKeys(l, Day(s)) THEN B ELSE {}
    BY <2>1 DEF TripleRows
  <2>3. TripleCount(B, x) = IF x \in LockKeys(l, Day(s)) THEN n ELSE 0
    BY <1>1, <1>2, <2>2 DEF TripleCount
  <2>4. TripleCount(R \cup B, x) = TripleCount(R, x) + TripleCount(B, x)
    BY CountsOfUnion
  <2>5. TripleCount(R, x) \in Nat
    BY TripleCountType
  <2> QED
    BY <2>3, <2>4, <2>5
<1> QED
  BY <1>4, <1>5, <1>6 DEF Grows

\* The caps per class, day and subject are caps on triples.
LEMMA TripleCaps ==
  ASSUME NEW R
  PROVE  SubjectCaps(R) <=> \A x \in Triples : TripleCount(R, x) <= SubjectCap[x[3]]
<1>1. ASSUME SubjectCaps(R), NEW x \in Triples PROVE TripleCount(R, x) <= SubjectCap[x[3]]
  <2>1. x[1] \in Classes /\ x[2] \in Days /\ x[3] \in Subjects
    BY DEF Triples
  <2> QED
    BY <1>1, <2>1 DEF SubjectCaps, TripleCount
<1>2. ASSUME \A x \in Triples : TripleCount(R, x) <= SubjectCap[x[3]],
             NEW c \in Classes, NEW d \in Days, NEW s \in Subjects
      PROVE  Cardinality(TripleRows(R, c, d, s)) <= SubjectCap[s]
  <2> DEFINE x == <<c, d, s>>
  <2>1. x \in Triples
    BY DEF Triples
  <2>2. TripleCount(R, x) = Cardinality(TripleRows(R, c, d, s)) /\ x[3] = s
    BY DEF TripleCount
  <2> QED
    BY <1>2, <2>1, <2>2
<1> QED
  BY <1>1, <1>2 DEF SubjectCaps

\* A block beside the others leaves every day tiled.
LEMMA BlockTiled ==
  ASSUME NEW R \in SUBSET Row, Tiled(R), NEW l \in Lessons, NEW s \in Slots, NEW room, NEW t,
         NEW B \in SUBSET Row, B = Block(l, s, room, t), R \cap B = {},
         NoDoubleBooking(R \cup B)
  PROVE  Tiled(R \cup B)
<1> SUFFICES ASSUME NEW m \in Lessons \ Pinned, NEW d \in Days
             PROVE  \E T \in SUBSET Nat : Tiling(R \cup B, m, d, T)
  BY DEF Tiled
<1>1. \E T \in SUBSET Nat : Tiling(R, m, d, T)
  BY DEF Tiled
<1>2. CASE m = l /\ d = Day(s)
  BY <1>1, <1>2, MoreTiled
<1>3. CASE ~(m = l /\ d = Day(s))
  <2>1. \A r \in B : r.lesson = l /\ Day(r.slot) = Day(s)
    BY BlockOfRows
  <2>2. RowsOfOn(R \cup B, m, d) = RowsOfOn(R, m, d)
    BY <1>3, <2>1 DEF RowsOfOn
  <2> QED
    BY <1>1, <2>2, SameTiled
<1> QED
  BY <1>2, <1>3

\* A row's teacher is the locked one, so a class has one teacher in a subject.
LEMMA LocksMeanOneTeacher ==
  ASSUME NEW R, NEW L, LocksHold(R, L)
  PROVE  OneTeacherPerClassSubject(R)
<1> SUFFICES ASSUME NEW r \in R, NEW q \in R, SubjectOf[r.lesson] = SubjectOf[q.lesson],
                    ClassesOf[r.lesson] \cap ClassesOf[q.lesson] # {}
             PROVE  r.teacher = q.teacher
  BY DEF OneTeacherPerClassSubject
<1>1. PICK c \in ClassesOf[r.lesson] : c \in ClassesOf[q.lesson]
  OBVIOUS
<1>2. L[<<c, SubjectOf[r.lesson]>>] = r.teacher /\ L[<<c, SubjectOf[q.lesson]>>] = q.teacher
  BY <1>1 DEF LocksHold
<1> QED
  BY <1>2

\* The teacher of a new block is one the lesson may have: the one its rows
\* already have, the pinned one or a candidate.
LEMMA PlacedTeacher ==
  ASSUME rows \in SUBSET Row, LocksHold(rows, tally.teacherLock),
         LocksLive(rows, tally.teacherLock), Unambiguous, TeachersAllowed(rows),
         NEW l \in Lessons, NEW t \in TeacherChoices(l)
  PROVE  t \in Candidates[l] /\ TeacherPin[l] \in {NoTeacher, t}
<1>1. CASE LockedTeachers(l) # {}
  <2>1. LockedTeachers(l) = {t}
    BY <1>1 DEF TeacherChoices
  <2>2. PICK c \in ClassesOf[l] :
          tally.teacherLock[<<c, SubjectOf[l]>>] = t /\ t # NoTeacher
    BY <2>1 DEF LockedTeachers
  <2>3. <<c, SubjectOf[l]>> \in Classes \X Subjects
    BY <2>2, ProblemAssumption DEF ValidLessons, ValidGroups
  <2>4. PICK r \in rows : c \in ClassesOf[r.lesson] /\ SubjectOf[r.lesson] = SubjectOf[l]
    BY <2>2, <2>3 DEF LocksLive
  <2>5. r.lesson = l
    BY <2>2, <2>4 DEF Unambiguous, Row
  <2>6. r.teacher = t
    BY <2>2, <2>4 DEF LocksHold
  <2> QED
    BY <2>5, <2>6 DEF TeachersAllowed
<1>2. CASE LockedTeachers(l) = {} /\ TeacherPin[l] # NoTeacher
  <2>1. t = TeacherPin[l]
    BY <1>2 DEF TeacherChoices
  <2> QED
    BY <1>2, <2>1 DEF Unambiguous
<1>3. CASE LockedTeachers(l) = {} /\ TeacherPin[l] = NoTeacher
  BY <1>3 DEF TeacherChoices
<1> QED
  BY <1>1, <1>2, <1>3

\* Placing a block of a lesson that has hours left.
LEMMA PlacePassing ==
  ASSUME TypeOK, Orderly(rows), Mirrored(rows, used, tally), Passing(rows),
         LocksLive(rows, tally.teacherLock),
         NEW l \in Lessons \ Pinned, NEW s \in Slots, NEW room \in Rooms, NEW t \in Teachers,
         Place(l, s, room, t),
         Cardinality(RowsOf(rows, l)) + BlockSize[l] <= Hours[l]
  PROVE  /\ Passing(rows') /\ LocksLive(rows', tally'.teacherLock)
         /\ \A m : /\ Cardinality(RowsOf(rows, m)) \in Nat
                   /\ Cardinality(RowsOf(rows', m))
                        = Cardinality(RowsOf(rows, m)) + (IF m = l THEN BlockSize[l] ELSE 0)
<1> DEFINE B == Block(l, s, room, t)
           n == BlockSize[l]
<1>1. /\ Orderly(rows') /\ Mirrored(rows', used', tally')
      /\ rows' = rows \cup B /\ rows \cap B = {}
  BY PlaceKeeps
<1>2. rows \in SUBSET Row /\ B \in SUBSET Row /\ tally \in TallyType /\ CanPlace(l, s, room, t)
  BY PlaceType DEF Place, TypeOK, CanPlace
<1>3. n \in Nat \ {0} /\ Hours[l] \in Nat /\ n <= Hours[l]
  BY BlockSizes
<1>4. \A r \in B : r.lesson = l /\ r.teacher = t
  BY BlockRows
<1> HIDE DEF B
<1>5. Grows(rows, B, l, Day(s), t)
  BY <1>1, <1>2, BlockCounts DEF B
<1>6. /\ \A m : /\ Cardinality(RowsOf(rows \cup B, m))
                     = Cardinality(RowsOf(rows, m)) + (IF m = l THEN n ELSE 0)
                /\ Cardinality(RowsOf(rows, m)) \in Nat
      /\ \A u \in Teachers :
           /\ Cardinality({r \in rows \cup B : r.teacher = u})
                = Cardinality({r \in rows : r.teacher = u}) + (IF u = t THEN n ELSE 0)
           /\ Cardinality({r \in rows : r.teacher = u}) \in Nat
      /\ \A x \in Triples :
           /\ TripleCount(rows \cup B, x)
                = TripleCount(rows, x) + (IF x \in LockKeys(l, Day(s)) THEN n ELSE 0)
           /\ TripleCount(rows, x) \in Nat
  BY <1>5 DEF Grows
<1>7. HoursKept(rows')
  <2> SUFFICES ASSUME NEW m \in Lessons \ Pinned
               PROVE  Cardinality(RowsOf(rows', m)) <= Hours[m]
    BY DEF HoursKept
  <2>1. Cardinality(RowsOf(rows', m))
          = Cardinality(RowsOf(rows, m)) + (IF m = l THEN n ELSE 0)
    BY <1>1, <1>6
  <2>2. Cardinality(RowsOf(rows, m)) <= Hours[m] /\ Cardinality(RowsOf(rows, m)) \in Nat
    BY <1>6 DEF Passing, HoursKept
  <2>3. CASE m = l
    BY <2>1, <2>3
  <2>4. CASE m # l
    <3>1. Cardinality(RowsOf(rows', m)) = Cardinality(RowsOf(rows, m))
      BY <2>1, <2>2, <2>4
    <3> QED
      BY <2>2, <3>1
  <2> QED
    BY <2>3, <2>4
<1>8. Tiled(rows')
  BY <1>1, <1>2, BlockTiled DEF Passing, Orderly, B
<1>9. SubjectCaps(rows')
  <2>1. ASSUME NEW x \in Triples PROVE TripleCount(rows', x) <= SubjectCap[x[3]]
    <3>1. TripleCount(rows, x) <= SubjectCap[x[3]]
      BY TripleCaps DEF Passing
    <3>2. CASE x \in LockKeys(l, Day(s))
      <4>1. PICK c \in ClassesOf[l] : x = <<c, Day(s), SubjectOf[l]>>
        BY <3>2 DEF LockKeys
      <4>2. tally.subjectHours[x] + n <= SubjectCap[x[3]]
        BY <1>2, <4>1 DEF CanPlace, UnderCaps
      <4>3. tally.subjectHours[x] = TripleCount(rows, x)
        BY DEF Mirrored, Counted
      <4> QED
        BY <1>1, <1>6, <3>2, <4>2, <4>3
    <3>3. CASE x \notin LockKeys(l, Day(s))
      <4>1. TripleCount(rows', x) = TripleCount(rows, x) + 0 /\ TripleCount(rows, x) \in Nat
        BY <1>1, <1>6, <3>3
      <4>2. TripleCount(rows', x) = TripleCount(rows, x)
        BY <4>1
      <4> QED
        BY <3>1, <4>2
    <3> QED
      BY <3>2, <3>3
  <2> QED
    BY <2>1, TripleCaps
<1>10. HoursCapped(rows')
  <2> SUFFICES ASSUME NEW u \in Teachers, NEW r \in rows', r.teacher = u, r.lesson \notin Pinned
               PROVE  Cardinality({q \in rows' : q.teacher = u}) <= TeacherMax[u]
    BY DEF HoursCapped
  <2>1. CASE u = t
    <3>1. tally.hours[t] + HoursRequired(l) <= TeacherMax[t]
      BY <1>2 DEF CanPlace
    <3>2. tally.hours[t] = Cardinality({q \in rows : q.teacher = t})
      BY DEF Mirrored, Counted
    <3>3. HoursRequired(l) \in Nat /\ n <= HoursRequired(l)
      BY <1>3 DEF HoursRequired
    <3>4. TeacherMax[t] \in Nat
      BY ProblemAssumption
    <3>5. Cardinality({q \in rows' : q.teacher = t}) = Cardinality({q \in rows : q.teacher = t}) + n
          /\ Cardinality({q \in rows : q.teacher = t}) \in Nat
      BY <1>1, <1>6
    <3> QED
      BY <1>3, <2>1, <3>1, <3>2, <3>3, <3>4, <3>5
  <2>2. CASE u # t
    <3>1. r \in rows
      BY <1>1, <1>4, <2>2
    <3>2. Cardinality({q \in rows : q.teacher = u}) <= TeacherMax[u]
      BY <3>1 DEF Passing, HoursCapped
    <3>3. Cardinality({q \in rows' : q.teacher = u}) = Cardinality({q \in rows : q.teacher = u})
      BY <1>1, <1>6, <2>2
    <3> QED
      BY <3>2, <3>3
  <2> QED
    BY <2>1, <2>2
<1>11. OneTeacherPerClassSubject(rows')
  BY <1>1, LocksMeanOneTeacher DEF Mirrored
<1>12. Unambiguous => TeachersAllowed(rows')
  <2> SUFFICES ASSUME Unambiguous PROVE TeachersAllowed(rows')
    OBVIOUS
  <2>1. t \in Candidates[l] /\ TeacherPin[l] \in {NoTeacher, t}
    BY <1>2, PlacedTeacher DEF CanPlace, Mirrored, Passing
  <2> QED
    BY <1>1, <1>4, <2>1 DEF TeachersAllowed, Passing
<1>13. LocksLive(rows', tally'.teacherLock)
  <2> DEFINE b0 == CountIn(tally, B)
             b1 == MoreLessons(b0, {B}, 1)
  <2>1. b0 \in TallyType /\ b0.teacherLock = tally.teacherLock
    BY <1>2, CountType, CountFields
  <2>2. b1 \in TallyType /\ b1.teacherLock = tally.teacherLock
    <3> HIDE DEF b0
    <3>1. b1 \in TallyType
      BY <1>2, <2>1, LessonsType
    <3>2. b1.teacherLock = b0.teacherLock
      BY <2>1 DEF MoreLessons, TallyType
    <3> QED
      BY <2>1, <3>1, <3>2
  <2>3. tally' = LockTeacher(b1, l, t)
    BY DEF Place, B
  <2> HIDE DEF b1
  <2>4. \A x \in Classes \X Subjects : tally'.teacherLock[x] =
          IF x[1] \in ClassesOf[l] /\ x[2] = SubjectOf[l] /\ tally.teacherLock[x] = NoTeacher
          THEN t ELSE tally.teacherLock[x]
    BY <2>2, <2>3 DEF LockTeacher, TallyType
  <2>5. PICK q \in B : q.lesson = l
    BY <1>4, BlockOfRows DEF B
  <2> QED
    BY <1>1, <2>4, <2>5 DEF LocksLive
<1> QED
  BY <1>1, <1>6, <1>7, <1>8, <1>9, <1>10, <1>11, <1>12, <1>13 DEF Passing

-----------------------------------------------------------------------------
(* Moving rows.                                                             *)

\* The same hours, lesson by lesson and with the same teachers, elsewhere.
SameHours(R, S) ==
    \E f \in Bijection(R, S) : \A r \in R : f[r].lesson = r.lesson /\ f[r].teacher = r.teacher

\* Rows that stay beside rows that move.
LEMMA SameHoursBeside ==
  ASSUME NEW R, NEW O \in SUBSET R, NEW N, (R \ O) \cap N = {}, SameHours(O, N)
  PROVE  SameHours(R, (R \ O) \cup N)
<1> DEFINE K == R \ O
           S == K \cup N
<1>1. PICK f \in Bijection(O, N) :
        \A r \in O : f[r].lesson = r.lesson /\ f[r].teacher = r.teacher
  BY DEF SameHours
<1>2. /\ f \in [O -> N] /\ \A r, q \in O : f[r] = f[q] => r = q
      /\ \A q \in N : \E r \in O : f[r] = q
  BY <1>1, Fun_IsBij DEF Bijection, Injection, Surjection, IsInjective
<1> DEFINE g == [r \in R |-> IF r \in O THEN f[r] ELSE r]
<1>3. R = K \cup O /\ K \cap O = {} /\ K \cap N = {}
  OBVIOUS
<1> HIDE DEF K
<1>4. g \in [R -> S]
  BY <1>2, <1>3
<1>5. \A r, q \in R : g[r] = g[q] => r = q
  BY <1>2, <1>3
<1>6. \A q \in S : \E r \in R : g[r] = q
  BY <1>2, <1>3
<1>7. \A r \in R : g[r].lesson = r.lesson /\ g[r].teacher = r.teacher
  BY <1>1
<1>8. g \in Bijection(R, S)
  <2> HIDE DEF g, S
  <2> QED
    BY <1>4, <1>5, <1>6, Fun_IsBij
<1> HIDE DEF g, S
<1>9. SameHours(R, S)
  BY <1>7, <1>8 DEF SameHours
<1> QED
  BY <1>9 DEF S, K

\* Such a move changes no count of a lesson or a teacher.
LEMMA SameHoursCount ==
  ASSUME NEW R \in SUBSET Row, NEW S \in SUBSET Row, SameHours(R, S)
  PROVE  /\ \A l : Cardinality(RowsOf(S, l)) = Cardinality(RowsOf(R, l))
         /\ \A t : Cardinality({r \in S : r.teacher = t}) = Cardinality({r \in R : r.teacher = t})
         /\ \A q \in S : \E r \in R : q.lesson = r.lesson /\ q.teacher = r.teacher
         /\ \A r \in R : \E q \in S : q.lesson = r.lesson /\ q.teacher = r.teacher
<1>1. PICK f \in Bijection(R, S) :
        \A r \in R : f[r].lesson = r.lesson /\ f[r].teacher = r.teacher
  BY DEF SameHours
<1>2. /\ f \in [R -> S] /\ \A r, q \in R : f[r] = f[q] => r = q
      /\ \A q \in S : \E r \in R : f[r] = q
  BY <1>1 DEF Bijection, Injection, Surjection, IsInjective
<1>3. ASSUME NEW A \in SUBSET R, NEW B \in SUBSET S, \A r \in R : r \in A <=> f[r] \in B
      PROVE  Cardinality(B) = Cardinality(A)
  <2> DEFINE g == [r \in A |-> f[r]]
  <2>1. g \in [A -> B]
    BY <1>2, <1>3
  <2>2. \A r, q \in A : g[r] = g[q] => r = q
    BY <1>2
  <2>3. \A q \in B : \E r \in A : g[r] = q
    BY <1>2, <1>3
  <2>4. g \in Bijection(A, B)
    <3> HIDE DEF g
    <3> QED
      BY <2>1, <2>2, <2>3, Fun_IsBij
  <2>5. ExistsBijection(A, B)
    BY <2>4 DEF ExistsBijection
  <2>6. IsFiniteSet(A)
    BY ScheduleFinite
  <2> QED
    BY <2>5, <2>6, FS_Bijection
<1>4. ASSUME NEW l PROVE Cardinality(RowsOf(S, l)) = Cardinality(RowsOf(R, l))
  <2>1. RowsOf(R, l) \in SUBSET R /\ RowsOf(S, l) \in SUBSET S
        /\ \A r \in R : r \in RowsOf(R, l) <=> f[r] \in RowsOf(S, l)
    BY <1>1, <1>2 DEF RowsOf
  <2> QED
    BY <1>3, <2>1
<1>5. ASSUME NEW t
      PROVE  Cardinality({r \in S : r.teacher = t}) = Cardinality({r \in R : r.teacher = t})
  <2> DEFINE A == {r \in R : r.teacher = t}
             B == {r \in S : r.teacher = t}
  <2>1. A \in SUBSET R /\ B \in SUBSET S /\ \A r \in R : r \in A <=> f[r] \in B
    BY <1>1, <1>2
  <2> HIDE DEF A, B
  <2>2. Cardinality(B) = Cardinality(A)
    BY <1>3, <2>1
  <2> QED
    BY <2>2 DEF A, B
<1>6. \A q \in S : \E r \in R : q.lesson = r.lesson /\ q.teacher = r.teacher
  <2> SUFFICES ASSUME NEW q \in S PROVE \E r \in R : q.lesson = r.lesson /\ q.teacher = r.teacher
    OBVIOUS
  <2>1. PICK r \in R : f[r] = q
    BY <1>2
  <2> QED
    BY <1>1, <2>1
<1>7. \A r \in R : f[r] \in S
  BY <1>2
<1>8. \A r \in R : \E q \in S : q.lesson = r.lesson /\ q.teacher = r.teacher
  BY <1>1, <1>7
<1> QED
  BY <1>4, <1>5, <1>6, <1>8

\* And keeps all that depends on lessons and teachers only.
LEMMA SameHoursPassing ==
  ASSUME NEW R \in SUBSET Row, NEW S \in SUBSET Row, SameHours(R, S), Passing(R)
  PROVE  /\ HoursKept(S) /\ HoursCapped(S) /\ OneTeacherPerClassSubject(S)
         /\ Unambiguous => TeachersAllowed(S)
         /\ \A L : LocksLive(R, L) => LocksLive(S, L)
<1>1. /\ \A l : Cardinality(RowsOf(S, l)) = Cardinality(RowsOf(R, l))
      /\ \A t : Cardinality({r \in S : r.teacher = t}) = Cardinality({r \in R : r.teacher = t})
      /\ \A q \in S : \E r \in R : q.lesson = r.lesson /\ q.teacher = r.teacher
      /\ \A r \in R : \E q \in S : q.lesson = r.lesson /\ q.teacher = r.teacher
  BY SameHoursCount
<1>2. HoursKept(S)
  BY <1>1 DEF HoursKept, Passing
<1>3. HoursCapped(S)
  <2> SUFFICES ASSUME NEW t \in Teachers, NEW q \in S, q.teacher = t, q.lesson \notin Pinned
               PROVE  Cardinality({r \in S : r.teacher = t}) <= TeacherMax[t]
    BY DEF HoursCapped
  <2>1. PICK r \in R : r.teacher = t /\ r.lesson \notin Pinned
    <3>1. PICK r \in R : q.lesson = r.lesson /\ q.teacher = r.teacher
      BY <1>1
    <3> QED
      BY <3>1
  <2>2. Cardinality({p \in R : p.teacher = t}) <= TeacherMax[t]
    BY <2>1 DEF Passing, HoursCapped
  <2> DEFINE taught(X, u) == Cardinality({p \in X : p.teacher = u})
  <2>3. \A u : taught(S, u) = taught(R, u)
    BY <1>1
  <2>4. taught(R, t) <= TeacherMax[t]
    BY <2>2
  <2> HIDE DEF taught
  <2>5. taught(S, t) <= TeacherMax[t]
    BY <2>3, <2>4
  <2> QED
    BY <2>5 DEF taught
<1>4. OneTeacherPerClassSubject(S)
  <2> SUFFICES ASSUME NEW p \in S, NEW q \in S, SubjectOf[p.lesson] = SubjectOf[q.lesson],
                      ClassesOf[p.lesson] \cap ClassesOf[q.lesson] # {}
               PROVE  p.teacher = q.teacher
    BY DEF OneTeacherPerClassSubject
  <2>1. PICK r \in R : p.lesson = r.lesson /\ p.teacher = r.teacher
    BY <1>1
  <2>2. PICK u \in R : q.lesson = u.lesson /\ q.teacher = u.teacher
    BY <1>1
  <2>3. r.teacher = u.teacher
    BY <2>1, <2>2 DEF Passing, OneTeacherPerClassSubject
  <2> QED
    BY <2>1, <2>2, <2>3
<1>5. Unambiguous => TeachersAllowed(S)
  <2> SUFFICES ASSUME Unambiguous, NEW q \in S
               PROVE  q.teacher \in Candidates[q.lesson]
                      /\ TeacherPin[q.lesson] \in {NoTeacher, q.teacher}
    BY DEF TeachersAllowed
  <2>1. PICK r \in R : q.lesson = r.lesson /\ q.teacher = r.teacher
    BY <1>1
  <2>2. r.teacher \in Candidates[r.lesson] /\ TeacherPin[r.lesson] \in {NoTeacher, r.teacher}
    BY DEF Passing, TeachersAllowed
  <2> QED
    BY <2>1, <2>2
<1>6. \A L : LocksLive(R, L) => LocksLive(S, L)
  BY <1>1, LocksLiveOn
<1> QED
  BY <1>2, <1>3, <1>4, <1>5, <1>6

\* One row that moves.
LEMMA OneRowSameHours ==
  ASSUME NEW a, NEW b, b.lesson = a.lesson, b.teacher = a.teacher
  PROVE  SameHours({a}, {b})
<1> DEFINE f == [r \in {a} |-> b]
<1>1. f \in [{a} -> {b}]
  OBVIOUS
<1>2. \A r, q \in {a} : f[r] = f[q] => r = q
  OBVIOUS
<1>3. \A q \in {b} : \E r \in {a} : f[r] = q
  OBVIOUS
<1>4. \A r \in {a} : f[r].lesson = r.lesson /\ f[r].teacher = r.teacher
  OBVIOUS
<1>5. f \in Bijection({a}, {b})
  <2> HIDE DEF f
  <2> QED
    BY <1>1, <1>2, <1>3, Fun_IsBij
<1> HIDE DEF f
<1> QED
  BY <1>4, <1>5 DEF SameHours

\* Two rows that move.
LEMMA TwoRowsSameHours ==
  ASSUME NEW a, NEW b, NEW c, NEW d, c.lesson = a.lesson, c.teacher = a.teacher,
         d.lesson = b.lesson, d.teacher = b.teacher, a.lesson # b.lesson
  PROVE  SameHours({a, b}, {c, d})
<1> DEFINE f == [r \in {a, b} |-> IF r = a THEN c ELSE d]
<1>1. a # b /\ c # d
  OBVIOUS
<1>2. f \in [{a, b} -> {c, d}]
  OBVIOUS
<1>3. f[a] = c /\ f[b] = d
  BY <1>1
<1> HIDE DEF f
<1>4. \A r, q \in {a, b} : f[r] = f[q] => r = q
  BY <1>1, <1>3
<1>5. \A q \in {c, d} : \E r \in {a, b} : f[r] = q
  BY <1>3
<1>6. \A r \in {a, b} : f[r].lesson = r.lesson /\ f[r].teacher = r.teacher
  BY <1>3
<1>7. f \in Bijection({a, b}, {c, d})
  BY <1>2, <1>4, <1>5, Fun_IsBij
<1> QED
  BY <1>6, <1>7 DEF SameHours

\* Rows of one lesson and teacher that move.
LEMMA BlockSameHours ==
  ASSUME NEW R, IsFiniteSet(R), NEW S, IsFiniteSet(S), Cardinality(R) = Cardinality(S),
         NEW l, NEW t,
         \A r \in R : r.lesson = l /\ r.teacher = t, \A r \in S : r.lesson = l /\ r.teacher = t
  PROVE  SameHours(R, S)
<1>1. ExistsBijection(R, S)
  BY FS_SameCardinalityBij
<1>2. PICK f : f \in Bijection(R, S)
  BY <1>1 DEF ExistsBijection
<1>3. \A r \in R : f[r] \in S
  BY <1>2, Fun_IsBij DEF Bijection, Injection
<1>4. \A r \in R : f[r].lesson = r.lesson /\ f[r].teacher = r.teacher
  BY <1>3
<1> QED
  BY <1>2, <1>4 DEF SameHours

\* A move that keeps the caps and the shape of the days keeps everything.
LEMMA MovedPassing ==
  ASSUME NEW R \in SUBSET Row, NEW O \in SUBSET R, NEW N \in SUBSET Row,
         (R \ O) \cap N = {}, SameHours(O, N), Passing(R),
         NEW S, S = (R \ O) \cup N, Tiled(S), SubjectCaps(S), NEW L, LocksLive(R, L)
  PROVE  Passing(S) /\ LocksLive(S, L)
<1>1. SameHours(R, S)
  BY SameHoursBeside
<1>2. S \in SUBSET Row
  OBVIOUS
<1>3. /\ HoursKept(S) /\ HoursCapped(S) /\ OneTeacherPerClassSubject(S)
      /\ Unambiguous => TeachersAllowed(S)
      /\ LocksLive(S, L)
  BY <1>1, <1>2, SameHoursPassing
<1> QED
  BY <1>3 DEF Passing

\* A block moved by a Change passes what it passed before.
LEMMA ChangePassing ==
  ASSUME Inv, TypeOK', NEW l \in Lessons, Change(l),
         Passing(rows), LocksLive(rows, tally.teacherLock)
  PROVE  Passing(rows') /\ LocksLive(rows', tally'.teacherLock)
<1>1. /\ phase = "search" /\ l \notin Pinned
      /\ TypeOK /\ Orderly(rows) /\ Mirrored(rows, used, tally) /\ rows \in SUBSET Row
      /\ LocksHold(rows, tally.teacherLock)
  BY DEF Change, Searching, Frozen, Inv, TypeOK, Mirrored
<1>picked. PICK R \in Sources(l), s \in Slots, room \in Rooms, t \in Teachers, B \in SUBSET Row :
        MoveBlock(l, R, s, room, t, B)
  BY ChangeInv
<1>2. /\ B = Block(l, s, room, t)
      /\ rows' = (rows \ R) \cup B /\ (rows \ R) \cap B = {}
      /\ \A r \in R :
           /\ r.teacher = t
           /\ Day(r.slot) # Day(s) => UnderCaps(l, Day(s), BlockSize[l], BlockSize[l])
      /\ tally' = MoreLessons(
                     FewerLessons(Recount(tally, R, B), {R}, LessonsMoved(l)),
                     {B}, LessonsMoved(l))
  BY ONLY <1>picked DEF MoveBlock
<1>3. tally'.teacherLock = tally.teacherLock /\ Inv'
  BY ChangeInv
<1> DEFINE n == BlockSize[l]
           K == rows \ R
<1>4. /\ R \in SUBSET rows /\ R \in SUBSET Row /\ R # {} /\ Cardinality(R) = n
      /\ \A r, q \in R : r.lesson = l /\ Day(r.slot) = Day(q.slot)
  BY <1>1, SourceRows
<1>5. /\ IsFiniteSet(B) /\ Cardinality(B) = n /\ n \in Nat \ {0}
      /\ \A r \in B : r.lesson = l /\ r.teacher = t /\ Day(r.slot) = Day(s)
  BY <1>2, BlockOfRows, BlockSizes
<1>6. SameHours(R, B)
  <2>1. IsFiniteSet(R)
    BY <1>4, ScheduleFinite
  <2> QED
    BY <1>2, <1>4, <1>5, <2>1, BlockSameHours
<1>7. K \in SUBSET rows /\ K \in SUBSET Row /\ rows = K \cup R /\ K \cap R = {}
  BY <1>1, <1>4
<1>8. Tiled(K)
  <2>1. ASSUME NEW m \in Lessons \ Pinned, NEW d \in Days
        PROVE  BlockSize[m] = 1 \/ RowsOfOn(K, m, d) \in {{}, RowsOfOn(rows, m, d)}
    <3>1. CASE n = 1 /\ m = l
      BY <3>1
    <3>2. CASE n # 1 /\ m = l
      <4>1. PICK e \in DaysOf(rows, l) : R = RowsOfOn(rows, l, e)
        BY <3>2 DEF Sources
      <4>2. RowsOfOn(K, m, d) = IF d = e THEN {} ELSE RowsOfOn(rows, m, d)
        BY <3>2, <4>1 DEF RowsOfOn
      <4> QED
        BY <4>2
    <3>3. CASE m # l
      <4>1. RowsOfOn(K, m, d) = RowsOfOn(rows, m, d)
        BY <1>4, <3>3 DEF RowsOfOn
      <4> QED
        BY <4>1
    <3> QED
      BY <3>1, <3>2, <3>3
  <2> HIDE DEF K
  <2> QED
    BY <1>1, <1>7, <2>1, PartTiled DEF Passing
<1>9. Orderly(rows') /\ rows' = K \cup B /\ K \cap B = {}
  BY <1>2, <1>3 DEF Inv
<1> HIDE DEF K
<1>10. Tiled(rows')
  <2>1. Tiled(K \cup B)
    <3>1. NoDoubleBooking(K \cup B)
      BY <1>9 DEF Orderly
    <3> QED
      BY ONLY <1>2, <1>7, <1>8, <1>9, <3>1, BlockTiled
  <2> QED
    BY <1>9, <2>1
<1>11. Grows(K, B, l, Day(s), t)
  BY <1>2, <1>7, <1>9, BlockCounts
<1>12. SubjectCaps(rows')
  <2>1. ASSUME NEW x \in Triples PROVE TripleCount(rows', x) <= SubjectCap[x[3]]
    <3>1. /\ TripleCount(rows', x)
               = TripleCount(K, x) + (IF x \in LockKeys(l, Day(s)) THEN n ELSE 0)
          /\ TripleCount(K, x) \in Nat
      BY <1>9, <1>11 DEF Grows
    <3>2. /\ TripleCount(rows, x) = TripleCount(K, x) + TripleCount(R, x)
          /\ TripleCount(R, x) \in Nat /\ TripleCount(rows, x) \in Nat
      <4>1. TripleCount(R, x) \in Nat /\ TripleCount(rows, x) \in Nat
        BY <1>1, <1>4, TripleCountType
      <4>2. \A y \in Triples : TripleCount(K \cup R, y) = TripleCount(K, y) + TripleCount(R, y)
        BY <1>4, <1>7, CountsOfUnion
      <4> QED
        BY <1>7, <4>1, <4>2
    <3>3. TripleCount(rows, x) <= SubjectCap[x[3]] /\ SubjectCap[x[3]] \in Nat
      <4>1. x[3] \in Subjects
        BY DEF Triples
      <4> QED
        BY <4>1, TripleCaps, ProblemAssumption DEF Passing
    <3>4. CASE x \notin LockKeys(l, Day(s))
      <4>1. TripleCount(rows', x) = TripleCount(K, x) + 0
        BY <3>1, <3>4
      <4> QED
        BY <3>1, <3>2, <3>3, <4>1
    <3>5. CASE x \in LockKeys(l, Day(s)) /\ \E r \in R : Day(r.slot) = Day(s)
      <4>1. \A r \in R : r.lesson = l /\ Day(r.slot) = Day(s)
        BY <1>4, <3>5
      <4>2. TripleRows(R, x[1], x[2], x[3]) = R
        <5>1. \A r \in R : r \in TripleRows(R, x[1], x[2], x[3])
          BY <3>5, <4>1, TripleOfRow
        <5> QED
          BY <5>1 DEF TripleRows
      <4>3. TripleCount(R, x) = n
        BY <1>4, <4>2 DEF TripleCount
      <4>4. TripleCount(rows', x) = TripleCount(K, x) + n
        BY <3>1, <3>5
      <4> QED
        BY <3>2, <3>3, <4>3, <4>4
    <3>6. CASE x \in LockKeys(l, Day(s)) /\ \A r \in R : Day(r.slot) # Day(s)
      <4>1. UnderCaps(l, Day(s), n, n)
        BY <1>2, <1>4, <3>6
      <4>2. PICK c \in ClassesOf[l] : x = <<c, Day(s), SubjectOf[l]>>
        BY <3>6 DEF LockKeys
      <4>3. tally.subjectHours[x] + n <= SubjectCap[x[3]]
        BY <4>1, <4>2 DEF UnderCaps
      <4>4. tally.subjectHours[x] = TripleCount(rows, x)
        BY <1>1 DEF Mirrored, Counted
      <4>5. TripleCount(rows', x) = TripleCount(K, x) + n
        BY <3>1, <3>6
      <4> HIDE DEF n
      <4> QED
        BY <1>5, <3>1, <3>2, <3>3, <4>3, <4>4, <4>5
    <3> QED
      BY <3>4, <3>5, <3>6
  <2> QED
    BY <2>1, TripleCaps
<1> QED
  BY <1>1, <1>2, <1>3, <1>4, <1>6, <1>10, <1>12, MovedPassing

\* One row counts once in the triples it locks.
LEMMA OneRowCount ==
  ASSUME NEW r, NEW x \in Triples
  PROVE  TripleCount({r}, x) = IF x \in LockKeys(r.lesson, Day(r.slot)) THEN 1 ELSE 0
<1>1. x \in LockKeys(r.lesson, Day(r.slot)) <=> r \in TripleRows({r}, x[1], x[2], x[3])
  BY TripleOfRow
<1>2. TripleRows({r}, x[1], x[2], x[3])
        = IF x \in LockKeys(r.lesson, Day(r.slot)) THEN {r} ELSE {}
  BY <1>1 DEF TripleRows
<1>3. Cardinality({r}) = 1 /\ Cardinality({}) = 0
  BY FS_Singleton, FS_EmptySet
<1> QED
  BY <1>2, <1>3 DEF TripleCount

\* Two rows count as the one and the other.
LEMMA TwoRowCount ==
  ASSUME NEW K \in SUBSET Row, NEW a \in Row, NEW b \in Row, a # b, K \cap {a, b} = {},
         NEW x \in Triples
  PROVE  /\ TripleCount(K \cup {a, b}, x)
              = TripleCount(K, x) + (TripleCount({a}, x) + TripleCount({b}, x))
         /\ TripleCount(K, x) \in Nat
<1>1. K \cup {a, b} = K \cup ({a} \cup {b}) /\ {a} \cap {b} = {} /\ K \cap ({a} \cup {b}) = {}
  OBVIOUS
<1>2. \A y \in Triples : TripleCount(K \cup ({a} \cup {b}), y)
                         = TripleCount(K, y) + TripleCount({a} \cup {b}, y)
  <2> DEFINE T == {a} \cup {b}
  <2>1. T \in SUBSET Row /\ K \cap T = {}
    OBVIOUS
  <2> HIDE DEF T
  <2>2. \A y \in Triples : TripleCount(K \cup T, y) = TripleCount(K, y) + TripleCount(T, y)
    BY <2>1, CountsOfUnion
  <2> QED
    BY <2>2 DEF T
<1>3. \A y \in Triples : TripleCount({a} \cup {b}, y) = TripleCount({a}, y) + TripleCount({b}, y)
  <2> DEFINE A == {a}
             B == {b}
  <2>1. A \in SUBSET Row /\ B \in SUBSET Row /\ A \cap B = {}
    OBVIOUS
  <2> HIDE DEF A, B
  <2>2. \A y \in Triples : TripleCount(A \cup B, y) = TripleCount(A, y) + TripleCount(B, y)
    BY <2>1, CountsOfUnion
  <2> QED
    BY <2>2 DEF A, B
<1>4. TripleCount(K, x) \in Nat
  BY TripleCountType
<1> QED
  BY <1>1, <1>2, <1>3, <1>4

\* What one side of a swap adds to a triple on the other's day is taken from
\* it by the other row or fits under the cap.
LEMMA SwapSideCount ==
  ASSUME rows \in SUBSET Row, Mirrored(rows, used, tally), NEW a \in rows, NEW b \in rows,
         SwapFits(a, b), Day(a.slot) # Day(b.slot),
         NEW x \in Triples, x \in LockKeys(a.lesson, Day(b.slot))
  PROVE  \/ x \in LockKeys(b.lesson, Day(b.slot))
         \/ TripleCount(rows, x) + 1 <= SubjectCap[x[3]]
<1>1. PICK c \in ClassesOf[a.lesson] : x = <<c, Day(b.slot), SubjectOf[a.lesson]>>
  BY DEF LockKeys
<1>2. CASE c \in ClassesOf[b.lesson] /\ SubjectOf[a.lesson] = SubjectOf[b.lesson]
  BY <1>1, <1>2 DEF LockKeys
<1>3. CASE ~(c \in ClassesOf[b.lesson] /\ SubjectOf[a.lesson] = SubjectOf[b.lesson])
  <2>1. tally.subjectHours[x] + 1 <= SubjectCap[x[3]]
    BY <1>1, <1>3 DEF SwapFits
  <2> QED
    BY <2>1 DEF Mirrored, Counted
<1> QED
  BY <1>2, <1>3

\* Two rows that trade slots pass what they passed before.
LEMMA SwapPassing ==
  ASSUME Inv, TypeOK', NEW l \in Lessons, NEW m \in Lessons, Swap(l, m),
         Passing(rows), LocksLive(rows, tally.teacherLock)
  PROVE  Passing(rows') /\ LocksLive(rows', tally'.teacherLock)
<1>1. /\ phase = "search" /\ l # m /\ BlockSize[l] = 1 /\ BlockSize[m] = 1
      /\ Mirrored(rows, used, tally) /\ rows \in SUBSET Row
  BY DEF Swap, Searching, Swappable, Inv, TypeOK
<1>picked. PICK a \in RowsOf(rows, l), b \in RowsOf(rows, m), a2 \in Row, b2 \in Row :
        TradeSlots(a, b, a2, b2)
  BY SwapInv
<1>2. /\ SwapFits(a, b) /\ SwapFits(b, a)
      /\ MovedTo(a2, a, b.slot) /\ MovedTo(b2, b, a.slot)
      /\ rows' = (rows \ {a, b}) \cup {a2, b2}
      /\ (rows \ {a, b}) \cap {a2, b2} = {}
      /\ tally' =
           MoreLessons(FewerLessons(
             MoreLessons(FewerLessons(
               Recount(tally, {a, b}, {a2, b2}), {{a}}, 1), {{a2}}, 1),
             {{b}}, 1), {{b2}}, 1)
  BY ONLY <1>picked DEF TradeSlots
<1>3. tally'.teacherLock = tally.teacherLock
  BY SwapInv
<1>4. /\ a \in rows /\ b \in rows /\ a \in Row /\ b \in Row /\ a # b
      /\ a.lesson = l /\ b.lesson = m
      /\ a2.lesson = l /\ a2.teacher = a.teacher /\ a2.slot = b.slot
      /\ b2.lesson = m /\ b2.teacher = b.teacher /\ b2.slot = a.slot /\ a2 # b2
  BY <1>1, <1>2 DEF RowsOf, MovedTo
<1> DEFINE K == rows \ {a, b}
<1>5. SameHours({a, b}, {a2, b2})
  BY <1>1, <1>4, TwoRowsSameHours
<1>6. Tiled(rows')
  <2> SUFFICES ASSUME NEW k \in Lessons \ Pinned, NEW d \in Days
               PROVE  \E T \in SUBSET Nat : Tiling(rows', k, d, T)
    BY DEF Tiled
  <2>1. rows' \in SUBSET Row
    BY DEF TypeOK
  <2>2. CASE k \in {l, m}
    BY <1>1, <2>1, <2>2, SinglesTiled
  <2>3. CASE k \notin {l, m}
    <3>1. RowsOfOn(rows', k, d) = RowsOfOn(rows, k, d)
      BY <1>2, <1>4, <2>3 DEF RowsOfOn
    <3>2. \E T \in SUBSET Nat : Tiling(rows, k, d, T)
      BY DEF Passing, Tiled
    <3> QED
      BY <3>1, <3>2, SameTiled
  <2> QED
    BY <2>2, <2>3
<1>7. K \in SUBSET Row /\ K \cap {a, b} = {} /\ K \cap {a2, b2} = {}
      /\ rows = K \cup {a, b} /\ rows' = K \cup {a2, b2}
  BY <1>1, <1>2, <1>4
<1> HIDE DEF K
<1>8. SubjectCaps(rows')
  <2>1. ASSUME NEW x \in Triples PROVE TripleCount(rows', x) <= SubjectCap[x[3]]
    <3> DEFINE in(k, r) == IF x \in LockKeys(k, Day(r.slot)) THEN 1 ELSE 0
    <3>1. /\ TripleCount({a}, x) = in(l, a) /\ TripleCount({b}, x) = in(m, b)
          /\ TripleCount({a2}, x) = in(l, b) /\ TripleCount({b2}, x) = in(m, a)
      BY <1>4, OneRowCount
    <3>2. /\ TripleCount(rows, x) = TripleCount(K, x) + (in(l, a) + in(m, b))
          /\ TripleCount(K, x) \in Nat
      <4>1. /\ TripleCount(K \cup {a, b}, x)
                 = TripleCount(K, x) + (TripleCount({a}, x) + TripleCount({b}, x))
            /\ TripleCount(K, x) \in Nat
        BY <1>4, <1>7, TwoRowCount
      <4> HIDE DEF in
      <4> QED
        BY <1>7, <3>1, <4>1
    <3>3. TripleCount(rows', x) = TripleCount(K, x) + (in(l, b) + in(m, a))
      <4>1. TripleCount(K \cup {a2, b2}, x)
              = TripleCount(K, x) + (TripleCount({a2}, x) + TripleCount({b2}, x))
        BY <1>2, <1>4, <1>7, TwoRowCount
      <4> HIDE DEF in
      <4> QED
        BY <1>7, <3>1, <4>1
    <3>4. TripleCount(rows, x) <= SubjectCap[x[3]] /\ SubjectCap[x[3]] \in Nat
      <4>1. x[3] \in Subjects
        BY DEF Triples
      <4> QED
        BY <4>1, TripleCaps, ProblemAssumption DEF Passing
    <3>5. /\ in(l, a) \in {0, 1} /\ in(m, b) \in {0, 1}
          /\ in(l, b) \in {0, 1} /\ in(m, a) \in {0, 1}
      OBVIOUS
    <3>6. CASE Day(a.slot) = Day(b.slot)
      <4>1. in(l, a) = in(l, b) /\ in(m, a) = in(m, b)
        BY <3>6
      <4> HIDE DEF in
      <4> QED
        BY <3>2, <3>3, <3>4, <4>1
    <3>7. CASE Day(a.slot) # Day(b.slot)
      <4>1. in(l, b) = 1 => in(m, a) = 0
        BY <3>7 DEF LockKeys
      <4>2. in(l, b) = 1 => in(m, b) = 1 \/ TripleCount(rows, x) + 1 <= SubjectCap[x[3]]
        BY <1>1, <1>2, <1>4, <3>7, SwapSideCount
      <4>3. in(m, a) = 1 => in(l, a) = 1 \/ TripleCount(rows, x) + 1 <= SubjectCap[x[3]]
        BY <1>1, <1>2, <1>4, <3>7, SwapSideCount
      <4> HIDE DEF in
      <4> QED
        BY <3>2, <3>3, <3>4, <3>5, <4>1, <4>2, <4>3
    <3> QED
      BY <3>6, <3>7
  <2> QED
    BY <2>1, TripleCaps
<1>9. {a, b} \in SUBSET rows /\ {a2, b2} \in SUBSET Row /\ (rows \ {a, b}) \cap {a2, b2} = {}
      /\ rows' = (rows \ {a, b}) \cup {a2, b2}
  BY <1>2, <1>4
<1> QED
  BY <1>1, <1>3, <1>5, <1>6, <1>8, <1>9, MovedPassing

\* Caps follow from the counters.
LEMMA CountedCaps ==
  ASSUME NEW R, NEW b, NEW S, NEW c, Counted(R, b), Counted(S, c),
         c.subjectHours = b.subjectHours, SubjectCaps(R)
  PROVE  SubjectCaps(S)
<1>1. \A x \in Triples : TripleCount(S, x) = TripleCount(R, x)
  BY DEF Counted
<1> QED
  BY <1>1, TripleCaps

\* Rows of single-hour lessons that change rooms pass what they passed before.
LEMMA RoomsChanged ==
  ASSUME Inv, Inv', phase = "search", phase' = "search",
         Passing(rows), LocksLive(rows, tally.teacherLock),
         NEW O \in SUBSET rows, NEW N \in SUBSET Row,
         rows' = (rows \ O) \cup N, (rows \ O) \cap N = {}, SameHours(O, N),
         \A r \in O \cup N : BlockSize[r.lesson] = 1,
         tally'.teacherLock = tally.teacherLock, tally'.subjectHours = tally.subjectHours
  PROVE  Passing(rows') /\ LocksLive(rows', tally'.teacherLock)
<1>1. /\ rows \in SUBSET Row /\ rows' \in SUBSET Row
      /\ Counted(rows, tally) /\ Counted(rows', tally')
  BY DEF Inv, TypeOK, Mirrored
<1>2. SubjectCaps(rows')
  BY <1>1, CountedCaps DEF Passing
<1>3. Tiled(rows')
  <2> SUFFICES ASSUME NEW k \in Lessons \ Pinned, NEW d \in Days
               PROVE  \E T \in SUBSET Nat : Tiling(rows', k, d, T)
    BY DEF Tiled
  <2>1. CASE BlockSize[k] = 1
    BY <1>1, <2>1, SinglesTiled
  <2>2. CASE BlockSize[k] # 1
    <3>1. RowsOfOn(rows', k, d) = RowsOfOn(rows, k, d)
      BY <2>2 DEF RowsOfOn
    <3>2. \E T \in SUBSET Nat : Tiling(rows, k, d, T)
      BY DEF Passing, Tiled
    <3> QED
      BY <3>1, <3>2, SameTiled
  <2> QED
    BY <2>1, <2>2
<1> QED
  BY <1>1, <1>2, <1>3, MovedPassing

\* A row that changes rooms is no other row of the schedule.
LEMMA NewRoomNewRow ==
  ASSUME rows \in SUBSET Row, Orderly(rows), NEW p \in rows, NEW p2, NEW room,
         MovedIn(p2, p, room)
  PROVE  p2 \notin rows \ {p} /\ p2.lesson = p.lesson /\ p2.teacher = p.teacher
BY SameLessonClashes DEF MovedIn, Orderly

\* A home-room repair passes what was passed before.
LEMMA HomeRoomRepairPassing ==
  ASSUME Inv, TypeOK', NEW l \in Lessons, HomeRoomRepair(l),
         Passing(rows), LocksLive(rows, tally.teacherLock)
  PROVE  Passing(rows') /\ LocksLive(rows', tally'.teacherLock)
<1>picked. PICK p \in RowsOf(rows, l), home \in Rooms : Rehousing(l, p, home)
  BY RepairRehouses
<1>1. \/ /\ rows' = (rows \ {p}) \cup {[p EXCEPT !.room = home]}
         /\ tally' = RelockRoom(tally, p, home)
      \/ \E q \in rows \ {p} :
           /\ q.slot = p.slot
           /\ BlockSize[q.lesson] = 1
           /\ rows' = (rows \ {p, q}) \cup {[p EXCEPT !.room = home],
                                            [q EXCEPT !.room = p.room]}
           /\ tally' = RelockRoom(RelockRoom(tally, p, home), q, p.room)
  BY ONLY <1>picked DEF Rehousing
<1>2. /\ phase = "search" /\ phase' = "search" /\ BlockSize[l] = 1 /\ Inv'
      /\ rows \in SUBSET Row /\ tally \in TallyType /\ Orderly(rows)
  BY HomeRoomRepairInv DEF HomeRoomRepair, Searching, Inv, TypeOK
<1>3. p \in rows /\ p \in Row /\ p.lesson = l
  BY <1>2 DEF RowsOf
<1> DEFINE p2 == [p EXCEPT !.room = home]
<1>4. p2 \in Row /\ MovedIn(p2, p, home)
  BY <1>3 DEF Row, MovedIn
<1> HIDE DEF p2
<1>5. p2 \notin rows \ {p} /\ p2.lesson = p.lesson /\ p2.teacher = p.teacher
  BY <1>2, <1>3, <1>4, NewRoomNewRow
<1>6. CASE rows' = (rows \ {p}) \cup {p2} /\ tally' = RelockRoom(tally, p, home)
  <2>1. SameHours({p}, {p2})
    BY <1>5, OneRowSameHours
  <2>2. /\ {p} \in SUBSET rows /\ {p2} \in SUBSET Row
        /\ rows' = (rows \ {p}) \cup {p2} /\ (rows \ {p}) \cap {p2} = {}
        /\ \A r \in {p} \cup {p2} : BlockSize[r.lesson] = 1
    BY <1>2, <1>3, <1>4, <1>5, <1>6
  <2>3. tally'.teacherLock = tally.teacherLock /\ tally'.subjectHours = tally.subjectHours
    BY <1>2, <1>6, RelockFields
  <2> QED
    BY <1>2, <2>1, <2>2, <2>3, RoomsChanged
<1>7. ASSUME NEW q \in rows \ {p}, q.slot = p.slot, BlockSize[q.lesson] = 1,
             rows' = (rows \ {p, q}) \cup {p2, [q EXCEPT !.room = p.room]},
             tally' = RelockRoom(RelockRoom(tally, p, home), q, p.room)
      PROVE  Passing(rows') /\ LocksLive(rows', tally'.teacherLock)
  <2> DEFINE q2 == [q EXCEPT !.room = p.room]
  <2>1. q2 \in Row /\ MovedIn(q2, q, p.room) /\ q \in rows
    BY <1>2, <1>3 DEF Row, MovedIn
  <2>2. rows' = (rows \ {p, q}) \cup {p2, q2}
    BY <1>7
  <2> HIDE DEF q2
  <2>3. q2 \notin rows \ {q} /\ q2.lesson = q.lesson /\ q2.teacher = q.teacher
    BY <1>2, <2>1, NewRoomNewRow
  <2>4. p.lesson # q.lesson
    BY <1>2, <1>3, <1>7, <2>1, SameLessonClashes DEF Orderly
  <2>5. SameHours({p, q}, {p2, q2})
    BY <1>5, <2>3, <2>4, TwoRowsSameHours
  <2>6. /\ {p, q} \in SUBSET rows /\ {p2, q2} \in SUBSET Row
        /\ (rows \ {p, q}) \cap {p2, q2} = {}
        /\ \A r \in {p, q} \cup {p2, q2} : BlockSize[r.lesson] = 1
    BY <1>2, <1>3, <1>4, <1>5, <1>7, <2>1, <2>3
  <2> DEFINE b == RelockRoom(tally, p, home)
  <2>7. b \in TallyType /\ b.teacherLock = tally.teacherLock
        /\ b.subjectHours = tally.subjectHours
    BY <1>2, <1>3, RelockFields, LocksType
  <2>8. tally' = RelockRoom(b, q, p.room)
    BY <1>7
  <2> HIDE DEF b
  <2>9. tally'.teacherLock = tally.teacherLock /\ tally'.subjectHours = tally.subjectHours
    BY <2>7, <2>8, RelockFields
  <2> QED
    BY <1>2, <2>2, <2>5, <2>6, <2>9, RoomsChanged
<1> QED
  BY <1>1, <1>6, <1>7 DEF p2

-----------------------------------------------------------------------------
(* Blocks to do again.                                                      *)

\* How often a lesson is still to be placed.
Turns(q, l) == Cardinality({i \in 1..Len(q) : q[i] = l})

\* The product of a block size and a smaller number of blocks is smaller.
LEMMA FewerBlocks ==
  ASSUME NEW n \in Nat, NEW j \in Nat, NEW k \in Nat, j <= k
  PROVE  n * j <= n * k /\ n * j \in Nat /\ n * k \in Nat
<1>1. n * (k - j) >= 0 /\ n * k = n * j + n * (k - j)
  OBVIOUS
<1>2. n * j \in Nat /\ n * k \in Nat /\ n * (k - j) \in Int
  OBVIOUS
<1> QED
  BY <1>1, <1>2

\* One block less.
LEMMA OneBlockLess ==
  ASSUME NEW n \in Nat, NEW k \in Nat \ {0}
  PROVE  n * (k - 1) + n = n * k /\ n * (k - 1) \in Nat /\ n * k \in Nat /\ k - 1 \in Nat
OBVIOUS

\* Turns are a number.
LEMMA TurnsType ==
  ASSUME NEW q \in Seq(Lessons), NEW l
  PROVE  Turns(q, l) \in Nat /\ IsFiniteSet({i \in 1..Len(q) : q[i] = l})
<1> DEFINE T == {i \in 1..Len(q) : q[i] = l}
<1>1. Len(q) \in Nat
  OBVIOUS
<1>2. IsFiniteSet(1..Len(q))
  BY <1>1, FS_Interval
<1>3. T \in SUBSET (1..Len(q))
  OBVIOUS
<1> HIDE DEF T
<1>4. IsFiniteSet(T) /\ Cardinality(T) \in Nat
  BY <1>2, <1>3, FS_Subset, FS_CardinalityType
<1> QED
  BY <1>4 DEF T, Turns

\* The first turn is over.
LEMMA TurnsTail ==
  ASSUME NEW q \in Seq(Lessons), q # <<>>, NEW l
  PROVE  /\ Turns(Tail(q), l) \in Nat /\ Turns(q, l) \in Nat
         /\ Head(q) = l => Turns(q, l) = Turns(Tail(q), l) + 1
         /\ Head(q) # l => Turns(q, l) = Turns(Tail(q), l)
<1> DEFINE T == {i \in 1..Len(q) : q[i] = l}
           U == {i \in 1..Len(Tail(q)) : Tail(q)[i] = l}
           f == [i \in U |-> i + 1]
<1>1. /\ Tail(q) \in Seq(Lessons) /\ Head(q) = q[1]
      /\ Len(q) \in Nat \ {0} /\ Len(Tail(q)) = Len(q) - 1
      /\ \A i \in 1..Len(Tail(q)) : Tail(q)[i] = q[i + 1]
  BY HeadTailProperties
<1>2. \A i \in U : i + 1 \in T \ {1}
  BY <1>1
<1>3. \A j \in T \ {1} : j - 1 \in U /\ (j - 1) + 1 = j
  BY <1>1
<1>4. \A i \in U : i \in Nat
  BY <1>1
<1>5. /\ IsFiniteSet(T) /\ IsFiniteSet(U)
      /\ Turns(q, l) = Cardinality(T) /\ Turns(Tail(q), l) = Cardinality(U)
      /\ Turns(q, l) \in Nat /\ Turns(Tail(q), l) \in Nat
  BY <1>1, TurnsType DEF Turns
<1>6. 1 \in T <=> Head(q) = l
  BY <1>1
<1> HIDE DEF T, U
<1>7. f \in Bijection(U, T \ {1})
  <2>1. f \in [U -> T \ {1}]
    BY <1>2
  <2>2. \A i, j \in U : f[i] = f[j] => i = j
    BY <1>4
  <2>3. \A j \in T \ {1} : \E i \in U : f[i] = j
    BY <1>3
  <2> HIDE DEF f
  <2> QED
    BY <2>1, <2>2, <2>3, Fun_IsBij
<1>8. Cardinality(T \ {1}) = Cardinality(U)
  <2>1. ExistsBijection(U, T \ {1})
    BY <1>7 DEF ExistsBijection
  <2> QED
    BY <1>5, <2>1, FS_Bijection
<1>9. Cardinality(T \ {1}) = IF 1 \in T THEN Cardinality(T) - 1 ELSE Cardinality(T)
  BY <1>5, FS_RemoveElement
<1> QED
  BY <1>5, <1>6, <1>8, <1>9

\* Only the last turn is left.
LEMMA TurnsLast ==
  ASSUME NEW q \in Seq(Lessons), q # <<>>, NEW l
  PROVE  /\ Turns(<<q[Len(q)]>>, l) \in Nat /\ Turns(q, l) \in Nat
         /\ Turns(<<q[Len(q)]>>, l) <= Turns(q, l)
<1> DEFINE x == q[Len(q)]
           T == {i \in 1..Len(q) : q[i] = l}
<1>1. Len(q) \in 1..Len(q) /\ x \in Lessons
  OBVIOUS
<1>2. IsFiniteSet(T) /\ Turns(q, l) = Cardinality(T) /\ Turns(q, l) \in Nat
  BY TurnsType DEF Turns
<1>3. <<x>> \in Seq(Lessons) /\ Len(<<x>>) = 1 /\ <<x>>[1] = x
  BY <1>1
<1>4. CASE x = l
  <2>1. {i \in 1..Len(<<x>>) : <<x>>[i] = l} = {1}
    BY <1>3, <1>4
  <2>2. Turns(<<x>>, l) = 1
    BY <2>1, FS_Singleton DEF Turns
  <2>3. T # {}
    BY <1>1, <1>4
  <2>4. Cardinality(T) # 0
    BY <1>2, <2>3, FS_EmptySet
  <2> QED
    BY <1>2, <2>2, <2>4
<1>5. CASE x # l
  <2>1. {i \in 1..Len(<<x>>) : <<x>>[i] = l} = {}
    BY <1>3, <1>5
  <2>2. Turns(<<x>>, l) = 0
    BY <2>1, FS_EmptySet DEF Turns
  <2> QED
    BY <1>2, <2>2
<1> QED
  BY <1>4, <1>5

\* The turns of a rescue: each block of the target, then one of the sibling.
RescueTurns(l, k) == Append([i \in 1..Blocks(l) |-> l], k)

\* They are as many as the target has blocks, and one.
LEMMA TurnsOfRescue ==
  ASSUME NEW l \in Lessons, NEW k \in Lessons, k # l
  PROVE  /\ Turns(RescueTurns(l, k), l) = Blocks(l) /\ Turns(RescueTurns(l, k), k) = 1
         /\ \A m : m # l /\ m # k => Turns(RescueTurns(l, k), m) = 0
<1> DEFINE n == Blocks(l)
           q == RescueTurns(l, k)
           t == [i \in 1..n |-> l]
<1>1. n \in Nat
  BY BlocksType
<1>2. q = Append(t, k)
  BY DEF RescueTurns
<1> HIDE DEF n, q
<1>3. t \in Seq(Lessons) /\ Len(t) = n
  BY <1>1, SeqDef
<1>4. \A i \in 1..n : t[i] = l
  OBVIOUS
<1> HIDE DEF t
<1>5. /\ q \in Seq(Lessons) /\ Len(q) = n + 1
      /\ q[n + 1] = k /\ \A i \in 1..n : q[i] = l
  BY <1>1, <1>3, <1>4, <1>2
<1>6. {i \in 1..Len(q) : q[i] = l} = 1..n
  BY <1>1, <1>5
<1>7. {i \in 1..Len(q) : q[i] = k} = {n + 1}
  BY <1>1, <1>5
<1>8. \A m : m # l /\ m # k => {i \in 1..Len(q) : q[i] = m} = {}
  BY <1>1, <1>5
<1>9. Turns(q, l) = n
  <2>1. Cardinality(1..n) = n
    BY <1>1, FS_Interval
  <2> QED
    BY <1>6, <2>1 DEF Turns
<1>10. Turns(q, k) = 1
  BY <1>7, FS_Singleton DEF Turns
<1>11. \A m : m # l /\ m # k => Turns(q, m) = 0
  BY <1>8, FS_EmptySet DEF Turns
<1> QED
  BY <1>9, <1>10, <1>11 DEF n, q

-----------------------------------------------------------------------------
(* The invariant.                                                           *)

\* What is placed of a lesson and what is still to do fit into its hours.
Fits(todo) ==
    \A l \in Lessons \ Pinned :
      Cardinality(RowsOf(rows, l)) + BlockSize[l] * todo[l] <= Hours[l]

\* The blocks an attempt has still to do, lesson by lesson.
ToDo == [l \in Lessons |-> Turns(attempt.todo, l)]

\* Every block that was taken out has been put back or is still to do.
NothingLost ==
    \A l \in Lessons :
      Cardinality(RowsOf(UNION attempt.added, l)) + BlockSize[l] * Turns(attempt.todo, l)
        = Cardinality(RowsOf(attempt.ruined, l))

VInv ==
    /\ Passing(rows)
    /\ phase # "done" => LocksLive(rows, tally.teacherLock)
    /\ phase # "ffd" => Passing(best)
    /\ phase = "ffd" => Fits(left)
    /\ phase \in {"rescue", "recreate"} =>
         /\ Passing(Base) /\ LocksLive(Base, attempt.locks)
         /\ Fits(ToDo)
    /\ phase = "recreate" /\ ~attempt.failed => NothingLost

\* The pins pass, and nothing else is placed yet.
LEMMA InitPassing == Init => VInv
<1> SUFFICES ASSUME Init PROVE VInv
  OBVIOUS
<1>1. /\ phase = "ffd" /\ rows = PinnedRows /\ PinnedRows \in SUBSET Row
      /\ tally.teacherLock = SeedLocks
      /\ left = [l \in Lessons |-> IF l \in Frozen THEN 0 ELSE Blocks(l)]
  BY ProblemAssumption DEF Init
<1>2. \A r \in rows : r.lesson \in Pinned
  BY <1>1 DEF Pinned
<1>3. \A l \in Lessons \ Pinned : RowsOf(rows, l) = {} /\ \A d : RowsOfOn(rows, l, d) = {}
  BY <1>2 DEF RowsOf, RowsOfOn
<1>4. \A l \in Lessons \ Pinned : Cardinality(RowsOf(rows, l)) = 0
  BY <1>3, FS_EmptySet
<1>5. HoursKept(rows)
  BY <1>4, BlockSizes DEF HoursKept
<1>6. Tiled(rows)
  BY <1>3, EmptyTiled DEF Tiled
<1>7. HoursCapped(rows)
  BY <1>2 DEF HoursCapped
<1>8. SubjectCaps(rows) /\ OneTeacherPerClassSubject(rows) /\ TeachersAllowed(rows)
  BY <1>1, SearchAssumption
<1>9. LocksLive(rows, tally.teacherLock)
  <2> SUFFICES ASSUME NEW x \in Classes \X Subjects, SeedLocks[x] # NoTeacher
               PROVE  \E r \in rows : x[1] \in ClassesOf[r.lesson] /\ SubjectOf[r.lesson] = x[2]
    BY <1>1 DEF LocksLive
  <2> DEFINE pins == {r \in PinnedRows : x[1] \in ClassesOf[r.lesson] /\ SubjectOf[r.lesson] = x[2]}
  <2>1. pins # {}
    BY DEF SeedLocks
  <2> QED
    BY <1>1, <2>1
<1>10. Fits(left)
  <2> SUFFICES ASSUME NEW l \in Lessons \ Pinned
               PROVE  Cardinality(RowsOf(rows, l)) + BlockSize[l] * left[l] <= Hours[l]
    BY DEF Fits
  <2> DEFINE n == BlockSize[l]
             h == Hours[l]
             k == Blocks(l)
  <2>1. n \in Nat /\ h \in Nat /\ k \in Nat /\ n * k = h
    BY BlockSizes
  <2>2. left[l] = 0 \/ left[l] = k
    BY <1>1
  <2> HIDE DEF n, h, k
  <2>3. n * 0 = 0
    BY <2>1
  <2>4. 0 + n * left[l] <= h
    BY <2>1, <2>2, <2>3
  <2> QED
    BY <1>4, <2>4 DEF n, h
<1> QED
  BY <1>1, <1>5, <1>6, <1>7, <1>8, <1>9, <1>10 DEF VInv, Passing

\* A block of a lesson uses up one of the blocks that it has left.
LEMMA FitsOn ==
  ASSUME NEW n \in Nat \ {0}, NEW h \in Nat, NEW c \in Nat, NEW k \in Nat \ {0},
         c + n * k <= h
  PROVE  c + n <= h /\ (c + n) + n * (k - 1) <= h /\ c + n * (k - 1) <= h
<1>1. n * (k - 1) + n = n * k /\ n * (k - 1) \in Nat /\ n * k \in Nat
  BY OneBlockLess
<1> QED
  BY <1>1

\* Placing a block of the greedy loop.
LEMMA FfdPlacePassing ==
  ASSUME Inv, VInv, TypeOK', NEW l \in Lessons, FfdPlace(l)
  PROVE  VInv'
<1>1. /\ phase = "ffd" /\ phase' = "ffd" /\ l \notin Pinned
      /\ left[l] > 0 /\ left' = [left EXCEPT ![l] = @ - 1] /\ left \in [Lessons -> Nat]
      /\ TypeOK /\ Orderly(rows) /\ Mirrored(rows, used, tally)
      /\ Passing(rows) /\ LocksLive(rows, tally.teacherLock) /\ Fits(left)
  BY DEF FfdPlace, FfdTurn, Inv, VInv, TypeOK
<1>2. PICK s \in Slots, room \in Rooms, t \in Teachers : Place(l, s, room, t)
  BY DEF FfdPlace
<1>3. /\ BlockSize[l] \in Nat \ {0} /\ Hours[l] \in Nat
      /\ Cardinality(RowsOf(rows, l)) \in Nat
      /\ Cardinality(RowsOf(rows, l)) + BlockSize[l] * left[l] <= Hours[l]
  <2>1. RowsOf(rows, l) \in SUBSET Row
    BY <1>1 DEF TypeOK, RowsOf
  <2> QED
    BY <1>1, <2>1, BlockSizes, ScheduleFinite DEF Fits
<1>4. left[l] \in Nat \ {0}
  BY <1>1
<1>5. /\ Cardinality(RowsOf(rows, l)) + BlockSize[l] <= Hours[l]
      /\ (Cardinality(RowsOf(rows, l)) + BlockSize[l]) + BlockSize[l] * (left[l] - 1) <= Hours[l]
  BY <1>3, <1>4, FitsOn
<1>6. /\ Passing(rows') /\ LocksLive(rows', tally'.teacherLock)
      /\ \A m : /\ Cardinality(RowsOf(rows, m)) \in Nat
                /\ Cardinality(RowsOf(rows', m))
                     = Cardinality(RowsOf(rows, m)) + (IF m = l THEN BlockSize[l] ELSE 0)
  BY <1>1, <1>2, <1>5, PlacePassing
<1>7. Fits(left)'
  <2> SUFFICES ASSUME NEW m \in Lessons \ Pinned
               PROVE  Cardinality(RowsOf(rows', m)) + BlockSize[m] * left'[m] <= Hours[m]
    BY DEF Fits
  <2>1. CASE m = l
    BY <1>1, <1>5, <1>6, <2>1
  <2>2. CASE m # l
    <3>1. Cardinality(RowsOf(rows', m)) = Cardinality(RowsOf(rows, m)) + 0
          /\ Cardinality(RowsOf(rows, m)) \in Nat
      BY <1>6, <2>2
    <3>2. Cardinality(RowsOf(rows', m)) = Cardinality(RowsOf(rows, m))
      BY <3>1
    <3>3. left'[m] = left[m]
      BY <1>1, <2>2
    <3> QED
      BY <1>1, <3>2, <3>3 DEF Fits
  <2> QED
    BY <2>1, <2>2
<1> QED
  BY <1>1, <1>6, <1>7 DEF VInv

\* A block given up leaves less to do.
LEMMA FfdMissPassing ==
  ASSUME Inv, VInv, TypeOK', NEW l \in Lessons, FfdMiss(l)
  PROVE  VInv'
<1>1. /\ phase = "ffd" /\ phase' = "ffd" /\ UNCHANGED <<rows, tally>>
      /\ left[l] > 0 /\ left' = [left EXCEPT ![l] = @ - 1] /\ left \in [Lessons -> Nat]
      /\ rows \in SUBSET Row
      /\ Passing(rows) /\ LocksLive(rows, tally.teacherLock) /\ Fits(left)
  BY DEF FfdMiss, FfdTurn, Inv, VInv, TypeOK
<1>2. Fits(left)'
  <2> SUFFICES ASSUME NEW m \in Lessons \ Pinned
               PROVE  Cardinality(RowsOf(rows, m)) + BlockSize[m] * left'[m] <= Hours[m]
    BY <1>1 DEF Fits
  <2>1. Cardinality(RowsOf(rows, m)) + BlockSize[m] * left[m] <= Hours[m]
    BY <1>1 DEF Fits
  <2>2. CASE m = l
    <3>1. RowsOf(rows, m) \in SUBSET Row
      BY <1>1 DEF RowsOf
    <3>2. /\ Cardinality(RowsOf(rows, m)) \in Nat /\ left[m] \in Nat \ {0}
          /\ BlockSize[m] \in Nat \ {0} /\ Hours[m] \in Nat
      BY <1>1, <2>2, <3>1, BlockSizes, ScheduleFinite
    <3>3. Cardinality(RowsOf(rows, m)) + BlockSize[m] * (left[m] - 1) <= Hours[m]
      BY <2>1, <3>2, FitsOn
    <3> QED
      BY <1>1, <2>2, <3>3
  <2>3. CASE m # l
    BY <1>1, <2>1, <2>3
  <2> QED
    BY <2>2, <2>3
<1> QED
  BY <1>1, <1>2 DEF VInv

\* What a step that goes on searching has to show.
LEMMA SearchPassing ==
  ASSUME VInv, phase # "ffd", phase' \in {"search", "ruin"},
         best' = best \/ EndIteration(rows'),
         Passing(rows'), LocksLive(rows', tally'.teacherLock)
  PROVE  VInv'
<1>1. best' = best \/ best' = rows'
  BY DEF EndIteration
<1>2. Passing(best')
  BY <1>1 DEF VInv
<1>3. phase' # "ffd" /\ phase' # "recreate" /\ phase' # "rescue"
  OBVIOUS
<1> QED
  BY <1>2, <1>3 DEF VInv

\* Moves of the local search.
LEMMA MovePassing ==
  ASSUME Inv, VInv, TypeOK', NEW l \in Lessons,
         \/ Change(l) \/ HomeRoomRepair(l)
         \/ \E m \in Lessons : Swap(l, m)
  PROVE  VInv'
<1>1. phase = "search" /\ phase' = "search" /\ EndIteration(rows')
  <2>1. CASE Change(l)
    BY <2>1 DEF Change, Searching
  <2>2. CASE HomeRoomRepair(l)
    BY <2>2 DEF HomeRoomRepair, Searching
  <2>3. CASE \E m \in Lessons : Swap(l, m)
    BY <2>3 DEF Swap, Searching
  <2> QED
    BY <2>1, <2>2, <2>3
<1>2. Passing(rows) /\ LocksLive(rows, tally.teacherLock)
  BY <1>1 DEF VInv
<1>3. Passing(rows') /\ LocksLive(rows', tally'.teacherLock)
  BY <1>2, ChangePassing, HomeRoomRepairPassing, SwapPassing
<1> QED
  BY <1>1, <1>3, SearchPassing

\* The greedy loop hands its schedule over.
LEMMA FfdEndPassing == ASSUME Inv, VInv, FfdEnd PROVE VInv'
BY DEF FfdEnd, VInv

\* Nothing is ruined, or what was rebuilt is kept.
LEMMA KeptPassing == ASSUME Inv, VInv, NothingToRuin \/ Keep PROVE VInv'
<1>1. /\ phase # "ffd" /\ phase # "done" /\ phase' = "search"
      /\ EndIteration(rows) /\ UNCHANGED <<rows, tally>>
  BY DEF NothingToRuin, Keep, Rebuilt
<1>2. EndIteration(rows') /\ Passing(rows') /\ LocksLive(rows', tally'.teacherLock)
  BY <1>1 DEF VInv, EndIteration
<1> QED
  BY <1>1, <1>2, SearchPassing

\* An undo goes back to a schedule that passed.
LEMMA UndoPassing == ASSUME Inv, VInv, TypeOK', Undo PROVE VInv'
<1>1. /\ phase \in {"rescue", "recreate"} /\ phase' \in {"search", "ruin"}
      /\ best' = best \/ EndIteration(rows')
  BY DEF Undo, Rebuilt
<1>2. rows' = Base /\ tally'.teacherLock = attempt.locks
  BY UndoInv
<1>3. Passing(rows') /\ LocksLive(rows', tally'.teacherLock)
  BY <1>1, <1>2 DEF VInv
<1> QED
  BY <1>1, <1>3, SearchPassing

\* The running best is returned.
LEMMA FinishPassing == ASSUME Inv, VInv, Finish PROVE VInv'
BY DEF Finish, VInv

\* What an attempt still has to do fits when it is at most what fitted before.
LEMMA FitsStill ==
  ASSUME rows \in SUBSET Row, NEW f, NEW g, Fits(f),
         \A l \in Lessons : g[l] \in Nat /\ f[l] \in Nat /\ g[l] <= f[l]
  PROVE  Fits(g)
<1> SUFFICES ASSUME NEW l \in Lessons \ Pinned
             PROVE  Cardinality(RowsOf(rows, l)) + BlockSize[l] * g[l] <= Hours[l]
  BY DEF Fits
<1> DEFINE n == BlockSize[l]
           c == Cardinality(RowsOf(rows, l))
<1>1. n \in Nat /\ Hours[l] \in Nat /\ c \in Nat
  <2>1. RowsOf(rows, l) \in SUBSET Row
    BY DEF RowsOf
  <2> QED
    BY <2>1, BlockSizes, ScheduleFinite
<1>2. c + n * f[l] <= Hours[l]
  BY DEF Fits
<1> HIDE DEF n, c
<1>3. n * g[l] <= n * f[l] /\ n * g[l] \in Nat /\ n * f[l] \in Nat
  BY <1>1, FewerBlocks
<1>4. c + n * g[l] <= Hours[l]
  BY <1>1, <1>2, <1>3
<1> QED
  BY <1>4 DEF n, c

\* A block that cannot be rebuilt leaves less to do.
LEMMA RebuildMissPassing ==
  ASSUME Inv, VInv, TypeOK', NEW l \in Lessons, RebuildMiss(l)
  PROVE  VInv'
<1> DEFINE todo == attempt.todo
           next == IF phase = "rescue" /\ Len(todo) > 1 THEN <<todo[Len(todo)]>>
                                                        ELSE Tail(todo)
<1>1. phase \in {"rescue", "recreate"} /\ UNCHANGED <<phase, rows, tally, best>> /\ todo # <<>>
  BY DEF RebuildMiss, Rebuilding
<1>2. attempt \in AttemptType /\ todo \in Seq(Lessons) /\ rows \in SUBSET Row
  BY <1>1 DEF Inv, TypeOK, AttemptType
<1>3. /\ attempt'.todo = next /\ attempt'.added = attempt.added
      /\ attempt'.ruined = attempt.ruined /\ attempt'.locks = attempt.locks
      /\ attempt'.failed = (attempt.failed \/ phase = "recreate" \/ Len(todo) = 1)
  <2>1. attempt' = [attempt EXCEPT
          !.todo = next,
          !.failed = @ \/ phase = "recreate" \/ Len(todo) = 1]
    BY DEF RebuildMiss
  <2> HIDE DEF next
  <2> QED
    BY <1>2, <2>1 DEF AttemptType
<1> HIDE DEF todo
<1>4. \A m : Turns(next, m) \in Nat /\ Turns(todo, m) \in Nat /\ Turns(next, m) <= Turns(todo, m)
  <2> SUFFICES ASSUME NEW m
               PROVE  /\ Turns(next, m) \in Nat /\ Turns(todo, m) \in Nat
                      /\ Turns(next, m) <= Turns(todo, m)
    OBVIOUS
  <2>1. CASE next = <<todo[Len(todo)]>>
    BY <1>1, <1>2, <2>1, TurnsLast
  <2>2. CASE next = Tail(todo)
    <3>1. /\ Turns(Tail(todo), m) \in Nat /\ Turns(todo, m) \in Nat
          /\ Head(todo) = m => Turns(todo, m) = Turns(Tail(todo), m) + 1
          /\ Head(todo) # m => Turns(todo, m) = Turns(Tail(todo), m)
      BY <1>1, <1>2, TurnsTail
    <3>2. Turns(Tail(todo), m) <= Turns(todo, m)
      BY <3>1
    <3> HIDE DEF next
    <3> QED
      BY <2>2, <3>1, <3>2
  <2> QED
    BY <2>1, <2>2
<1> HIDE DEF next
<1>5. Base' = Base
  BY <1>1, <1>3 DEF Base
<1>6. Fits(ToDo)'
  <2> DEFINE g == [m \in Lessons |-> Turns(next, m)]
  <2>1. Fits(ToDo)
    BY <1>1 DEF VInv
  <2>2. \A m \in Lessons : g[m] \in Nat /\ ToDo[m] \in Nat /\ g[m] <= ToDo[m]
    BY <1>4 DEF ToDo, todo
  <2>3. Fits(g)
    <3> HIDE DEF g
    <3> QED
      BY <1>2, <2>1, <2>2, FitsStill
  <2> QED
    BY <1>1, <1>3, <2>3 DEF Fits, ToDo
<1>7. phase' = "recreate" => attempt'.failed
  BY <1>1, <1>3
<1> QED
  BY <1>1, <1>3, <1>5, <1>6, <1>7 DEF VInv

\* A block put back uses up one of those still to do.
LEMMA RebuildPlacePassing ==
  ASSUME Inv, VInv, TypeOK', NEW l \in Lessons, RebuildPlace(l)
  PROVE  VInv'
<1> DEFINE todo == attempt.todo
           U == UNION attempt.added
<1>1. /\ phase \in {"rescue", "recreate"} /\ UNCHANGED <<phase, best>>
      /\ TypeOK /\ Orderly(rows) /\ Mirrored(rows, used, tally) /\ rows \in SUBSET Row
      /\ todo \in Seq(Lessons)
      /\ Passing(rows) /\ LocksLive(rows, tally.teacherLock) /\ Fits(ToDo)
      /\ Passing(Base) /\ LocksLive(Base, attempt.locks)
  BY DEF RebuildPlace, Rebuilding, Inv, VInv, TypeOK, AttemptType
<1>2. /\ Base' = Base /\ l \notin Pinned
      /\ todo # <<>> /\ l = Head(todo) /\ todo' = Tail(todo)
      /\ attempt'.ruined = attempt.ruined /\ attempt'.locks = attempt.locks
      /\ attempt.failed => attempt'.failed
  BY RebuildPlaceInv
<1>3. PICK s \in Slots, room \in Rooms, t \in Teachers : \E B :
        /\ B = Block(l, s, room, t) /\ Place(l, s, room, t) /\ B \in SUBSET Row
        /\ rows' = rows \cup B /\ rows \cap B = {}
        /\ U \subseteq rows
        /\ UNION attempt'.added = U \cup B
  BY RebuildPlaceInv
<1>4. PICK B :
        /\ B = Block(l, s, room, t) /\ Place(l, s, room, t) /\ B \in SUBSET Row
        /\ rows' = rows \cup B /\ rows \cap B = {}
        /\ U \subseteq rows
        /\ UNION attempt'.added = U \cup B
  BY <1>3
<1> HIDE DEF todo, U
<1>5. /\ \A m : Turns(Tail(todo), m) \in Nat /\ Turns(todo, m) \in Nat
      /\ Turns(todo, l) = Turns(Tail(todo), l) + 1
      /\ \A m : m # l => Turns(todo, m) = Turns(Tail(todo), m)
  BY <1>1, <1>2, TurnsTail
<1>6. ToDo[l] = Turns(todo, l) /\ \A m \in Lessons : ToDo[m] = Turns(todo, m)
      /\ ToDo'[m] = Turns(Tail(todo), m)
  BY <1>2 DEF ToDo, todo
<1>7. /\ BlockSize[l] \in Nat \ {0} /\ Hours[l] \in Nat
      /\ Cardinality(RowsOf(rows, l)) \in Nat
      /\ Cardinality(RowsOf(rows, l)) + BlockSize[l] * Turns(todo, l) <= Hours[l]
  <2>1. RowsOf(rows, l) \in SUBSET Row
    BY <1>1 DEF RowsOf
  <2> QED
    BY <1>1, <1>2, <1>6, <2>1, BlockSizes, ScheduleFinite DEF Fits
<1>8. Turns(todo, l) \in Nat \ {0} /\ Turns(Tail(todo), l) = Turns(todo, l) - 1
  BY <1>5
<1>9. /\ Cardinality(RowsOf(rows, l)) + BlockSize[l] <= Hours[l]
      /\ (Cardinality(RowsOf(rows, l)) + BlockSize[l]) + BlockSize[l] * (Turns(todo, l) - 1)
           <= Hours[l]
  BY <1>7, <1>8, FitsOn
<1>10. /\ Passing(rows') /\ LocksLive(rows', tally'.teacherLock)
       /\ \A m : /\ Cardinality(RowsOf(rows, m)) \in Nat
                 /\ Cardinality(RowsOf(rows', m))
                      = Cardinality(RowsOf(rows, m)) + (IF m = l THEN BlockSize[l] ELSE 0)
  BY <1>1, <1>2, <1>4, <1>9, PlacePassing
<1>11. Fits(ToDo)'
  <2> SUFFICES ASSUME NEW m \in Lessons \ Pinned
               PROVE  Cardinality(RowsOf(rows', m)) + BlockSize[m] * ToDo'[m] <= Hours[m]
    BY DEF Fits
  <2>1. CASE m = l
    BY <1>6, <1>8, <1>9, <1>10, <2>1
  <2>2. CASE m # l
    <3>1. Cardinality(RowsOf(rows', m)) = Cardinality(RowsOf(rows, m)) + 0
          /\ Cardinality(RowsOf(rows, m)) \in Nat
      BY <1>10, <2>2
    <3>2. Cardinality(RowsOf(rows', m)) = Cardinality(RowsOf(rows, m))
      BY <3>1
    <3>3. ToDo'[m] = ToDo[m]
      BY <1>5, <1>6, <2>2
    <3> QED
      BY <1>1, <3>2, <3>3 DEF Fits
  <2> QED
    BY <2>1, <2>2
<1>12. ASSUME NothingLost PROVE NothingLost'
  <2> SUFFICES ASSUME NEW m \in Lessons
               PROVE  Cardinality(RowsOf(U \cup B, m)) + BlockSize[m] * Turns(Tail(todo), m)
                        = Cardinality(RowsOf(attempt.ruined, m))
    BY <1>2, <1>4 DEF NothingLost, todo
  <2>1. Cardinality(RowsOf(U, m)) + BlockSize[m] * Turns(todo, m)
          = Cardinality(RowsOf(attempt.ruined, m))
    BY <1>12 DEF NothingLost, todo, U
  <2>2. U \in SUBSET Row /\ U \cap B = {}
    BY <1>1, <1>4
  <2>3. Grows(U, B, l, Day(s), t)
    BY <1>4, <2>2, BlockCounts
  <2>4. Cardinality(RowsOf(U \cup B, m))
          = Cardinality(RowsOf(U, m)) + (IF m = l THEN BlockSize[l] ELSE 0)
        /\ Cardinality(RowsOf(U, m)) \in Nat
    BY <2>3 DEF Grows
  <2>5. CASE m = l
    <3> DEFINE n == BlockSize[l]
               k == Turns(todo, l)
               c == Cardinality(RowsOf(U, l))
    <3>1. n \in Nat /\ k \in Nat \ {0} /\ c \in Nat
      BY <1>7, <1>8, <2>4, <2>5
    <3> HIDE DEF n, k, c
    <3>2. n * (k - 1) + n = n * k /\ n * (k - 1) \in Nat /\ n * k \in Nat
      BY <3>1, OneBlockLess
    <3>3. (c + n) + n * (k - 1) = c + n * k
      BY <3>1, <3>2
    <3>4. Cardinality(RowsOf(U \cup B, l)) = c + n
      BY <2>4, <2>5 DEF c, n
    <3> QED
      BY <1>8, <2>1, <2>5, <3>3, <3>4 DEF c, n, k
  <2>6. CASE m # l
    <3>1. Cardinality(RowsOf(U \cup B, m)) = Cardinality(RowsOf(U, m)) + 0
          /\ Cardinality(RowsOf(U, m)) \in Nat
      BY <2>4, <2>6
    <3>2. Cardinality(RowsOf(U \cup B, m)) = Cardinality(RowsOf(U, m))
      BY <3>1
    <3> QED
      BY <1>5, <2>1, <2>6, <3>2
  <2> QED
    BY <2>5, <2>6
<1>13. phase' = "recreate" /\ ~attempt'.failed => NothingLost'
  BY <1>1, <1>2, <1>12 DEF VInv
<1>14. Passing(Base)' /\ LocksLive(Base', attempt'.locks)
  BY <1>1, <1>2
<1> QED
  BY <1>1, <1>10, <1>11, <1>13, <1>14 DEF VInv

\* Taking out whole days leaves a schedule that passes, and the one before
\* is what an undo goes back to.
LEMMA RuinedPassing ==
  ASSUME Inv, VInv, TypeOK', phase \in {"search", "ruin"}, phase' \in {"rescue", "recreate"},
         NEW R \in SUBSET rows, TakeOut(R),
         attempt'.ruined = R, attempt'.added = {}, attempt'.locks = tally.teacherLock,
         \A l \in Lessons \ Pinned, d \in Days :
            \/ BlockSize[l] = 1
            \/ RowsOfOn(rows \ R, l, d) \in {{}, RowsOfOn(rows, l, d)},
         Fits(ToDo)', phase' = "recreate" => NothingLost',
         UNCHANGED best
  PROVE  VInv'
<1>1. /\ TypeOK /\ Orderly(rows) /\ Mirrored(rows, used, tally) /\ rows \in SUBSET Row
      /\ tally \in TallyType /\ R \in SUBSET Row
      /\ Passing(rows) /\ LocksLive(rows, tally.teacherLock) /\ Passing(best)
  BY DEF Inv, VInv, TypeOK
<1>2. /\ Orderly(rows') /\ Mirrored(rows', used', tally') /\ rows' = rows \ R
  BY <1>1, TakeOutKeeps
<1>3. /\ HoursKept(rows') /\ SubjectCaps(rows') /\ HoursCapped(rows')
      /\ OneTeacherPerClassSubject(rows')
      /\ Unambiguous => TeachersAllowed(rows')
  BY <1>1, <1>2, PartPassing
<1>4. Tiled(rows')
  <2>1. Tiled(rows)
    BY <1>1 DEF Passing
  <2> QED
    BY <1>1, <1>2, <2>1, PartTiled
<1>5. LocksLive(rows', tally'.teacherLock)
  <2> DEFINE b == FewerLessons(CountOut(tally, R), BlocksOf(R), 1)
  <2>1. b \in TallyType
    <3>1. CountOut(tally, R) \in TallyType
      BY <1>1, CountType
    <3>2. BlocksOf(R) \in SUBSET SUBSET Row
      BY <1>1 DEF BlocksOf, RowsOfOn
    <3> QED
      BY <3>1, <3>2, LessonsType
  <2>2. tally' = ForgetLocks(b, rows \ R)
    BY DEF TakeOut
  <2> HIDE DEF b
  <2>3. \A x \in Classes \X Subjects : tally'.teacherLock[x] # NoTeacher =>
          \E r \in rows \ R : x[1] \in ClassesOf[r.lesson] /\ SubjectOf[r.lesson] = x[2]
    BY <2>1, <2>2 DEF ForgetLocks, TallyType
  <2> QED
    BY <1>2, <2>3 DEF LocksLive
<1>6. Base' = rows
  BY <1>2 DEF Base
<1>7. Passing(Base)' /\ LocksLive(Base', attempt'.locks)
  BY <1>1, <1>6
<1> QED
  BY <1>1, <1>3, <1>4, <1>5, <1>7 DEF VInv, Passing

\* A rescue takes out all of its target, so every block of it fits again, and
\* at least one block of the sibling.
LEMMA RescuePassing ==
  ASSUME Inv, VInv, TypeOK', NEW l \in Lessons, Rescue(l)
  PROVE  VInv'
<1>1. PICK r \in Siblings(l) :
        LET R == RowsOf(rows, l) \cup RowsOfOn(rows, r.lesson, Day(r.slot))
        IN  /\ TakeOut(R)
            /\ attempt' = [NoAttempt EXCEPT
                 !.ruined = R,
                 !.todo = Append([i \in 1..Blocks(l) |-> l], r.lesson),
                 !.goal = {<<l, Cardinality(RowsOf(rows, l))>>},
                 !.locks = tally.teacherLock]
  BY DEF Rescue
<1> DEFINE k == r.lesson
           d0 == Day(r.slot)
           D == RowsOfOn(rows, k, d0)
           R == RowsOf(rows, l) \cup D
           todo == Append([i \in 1..Blocks(l) |-> l], k)
<1>2. /\ l \notin Pinned /\ k \notin Pinned /\ k # l
      /\ phase = "search" /\ phase' = "rescue" /\ UNCHANGED best
      /\ r \in rows /\ rows \in SUBSET Row /\ Orderly(rows) /\ Passing(rows)
  BY DEF Rescue, Targets, Siblings, Frozen, Inv, VInv, TypeOK
<1>3. k \in Lessons /\ r.slot \in Slots /\ d0 \in Days
  BY <1>2 DEF Row, Days
<1>4. R \in SUBSET rows /\ TakeOut(R)
  BY <1>1 DEF RowsOf, RowsOfOn
<1>5. /\ attempt'.ruined = R /\ attempt'.added = {}
      /\ attempt'.locks = tally.teacherLock /\ attempt'.todo = todo
  <2> HIDE DEF R, todo, k
  <2> QED
    BY <1>1 DEF NoAttempt, R, todo, k, D, d0
<1>6. \A m \in Lessons \ Pinned, d \in Days :
         RowsOfOn(rows \ R, m, d) \in {{}, RowsOfOn(rows, m, d)}
  BY <1>2 DEF RowsOf, RowsOfOn
<1>7. /\ RowsOf(rows \ R, l) = {}
      /\ RowsOf(rows, k) = RowsOf(rows \ R, k) \cup D /\ RowsOf(rows \ R, k) \cap D = {}
      /\ \A m : m # l /\ m # k => RowsOf(rows \ R, m) = RowsOf(rows, m)
  BY <1>2 DEF RowsOf, RowsOfOn
<1>8. /\ Turns(todo, l) = Blocks(l) /\ Turns(todo, k) = 1
      /\ \A m : m # l /\ m # k => Turns(todo, m) = 0
  <2>1. k # l /\ k \in Lessons /\ todo = RescueTurns(l, k)
    BY <1>2, <1>3 DEF RescueTurns
  <2> HIDE DEF k, todo
  <2> QED
    BY <2>1, TurnsOfRescue
<1>9. BlockSize[k] <= Cardinality(D) /\ Cardinality(D) \in Nat
  <2>1. D # {}
    BY <1>2 DEF RowsOfOn
  <2>2. \E T \in SUBSET Nat : Tiling(rows, k, d0, T)
    BY <1>2, <1>3 DEF Passing, Tiled
  <2> QED
    BY <1>2, <1>3, <2>1, <2>2, WholeBlockOnDay
<1>10. ASSUME NEW m \in Lessons \ Pinned
       PROVE  Cardinality(RowsOf(rows \ R, m)) + BlockSize[m] * Turns(todo, m) <= Hours[m]
  <2>1. /\ BlockSize[m] \in Nat \ {0} /\ Hours[m] \in Nat
        /\ BlockSize[m] * Blocks(m) = Hours[m]
        /\ Cardinality(RowsOf(rows, m)) \in Nat /\ Cardinality(RowsOf(rows, m)) <= Hours[m]
    <3>1. RowsOf(rows, m) \in SUBSET Row
      BY <1>2 DEF RowsOf
    <3> QED
      BY <1>2, <3>1, BlockSizes, ScheduleFinite DEF Passing, HoursKept
  <2> HIDE DEF R, todo
  <2>2. CASE m = l
    <3>1. Cardinality(RowsOf(rows \ R, m)) = 0
      BY <1>7, <2>2, FS_EmptySet
    <3> QED
      BY <1>8, <2>1, <2>2, <3>1
  <2>3. CASE m = k
    <3>1. RowsOf(rows \ R, k) \in SUBSET Row /\ D \in SUBSET Row
      BY <1>2 DEF RowsOf, RowsOfOn
    <3> HIDE DEF D, k
    <3>2. Cardinality(RowsOf(rows, k)) = Cardinality(RowsOf(rows \ R, k)) + Cardinality(D)
          /\ Cardinality(RowsOf(rows \ R, k)) \in Nat
      BY <1>7, <3>1, ScheduleFinite, SizeOfUnion
    <3>3. BlockSize[k] * 1 = BlockSize[k]
      BY <2>1, <2>3
    <3>4. Cardinality(RowsOf(rows \ R, k)) + BlockSize[k] <= Hours[k]
      BY <1>9, <2>1, <2>3, <3>2
    <3> QED
      BY <1>8, <2>3, <3>3, <3>4
  <2>4. CASE m # l /\ m # k
    <3>1. BlockSize[m] * 0 = 0
      BY <2>1
    <3>2. Cardinality(RowsOf(rows \ R, m)) = Cardinality(RowsOf(rows, m))
      BY <1>7, <2>4
    <3>3. Turns(todo, m) = 0
      BY <1>8, <2>4
    <3> QED
      BY <2>1, <3>1, <3>2, <3>3
  <2> QED
    BY <2>2, <2>3, <2>4
<1> HIDE DEF R, todo, D
<1>11. rows' = rows \ R
  BY <1>4 DEF TakeOut
<1>12. Fits(ToDo)'
  BY <1>5, <1>10, <1>11 DEF Fits, ToDo
<1> QED
  BY <1>2, <1>4, <1>5, <1>6, <1>12, RuinedPassing

\* S is the union of the disjoint sets F[i], of m elements each.
Shares(S, I, F, m) ==
    /\ IsFiniteSet(I) /\ m \in Nat
    /\ \A i \in I : IsFiniteSet(F[i]) /\ Cardinality(F[i]) = m
    /\ \A i, j \in I : i # j => F[i] \cap F[j] = {}
    /\ \A x : x \in S <=> \E i \in I : x \in F[i]

\* As many elements as shares, times the elements of one.
LEMMA EqualShares ==
  ASSUME NEW S, NEW I, NEW F, NEW m, Shares(S, I, F, m)
  PROVE  Cardinality(S) = m * Cardinality(I) /\ Cardinality(I) \in Nat
<1>1. /\ IsFiniteSet(I) /\ m \in Nat
      /\ \A i \in I : IsFiniteSet(F[i]) /\ Cardinality(F[i]) = m
      /\ \A i, j \in I : i # j => F[i] \cap F[j] = {}
      /\ \A x : x \in S <=> \E i \in I : x \in F[i]
  BY DEF Shares
<1> DEFINE P == I \X (1..m)
           g(i) == CHOOSE h : h \in Bijection(1..m, F[i])
           f == [p \in P |-> g(p[1])[p[2]]]
<1>2. IsFiniteSet(1..m) /\ Cardinality(1..m) = m
  BY <1>1, FS_Interval
<1>3. IsFiniteSet(P) /\ Cardinality(P) = Cardinality(I) * m /\ Cardinality(I) \in Nat
  BY <1>1, <1>2, FS_Product, FS_CardinalityType
<1>4. ASSUME NEW i \in I PROVE g(i) \in Bijection(1..m, F[i])
  <2>1. ExistsBijection(1..m, F[i])
    BY <1>1, FS_CardinalityType
  <2>2. \E h : h \in Bijection(1..m, F[i])
    BY <2>1 DEF ExistsBijection
  <2> QED
    BY <2>2
<1> HIDE DEF g
<1>5. ASSUME NEW i \in I
      PROVE  /\ g(i) \in [1..m -> F[i]]
             /\ \A a, b \in 1..m : g(i)[a] = g(i)[b] => a = b
             /\ \A x \in F[i] : \E a \in 1..m : g(i)[a] = x
  <2> DEFINE h == g(i)
             A == 1..m
             C == F[i]
  <2>1. h \in Bijection(A, C)
    BY <1>4
  <2> HIDE DEF h, A, C
  <2>2. /\ h \in [A -> C]
        /\ \A a, b \in A : h[a] = h[b] => a = b
        /\ \A x \in C : \E a \in A : h[a] = x
    BY <2>1, Fun_BijectionProperties
  <2> QED
    BY <2>2 DEF h, A, C
<1>6. f \in [P -> S]
  <2> SUFFICES ASSUME NEW p \in P PROVE g(p[1])[p[2]] \in S
    OBVIOUS
  <2>1. p[1] \in I /\ p[2] \in 1..m
    OBVIOUS
  <2>2. g(p[1]) \in [1..m -> F[p[1]]]
    BY <1>5, <2>1
  <2>3. g(p[1])[p[2]] \in F[p[1]]
    BY <2>1, <2>2
  <2> QED
    BY <1>1, <2>1, <2>3
<1>7. ASSUME NEW p \in P, NEW q \in P, f[p] = f[q] PROVE p = q
  <2>1. p[1] \in I /\ p[2] \in 1..m /\ q[1] \in I /\ q[2] \in 1..m
        /\ p = <<p[1], p[2]>> /\ q = <<q[1], q[2]>>
    OBVIOUS
  <2>2. g(p[1])[p[2]] = g(q[1])[q[2]]
    BY <1>7
  <2>3. g(p[1])[p[2]] \in F[p[1]] /\ g(q[1])[q[2]] \in F[q[1]]
    <3>1. g(p[1]) \in [1..m -> F[p[1]]] /\ g(q[1]) \in [1..m -> F[q[1]]]
      BY <1>5, <2>1
    <3> QED
      BY <2>1, <3>1
  <2>4. p[1] = q[1]
    BY <1>1, <2>1, <2>2, <2>3
  <2>5. p[2] = q[2]
    BY <1>5, <2>1, <2>2, <2>4
  <2> QED
    BY <2>1, <2>4, <2>5
<1>8. ASSUME NEW x \in S PROVE \E p \in P : f[p] = x
  <2>1. PICK i \in I : x \in F[i]
    BY <1>1
  <2>2. PICK a \in 1..m : g(i)[a] = x
    BY <1>5, <2>1
  <2>3. <<i, a>> \in P /\ f[<<i, a>>] = x
    BY <2>2
  <2> QED
    BY <2>3
<1> HIDE DEF f, P
<1>9. f \in Bijection(P, S)
  BY <1>6, <1>7, <1>8, Fun_IsBij
<1>10. Cardinality(S) = Cardinality(P)
  <2>1. ExistsBijection(P, S)
    BY <1>9 DEF ExistsBijection
  <2> QED
    BY <1>3, <2>1, FS_Bijection
<1> QED
  BY <1>1, <1>3, <1>10

\* An anchor is one whole block, all there is of its lesson on its day.
LEMMA AnchorBlock ==
  ASSUME rows \in SUBSET Row, Orderly(rows), Tiled(rows), NEW B \in Anchors
  PROVE  /\ LessonOf(B) \in Lessons \ Pinned
         /\ \E d \in Days : B = RowsOfOn(rows, LessonOf(B), d)
         /\ B \in SUBSET Row /\ B # {}
         /\ IsFiniteSet(B) /\ Cardinality(B) = BlockSize[LessonOf(B)]
<1>1. PICK r \in rows : B = RowsOfOn(rows, r.lesson, Day(r.slot))
  BY DEF Anchors, BlocksOf
<1> DEFINE l == r.lesson
           d == Day(r.slot)
<1>2. l \in Lessons /\ r.slot \in Slots /\ d \in Days
  BY DEF Row, Days
<1>3. r \in B /\ B \in SUBSET Row /\ \A q \in B : q.lesson = l
  BY <1>1 DEF RowsOfOn
<1>4. LessonOf(B) = l
  BY <1>3 DEF LessonOf
<1>5. l \notin Pinned /\ Cardinality(B) <= BlockSize[l]
  BY <1>3 DEF Anchors, Frozen
<1>6. \E T \in SUBSET Nat : Tiling(rows, l, d, T)
  BY <1>2, <1>5 DEF Tiled
<1>7. BlockSize[l] <= Cardinality(B) /\ Cardinality(B) \in Nat
  BY <1>1, <1>2, <1>3, <1>6, WholeBlockOnDay
<1>8. BlockSize[l] \in Nat
  BY <1>2, BlockSizes
<1>9. Cardinality(B) = BlockSize[l]
  BY <1>5, <1>7, <1>8
<1> QED
  BY <1>1, <1>2, <1>3, <1>4, <1>5, <1>9, ScheduleFinite

\* Ruin-and-recreate takes out single whole blocks, each of which it will try
\* to put back.
LEMMA RuinPassing == ASSUME Inv, VInv, TypeOK', Ruin PROVE VInv'
<1> DEFINE n == IF RuinSize < Cardinality(Anchors) THEN RuinSize
                                                   ELSE Cardinality(Anchors)
<1>1. PICK chosen \in [1..n -> Anchors] :
        /\ \A i, j \in 1..n : chosen[i] = chosen[j] => i = j
        /\ LET R == UNION {chosen[i] : i \in 1..n}
           IN  /\ TakeOut(R)
               /\ attempt' = [NoAttempt EXCEPT
                     !.ruined = R,
                     !.todo = [i \in 1..n |-> LessonOf(chosen[i])],
                     !.locks = tally.teacherLock]
  BY DEF Ruin
<1> DEFINE R == UNION {chosen[i] : i \in 1..n}
           todo == [i \in 1..n |-> LessonOf(chosen[i])]
<1>2. n \in Nat
  <2>1. Anchors \in SUBSET SUBSET Row
    BY DEF Anchors, BlocksOf, RowsOfOn, Inv, TypeOK
  <2>2. IsFiniteSet(SUBSET Row)
    BY RowFinite, FS_SUBSET
  <2>3. Cardinality(Anchors) \in Nat
    BY <2>1, <2>2, FS_Subset, FS_CardinalityType
  <2> QED
    BY <2>3, SearchAssumption
<1>3. /\ phase \in {"search", "ruin"} /\ phase' = "recreate" /\ UNCHANGED best
      /\ rows \in SUBSET Row /\ Orderly(rows) /\ Passing(rows) /\ Tiled(rows)
  BY DEF Ruin, Inv, VInv, TypeOK, Passing
<1>4. ASSUME NEW B \in Anchors
      PROVE  /\ LessonOf(B) \in Lessons \ Pinned
             /\ \E d \in Days : B = RowsOfOn(rows, LessonOf(B), d)
             /\ B \in SUBSET Row /\ B # {} /\ B \in SUBSET rows
             /\ IsFiniteSet(B) /\ Cardinality(B) = BlockSize[LessonOf(B)]
             /\ \A r \in B : r.lesson = LessonOf(B) /\ B = RowsOfOn(rows, r.lesson, Day(r.slot))
  <2>1. /\ LessonOf(B) \in Lessons \ Pinned
        /\ \E d \in Days : B = RowsOfOn(rows, LessonOf(B), d)
        /\ B \in SUBSET Row /\ B # {}
        /\ IsFiniteSet(B) /\ Cardinality(B) = BlockSize[LessonOf(B)]
    BY <1>3, AnchorBlock
  <2> QED
    BY <2>1 DEF RowsOfOn
<1> HIDE DEF n
<1>5. R \in SUBSET rows
  BY <1>4
<1>6. /\ attempt'.ruined = R /\ attempt'.added = {}
      /\ attempt'.locks = tally.teacherLock /\ attempt'.todo = todo
  <2> HIDE DEF R, todo
  <2> QED
    BY <1>1 DEF NoAttempt, R, todo
<1>7. TakeOut(R)
  BY <1>1
<1>8. \A m \in Lessons \ Pinned, d \in Days :
         RowsOfOn(rows \ R, m, d) \in {{}, RowsOfOn(rows, m, d)}
  <2> SUFFICES ASSUME NEW m \in Lessons \ Pinned, NEW d \in Days,
                      NEW r \in RowsOfOn(rows, m, d), r \in R
               PROVE  RowsOfOn(rows, m, d) \subseteq R
    BY DEF RowsOfOn
  <2>1. PICK i \in 1..n : r \in chosen[i]
    OBVIOUS
  <2>2. chosen[i] = RowsOfOn(rows, r.lesson, Day(r.slot))
    BY <1>4, <2>1
  <2> QED
    BY <2>2 DEF RowsOfOn
<1>9. ASSUME NEW m \in Lessons
      PROVE  /\ Cardinality(RowsOf(R, m)) = BlockSize[m] * Turns(todo, m)
             /\ Turns(todo, m) \in Nat
  <2> DEFINE I == {i \in 1..n : LessonOf(chosen[i]) = m}
             S == RowsOf(R, m)
  <2>1. IsFiniteSet(I)
    BY <1>2, FS_Interval, FS_Subset
  <2>2. BlockSize[m] \in Nat
    BY BlockSizes
  <2>3. \A i \in I : IsFiniteSet(chosen[i]) /\ Cardinality(chosen[i]) = BlockSize[m]
    BY <1>4
  <2>4. \A i, j \in I : i # j => chosen[i] \cap chosen[j] = {}
    BY <1>1, <1>4
  <2>5. \A x : x \in S <=> \E i \in I : x \in chosen[i]
    BY <1>4 DEF RowsOf
  <2>6. Turns(todo, m) = Cardinality(I)
    <3>1. Len(todo) = n /\ \A i \in 1..n : todo[i] = LessonOf(chosen[i])
      BY <1>2
    <3> HIDE DEF todo
    <3>2. {i \in 1..Len(todo) : todo[i] = m} = I
      BY <3>1
    <3> QED
      BY <3>2 DEF Turns
  <2> DEFINE b == BlockSize[m]
  <2>7. Cardinality(S) = b * Cardinality(I) /\ Cardinality(I) \in Nat
    <3> HIDE DEF I, S, b
    <3>1. b \in Nat /\ \A i \in I : IsFiniteSet(chosen[i]) /\ Cardinality(chosen[i]) = b
      BY <2>2, <2>3 DEF b
    <3>2. Shares(S, I, chosen, b)
      BY <2>1, <2>4, <2>5, <3>1 DEF Shares
    <3> QED
      BY <3>2, EqualShares
  <2> QED
    BY <2>6, <2>7
<1> HIDE DEF R, todo
<1>10. rows' = rows \ R /\ UNION attempt'.added = {}
  BY <1>6, <1>7 DEF TakeOut
<1>11. Fits(ToDo)'
  <2> SUFFICES ASSUME NEW m \in Lessons \ Pinned
               PROVE  Cardinality(RowsOf(rows \ R, m)) + BlockSize[m] * Turns(todo, m) <= Hours[m]
    BY <1>6, <1>10 DEF Fits, ToDo
  <2>1. /\ RowsOf(rows, m) = RowsOf(rows \ R, m) \cup RowsOf(R, m)
        /\ RowsOf(rows \ R, m) \cap RowsOf(R, m) = {}
        /\ RowsOf(rows \ R, m) \in SUBSET Row /\ RowsOf(R, m) \in SUBSET Row
    BY <1>3, <1>5 DEF RowsOf
  <2>2. Cardinality(RowsOf(rows, m)) = Cardinality(RowsOf(rows \ R, m)) + Cardinality(RowsOf(R, m))
    BY <2>1, ScheduleFinite, SizeOfUnion
  <2>3. Cardinality(RowsOf(rows, m)) <= Hours[m]
    BY <1>3 DEF Passing, HoursKept
  <2> QED
    BY <1>9, <2>2, <2>3
<1>12. NothingLost'
  <2> SUFFICES ASSUME NEW m \in Lessons
               PROVE  Cardinality(RowsOf({}, m)) + BlockSize[m] * Turns(todo, m)
                        = Cardinality(RowsOf(R, m))
    BY <1>6, <1>10 DEF NothingLost
  <2>1. RowsOf({}, m) = {} /\ BlockSize[m] \in Nat
    BY BlockSizes DEF RowsOf
  <2>2. Cardinality(RowsOf({}, m)) = 0
    BY <2>1, FS_EmptySet
  <2> QED
    BY <1>9, <2>1, <2>2
<1> QED
  BY <1>3, <1>5, <1>6, <1>7, <1>8, <1>11, <1>12, RuinedPassing

\* Every step keeps the schedules that the search may fall back to passing.
LEMMA NextPassing == Inv /\ VInv /\ [Next]_vars => VInv'
<1> SUFFICES ASSUME Inv, VInv, [Next]_vars PROVE VInv'
  OBVIOUS
<1>1. TypeOK'
  BY NextType DEF Inv
<1>2. CASE UNCHANGED vars
  <2>1. UNCHANGED <<phase, rows, used, tally, left, best, attempt>>
    BY <1>2 DEF vars
  <2>2. Base' = Base /\ Fits(left)' = Fits(left) /\ Fits(ToDo)' = Fits(ToDo)
        /\ NothingLost' = NothingLost
    BY <2>1 DEF Base, Fits, ToDo, NothingLost
  <2> QED
    BY <2>1, <2>2 DEF VInv
<1>3. CASE Next
  <2>1. CASE \E l \in Lessons : FfdPlace(l) \/ FfdMiss(l)
    BY <1>1, <2>1, FfdPlacePassing, FfdMissPassing
  <2>2. CASE \/ \E l \in Lessons : Change(l) \/ HomeRoomRepair(l)
             \/ \E l, m \in Lessons : Swap(l, m)
    BY <1>1, <2>2, MovePassing
  <2>3. CASE \E l \in Lessons : Rescue(l) \/ RebuildPlace(l) \/ RebuildMiss(l)
    BY <1>1, <2>3, RescuePassing, RebuildPlacePassing, RebuildMissPassing
  <2>4. CASE FfdEnd \/ Ruin \/ NothingToRuin \/ Keep \/ Undo \/ Finish
    BY <1>1, <2>4, FfdEndPassing, RuinPassing, KeptPassing, UndoPassing, FinishPassing
  <2> QED
    BY <1>3, <2>1, <2>2, <2>3, <2>4 DEF Next
<1> QED
  BY <1>2, <1>3

\* Every schedule the search holds, returns or may fall back to keeps hours,
\* blocks, caps and teachers.
THEOREM PassingInvariance == Spec => [](Inv /\ VInv)
<1>1. Inv /\ VInv /\ [Next]_vars => (Inv /\ VInv)'
  BY NextInv, NextPassing
<1> QED
  BY <1>1, InitInv, InitPassing, SpecLoose, PTL

-----------------------------------------------------------------------------
(* What follows.                                                            *)

\* No one ever teaches beyond the weekly maximum, pins aside: a move or an
\* undo that does not look at the hours never adds any.
THEOREM TeachersKeepTheirHours == Spec => []TeacherHoursCapped
<1>1. Inv /\ VInv => TeacherHoursCapped
  <2> SUFFICES ASSUME VInv, NEW t \in Teachers,
                      {r \in rows : r.teacher = t /\ r.lesson \notin Pinned} # {}
               PROVE  Cardinality({r \in rows : r.teacher = t}) <= TeacherMax[t]
    BY DEF TeacherHoursCapped
  <2> QED
    BY DEF VInv, Passing, HoursCapped
<1> QED
  BY <1>1, PassingInvariance, PTL

\* A ruin-and-recreate that passes its gate has put back exactly the hours of
\* each lesson that it took out.
THEOREM RecreateLosesNothing == Spec => []RecreateRestoresHours
<1>1. Inv /\ VInv => RecreateRestoresHours
  <2> SUFFICES ASSUME Inv, VInv, phase = "recreate", attempt.todo = <<>>, GateOpen,
                      NEW l \in Lessons
               PROVE  Cardinality(RowsOf(UNION attempt.added, l))
                        = Cardinality(RowsOf(attempt.ruined, l))
    BY DEF RecreateRestoresHours
  <2>1. NothingLost
    BY DEF GateOpen, VInv
  <2>2. {i \in 1..Len(attempt.todo) : attempt.todo[i] = l} = {}
    OBVIOUS
  <2>3. Turns(attempt.todo, l) = 0
    BY <2>2, FS_EmptySet DEF Turns
  <2>4. BlockSize[l] * 0 = 0
    BY BlockSizes
  <2>5. Cardinality(RowsOf(UNION attempt.added, l)) \in Nat
    <3>1. UNION attempt.added \in SUBSET Row
      BY DEF Inv, Rebuildable, TypeOK
    <3>2. RowsOf(UNION attempt.added, l) \in SUBSET Row
      BY <3>1 DEF RowsOf
    <3> QED
      BY <3>2, ScheduleFinite
  <2> DEFINE a == Cardinality(RowsOf(UNION attempt.added, l))
  <2>6. a + BlockSize[l] * Turns(attempt.todo, l) = Cardinality(RowsOf(attempt.ruined, l))
    BY <2>1 DEF NothingLost
  <2>7. a + 0 = Cardinality(RowsOf(attempt.ruined, l))
    BY <2>3, <2>4, <2>6
  <2> QED
    BY <2>5, <2>7
<1> QED
  BY <1>1, PassingInvariance, PTL

\* A schedule that passes and holds the pins as they are is accepted by the
\* validators, but for those of the class cap and of travel time.
LEMMA PassingAccepted ==
  ASSUME NEW R \in SUBSET Row, Orderly(R), PinsIn(R), Passing(R)
  PROVE  LessonCardinality(R) /\ BlockShape(R)
<1>1. \A l \in Pinned : /\ RowsOf(R, l) = RowsOf(PinnedRows, l)
                        /\ \A d : RowsOfOn(R, l, d) = RowsOfOn(PinnedRows, l, d)
  BY DEF PinsIn, RowsOf, RowsOfOn
<1>2. LessonCardinality(R)
  <2> SUFFICES ASSUME NEW l \in Lessons PROVE Cardinality(RowsOf(R, l)) <= Hours[l]
    BY DEF LessonCardinality
  <2>1. CASE l \in Pinned
    BY <1>1, <2>1, SearchAssumption DEF LessonCardinality
  <2>2. CASE l \notin Pinned
    BY <2>2 DEF Passing, HoursKept
  <2> QED
    BY <2>1, <2>2
<1>3. BlockShape(R)
  <2> SUFFICES ASSUME NEW l \in Lessons, NEW d \in Days, NEW D, D = RowsOfOn(R, l, d)
               PROVE  /\ Cardinality(D) % BlockSize[l] = 0
                      /\ \A r \in D :
                           Cardinality({q \in D : Pos(q.slot) < Pos(r.slot)}) % BlockSize[l] = 0 =>
                             \A k \in 1..(BlockSize[l] - 1) :
                               \E q \in D : Pos(q.slot) = Pos(r.slot) + k /\ q.room = r.room
    BY DEF BlockShape
  <2>1. CASE l \in Pinned
    <3>1. D = RowsOfOn(PinnedRows, l, d)
      BY <1>1, <2>1
    <3> QED
      BY <3>1, SearchAssumption DEF BlockShape
  <2>2. CASE l \notin Pinned
    <3>1. \E T \in SUBSET Nat : Tiling(R, l, d, T)
      BY <2>2 DEF Passing, Tiled
    <3> QED
      BY <3>1, TiledShape
  <2> QED
    BY <2>1, <2>2
<1> QED
  BY <1>2, <1>3

\* A finished search holds a schedule that those validators accept.
LEMMA FinishedAccepted ==
  ASSUME Unambiguous, Inv, VInv
  PROVE  ReturnedPassesValidators
<1> SUFFICES ASSUME phase = "done"
             PROVE  /\ NoDoubleBooking(rows) /\ LessonCardinality(rows) /\ BlockShape(rows)
                    /\ NoRoomHopping(rows) /\ SubjectCaps(rows)
                    /\ TeachersAllowed(rows) /\ OneTeacherPerClassSubject(rows)
  BY DEF ReturnedPassesValidators
<1>1. rows \in SUBSET Row /\ Orderly(rows) /\ PinsIn(rows) /\ Passing(rows)
  BY DEF Inv, TypeOK, VInv
<1>2. LessonCardinality(rows) /\ BlockShape(rows)
  BY <1>1, PassingAccepted
<1> QED
  BY <1>1, <1>2 DEF Orderly, Passing

\* What the solver returns passes every post-solve validator but those of the
\* class cap and of travel time.
THEOREM ReturnedAccepted ==
  ASSUME Unambiguous
  PROVE  Spec => []ReturnedPassesValidators
<1>1. Inv /\ VInv => ReturnedPassesValidators
  BY FinishedAccepted
<1> QED
  BY <1>1, PassingInvariance, PTL

-----------------------------------------------------------------------------
(* Class caps where every block is a single hour.  The local search moves    *)
(* lessons_by_class_day by the block size, though a placed block counts once *)
(* in it: for longer blocks the counter falls below the truth.               *)

OneHourBlocks == \A l \in Lessons : BlockSize[l] = 1

\* The rows that class x[1] attends on day x[2].
Attended(R, x) == {r \in R : x[1] \in ClassesOf[r.lesson] /\ Day(r.slot) = x[2]}

HoursAt(R, x) == Cardinality(Attended(R, x))

Hit(r, x) == IF x[1] \in ClassesOf[r.lesson] /\ Day(r.slot) = x[2] THEN 1 ELSE 0

\* lessons_by_class_day claims no fewer hours than there are.
HoursCovered(R, b) == \A x \in Classes \X Days : HoursAt(R, x) <= b.lessonsOn[x]

\* No class is beyond its cap on a day on which it has more than pins.
ClassHours(R) ==
    \A x \in Classes \X Days :
      (\E r \in Attended(R, x) : r.lesson \notin Pinned) => HoursAt(R, x) <= ClassCap[x[1]]

\* Hours of disjoint sets of rows add up.
LEMMA HoursOfParts ==
  ASSUME NEW R, NEW K, NEW S, TwoParts(R, K, S), NEW x
  PROVE  /\ HoursAt(R, x) = HoursAt(K, x) + HoursAt(S, x)
         /\ HoursAt(K, x) \in Nat /\ HoursAt(S, x) \in Nat
<1> DEFINE A == Attended(K, x)
           B == Attended(S, x)
<1>1. /\ Attended(R, x) = A \cup B /\ A \cap B = {}
      /\ A \in SUBSET Row /\ B \in SUBSET Row
  BY DEF Attended, TwoParts
<1> HIDE DEF A, B
<1>2. IsFiniteSet(A) /\ IsFiniteSet(B)
  BY <1>1, ScheduleFinite
<1>3. Cardinality(Attended(R, x)) = Cardinality(A) + Cardinality(B)
      /\ Cardinality(A) \in Nat /\ Cardinality(B) \in Nat
  BY <1>1, <1>2, SizeOfUnion
<1> QED
  BY <1>3 DEF HoursAt, A, B

\* The same, written out.
LEMMA HoursOfUnion ==
  ASSUME NEW R \in SUBSET Row, NEW S \in SUBSET Row, R \cap S = {}, NEW x
  PROVE  /\ HoursAt(R \cup S, x) = HoursAt(R, x) + HoursAt(S, x)
         /\ HoursAt(R, x) \in Nat /\ HoursAt(S, x) \in Nat
<1> DEFINE U == R \cup S
<1>1. TwoParts(U, R, S)
  BY DEF TwoParts
<1> HIDE DEF U
<1>2. /\ HoursAt(U, x) = HoursAt(R, x) + HoursAt(S, x)
      /\ HoursAt(R, x) \in Nat /\ HoursAt(S, x) \in Nat
  BY <1>1, HoursOfParts
<1> QED
  BY <1>2 DEF U

\* Taking out some rows.
LEMMA HoursLeft ==
  ASSUME NEW R \in SUBSET Row, NEW S \in SUBSET R, NEW x
  PROVE  /\ HoursAt(R, x) = HoursAt(R \ S, x) + HoursAt(S, x)
         /\ HoursAt(R \ S, x) \in Nat /\ HoursAt(S, x) \in Nat
<1>1. R \ S \in SUBSET Row /\ S \in SUBSET Row /\ (R \ S) \cap S = {} /\ R = (R \ S) \cup S
  OBVIOUS
<1>2. /\ HoursAt((R \ S) \cup S, x) = HoursAt(R \ S, x) + HoursAt(S, x)
      /\ HoursAt(R \ S, x) \in Nat /\ HoursAt(S, x) \in Nat
  BY <1>1, HoursOfUnion
<1> QED
  BY <1>1, <1>2

\* One row is one hour of the classes that attend it.
LEMMA HoursOfOne ==
  ASSUME NEW r, NEW x
  PROVE  HoursAt({r}, x) = Hit(r, x) /\ BlocksAt({{r}}, x) = Hit(r, x)
<1>1. CASE x[1] \in ClassesOf[r.lesson] /\ Day(r.slot) = x[2]
  <2>1. Attended({r}, x) = {r}
    BY <1>1 DEF Attended
  <2>2. {B \in {{r}} : \E q \in B : x[1] \in ClassesOf[q.lesson] /\ Day(q.slot) = x[2]} = {{r}}
    BY <1>1
  <2>3. Cardinality({r}) = 1 /\ Cardinality({{r}}) = 1
    BY FS_Singleton
  <2> QED
    BY <1>1, <2>1, <2>2, <2>3 DEF HoursAt, BlocksAt, Hit
<1>2. CASE ~(x[1] \in ClassesOf[r.lesson] /\ Day(r.slot) = x[2])
  <2>1. Attended({r}, x) = {}
    BY <1>2 DEF Attended
  <2>2. {B \in {{r}} : \E q \in B : x[1] \in ClassesOf[q.lesson] /\ Day(q.slot) = x[2]} = {}
    BY <1>2
  <2> QED
    BY <1>2, <2>1, <2>2, FS_EmptySet DEF HoursAt, BlocksAt, Hit
<1> QED
  BY <1>1, <1>2

\* Two rows.
LEMMA HoursOfTwo ==
  ASSUME NEW r \in Row, NEW q \in Row, r # q, NEW x
  PROVE  HoursAt({r, q}, x) = Hit(r, x) + Hit(q, x)
<1>1. {r} \in SUBSET Row /\ {q} \in SUBSET Row /\ {r} \cap {q} = {} /\ {r, q} = {r} \cup {q}
  OBVIOUS
<1>2. HoursAt({r} \cup {q}, x) = HoursAt({r}, x) + HoursAt({q}, x)
  BY <1>1, HoursOfUnion
<1> QED
  BY <1>1, <1>2, HoursOfOne

\* A class has at least as many hours on a day as there are lessons taken out.
LEMMA BlocksWithin ==
  ASSUME NEW R \in SUBSET Row, NEW x
  PROVE  BlocksAt(BlocksOf(R), x) <= HoursAt(R, x)
<1> DEFINE A == Attended(R, x)
           f == [r \in A |-> RowsOfOn(R, r.lesson, Day(r.slot))]
           T == {B \in BlocksOf(R) : \E r \in B : x[1] \in ClassesOf[r.lesson]
                                                  /\ Day(r.slot) = x[2]}
<1>1. A \in SUBSET Row
  BY DEF Attended
<1>2. IsFiniteSet(A)
  BY <1>1, ScheduleFinite
<1>3. ASSUME NEW r \in A PROVE f[r] \in T
  <2>1. r \in RowsOfOn(R, r.lesson, Day(r.slot))
    BY DEF Attended, RowsOfOn
  <2>2. RowsOfOn(R, r.lesson, Day(r.slot)) \in BlocksOf(R)
    BY DEF Attended, BlocksOf
  <2> QED
    BY <2>1, <2>2 DEF Attended
<1>4. ASSUME NEW B \in T PROVE \E r \in A : f[r] = B
  <2>1. PICK q \in R : B = RowsOfOn(R, q.lesson, Day(q.slot))
    BY DEF BlocksOf
  <2>2. PICK r \in B : x[1] \in ClassesOf[r.lesson] /\ Day(r.slot) = x[2]
    OBVIOUS
  <2>3. r \in R /\ r.lesson = q.lesson /\ Day(r.slot) = Day(q.slot)
    BY <2>1, <2>2 DEF RowsOfOn
  <2>4. r \in A
    BY <2>2, <2>3 DEF Attended
  <2> QED
    BY <2>1, <2>3, <2>4
<1> HIDE DEF A, T
<1>5. f \in [A -> T]
  BY <1>3
<1> HIDE DEF f
<1>6. f \in Surjection(A, T)
  BY <1>4, <1>5 DEF Surjection
<1>7. Cardinality(T) <= Cardinality(A)
  BY <1>2, <1>6, FS_Surjection
<1> QED
  BY <1>7 DEF HoursAt, BlocksAt, A, T

\* A further block is at most one more.
LEMMA OneMoreBlockAt ==
  ASSUME NEW Bs \in SUBSET SUBSET Row, NEW B \in SUBSET Row, NEW x
  PROVE  /\ BlocksAt(Bs \cup {B}, x) <= BlocksAt(Bs, x) + BlocksAt({B}, x)
         /\ BlocksAt(Bs, x) \in Nat /\ BlocksAt({B}, x) \in Nat
         /\ BlocksAt(Bs \cup {B}, x) \in Nat
<1> DEFINE H(Cs) == {C \in Cs : \E r \in C : x[1] \in ClassesOf[r.lesson]
                                             /\ Day(r.slot) = x[2]}
<1>1. H(Bs \cup {B}) = H(Bs) \cup H({B})
  OBVIOUS
<1>2. IsFiniteSet(SUBSET Row)
  BY RowFinite, FS_SUBSET
<1>3. IsFiniteSet(H(Bs)) /\ IsFiniteSet(H({B}))
  <2>1. H(Bs) \subseteq SUBSET Row /\ H({B}) \subseteq SUBSET Row
    OBVIOUS
  <2> HIDE DEF H
  <2> QED
    BY <1>2, <2>1, FS_Subset
<1>4. BlocksAt(Bs, x) = Cardinality(H(Bs)) /\ BlocksAt({B}, x) = Cardinality(H({B}))
      /\ BlocksAt(Bs \cup {B}, x) = Cardinality(H(Bs) \cup H({B}))
  BY <1>1 DEF BlocksAt
<1> HIDE DEF H
<1>5. Cardinality(H(Bs) \cup H({B}))
        = Cardinality(H(Bs)) + Cardinality(H({B})) - Cardinality(H(Bs) \cap H({B}))
  BY <1>3, FS_Union
<1>6. /\ Cardinality(H(Bs)) \in Nat /\ Cardinality(H({B})) \in Nat
      /\ Cardinality(H(Bs) \cap H({B})) \in Nat /\ Cardinality(H(Bs) \cup H({B})) \in Nat
  <2>1. IsFiniteSet(H(Bs) \cap H({B})) /\ IsFiniteSet(H(Bs) \cup H({B}))
    BY <1>3, FS_Intersection, FS_Union
  <2> QED
    BY <1>3, <2>1, FS_CardinalityType
<1> QED
  BY <1>4, <1>5, <1>6

\* What the steps of the bookkeeping do to lessons_by_class_day.
LEMMA LessonFields ==
  ASSUME NEW b \in TallyType, NEW x \in Classes \X Days
  PROVE  /\ b.lessonsOn[x] \in Nat
         /\ \A Bs : MoreLessons(b, Bs, 1).lessonsOn[x] = b.lessonsOn[x] + 1 * BlocksAt(Bs, x)
         /\ \A Bs : FewerLessons(b, Bs, 1).lessonsOn[x]
                      = SatSub(b.lessonsOn[x], 1 * BlocksAt(Bs, x))
BY DEF TallyType, MoreLessons, FewerLessons

\* And what leaves it alone.
LEMMA LessonsUntouched ==
  ASSUME NEW b \in TallyType
  PROVE  /\ \A R : CountIn(b, R).lessonsOn = b.lessonsOn
         /\ \A R : CountOut(b, R).lessonsOn = b.lessonsOn
         /\ \A l, t : LockTeacher(b, l, t).lessonsOn = b.lessonsOn
         /\ \A R : ForgetLocks(b, R).lessonsOn = b.lessonsOn
         /\ \A L : [b EXCEPT !.teacherLock = L].lessonsOn = b.lessonsOn
         /\ \A p, room : RelockRoom(b, p, room).lessonsOn = b.lessonsOn
BY DEF TallyType, CountIn, CountOut, LockTeacher, ForgetLocks, RelockRoom

-----------------------------------------------------------------------------
(* The steps.                                                               *)

\* A block of one hour is one row.
LEMMA SingleRow ==
  ASSUME OneHourBlocks, NEW l \in Lessons, NEW s \in Slots, NEW room, NEW t,
         NEW B, B = Block(l, s, room, t)
  PROVE  \E q : B = {q} /\ q.lesson = l /\ Day(q.slot) = Day(s)
<1>1. IsFiniteSet(B) /\ Cardinality(B) = 1 /\ \A r \in B : r.lesson = l /\ Day(r.slot) = Day(s)
  BY BlockOfRows DEF OneHourBlocks
<1>2. PICK q : B = {q}
  BY <1>1, FS_Singleton
<1> QED
  BY <1>1, <1>2

\* Counting out saturates, so it leaves no less than the difference.
LEMMA SatSubMost ==
  ASSUME NEW m \in Nat, NEW n \in Nat
  PROVE  SatSub(m, n) \in Nat /\ m - n <= SatSub(m, n) /\ SatSub(m, n) <= m
BY DEF SatSub

\* An hour more that was counted and found room under the caps of its classes.
LEMMA HourPlaced ==
  ASSUME TypeOK, NEW q \in Row, q \notin rows, rows' = rows \cup {q},
         NEW n, UnderCaps(q.lesson, Day(q.slot), n, 1),
         \A x \in Classes \X Days :
           tally'.lessonsOn[x] = tally.lessonsOn[x] + BlocksAt({{q}}, x),
         HoursCovered(rows, tally), ClassHours(rows)
  PROVE  HoursCovered(rows', tally') /\ ClassHours(rows')
<1>1. ASSUME NEW x \in Classes \X Days
      PROVE  /\ HoursAt(rows', x) = HoursAt(rows, x) + Hit(q, x) /\ HoursAt(rows, x) \in Nat
             /\ tally'.lessonsOn[x] = tally.lessonsOn[x] + Hit(q, x)
             /\ HoursAt(rows, x) <= tally.lessonsOn[x] /\ tally.lessonsOn[x] \in Nat
             /\ Hit(q, x) \in {0, 1}
  <2>1. HoursAt(rows', x) = HoursAt(rows, x) + HoursAt({q}, x) /\ HoursAt(rows, x) \in Nat
    <3>1. TwoParts(rows', rows, {q})
      BY DEF TwoParts, TypeOK
    <3> QED
      BY <3>1, HoursOfParts
  <2>2. HoursAt({q}, x) = Hit(q, x) /\ BlocksAt({{q}}, x) = Hit(q, x)
    BY HoursOfOne
  <2>3. Hit(q, x) \in {0, 1} /\ HoursAt(rows, x) <= tally.lessonsOn[x]
    BY DEF Hit, HoursCovered
  <2>4. tally.lessonsOn[x] \in Nat
    BY LessonFields DEF TypeOK
  <2> QED
    BY <2>1, <2>2, <2>3, <2>4
<1>2. HoursCovered(rows', tally')
  <2> SUFFICES ASSUME NEW x \in Classes \X Days
               PROVE  HoursAt(rows', x) <= tally'.lessonsOn[x]
    BY DEF HoursCovered
  <2>1. /\ HoursAt(rows', x) = HoursAt(rows, x) + Hit(q, x) /\ HoursAt(rows, x) \in Nat
        /\ tally'.lessonsOn[x] = tally.lessonsOn[x] + Hit(q, x)
        /\ HoursAt(rows, x) <= tally.lessonsOn[x] /\ tally.lessonsOn[x] \in Nat
        /\ Hit(q, x) \in {0, 1}
    BY <1>1
  <2> QED
    BY <2>1
<1>3. ClassHours(rows')
  <2> SUFFICES ASSUME NEW x \in Classes \X Days, NEW r \in Attended(rows', x),
                      r.lesson \notin Pinned
               PROVE  HoursAt(rows', x) <= ClassCap[x[1]]
    BY DEF ClassHours
  <2>1. x[1] \in Classes /\ x[2] \in Days /\ x = <<x[1], x[2]>> /\ ClassCap[x[1]] \in Nat
    BY ProblemAssumption
  <2>2. /\ HoursAt(rows', x) = HoursAt(rows, x) + Hit(q, x) /\ HoursAt(rows, x) \in Nat
        /\ HoursAt(rows, x) <= tally.lessonsOn[x] /\ tally.lessonsOn[x] \in Nat
        /\ Hit(q, x) \in {0, 1}
    BY <1>1
  <2>3. CASE Hit(q, x) = 1
    <3>1. x[1] \in ClassesOf[q.lesson] /\ x[2] = Day(q.slot)
      BY <2>3 DEF Hit
    <3>2. tally.lessonsOn[x] + 1 <= ClassCap[x[1]]
      BY <2>1, <3>1 DEF UnderCaps
    <3> QED
      BY <2>1, <2>2, <2>3, <3>2
  <2>4. CASE Hit(q, x) = 0
    <3>1. r \in Attended(rows, x)
      BY <2>4 DEF Attended, Hit
    <3>2. HoursAt(rows, x) <= ClassCap[x[1]]
      BY <3>1 DEF ClassHours
    <3> QED
      BY <2>2, <2>4, <3>2
  <2> QED
    BY <2>2, <2>3, <2>4
<1> QED
  BY <1>2, <1>3

\* A placed hour was counted and found room under the caps of its classes.
LEMMA PlaceHours ==
  ASSUME OneHourBlocks, TypeOK, NEW l \in Lessons, NEW s \in Slots, NEW room \in Rooms,
         NEW t \in Teachers, Place(l, s, room, t),
         NEW B \in SUBSET Row, B = Block(l, s, room, t), rows \cap B = {},
         HoursCovered(rows, tally), ClassHours(rows)
  PROVE  /\ rows' = rows \cup B
         /\ HoursCovered(rows', tally') /\ ClassHours(rows')
         /\ \A x \in Classes \X Days :
              tally'.lessonsOn[x] = tally.lessonsOn[x] + BlocksAt({B}, x)
<1>1. /\ rows' = rows \cup B /\ rows \in SUBSET Row /\ tally \in TallyType
      /\ tally' = LockTeacher(MoreLessons(CountIn(tally, B), {B}, 1), l, t)
      /\ UnderCaps(l, Day(s), BlockSize[l], 1)
  BY DEF Place, CanPlace, TypeOK
<1>2. PICK q : B = {q} /\ q.lesson = l /\ Day(q.slot) = Day(s)
  BY SingleRow
<1>3. ASSUME NEW x \in Classes \X Days
      PROVE  /\ tally'.lessonsOn[x] = tally.lessonsOn[x] + BlocksAt({B}, x)
             /\ tally.lessonsOn[x] \in Nat
  <2> DEFINE b == CountIn(tally, B)
             m == MoreLessons(b, {B}, 1)
  <2>1. b \in TallyType /\ b.lessonsOn = tally.lessonsOn
    BY <1>1, CountType, LessonsUntouched
  <2>2. m \in TallyType
    BY <2>1, LessonsType
  <2> HIDE DEF b
  <2>3. m.lessonsOn[x] = tally.lessonsOn[x] + 1 * BlocksAt({B}, x)
    BY <2>1, LessonFields
  <2> HIDE DEF m
  <2>4. tally' = LockTeacher(m, l, t)
    BY <1>1 DEF m, b
  <2>5. tally'.lessonsOn = m.lessonsOn
    BY <2>2, <2>4, LessonsUntouched
  <2>6. BlocksAt({B}, x) \in Nat
    <3>1. BlocksAt({{q}}, x) = Hit(q, x) /\ Hit(q, x) \in Nat
      BY HoursOfOne DEF Hit
    <3> QED
      BY <1>2, <3>1
  <2>7. tally.lessonsOn[x] \in Nat
    BY <1>1, LessonFields
  <2> QED
    BY <2>3, <2>5, <2>6, <2>7
<1>4. HoursCovered(rows', tally') /\ ClassHours(rows')
  <2>1. q \in Row /\ q \notin rows /\ rows' = rows \cup {q}
        /\ UnderCaps(q.lesson, Day(q.slot), BlockSize[l], 1)
    BY <1>1, <1>2
  <2>2. \A x \in Classes \X Days :
          tally'.lessonsOn[x] = tally.lessonsOn[x] + BlocksAt({{q}}, x)
    BY <1>2, <1>3
  <2> QED
    BY <2>1, <2>2, HourPlaced
<1> QED
  BY <1>1, <1>3, <1>4

\* A part of a schedule keeps the class caps.
LEMMA PartClassHours ==
  ASSUME NEW R \in SUBSET Row, NEW S \in SUBSET R, ClassHours(R)
  PROVE  ClassHours(R \ S)
<1> SUFFICES ASSUME NEW x \in Classes \X Days, NEW r \in Attended(R \ S, x),
                    r.lesson \notin Pinned
             PROVE  HoursAt(R \ S, x) <= ClassCap[x[1]]
  BY DEF ClassHours
<1>1. r \in Attended(R, x)
  BY DEF Attended
<1>2. HoursAt(R, x) <= ClassCap[x[1]] /\ ClassCap[x[1]] \in Nat
  BY <1>1, ProblemAssumption DEF ClassHours
<1>3. /\ HoursAt(R, x) = HoursAt(R \ S, x) + HoursAt(S, x)
      /\ HoursAt(R \ S, x) \in Nat /\ HoursAt(S, x) \in Nat
  BY HoursLeft
<1> QED
  BY <1>2, <1>3

\* What an undo would go back to: the lessons it counts in again are at least
\* as many as those it discounts.
Restores ==
    \A x \in Classes \X Days :
      HoursAt(Base, x) + BlocksAt(attempt.heads, x)
        <= tally.lessonsOn[x] + BlocksAt(BlocksOf(attempt.ruined), x)

\* The invariant.
ClassInv ==
    /\ ClassHours(rows)
    /\ phase # "done" => HoursCovered(rows, tally)
    /\ phase # "ffd" => ClassHours(best)
    /\ phase \in {"rescue", "recreate"} => ClassHours(Base) /\ Restores

\* A pin counts as one lesson, so hours and lessons agree at first.
LEMMA InitClassInv == Init => ClassInv
<1> SUFFICES ASSUME Init PROVE ClassInv
  OBVIOUS
<1>1. phase = "ffd" /\ rows = PinnedRows
  BY DEF Init
<1>2. tally.lessonsOn = SeedLessons
  <2>1. PinnedRows \in SUBSET Row
    BY ProblemAssumption
  <2>2. CountIn(EmptyTally, PinnedRows) \in TallyType
    BY <2>1, EmptyType, CountType
  <2> QED
    BY <2>2 DEF Init, TallyType
<1>3. \A x \in Classes \X Days : SeedLessons[x] = HoursAt(PinnedRows, x)
  BY DEF SeedLessons, HoursAt, Attended
<1>4. \A x \in Classes \X Days : HoursAt(PinnedRows, x) \in Nat
  <2> SUFFICES ASSUME NEW x \in Classes \X Days PROVE HoursAt(PinnedRows, x) \in Nat
    OBVIOUS
  <2>1. Attended(PinnedRows, x) \in SUBSET Row
    BY ProblemAssumption DEF Attended
  <2> QED
    BY <2>1, ScheduleFinite DEF HoursAt
<1>5. HoursCovered(rows, tally)
  BY <1>1, <1>2, <1>3, <1>4 DEF HoursCovered
<1>6. ClassHours(rows)
  BY <1>1 DEF ClassHours, Attended, Pinned
<1> QED
  BY <1>1, <1>5, <1>6 DEF ClassInv

\* What a move of the rows O to the rows N does to one day of a class: there
\* was as much before, or the counter left room for more.
MoveFits(O, N, x) ==
    \/ HoursAt(N, x) <= HoursAt(O, x) /\ \E r \in Attended(O, x) : r.lesson \notin Pinned
    \/ tally.lessonsOn[x] + HoursAt(N, x) <= ClassCap[x[1]] + HoursAt(O, x)

\* Such a move keeps counter and caps.
LEMMA MoveHours ==
  ASSUME TypeOK, TypeOK', NEW O \in SUBSET rows, NEW N \in SUBSET Row,
         (rows \ O) \cap N = {}, rows' = (rows \ O) \cup N,
         HoursCovered(rows, tally), ClassHours(rows),
         \A x \in Classes \X Days :
           /\ tally.lessonsOn[x] + HoursAt(N, x) <= tally'.lessonsOn[x] + HoursAt(O, x)
           /\ Attended(N, x) # {} => MoveFits(O, N, x)
  PROVE  HoursCovered(rows', tally') /\ ClassHours(rows')
<1>1. rows \in SUBSET Row /\ tally \in TallyType /\ tally' \in TallyType /\ rows \ O \in SUBSET Row
  BY DEF TypeOK
<1>2. ASSUME NEW x \in Classes \X Days
      PROVE  /\ HoursAt(rows, x) = HoursAt(rows \ O, x) + HoursAt(O, x)
             /\ HoursAt(rows', x) = HoursAt(rows \ O, x) + HoursAt(N, x)
             /\ HoursAt(rows \ O, x) \in Nat /\ HoursAt(O, x) \in Nat /\ HoursAt(N, x) \in Nat
             /\ tally.lessonsOn[x] \in Nat /\ tally'.lessonsOn[x] \in Nat
             /\ HoursAt(rows, x) <= tally.lessonsOn[x]
             /\ x[1] \in Classes /\ ClassCap[x[1]] \in Nat
  <2>1. /\ HoursAt(rows, x) = HoursAt(rows \ O, x) + HoursAt(O, x)
        /\ HoursAt(rows \ O, x) \in Nat /\ HoursAt(O, x) \in Nat
    BY <1>1, HoursLeft
  <2>2. /\ HoursAt(rows', x) = HoursAt(rows \ O, x) + HoursAt(N, x)
        /\ HoursAt(N, x) \in Nat
    <3> DEFINE K == rows \ O
    <3>1. TwoParts(rows', K, N)
      BY <1>1 DEF TwoParts
    <3> HIDE DEF K
    <3>2. HoursAt(rows', x) = HoursAt(K, x) + HoursAt(N, x) /\ HoursAt(N, x) \in Nat
      BY <3>1, HoursOfParts
    <3> QED
      BY <3>2 DEF K
  <2>3. tally.lessonsOn[x] \in Nat /\ tally'.lessonsOn[x] \in Nat
    BY <1>1, LessonFields
  <2>4. x[1] \in Classes /\ ClassCap[x[1]] \in Nat /\ HoursAt(rows, x) <= tally.lessonsOn[x]
    BY ProblemAssumption DEF HoursCovered
  <2> QED
    BY <2>1, <2>2, <2>3, <2>4
<1>3. HoursCovered(rows', tally')
  <2> SUFFICES ASSUME NEW x \in Classes \X Days PROVE HoursAt(rows', x) <= tally'.lessonsOn[x]
    BY DEF HoursCovered
  <2>1. tally.lessonsOn[x] + HoursAt(N, x) <= tally'.lessonsOn[x] + HoursAt(O, x)
    OBVIOUS
  <2>2. /\ HoursAt(rows, x) = HoursAt(rows \ O, x) + HoursAt(O, x)
        /\ HoursAt(rows', x) = HoursAt(rows \ O, x) + HoursAt(N, x)
        /\ HoursAt(rows \ O, x) \in Nat /\ HoursAt(O, x) \in Nat /\ HoursAt(N, x) \in Nat
        /\ tally.lessonsOn[x] \in Nat /\ tally'.lessonsOn[x] \in Nat
        /\ HoursAt(rows, x) <= tally.lessonsOn[x]
    BY <1>2
  <2> QED
    BY ONLY <2>1, <2>2
<1>4. ClassHours(rows')
  <2> SUFFICES ASSUME NEW x \in Classes \X Days, NEW r \in Attended(rows', x),
                      r.lesson \notin Pinned
               PROVE  HoursAt(rows', x) <= ClassCap[x[1]]
    BY DEF ClassHours
  <2>1. /\ HoursAt(rows, x) = HoursAt(rows \ O, x) + HoursAt(O, x)
        /\ HoursAt(rows', x) = HoursAt(rows \ O, x) + HoursAt(N, x)
        /\ HoursAt(rows \ O, x) \in Nat /\ HoursAt(O, x) \in Nat /\ HoursAt(N, x) \in Nat
        /\ tally.lessonsOn[x] \in Nat
        /\ HoursAt(rows, x) <= tally.lessonsOn[x] /\ ClassCap[x[1]] \in Nat
    BY <1>2
  <2>2. (\E q \in Attended(rows, x) : q.lesson \notin Pinned) => HoursAt(rows, x) <= ClassCap[x[1]]
    BY DEF ClassHours
  <2>3. CASE Attended(N, x) # {}
    <3>1. MoveFits(O, N, x)
      BY <2>3
    <3>2. CASE /\ HoursAt(N, x) <= HoursAt(O, x)
               /\ \E q \in Attended(O, x) : q.lesson \notin Pinned
      <4>1. \E q \in Attended(rows, x) : q.lesson \notin Pinned
        BY <3>2 DEF Attended
      <4> QED
        BY <2>1, <2>2, <3>2, <4>1
    <3>3. CASE tally.lessonsOn[x] + HoursAt(N, x) <= ClassCap[x[1]] + HoursAt(O, x)
      BY <2>1, <3>3
    <3> QED
      BY <3>1, <3>2, <3>3 DEF MoveFits
  <2>4. CASE Attended(N, x) = {}
    <3>1. r \in Attended(rows, x)
      BY <2>4 DEF Attended
    <3>2. HoursAt(rows, x) <= ClassCap[x[1]]
      BY <2>2, <3>1
    <3>3. HoursAt(N, x) = 0
      BY <2>4, FS_EmptySet DEF HoursAt
    <3> QED
      BY <2>1, <3>2, <3>3
  <2> QED
    BY <2>3, <2>4
<1> QED
  BY <1>3, <1>4

\* What one move of a block on the counter comes to.
LEMMA BlockMoved ==
  ASSUME NEW b \in TallyType, NEW r \in Row, NEW q \in Row, NEW x \in Classes \X Days
  PROVE  LET c == MoreLessons(FewerLessons(b, {{r}}, 1), {{q}}, 1)
         IN  /\ c \in TallyType
             /\ b.lessonsOn[x] + Hit(q, x) <= c.lessonsOn[x] + Hit(r, x)
             /\ b.lessonsOn[x] \in Nat /\ c.lessonsOn[x] \in Nat
             /\ Hit(q, x) \in {0, 1} /\ Hit(r, x) \in {0, 1}
<1> DEFINE d == FewerLessons(b, {{r}}, 1)
           c == MoreLessons(d, {{q}}, 1)
<1>1. /\ BlocksAt({{r}}, x) = Hit(r, x) /\ BlocksAt({{q}}, x) = Hit(q, x)
      /\ Hit(r, x) \in {0, 1} /\ Hit(q, x) \in {0, 1}
  BY HoursOfOne DEF Hit
<1>2. {{r}} \in SUBSET SUBSET Row /\ {{q}} \in SUBSET SUBSET Row
  OBVIOUS
<1>3. d \in TallyType
  BY <1>2, LessonsType
<1>4. d.lessonsOn[x] = SatSub(b.lessonsOn[x], 1 * BlocksAt({{r}}, x)) /\ b.lessonsOn[x] \in Nat
  BY LessonFields
<1>5. b.lessonsOn[x] <= d.lessonsOn[x] + Hit(r, x)
  BY <1>1, <1>4 DEF SatSub
<1> HIDE DEF d
<1>6. c \in TallyType
  BY <1>2, <1>3, LessonsType
<1>7. c.lessonsOn[x] = d.lessonsOn[x] + 1 * BlocksAt({{q}}, x) /\ d.lessonsOn[x] \in Nat
  BY <1>3, LessonFields
<1>8. c.lessonsOn[x] \in Nat
  BY <1>1, <1>7
<1>9. b.lessonsOn[x] + Hit(q, x) <= c.lessonsOn[x] + Hit(r, x)
  BY <1>1, <1>4, <1>5, <1>7
<1> HIDE DEF c
<1>10. c \in TallyType /\ b.lessonsOn[x] + Hit(q, x) <= c.lessonsOn[x] + Hit(r, x)
       /\ b.lessonsOn[x] \in Nat /\ c.lessonsOn[x] \in Nat
       /\ Hit(q, x) \in {0, 1} /\ Hit(r, x) \in {0, 1}
  BY <1>1, <1>4, <1>6, <1>8, <1>9
<1> QED
  BY <1>10 DEF c, d

\* A Change that leaves the day alone adds nothing to it, and one that comes
\* from elsewhere has asked the counter.
LEMMA ChangeHours ==
  ASSUME OneHourBlocks, Inv, TypeOK', NEW l \in Lessons, Change(l),
         HoursCovered(rows, tally), ClassHours(rows)
  PROVE  HoursCovered(rows', tally') /\ ClassHours(rows')
<1>1. /\ l \notin Pinned /\ TypeOK /\ Orderly(rows) /\ rows \in SUBSET Row
      /\ tally \in TallyType /\ LocksHold(rows, tally.teacherLock) /\ BlockSize[l] = 1
      /\ LessonsMoved(l) = 1
  BY DEF Change, Searching, Frozen, Inv, TypeOK, Mirrored, OneHourBlocks, LessonsMoved
<1>picked. PICK R \in Sources(l), s \in Slots, room \in Rooms, t \in Teachers, B \in SUBSET Row :
        MoveBlock(l, R, s, room, t, B)
  BY ChangeInv
<1>2. /\ B = Block(l, s, room, t)
      /\ rows' = (rows \ R) \cup B /\ (rows \ R) \cap B = {}
      /\ \A r \in R :
           Day(r.slot) # Day(s) => UnderCaps(l, Day(s), BlockSize[l], BlockSize[l])
      /\ tally' = MoreLessons(
                     FewerLessons(Recount(tally, R, B), {R}, LessonsMoved(l)),
                     {B}, LessonsMoved(l))
  BY ONLY <1>picked DEF MoveBlock
<1>3. PICK q : B = {q} /\ q.lesson = l /\ Day(q.slot) = Day(s)
  BY <1>2, SingleRow
<1>4. PICK a : R = {a}
  <2>1. R \in SUBSET rows /\ Cardinality(R) = 1
    BY <1>1, SourceRows
  <2>2. IsFiniteSet(R)
    BY <1>1, <2>1, ScheduleFinite
  <2> QED
    BY <2>1, <2>2, FS_Singleton
<1>5. a \in rows /\ a \in Row /\ a.lesson = l /\ q \in Row
  BY <1>1, <1>2, <1>3, <1>4, SourceRows
<1> DEFINE b == Recount(tally, {a}, {q})
<1>6. b \in TallyType /\ b.lessonsOn = tally.lessonsOn
  <2>1. CountOut(tally, {a}) \in TallyType /\ CountOut(tally, {a}).lessonsOn = tally.lessonsOn
    BY <1>1, <1>5, CountType, LessonsUntouched
  <2> QED
    BY <1>5, <2>1, CountType, LessonsUntouched DEF Recount
<1>7. tally' = MoreLessons(FewerLessons(b, {{a}}, 1), {{q}}, 1)
  BY <1>1, <1>2, <1>3, <1>4
<1> HIDE DEF b
<1>8. ASSUME NEW x \in Classes \X Days
      PROVE  /\ tally.lessonsOn[x] + HoursAt({q}, x) <= tally'.lessonsOn[x] + HoursAt({a}, x)
             /\ Attended({q}, x) # {} => MoveFits({a}, {q}, x)
  <2>1. /\ tally.lessonsOn[x] + Hit(q, x) <= tally'.lessonsOn[x] + Hit(a, x)
        /\ tally.lessonsOn[x] \in Nat /\ Hit(q, x) \in {0, 1} /\ Hit(a, x) \in {0, 1}
    BY <1>5, <1>6, <1>7, BlockMoved
  <2>2. HoursAt({q}, x) = Hit(q, x) /\ HoursAt({a}, x) = Hit(a, x)
    BY HoursOfOne
  <2>3. ASSUME Attended({q}, x) # {} PROVE MoveFits({a}, {q}, x)
    <3>1. x[1] \in ClassesOf[l] /\ Day(s) = x[2]
      BY <1>3, <2>3 DEF Attended
    <3>2. CASE Day(a.slot) = Day(s)
      <4>1. a \in Attended({a}, x) /\ a.lesson \notin Pinned /\ Hit(a, x) = 1
        BY <1>1, <1>5, <3>1, <3>2 DEF Attended, Hit
      <4>2. HoursAt({q}, x) <= HoursAt({a}, x)
        BY <2>1, <2>2, <4>1
      <4> QED
        BY <4>1, <4>2 DEF MoveFits
    <3>3. CASE Day(a.slot) # Day(s)
      <4>1. UnderCaps(l, Day(s), 1, 1)
        BY <1>1, <1>2, <1>4, <3>3
      <4>2. x = <<x[1], x[2]>> /\ x[1] \in Classes /\ ClassCap[x[1]] \in Nat
        BY ProblemAssumption
      <4>3. tally.lessonsOn[x] + 1 <= ClassCap[x[1]]
        BY <3>1, <4>1, <4>2 DEF UnderCaps
      <4> QED
        BY <2>1, <2>2, <4>2, <4>3 DEF MoveFits
    <3> QED
      BY <3>2, <3>3
  <2> QED
    BY <2>1, <2>2, <2>3
<1>9. /\ {a} \in SUBSET rows /\ {q} \in SUBSET Row
      /\ rows' = (rows \ {a}) \cup {q} /\ (rows \ {a}) \cap {q} = {}
  BY <1>2, <1>3, <1>4, <1>5
<1> QED
  BY <1>1, <1>8, <1>9, MoveHours

\* One side of a swap: where the arriving row is of a class that the leaving
\* one is not of, the counter was asked.
LEMMA SwapSideHours ==
  ASSUME NEW a, NEW b, NEW a2, MovedTo(a2, a, b.slot), SwapFits(a, b),
         Day(a.slot) # Day(b.slot), NEW x \in Classes \X Days, Hit(a2, x) = 1
  PROVE  Hit(b, x) = 1 \/ tally.lessonsOn[x] + 1 <= ClassCap[x[1]]
<1>1. x[1] \in ClassesOf[a.lesson] /\ Day(b.slot) = x[2] /\ x = <<x[1], x[2]>>
  BY DEF Hit, MovedTo
<1>2. CASE x[1] \in ClassesOf[b.lesson]
  BY <1>1, <1>2 DEF Hit
<1>3. CASE x[1] \notin ClassesOf[b.lesson]
  BY <1>1, <1>3 DEF SwapFits
<1> QED
  BY <1>2, <1>3

\* A Swap keeps counter and caps.
LEMMA SwapHours ==
  ASSUME OneHourBlocks, Inv, TypeOK', NEW l \in Lessons, NEW m \in Lessons, Swap(l, m),
         HoursCovered(rows, tally), ClassHours(rows)
  PROVE  HoursCovered(rows', tally') /\ ClassHours(rows')
<1>1. /\ l \notin Pinned /\ m \notin Pinned /\ l # m
      /\ TypeOK /\ rows \in SUBSET Row /\ tally \in TallyType
  BY DEF Swap, Searching, Swappable, Frozen, Inv, TypeOK
<1>picked. PICK a \in RowsOf(rows, l), b \in RowsOf(rows, m), a2 \in Row, b2 \in Row :
        TradeSlots(a, b, a2, b2)
  BY SwapInv
<1>2. /\ SwapFits(a, b) /\ SwapFits(b, a)
      /\ MovedTo(a2, a, b.slot) /\ MovedTo(b2, b, a.slot)
      /\ rows' = (rows \ {a, b}) \cup {a2, b2}
      /\ (rows \ {a, b}) \cap {a2, b2} = {}
      /\ tally' =
           MoreLessons(FewerLessons(
             MoreLessons(FewerLessons(
               Recount(tally, {a, b}, {a2, b2}), {{a}}, 1), {{a2}}, 1),
             {{b}}, 1), {{b2}}, 1)
  BY ONLY <1>picked DEF TradeSlots
<1>3. /\ a \in rows /\ b \in rows /\ a \in Row /\ b \in Row /\ a # b
      /\ a.lesson = l /\ b.lesson = m
      /\ a2.lesson = l /\ b2.lesson = m /\ a2.slot = b.slot /\ b2.slot = a.slot /\ a2 # b2
  BY <1>1, <1>2 DEF RowsOf, MovedTo
<1> DEFINE c0 == Recount(tally, {a, b}, {a2, b2})
           c1 == MoreLessons(FewerLessons(c0, {{a}}, 1), {{a2}}, 1)
<1>4. c0 \in TallyType /\ c0.lessonsOn = tally.lessonsOn
  <2>1. /\ CountOut(tally, {a, b}) \in TallyType
        /\ CountOut(tally, {a, b}).lessonsOn = tally.lessonsOn
        /\ {a2, b2} \in SUBSET Row
    BY <1>1, <1>3, CountType, LessonsUntouched
  <2> QED
    BY <2>1, CountType, LessonsUntouched DEF Recount
<1> HIDE DEF c0
<1>5. ASSUME NEW x \in Classes \X Days
      PROVE  /\ c1 \in TallyType
             /\ c0.lessonsOn[x] + Hit(a2, x) <= c1.lessonsOn[x] + Hit(a, x)
             /\ c0.lessonsOn[x] \in Nat /\ c1.lessonsOn[x] \in Nat
             /\ Hit(a2, x) \in {0, 1} /\ Hit(a, x) \in {0, 1}
  BY <1>2, <1>3, <1>4, BlockMoved
<1>6. tally' = MoreLessons(FewerLessons(c1, {{b}}, 1), {{b2}}, 1)
  BY <1>2 DEF c0
<1> HIDE DEF c1
<1>7. ASSUME NEW x \in Classes \X Days
      PROVE  /\ tally.lessonsOn[x] + (Hit(a2, x) + Hit(b2, x))
                  <= tally'.lessonsOn[x] + (Hit(a, x) + Hit(b, x))
             /\ tally.lessonsOn[x] \in Nat
             /\ Hit(a2, x) \in {0, 1} /\ Hit(a, x) \in {0, 1}
             /\ Hit(b2, x) \in {0, 1} /\ Hit(b, x) \in {0, 1}
  <2>1. /\ c1 \in TallyType
        /\ tally.lessonsOn[x] + Hit(a2, x) <= c1.lessonsOn[x] + Hit(a, x)
        /\ tally.lessonsOn[x] \in Nat /\ c1.lessonsOn[x] \in Nat
        /\ Hit(a2, x) \in {0, 1} /\ Hit(a, x) \in {0, 1}
    BY <1>4, <1>5
  <2>2. /\ c1.lessonsOn[x] + Hit(b2, x) <= tally'.lessonsOn[x] + Hit(b, x)
        /\ tally'.lessonsOn[x] \in Nat /\ Hit(b2, x) \in {0, 1} /\ Hit(b, x) \in {0, 1}
    <3>1. c1 \in TallyType /\ b \in Row /\ b2 \in Row
      BY <1>2, <1>3, <2>1
    <3> DEFINE d == MoreLessons(FewerLessons(c1, {{b}}, 1), {{b2}}, 1)
    <3>2. /\ c1.lessonsOn[x] + Hit(b2, x) <= d.lessonsOn[x] + Hit(b, x)
          /\ d.lessonsOn[x] \in Nat /\ Hit(b2, x) \in {0, 1} /\ Hit(b, x) \in {0, 1}
      BY ONLY x \in Classes \X Days, <3>1, BlockMoved
    <3> HIDE DEF d
    <3> QED
      BY ONLY <1>6, <3>2 DEF d
  <2> QED
    BY ONLY <2>1, <2>2
<1>8. ASSUME NEW x \in Classes \X Days
      PROVE  /\ tally.lessonsOn[x] + HoursAt({a2, b2}, x)
                  <= tally'.lessonsOn[x] + HoursAt({a, b}, x)
             /\ Attended({a2, b2}, x) # {} => MoveFits({a, b}, {a2, b2}, x)
  <2>1. /\ HoursAt({a2, b2}, x) = Hit(a2, x) + Hit(b2, x)
        /\ HoursAt({a, b}, x) = Hit(a, x) + Hit(b, x)
    BY <1>2, <1>3, HoursOfTwo
  <2>2. /\ tally.lessonsOn[x] + (Hit(a2, x) + Hit(b2, x))
             <= tally'.lessonsOn[x] + (Hit(a, x) + Hit(b, x))
        /\ tally.lessonsOn[x] \in Nat
        /\ Hit(a2, x) \in {0, 1} /\ Hit(a, x) \in {0, 1}
        /\ Hit(b2, x) \in {0, 1} /\ Hit(b, x) \in {0, 1}
    BY <1>7
  <2>3. /\ Hit(a, x) = 1 => a \in Attended({a, b}, x)
        /\ Hit(b, x) = 1 => b \in Attended({a, b}, x)
        /\ a.lesson \notin Pinned /\ b.lesson \notin Pinned
    BY <1>1, <1>3 DEF Hit, Attended
  <2>4. ASSUME Attended({a2, b2}, x) # {} PROVE MoveFits({a, b}, {a2, b2}, x)
    <3>1. Hit(a2, x) = 1 \/ Hit(b2, x) = 1
      BY <2>4 DEF Attended, Hit
    <3>2. CASE Day(a.slot) = Day(b.slot)
      <4>1. Hit(a2, x) = Hit(a, x) /\ Hit(b2, x) = Hit(b, x)
        BY <1>3, <3>2 DEF Hit
      <4>2. \E r \in Attended({a, b}, x) : r.lesson \notin Pinned
        BY <2>3, <3>1, <4>1
      <4>3. HoursAt({a2, b2}, x) <= HoursAt({a, b}, x)
        BY <2>1, <2>2, <4>1
      <4> QED
        BY <4>2, <4>3 DEF MoveFits
    <3>3. CASE Day(a.slot) # Day(b.slot)
      <4>1. /\ Hit(a2, x) = 1 => Hit(b2, x) = 0 /\ Hit(a, x) = 0
            /\ Hit(b2, x) = 1 => Hit(a2, x) = 0 /\ Hit(b, x) = 0
        BY <1>3, <3>3 DEF Hit
      <4>2. /\ Hit(a2, x) = 1 => Hit(b, x) = 1 \/ tally.lessonsOn[x] + 1 <= ClassCap[x[1]]
            /\ Hit(b2, x) = 1 => Hit(a, x) = 1 \/ tally.lessonsOn[x] + 1 <= ClassCap[x[1]]
        BY <1>2, <3>3, SwapSideHours
      <4>3. ClassCap[x[1]] \in Nat
        BY ProblemAssumption
      <4>4. CASE Hit(a2, x) = 1 /\ Hit(b, x) = 1
        <5>1. \E r \in Attended({a, b}, x) : r.lesson \notin Pinned
          BY <2>3, <4>4
        <5>2. HoursAt({a2, b2}, x) <= HoursAt({a, b}, x)
          BY <2>1, <2>2, <4>1, <4>4
        <5> QED
          BY <5>1, <5>2 DEF MoveFits
      <4>5. CASE Hit(b2, x) = 1 /\ Hit(a, x) = 1
        <5>1. \E r \in Attended({a, b}, x) : r.lesson \notin Pinned
          BY <2>3, <4>5
        <5>2. HoursAt({a2, b2}, x) <= HoursAt({a, b}, x)
          BY <2>1, <2>2, <4>1, <4>5
        <5> QED
          BY <5>1, <5>2 DEF MoveFits
      <4>6. CASE tally.lessonsOn[x] + 1 <= ClassCap[x[1]]
        BY <2>1, <2>2, <3>1, <4>1, <4>3, <4>6 DEF MoveFits
      <4> QED
        BY <3>1, <4>2, <4>4, <4>5, <4>6
    <3> QED
      BY <3>2, <3>3
  <2> QED
    BY <2>1, <2>2, <2>4
<1>9. {a, b} \in SUBSET rows /\ {a2, b2} \in SUBSET Row
  BY <1>2, <1>3
<1> QED
  BY <1>1, <1>2, <1>8, <1>9, MoveHours

\* A row that changes rooms is the same hour of the same classes.
LEMMA SameHit ==
  ASSUME NEW p, NEW p2, NEW room, MovedIn(p2, p, room), NEW x
  PROVE  /\ Hit(p2, x) = Hit(p, x) /\ Hit(p, x) \in {0, 1}
         /\ Attended({p2}, x) # {} => p \in Attended({p}, x)
BY DEF MovedIn, Hit, Attended

\* Home-room repair leaves the days of the classes as they are.
LEMMA RepairHours ==
  ASSUME OneHourBlocks, Inv, TypeOK', NEW l \in Lessons, HomeRoomRepair(l),
         HoursCovered(rows, tally), ClassHours(rows)
  PROVE  HoursCovered(rows', tally') /\ ClassHours(rows')
<1>picked. PICK p \in RowsOf(rows, l), home \in Rooms : Rehousing(l, p, home)
  BY RepairRehouses
<1>1. \/ /\ rows' = (rows \ {p}) \cup {[p EXCEPT !.room = home]}
         /\ tally' = RelockRoom(tally, p, home)
      \/ \E q \in rows \ {p} :
           /\ q.slot = p.slot
           /\ q.lesson \notin Frozen
           /\ rows' = (rows \ {p, q}) \cup {[p EXCEPT !.room = home],
                                            [q EXCEPT !.room = p.room]}
           /\ tally' = RelockRoom(RelockRoom(tally, p, home), q, p.room)
  BY ONLY <1>picked DEF Rehousing
<1>2. /\ l \notin Pinned /\ TypeOK /\ rows \in SUBSET Row /\ tally \in TallyType /\ Orderly(rows)
  BY DEF HomeRoomRepair, Searching, Frozen, Inv, TypeOK
<1>3. p \in rows /\ p \in Row /\ p.lesson = l
  BY <1>2 DEF RowsOf
<1> DEFINE p2 == [p EXCEPT !.room = home]
<1>4. p2 \in Row /\ MovedIn(p2, p, home)
  BY <1>3 DEF Row, MovedIn
<1> HIDE DEF p2
<1>5. p2 \notin rows \ {p} /\ p2.lesson = p.lesson
  BY <1>2, <1>3, <1>4, NewRoomNewRow
<1>6. ASSUME NEW x \in Classes \X Days
      PROVE  /\ Hit(p2, x) = Hit(p, x) /\ Hit(p, x) \in {0, 1} /\ tally.lessonsOn[x] \in Nat
             /\ Attended({p2}, x) # {} => p \in Attended({p}, x)
  <2>1. tally.lessonsOn[x] \in Nat
    BY <1>2, LessonFields
  <2> QED
    BY ONLY <1>4, <2>1, SameHit
<1>7. CASE rows' = (rows \ {p}) \cup {p2} /\ tally' = RelockRoom(tally, p, home)
  <2>1. tally'.lessonsOn = tally.lessonsOn
    BY <1>2, <1>7, LessonsUntouched
  <2>2. ASSUME NEW x \in Classes \X Days
        PROVE  /\ tally.lessonsOn[x] + HoursAt({p2}, x) <= tally'.lessonsOn[x] + HoursAt({p}, x)
               /\ Attended({p2}, x) # {} => MoveFits({p}, {p2}, x)
    <3>1. HoursAt({p2}, x) = Hit(p2, x) /\ HoursAt({p}, x) = Hit(p, x)
      BY HoursOfOne
    <3>2. HoursAt({p2}, x) = HoursAt({p}, x) /\ HoursAt({p}, x) \in Nat
          /\ tally.lessonsOn[x] \in Nat
      BY <1>6, <3>1
    <3>3. Attended({p2}, x) # {} => \E r \in Attended({p}, x) : r.lesson \notin Pinned
      BY <1>2, <1>3, <1>6
    <3>4. HoursAt({p2}, x) <= HoursAt({p}, x)
      BY <3>2
    <3>5. tally.lessonsOn[x] + HoursAt({p2}, x) <= tally'.lessonsOn[x] + HoursAt({p}, x)
      BY <2>1, <3>2
    <3> QED
      BY <3>3, <3>4, <3>5 DEF MoveFits
  <2>3. /\ {p} \in SUBSET rows /\ {p2} \in SUBSET Row
        /\ rows' = (rows \ {p}) \cup {p2} /\ (rows \ {p}) \cap {p2} = {}
    BY <1>3, <1>4, <1>5, <1>7
  <2> QED
    BY <1>2, <2>2, <2>3, MoveHours
<1>8. ASSUME NEW q \in rows \ {p}, q.slot = p.slot, q.lesson \notin Frozen,
             rows' = (rows \ {p, q}) \cup {p2, [q EXCEPT !.room = p.room]},
             tally' = RelockRoom(RelockRoom(tally, p, home), q, p.room)
      PROVE  HoursCovered(rows', tally') /\ ClassHours(rows')
  <2> DEFINE q2 == [q EXCEPT !.room = p.room]
  <2>1. q2 \in Row /\ MovedIn(q2, q, p.room) /\ q \in rows /\ q \in Row /\ p # q
        /\ q.lesson \notin Pinned
    BY <1>2, <1>3, <1>8 DEF Row, MovedIn, Frozen
  <2>2. rows' = (rows \ {p, q}) \cup {p2, q2}
    BY <1>8
  <2> HIDE DEF q2
  <2>3. q2 \notin rows \ {q} /\ q2.lesson = q.lesson
    BY <1>2, <2>1, NewRoomNewRow
  <2>4. p.lesson # q.lesson
    BY <1>2, <1>3, <1>8, <2>1, SameLessonClashes DEF Orderly
  <2>5. /\ {p, q} \in SUBSET rows /\ {p2, q2} \in SUBSET Row
        /\ (rows \ {p, q}) \cap {p2, q2} = {} /\ p2 # q2
    BY <1>3, <1>4, <1>5, <2>1, <2>3, <2>4
  <2> DEFINE b == RelockRoom(tally, p, home)
  <2>6. b \in TallyType /\ b.lessonsOn = tally.lessonsOn
    BY <1>2, <1>3, LocksType, LessonsUntouched
  <2>7. tally' = RelockRoom(b, q, p.room)
    BY <1>8
  <2> HIDE DEF b
  <2>8. tally'.lessonsOn = tally.lessonsOn
    BY <2>6, <2>7, LessonsUntouched
  <2>9. ASSUME NEW x \in Classes \X Days
        PROVE  /\ tally.lessonsOn[x] + HoursAt({p2, q2}, x)
                    <= tally'.lessonsOn[x] + HoursAt({p, q}, x)
               /\ Attended({p2, q2}, x) # {} => MoveFits({p, q}, {p2, q2}, x)
    <3>1. /\ HoursAt({p2, q2}, x) = Hit(p2, x) + Hit(q2, x)
          /\ HoursAt({p, q}, x) = Hit(p, x) + Hit(q, x)
      BY <1>3, <1>4, <2>1, <2>5, HoursOfTwo
    <3>2. /\ Hit(q2, x) = Hit(q, x) /\ Hit(q, x) \in {0, 1}
          /\ Attended({q2}, x) # {} => q \in Attended({q}, x)
      BY <2>1, SameHit
    <3>3. HoursAt({p2, q2}, x) = HoursAt({p, q}, x) /\ HoursAt({p, q}, x) \in Nat
          /\ tally.lessonsOn[x] \in Nat
      BY <1>6, <3>1, <3>2
    <3>4. Attended({p2, q2}, x) # {} => \E r \in Attended({p, q}, x) : r.lesson \notin Pinned
      <4>1. Attended({p2, q2}, x) = Attended({p2}, x) \cup Attended({q2}, x)
            /\ Attended({p, q}, x) = Attended({p}, x) \cup Attended({q}, x)
        BY DEF Attended
      <4> QED
        BY <1>2, <1>3, <1>6, <2>1, <3>2, <4>1
    <3>5. HoursAt({p2, q2}, x) <= HoursAt({p, q}, x)
      BY <3>3
    <3>6. tally.lessonsOn[x] + HoursAt({p2, q2}, x) <= tally'.lessonsOn[x] + HoursAt({p, q}, x)
      BY <2>8, <3>3
    <3> QED
      BY <3>4, <3>5, <3>6 DEF MoveFits
  <2> QED
    BY <1>2, <2>2, <2>5, <2>9, MoveHours
<1> QED
  BY <1>1, <1>7, <1>8 DEF p2

\* An iteration that ends with such a schedule keeps the invariant.
LEMMA SearchClassInv ==
  ASSUME ClassInv, phase # "ffd", phase' \in {"search", "ruin"},
         best' = best \/ EndIteration(rows'),
         HoursCovered(rows', tally'), ClassHours(rows')
  PROVE  ClassInv'
<1>1. best' = best \/ best' = rows'
  BY DEF EndIteration
<1>2. ClassHours(best')
  BY <1>1 DEF ClassInv
<1>3. phase' # "ffd" /\ phase' # "recreate" /\ phase' # "rescue" /\ phase' # "done"
  OBVIOUS
<1> QED
  BY <1>2, <1>3 DEF ClassInv

\* Moves of the local search.
LEMMA MoveClassInv ==
  ASSUME OneHourBlocks, Inv, ClassInv, TypeOK', NEW l \in Lessons,
         \/ Change(l) \/ HomeRoomRepair(l)
         \/ \E m \in Lessons : Swap(l, m)
  PROVE  ClassInv'
<1>1. phase = "search" /\ phase' = "search" /\ EndIteration(rows')
  <2>1. CASE Change(l)
    BY <2>1 DEF Change, Searching
  <2>2. CASE HomeRoomRepair(l)
    BY <2>2 DEF HomeRoomRepair, Searching
  <2>3. CASE \E m \in Lessons : Swap(l, m)
    BY <2>3 DEF Swap, Searching
  <2> QED
    BY <2>1, <2>2, <2>3
<1>2. HoursCovered(rows, tally) /\ ClassHours(rows)
  BY <1>1 DEF ClassInv
<1>3. HoursCovered(rows', tally') /\ ClassHours(rows')
  BY <1>2, ChangeHours, RepairHours, SwapHours
<1> QED
  BY <1>1, <1>3, SearchClassInv

\* The greedy loop.
LEMMA FfdPlaceClassInv ==
  ASSUME OneHourBlocks, Inv, ClassInv, NEW l \in Lessons, FfdPlace(l)
  PROVE  ClassInv'
<1>1. TypeOK /\ phase = "ffd" /\ phase' = "ffd" /\ Orderly(rows) /\ Mirrored(rows, used, tally)
  BY DEF FfdPlace, FfdTurn, Inv
<1>2. PICK s \in Slots, room \in Rooms, t \in Teachers : Place(l, s, room, t)
  BY DEF FfdPlace
<1> DEFINE B == Block(l, s, room, t)
<1>3. B \in SUBSET Row /\ rows \cap B = {}
  BY <1>1, <1>2, PlaceKeeps, PlaceType DEF Place, CanPlace, TypeOK
<1>4. HoursCovered(rows', tally') /\ ClassHours(rows')
  <2>1. HoursCovered(rows, tally) /\ ClassHours(rows)
    BY <1>1 DEF ClassInv
  <2> QED
    BY <1>1, <1>2, <1>3, <2>1, PlaceHours
<1> QED
  BY <1>1, <1>4 DEF ClassInv

\* Steps that leave rows, counters and what an undo goes back to alone.
LEMMA RestClassInv ==
  ASSUME ClassInv, UNCHANGED <<phase, rows, tally, best>>,
         Base' = Base, Restores' = Restores
  PROVE  ClassInv'
BY DEF ClassInv

\* The greedy loop gives up a block, or a rebuild does.
LEMMA MissClassInv ==
  ASSUME Inv, ClassInv, NEW l \in Lessons, FfdMiss(l) \/ RebuildMiss(l)
  PROVE  ClassInv'
<1>1. UNCHANGED <<phase, rows, tally, best>>
  BY DEF FfdMiss, RebuildMiss
<1>2. /\ attempt'.added = attempt.added /\ attempt'.ruined = attempt.ruined
      /\ attempt'.heads = attempt.heads
  <2>1. attempt \in AttemptType
    BY DEF Inv, TypeOK
  <2> QED
    BY <2>1 DEF FfdMiss, RebuildMiss, AttemptType
<1>3. Base' = Base /\ Restores' = Restores
  BY <1>1, <1>2 DEF Base, Restores
<1> QED
  BY <1>1, <1>3, RestClassInv

\* The greedy loop hands over, nothing is ruined, a rebuilt schedule is kept,
\* the running best is returned.
LEMMA HandedClassInv ==
  ASSUME ClassInv, FfdEnd \/ NothingToRuin \/ Keep \/ Finish
  PROVE  ClassInv'
<1>1. CASE FfdEnd
  BY <1>1 DEF FfdEnd, ClassInv
<1>2. CASE NothingToRuin \/ Keep
  <2>1. /\ phase # "ffd" /\ phase # "done" /\ phase' = "search"
        /\ EndIteration(rows) /\ UNCHANGED <<rows, tally>>
    BY <1>2 DEF NothingToRuin, Keep, Rebuilt
  <2>2. EndIteration(rows') /\ HoursCovered(rows', tally') /\ ClassHours(rows')
    BY <2>1 DEF ClassInv, EndIteration
  <2> QED
    BY <2>1, <2>2, SearchClassInv
<1>3. CASE Finish
  BY <1>3 DEF Finish, ClassInv
<1> QED
  BY <1>1, <1>2, <1>3

\* A ruin takes out at least as many hours as it discounts lessons.
LEMMA RuinedClassInv ==
  ASSUME Inv, ClassInv, TypeOK', phase \in {"search", "ruin"}, phase' \in {"rescue", "recreate"},
         NEW R \in SUBSET rows, TakeOut(R),
         attempt'.ruined = R, attempt'.added = {}, attempt'.heads = {},
         UNCHANGED best
  PROVE  ClassInv'
<1>1. /\ rows \in SUBSET Row /\ R \in SUBSET Row /\ tally \in TallyType /\ rows' = rows \ R
      /\ tally' = ForgetLocks(FewerLessons(CountOut(tally, R), BlocksOf(R), 1), rows \ R)
      /\ ClassHours(rows) /\ HoursCovered(rows, tally) /\ ClassHours(best)
  BY DEF Inv, TypeOK, TakeOut, ClassInv
<1>2. BlocksOf(R) \in SUBSET SUBSET Row
  BY <1>1 DEF BlocksOf, RowsOfOn
<1>3. ASSUME NEW x \in Classes \X Days
      PROVE  tally'.lessonsOn[x] = SatSub(tally.lessonsOn[x], BlocksAt(BlocksOf(R), x))
  <2> DEFINE c0 == CountOut(tally, R)
             c1 == FewerLessons(c0, BlocksOf(R), 1)
  <2>1. c0 \in TallyType /\ c0.lessonsOn = tally.lessonsOn
    BY <1>1, CountType, LessonsUntouched
  <2>2. c1 \in TallyType
    BY <1>2, <2>1, LessonsType
  <2>3. c1.lessonsOn[x] = SatSub(c0.lessonsOn[x], 1 * BlocksAt(BlocksOf(R), x))
    BY <2>1, LessonFields
  <2>4. tally' = ForgetLocks(c1, rows \ R)
    BY <1>1
  <2> HIDE DEF c0, c1
  <2>5. tally'.lessonsOn = c1.lessonsOn
    BY <2>2, <2>4, LessonsUntouched
  <2>6. 1 * BlocksAt(BlocksOf(R), x) = BlocksAt(BlocksOf(R), x)
    <3>1. BlocksAt(BlocksOf(R), x) \in Nat
      BY <1>2, OneMoreBlockAt
    <3> QED
      BY <3>1
  <2> QED
    BY <2>1, <2>3, <2>5, <2>6
<1>4. ASSUME NEW x \in Classes \X Days
      PROVE  /\ HoursAt(rows', x) <= tally'.lessonsOn[x]
             /\ HoursAt(rows, x) <= tally'.lessonsOn[x] + BlocksAt(BlocksOf(R), x)
  <2>1. /\ HoursAt(rows, x) = HoursAt(rows \ R, x) + HoursAt(R, x)
        /\ HoursAt(rows \ R, x) \in Nat /\ HoursAt(R, x) \in Nat
    <3>1. rows \in SUBSET Row /\ R \in SUBSET rows
      BY <1>1
    <3> QED
      BY ONLY <3>1, HoursLeft
  <2>2. BlocksAt(BlocksOf(R), x) <= HoursAt(R, x) /\ BlocksAt(BlocksOf(R), x) \in Nat
    BY <1>1, <1>2, BlocksWithin, OneMoreBlockAt
  <2>3. tally.lessonsOn[x] \in Nat /\ HoursAt(rows, x) <= tally.lessonsOn[x]
    BY <1>1, LessonFields DEF HoursCovered
  <2> DEFINE v == tally.lessonsOn[x]
             k == BlocksAt(BlocksOf(R), x)
             w == tally'.lessonsOn[x]
  <2>4. w = SatSub(v, k)
    BY <1>3
  <2>5. w \in Nat /\ v - k <= w
    BY <2>2, <2>3, <2>4, SatSubMost
  <2>6. HoursAt(rows', x) = HoursAt(rows \ R, x)
    BY <1>1
  <2> HIDE DEF v, k, w
  <2>7. HoursAt(rows, x) <= v /\ k <= HoursAt(R, x) /\ k \in Nat /\ v \in Nat
    BY <2>2, <2>3 DEF v, k
  <2>8. HoursAt(rows', x) <= w /\ HoursAt(rows, x) <= w + k
    BY <2>1, <2>5, <2>6, <2>7
  <2> QED
    BY <2>8 DEF w, k
<1>5. HoursCovered(rows', tally')
  BY <1>4 DEF HoursCovered
<1>6. ClassHours(rows')
  BY <1>1, PartClassHours
<1>7. Base' = rows
  <2>1. UNION attempt'.added = {}
    OBVIOUS
  <2> QED
    BY <1>1, <2>1 DEF Base
<1>8. ClassHours(Base)' /\ Restores'
  <2>1. ClassHours(Base)'
    BY <1>1, <1>7
  <2>2. ASSUME NEW x \in Classes \X Days
        PROVE  HoursAt(Base', x) + BlocksAt(attempt'.heads, x)
                 <= tally'.lessonsOn[x] + BlocksAt(BlocksOf(attempt'.ruined), x)
    <3>1. BlocksAt({}, x) = 0
      <4>1. {B \in {} : \E r \in B : x[1] \in ClassesOf[r.lesson] /\ Day(r.slot) = x[2]} = {}
        OBVIOUS
      <4> QED
        BY <4>1, FS_EmptySet DEF BlocksAt
    <3>2. HoursAt(rows, x) \in Nat
      BY <1>1, HoursLeft
    <3>3. HoursAt(rows, x) + 0 <= tally'.lessonsOn[x] + BlocksAt(BlocksOf(R), x)
      BY <1>4, <3>2
    <3> QED
      BY <1>7, <3>1, <3>3
  <2> QED
    BY <2>1, <2>2 DEF Restores
<1>9. phase' # "ffd" /\ phase' # "done"
  OBVIOUS
<1> QED
  BY <1>1, <1>5, <1>6, <1>8, <1>9 DEF ClassInv

\* A rescue or a ruin-and-recreate starts.
LEMMA StartClassInv ==
  ASSUME Inv, ClassInv, TypeOK', Ruin \/ \E l \in Lessons : Rescue(l)
  PROVE  ClassInv'
<1>1. PICK R : Uproots(R)
  BY StartUproots
<1>2. /\ R \in SUBSET rows /\ TakeOut(R)
      /\ attempt'.ruined = R /\ attempt'.added = {} /\ attempt'.heads = {}
  BY ONLY <1>1 DEF Uproots
<1>3. phase \in {"search", "ruin"} /\ phase' \in {"rescue", "recreate"} /\ UNCHANGED best
  BY StartUproots
<1> QED
  BY <1>2, <1>3, RuinedClassInv

\* A rebuilt hour was counted, whether or not an undo will discount it.
LEMMA RebuildPlaceClassInv ==
  ASSUME OneHourBlocks, Inv, ClassInv, TypeOK', NEW l \in Lessons, RebuildPlace(l)
  PROVE  ClassInv'
<1>1. PICK s \in Slots, room \in Rooms, t \in Teachers :
        /\ Place(l, s, room, t)
        /\ attempt' = [attempt EXCEPT
             !.todo = Tail(@),
             !.added = @ \cup {Block(l, s, room, t)},
             !.heads = IF HeadsGroup(l) THEN @ \cup {Block(l, s, room, t)} ELSE @,
             !.failed = @ \/ Collides(l, Day(s))]
  BY DEF RebuildPlace
<1> DEFINE B == Block(l, s, room, t)
<1>2. /\ phase \in {"rescue", "recreate"} /\ UNCHANGED <<phase, best>>
      /\ TypeOK /\ Orderly(rows) /\ Mirrored(rows, used, tally)
      /\ attempt \in AttemptType
  BY DEF RebuildPlace, Rebuilding, Inv, TypeOK
<1>3. B \in SUBSET Row /\ rows \cap B = {}
  BY <1>1, <1>2, PlaceKeeps, PlaceType DEF Place, CanPlace, TypeOK
<1>4. /\ HoursCovered(rows', tally') /\ ClassHours(rows')
      /\ \A x \in Classes \X Days :
           tally'.lessonsOn[x] = tally.lessonsOn[x] + BlocksAt({B}, x)
  <2>1. HoursCovered(rows, tally) /\ ClassHours(rows)
    BY <1>2 DEF ClassInv
  <2> QED
    BY <1>1, <1>2, <1>3, <2>1, PlaceHours
<1> HIDE DEF B
<1>5. /\ attempt'.ruined = attempt.ruined
      /\ attempt'.heads = attempt.heads \/ attempt'.heads = attempt.heads \cup {B}
  BY <1>1, <1>2 DEF AttemptType, B
<1>6. Base' = Base /\ attempt.heads \in SUBSET SUBSET Row
  BY <1>2, RebuildPlaceInv DEF AttemptType
<1>7. ASSUME NEW x \in Classes \X Days
      PROVE  HoursAt(Base', x) + BlocksAt(attempt'.heads, x)
               <= tally'.lessonsOn[x] + BlocksAt(BlocksOf(attempt'.ruined), x)
  <2>1. /\ BlocksAt(attempt.heads \cup {B}, x) <= BlocksAt(attempt.heads, x) + BlocksAt({B}, x)
        /\ BlocksAt(attempt.heads, x) \in Nat /\ BlocksAt({B}, x) \in Nat
        /\ BlocksAt(attempt.heads \cup {B}, x) \in Nat
    BY <1>3, <1>6, OneMoreBlockAt
  <2>2. HoursAt(Base, x) + BlocksAt(attempt.heads, x)
          <= tally.lessonsOn[x] + BlocksAt(BlocksOf(attempt.ruined), x)
    BY <1>2 DEF ClassInv, Restores
  <2>3. BlocksAt(attempt'.heads, x) <= BlocksAt(attempt.heads, x) + BlocksAt({B}, x)
        /\ BlocksAt(attempt'.heads, x) \in Nat
    <3>1. CASE attempt'.heads = attempt.heads
      <4>1. BlocksAt(attempt.heads, x) <= BlocksAt(attempt.heads, x) + BlocksAt({B}, x)
        BY <2>1
      <4> QED
        BY <2>1, <3>1, <4>1
    <3>2. CASE attempt'.heads = attempt.heads \cup {B}
      BY <2>1, <3>2
    <3> QED
      BY <1>5, <3>1, <3>2
  <2>4. tally.lessonsOn[x] \in Nat /\ HoursAt(Base, x) \in Nat
        /\ BlocksAt(BlocksOf(attempt.ruined), x) \in Nat
    <3>1. Base \in SUBSET Row /\ BlocksOf(attempt.ruined) \in SUBSET SUBSET Row
          /\ tally \in TallyType
      BY <1>2 DEF Base, BlocksOf, RowsOfOn, AttemptType, TypeOK
    <3>2. HoursAt(Base, x) \in Nat
      BY <3>1, HoursLeft
    <3>3. BlocksAt(BlocksOf(attempt.ruined), x) \in Nat
      BY <3>1, OneMoreBlockAt
    <3>4. tally.lessonsOn[x] \in Nat
      BY <3>1, LessonFields
    <3> QED
      BY <3>2, <3>3, <3>4
  <2>5. tally'.lessonsOn[x] = tally.lessonsOn[x] + BlocksAt({B}, x)
    BY <1>4
  <2>6. HoursAt(Base, x) + BlocksAt(attempt'.heads, x)
          <= tally'.lessonsOn[x] + BlocksAt(BlocksOf(attempt.ruined), x)
    BY <2>1, <2>2, <2>3, <2>4, <2>5
  <2> QED
    BY <1>5, <1>6, <2>6
<1>8. Restores' /\ ClassHours(Base)' /\ ClassHours(best)'
  <2>1. Restores'
    BY <1>7 DEF Restores
  <2>2. ClassHours(Base) /\ ClassHours(best)
    BY <1>2 DEF ClassInv
  <2> QED
    BY <1>2, <1>6, <2>1, <2>2
<1>9. phase' # "done"
  BY <1>2
<1> QED
  BY <1>4, <1>8, <1>9 DEF ClassInv

\* An undo goes back to a schedule that kept the caps, and its counter claims
\* no less than the hours it then has.
LEMMA UndoClassInv ==
  ASSUME Inv, ClassInv, TypeOK', Undo
  PROVE  ClassInv'
<1> DEFINE R == UNION attempt.added
           N == attempt.ruined
           H == attempt.heads
           b0 == Recount(tally, R, N)
           b1 == FewerLessons(b0, H, 1)
           b2 == MoreLessons(b1, BlocksOf(N), 1)
<1>1. /\ phase \in {"rescue", "recreate"} /\ phase' \in {"search", "ruin"}
      /\ best' = best \/ EndIteration(rows')
      /\ tally' = [b2 EXCEPT !.teacherLock = attempt.locks]
  BY DEF Undo, Rebuilt
<1>2. rows' = Base
  BY UndoInv
<1>3. /\ TypeOK /\ ClassHours(Base) /\ Restores /\ UNION attempt.added \subseteq rows
  BY <1>1 DEF Inv, ClassInv, Rebuildable
<1>4. /\ tally \in TallyType /\ N \in SUBSET Row /\ H \in SUBSET SUBSET Row
      /\ R \in SUBSET Row /\ Base \in SUBSET Row
  BY <1>3 DEF TypeOK, AttemptType, Base
<1>5. BlocksOf(N) \in SUBSET SUBSET Row
  BY <1>4 DEF BlocksOf, RowsOfOn
<1> HIDE DEF R, N, H
<1>6. b0 \in TallyType /\ b0.lessonsOn = tally.lessonsOn
  <2>1. CountOut(tally, R) \in TallyType /\ CountOut(tally, R).lessonsOn = tally.lessonsOn
    BY <1>4, CountType, LessonsUntouched
  <2> QED
    BY <1>4, <2>1, CountType, LessonsUntouched DEF Recount
<1> HIDE DEF b0
<1>7. b1 \in TallyType
  BY <1>4, <1>6, LessonsType
<1>8. \A x \in Classes \X Days : b1.lessonsOn[x] = SatSub(tally.lessonsOn[x], 1 * BlocksAt(H, x))
  BY <1>6, LessonFields
<1> HIDE DEF b1
<1>9. b2 \in TallyType
  BY <1>5, <1>7, LessonsType
<1>10. \A x \in Classes \X Days :
         b2.lessonsOn[x] = b1.lessonsOn[x] + 1 * BlocksAt(BlocksOf(N), x)
  BY <1>7, LessonFields
<1> HIDE DEF b2
<1>11. tally'.lessonsOn = b2.lessonsOn
  BY <1>1, <1>9, LessonsUntouched
<1>12. ASSUME NEW x \in Classes \X Days
       PROVE  HoursAt(Base, x) <= tally'.lessonsOn[x]
  <2>1. BlocksAt(H, x) \in Nat /\ BlocksAt(BlocksOf(N), x) \in Nat
        /\ tally.lessonsOn[x] \in Nat /\ HoursAt(Base, x) \in Nat
    <3>1. BlocksAt(H, x) \in Nat
      BY <1>4, OneMoreBlockAt
    <3>2. BlocksAt(BlocksOf(N), x) \in Nat
      BY <1>5, OneMoreBlockAt
    <3>3. tally.lessonsOn[x] \in Nat
      BY <1>4, LessonFields
    <3>4. HoursAt(Base, x) \in Nat
      BY <1>4, HoursLeft
    <3> QED
      BY <3>1, <3>2, <3>3, <3>4
  <2>2. HoursAt(Base, x) + BlocksAt(H, x) <= tally.lessonsOn[x] + BlocksAt(BlocksOf(N), x)
    BY <1>3 DEF Restores, H, N
  <2>3. b1.lessonsOn[x] \in Nat /\ tally.lessonsOn[x] - BlocksAt(H, x) <= b1.lessonsOn[x]
    <3>1. 1 * BlocksAt(H, x) = BlocksAt(H, x)
      BY <2>1
    <3>2. b1.lessonsOn[x] = SatSub(tally.lessonsOn[x], BlocksAt(H, x))
      BY <1>8, <3>1
    <3> QED
      BY <2>1, <3>2, SatSubMost
  <2>4. tally'.lessonsOn[x] = b1.lessonsOn[x] + BlocksAt(BlocksOf(N), x)
    BY <1>10, <1>11, <2>1
  <2> QED
    BY ONLY <2>1, <2>2, <2>3, <2>4
<1>13. HoursCovered(rows', tally') /\ ClassHours(rows')
  BY <1>2, <1>3, <1>12 DEF HoursCovered
<1>14. phase # "ffd"
  BY <1>1
<1> QED
  BY <1>1, <1>13, <1>14, SearchClassInv

\* Every step keeps it.
LEMMA NextClassInv ==
  ASSUME OneHourBlocks
  PROVE  Inv /\ ClassInv /\ [Next]_vars => ClassInv'
<1> SUFFICES ASSUME Inv, ClassInv, [Next]_vars PROVE ClassInv'
  OBVIOUS
<1>1. TypeOK'
  BY NextType DEF Inv
<1>2. CASE UNCHANGED vars
  <2>1. UNCHANGED <<phase, rows, tally, best, attempt>>
    BY <1>2 DEF vars
  <2>2. Base' = Base /\ Restores' = Restores
    BY <2>1 DEF Base, Restores
  <2> QED
    BY <2>1, <2>2, RestClassInv
<1>3. CASE Next
  <2>1. CASE \E l \in Lessons : FfdPlace(l) \/ FfdMiss(l)
    BY <2>1, FfdPlaceClassInv, MissClassInv
  <2>2. CASE \/ \E l \in Lessons : Change(l) \/ HomeRoomRepair(l)
             \/ \E l, m \in Lessons : Swap(l, m)
    BY <1>1, <2>2, MoveClassInv
  <2>3. CASE \E l \in Lessons : Rescue(l) \/ RebuildPlace(l) \/ RebuildMiss(l)
    BY <1>1, <2>3, StartClassInv, RebuildPlaceClassInv, MissClassInv
  <2>4. CASE FfdEnd \/ Ruin \/ NothingToRuin \/ Keep \/ Undo \/ Finish
    BY <1>1, <2>4, HandedClassInv, StartClassInv, UndoClassInv
  <2> QED
    BY <1>3, <2>1, <2>2, <2>3, <2>4 DEF Next
<1> QED
  BY <1>2, <1>3

\* Where every block is one hour, counter and class caps hold throughout.
THEOREM ClassInvariance ==
  ASSUME OneHourBlocks
  PROVE  Spec => [](Inv /\ ClassInv)
<1>1. Inv /\ ClassInv /\ [Next]_vars => (Inv /\ ClassInv)'
  BY NextInv, NextClassInv
<1> QED
  BY <1>1, InitInv, InitClassInv, SpecLoose, PTL

\* A class has no more runs on a day than hours.
LEMMA RunsWithin ==
  ASSUME NEW R \in SUBSET Row, NEW c \in Classes, NEW d \in Days
  PROVE  /\ Cardinality(RunsOn(R, c, d)) <= HoursAt(R, <<c, d>>)
         /\ Cardinality(RunsOn(R, c, d)) \in Nat /\ HoursAt(R, <<c, d>>) \in Nat
<1>1. RunsOn(R, c, d) \subseteq Attended(R, <<c, d>>) /\ Attended(R, <<c, d>>) \in SUBSET Row
      /\ RunsOn(R, c, d) \in SUBSET Row
  BY DEF RunsOn, Attended
<1> QED
  BY <1>1, ScheduleFinite, FS_Subset DEF HoursAt

\* What the invariant says of the counter.
LEMMA CoveredRuns == Inv /\ ClassInv => LessonCounterCovers
<1> SUFFICES ASSUME Inv, ClassInv, phase # "done", NEW c \in Classes, NEW d \in Days
             PROVE  tally.lessonsOn[<<c, d>>] >= Cardinality(RunsOn(rows, c, d))
  BY DEF LessonCounterCovers
<1>1. rows \in SUBSET Row /\ tally \in TallyType /\ HoursCovered(rows, tally)
  BY DEF Inv, TypeOK, ClassInv
<1>2. /\ Cardinality(RunsOn(rows, c, d)) <= HoursAt(rows, <<c, d>>)
      /\ Cardinality(RunsOn(rows, c, d)) \in Nat /\ HoursAt(rows, <<c, d>>) \in Nat
  BY <1>1, RunsWithin
<1>3. HoursAt(rows, <<c, d>>) <= tally.lessonsOn[<<c, d>>] /\ tally.lessonsOn[<<c, d>>] \in Nat
  BY <1>1, LessonFields DEF HoursCovered
<1> QED
  BY <1>2, <1>3

\* And of the class caps.
LEMMA CappedRuns ==
  ASSUME Inv, ClassInv, ClassCaps(PinnedRows)
  PROVE  ReturnedRespectsClassCaps
<1> SUFFICES ASSUME NEW c \in Classes, NEW d \in Days
             PROVE  Cardinality(RunsOn(rows, c, d)) <= ClassCap[c]
  BY DEF ReturnedRespectsClassCaps, ClassCaps
<1>1. rows \in SUBSET Row /\ PinsIn(rows) /\ ClassHours(rows) /\ ClassCap[c] \in Nat
  BY ProblemAssumption DEF Inv, TypeOK, ClassInv
<1>2. /\ Cardinality(RunsOn(rows, c, d)) <= HoursAt(rows, <<c, d>>)
      /\ Cardinality(RunsOn(rows, c, d)) \in Nat /\ HoursAt(rows, <<c, d>>) \in Nat
  BY <1>1, RunsWithin
<1>3. CASE \E r \in Attended(rows, <<c, d>>) : r.lesson \notin Pinned
  <2>1. HoursAt(rows, <<c, d>>) <= ClassCap[c]
    BY <1>1, <1>3 DEF ClassHours
  <2> QED
    BY <1>1, <1>2, <2>1
<1>4. CASE \A r \in Attended(rows, <<c, d>>) : r.lesson \in Pinned
  <2>1. RunsOn(rows, c, d) \subseteq RunsOn(PinnedRows, c, d)
    BY <1>1, <1>4 DEF RunsOn, Attended, PinsIn
  <2>2. RunsOn(PinnedRows, c, d) \in SUBSET Row
    BY ProblemAssumption DEF RunsOn
  <2>3. /\ Cardinality(RunsOn(rows, c, d)) <= Cardinality(RunsOn(PinnedRows, c, d))
        /\ Cardinality(RunsOn(PinnedRows, c, d)) \in Nat
    BY <2>1, <2>2, ScheduleFinite, FS_Subset
  <2>4. Cardinality(RunsOn(PinnedRows, c, d)) <= ClassCap[c]
    BY DEF ClassCaps
  <2> QED
    BY <1>1, <1>2, <2>3, <2>4
<1> QED
  BY <1>3, <1>4

\* lessons_by_class_day never claims fewer lessons than the day has, where
\* every block is one hour.
THEOREM CounterCoversSingles ==
  ASSUME OneHourBlocks
  PROVE  Spec => []LessonCounterCovers
BY CoveredRuns, ClassInvariance, PTL

\* The returned schedule keeps every class under max_lessons_per_day, where
\* every block is one hour and the pins by themselves do.
THEOREM ClassCapsKeptSingles ==
  ASSUME OneHourBlocks, ClassCaps(PinnedRows)
  PROVE  Spec => []ReturnedRespectsClassCaps
<1>1. Inv /\ ClassInv => ReturnedRespectsClassCaps
  BY CappedRuns
<1> QED
  BY <1>1, ClassInvariance, PTL

-----------------------------------------------------------------------------
(* Travel time.                                                             *)

\* Nobody r meets is in slot x, a break aside.
Undisturbed(r, x, R) ==
    x \in Breaks \/ \A q \in R : q.slot = x /\ q.lesson # r.lesson =>
                       /\ q.teacher # r.teacher
                       /\ ClassesOf[q.lesson] \cap ClassesOf[r.lesson] = {}

\* A block that starts with r has its travel time among the rows R.
Travels(r, R) ==
    /\ r.lesson \in PreBuffer =>
         IF Pos(r.slot) = 0 THEN r.lesson \in FirstSlotOk
                            ELSE Undisturbed(r, SlotBefore(r.slot), R)
    /\ r.lesson \in PostBuffer =>
         /\ SlotAfter(r.lesson, r.slot) \in Slots \cup Breaks
         /\ Undisturbed(r, SlotAfter(r.lesson, r.slot), R)

\* The rows known to start a block: the first of a lesson's day, and every
\* hour of a lesson of single hours, pins aside.  A row that is not the first
\* may become so when another single hour moves away.
FirstOfDay(r, R) == \A q \in RowsOfOn(R, r.lesson, Day(r.slot)) : Pos(q.slot) >= Pos(r.slot)
Starts(R) == {r \in R : FirstOfDay(r, R) \/ (BlockSize[r.lesson] = 1 /\ r.lesson \notin Pinned)}

TravelKept(R) == \A r \in Starts(R) : Travels(r, R)

\* That is all the validator asks, and of pins it is no more.
LEMMA TravelAccepted ==
  ASSUME NEW R
  PROVE  /\ TravelKept(R) => TravelBuffers(R)
         /\ (\A r \in R : r.lesson \in Pinned) /\ TravelBuffers(R) => TravelKept(R)
BY DEF TravelKept, TravelBuffers, Starts, FirstOfDay, Travels, Undisturbed

\* Fewer rows disturb less.
LEMMA TravelsAmong ==
  ASSUME NEW r, NEW R, NEW S \in SUBSET R, Travels(r, R)
  PROVE  Travels(r, S)
BY DEF Travels, Undisturbed

\* Rows that go keep the travel time of the others, where they are single
\* hours or all that their lesson has on the day.
LEMMA LeftTravel ==
  ASSUME NEW R, NEW O \in SUBSET R, TravelKept(R),
         \A o \in O, r \in R \ O : o.lesson = r.lesson /\ Day(o.slot) = Day(r.slot) =>
           BlockSize[r.lesson] = 1 /\ r.lesson \notin Pinned
  PROVE  TravelKept(R \ O)
<1>1. ASSUME NEW r \in Starts(R \ O) PROVE Travels(r, R \ O)
  <2>1. r \in R \ O
    BY DEF Starts
  <2>2. r \in Starts(R)
    BY <2>1 DEF Starts, FirstOfDay, RowsOfOn
  <2> QED
    BY <2>2, TravelsAmong DEF TravelKept
<1> QED
  BY <1>1 DEF TravelKept

\* A block of l may start at s with teacher t: it is not in the way of the
\* rows R, nor they in its own.
Welcomes(R, l, s, t) ==
    /\ \A r \in R : /\ r.lesson # l
                    /\ r.teacher = t \/ ClassesOf[r.lesson] \cap ClassesOf[l] # {}
                    => /\ r.lesson \in PreBuffer =>
                            SlotBefore(r.slot) \notin Window(s, BlockSize[l])
                       /\ r.lesson \in PostBuffer =>
                            SlotAfter(r.lesson, r.slot) \notin Window(s, BlockSize[l])
    /\ \A r : r.lesson = l /\ r.slot = s /\ r.teacher = t => Travels(r, R)

LEMMA WelcomesAmong ==
  ASSUME NEW R, NEW S \in SUBSET R, NEW l, NEW s, NEW t, Welcomes(R, l, s, t)
  PROVE  Welcomes(S, l, s, t)
BY TravelsAmong DEF Welcomes

\* Then it and they have their travel time.
LEMMA AddedTravel ==
  ASSUME NEW R \in SUBSET Row, TravelKept(R), NEW l \in Lessons, NEW s \in Slots, NEW room, NEW t,
         Welcomes(R, l, s, t), Block(l, s, room, t) \in SUBSET Row
  PROVE  TravelKept(R \cup Block(l, s, room, t))
<1> DEFINE B == Block(l, s, room, t)
           n == BlockSize[l]
           W == Window(s, n)
<1>1. n \in Nat \ {0} /\ s \in Nat \X Nat /\ s = <<Day(s), Pos(s)>> /\ Pos(s) \in Nat
  BY BlockSizes, ProblemAssumption DEF Day, Pos
<1>2. \A b \in B : b.lesson = l /\ b.teacher = t /\ b.slot \in W /\ Day(b.slot) = Day(s)
  BY BlockRows
<1>3. PICK b0 \in B : b0.slot = s
  <2>1. s \in W
    <3>1. 0 \in 0..(n - 1) /\ Pos(s) + 0 = Pos(s)
      BY <1>1
    <3> QED
      BY <1>1, <3>1 DEF Window
  <2> DEFINE b == [lesson |-> l, slot |-> s, room |-> room, teacher |-> t]
  <2>2. b \in B
    BY <2>1 DEF Block
  <2>3. b.slot = s
    OBVIOUS
  <2> HIDE DEF b
  <2> QED
    BY <2>2, <2>3
<1>4. \A b \in B : Pos(b.slot) <= Pos(s) => b.slot = s
  <2> SUFFICES ASSUME NEW b \in B, Pos(b.slot) <= Pos(s) PROVE b.slot = s
    OBVIOUS
  <2>1. PICK k \in 0..(n - 1) : b.slot = <<Day(s), Pos(s) + k>>
    BY <1>2 DEF Window
  <2>2. Pos(b.slot) = Pos(s) + k
    BY <2>1 DEF Pos
  <2>3. k = 0
    BY <1>1, <2>2
  <2>4. Pos(s) + k = Pos(s)
    BY <1>1, <2>3
  <2> QED
    BY <1>1, <2>1, <2>4
<1>5. ASSUME n = 1 PROVE \A b \in B : b.slot = s
  <2> SUFFICES ASSUME NEW b \in B PROVE b.slot = s
    OBVIOUS
  <2>1. PICK k \in 0..(n - 1) : b.slot = <<Day(s), Pos(s) + k>>
    BY <1>2 DEF Window
  <2>2. Pos(b.slot) <= Pos(s)
    BY <1>1, <1>5, <2>1 DEF Pos
  <2> QED
    BY <1>4, <2>2
<1> HIDE DEF B, n, W
<1>6. ASSUME NEW r \in Starts(R \cup B), r \in B PROVE Travels(r, R \cup B)
  <2>1. r.slot = s
    <3>1. CASE FirstOfDay(r, R \cup B)
      <4>1. b0 \in RowsOfOn(R \cup B, r.lesson, Day(r.slot))
        BY <1>2, <1>3, <1>6 DEF RowsOfOn
      <4>2. Pos(s) >= Pos(r.slot) /\ Pos(s) \in Nat /\ Pos(r.slot) \in Int
        <5>1. r.slot \in Nat \X Nat
          BY <1>6, ProblemAssumption DEF B, Row
        <5> QED
          BY <1>1, <1>3, <3>1, <4>1, <5>1 DEF FirstOfDay, Pos
      <4> QED
        BY <1>4, <1>6, <4>2
    <3>2. CASE BlockSize[r.lesson] = 1
      BY <1>2, <1>5, <1>6, <3>2 DEF n
    <3> QED
      BY <3>1, <3>2 DEF Starts
  <2>2. Travels(r, R)
    BY <1>2, <1>6, <2>1 DEF Welcomes
  <2>3. \A q \in B : q.lesson = r.lesson
    BY <1>2, <1>6
  <2> QED
    BY <2>2, <2>3 DEF Travels, Undisturbed
<1>7. ASSUME NEW r \in Starts(R \cup B), r \notin B PROVE Travels(r, R \cup B)
  <2>1. r \in R /\ r \in Starts(R)
    BY <1>7 DEF Starts, FirstOfDay, RowsOfOn
  <2>2. Travels(r, R)
    BY <2>1 DEF TravelKept
  <2>3. ASSUME NEW q \in B, q.lesson # r.lesson,
               ~(q.teacher # r.teacher /\ ClassesOf[q.lesson] \cap ClassesOf[r.lesson] = {})
        PROVE  /\ r.lesson \in PreBuffer => SlotBefore(r.slot) # q.slot
               /\ r.lesson \in PostBuffer => SlotAfter(r.lesson, r.slot) # q.slot
    BY <1>2, <2>1, <2>3 DEF Welcomes, W, n
  <2> QED
    BY <2>2, <2>3 DEF Travels, Undisturbed
<1>8. \A r \in Starts(R \cup B) : Travels(r, R \cup B)
  BY <1>6, <1>7
<1> QED
  BY <1>8 DEF TravelKept, B

\* would_violate_travel_buffer is asked of all rows but those that leave.
LEMMA FitsWelcome ==
  ASSUME NEW O \in SUBSET rows, NEW l \in Lessons, NEW s \in Slots, NEW t,
         \A o \in O : o.lesson = l /\ o.teacher = t,
         NoDoubleBooking(rows), rows \in SUBSET Row,
         TravelFits(l, s, t, {o.slot : o \in O}), Window(s, BlockSize[l]) \subseteq Slots
  PROVE  Welcomes(rows \ O, l, s, t)
<1> DEFINE own == {o.slot : o \in O}
           W == Window(s, BlockSize[l])
           Meets(r) == r.teacher = t \/ ClassesOf[r.lesson] \cap ClassesOf[l] # {}
<1>1. W \ Breaks = W
  BY ProblemAssumption
<1>2. /\ \A r \in rows : r.lesson # l /\ r.slot \notin own /\ Meets(r) =>
             /\ r.lesson \in PreBuffer => SlotBefore(r.slot) \notin W
             /\ r.lesson \in PostBuffer => SlotAfter(r.lesson, r.slot) \notin W
      /\ l \in PreBuffer =>
           IF Pos(s) = 0 THEN l \in FirstSlotOk
           ELSE \/ SlotBefore(s) \in Breaks \cup own
                \/ \A r \in rows : r.slot = SlotBefore(s) => ~Meets(r)
      /\ l \in PostBuffer =>
           /\ SlotAfter(l, s) \in Slots \cup Breaks
           /\ \/ SlotAfter(l, s) \in Breaks \cup own
              \/ \A r \in rows : r.slot = SlotAfter(l, s) => ~Meets(r)
  BY <1>1 DEF TravelFits
<1>3. ASSUME NEW r \in rows \ O, r.slot \in own PROVE ~Meets(r)
  <2>1. PICK o \in O : o.slot = r.slot
    BY <1>3
  <2>2. r # o /\ ~Clash(r, o)
    BY <1>3, <2>1 DEF NoDoubleBooking
  <2> QED
    BY <2>1, <2>2 DEF Clash
<1>4. ASSUME NEW r \in rows \ O, r.lesson # l, Meets(r)
      PROVE  /\ r.lesson \in PreBuffer => SlotBefore(r.slot) \notin W
             /\ r.lesson \in PostBuffer => SlotAfter(r.lesson, r.slot) \notin W
  BY <1>2, <1>3, <1>4
<1>5. ASSUME NEW x, \/ x \in Breaks \cup own
                    \/ \A r \in rows : r.slot = x => ~Meets(r)
      PROVE  x \in Breaks \/ \A q \in rows \ O : q.slot = x => ~Meets(q)
  BY <1>3, <1>5
<1>6. ASSUME NEW r, r.lesson = l, r.slot = s, r.teacher = t PROVE Travels(r, rows \ O)
  <2>1. ASSUME NEW x, x \in Breaks \/ \A q \in rows \ O : q.slot = x => ~Meets(q)
        PROVE  Undisturbed(r, x, rows \ O)
    BY <1>6, <2>1 DEF Undisturbed
  <2>2. ASSUME NEW x, \/ x \in Breaks \cup own
                      \/ \A q \in rows : q.slot = x => ~Meets(q)
        PROVE  Undisturbed(r, x, rows \ O)
    BY <1>5, <2>1, <2>2
  <2> HIDE DEF own, Meets
  <2> QED
    BY <1>2, <1>6, <2>2 DEF Travels
<1> HIDE DEF own
<1> QED
  BY <1>4, <1>6 DEF Welcomes

\* Rows that differ in their rooms at most.
Alike(q, r) == q.lesson = r.lesson /\ q.slot = r.slot /\ q.teacher = r.teacher
OtherRooms(R, S) == /\ \A r \in R : \E q \in S : Alike(q, r)
                    /\ \A q \in S : \E r \in R : Alike(q, r)

\* A home-room repair trades rooms only.
LEMMA RepairedRooms ==
  ASSUME Inv, TypeOK', NEW l \in Lessons, HomeRoomRepair(l)
  PROVE  rows \in SUBSET Row /\ rows' \in SUBSET Row /\ OtherRooms(rows, rows')
<1>1. rows \in SUBSET Row /\ rows' \in SUBSET Row
  BY DEF Inv, TypeOK
<1>picked. PICK p \in RowsOf(rows, l), home \in Rooms : Rehousing(l, p, home)
  BY RepairRehouses
<1>2. \/ rows' = (rows \ {p}) \cup {[p EXCEPT !.room = home]}
      \/ \E q \in rows \ {p} :
           rows' = (rows \ {p, q}) \cup {[p EXCEPT !.room = home], [q EXCEPT !.room = p.room]}
  BY ONLY <1>picked DEF Rehousing
<1>3. p \in rows
  BY DEF RowsOf
<1>4. ASSUME NEW r \in rows, NEW room PROVE Alike([r EXCEPT !.room = room], r)
  BY <1>1 DEF Row, Alike
<1>5. \A r : Alike(r, r)
  BY DEF Alike
<1>6. ASSUME rows' = (rows \ {p}) \cup {[p EXCEPT !.room = home]}
      PROVE  OtherRooms(rows, rows')
  <2> DEFINE p2 == [p EXCEPT !.room = home]
  <2>1. Alike(p2, p) /\ rows' = (rows \ {p}) \cup {p2}
    BY <1>3, <1>4, <1>6
  <2> HIDE DEF p2
  <2>2. OtherRooms(rows, rows')
    BY <1>3, <1>5, <2>1 DEF OtherRooms
  <2> QED
    BY <2>2
<1>7. ASSUME \E q \in rows \ {p} :
               rows' = (rows \ {p, q}) \cup {[p EXCEPT !.room = home], [q EXCEPT !.room = p.room]}
      PROVE  OtherRooms(rows, rows')
  <2>1. PICK q \in rows \ {p} :
          rows' = (rows \ {p, q}) \cup {[p EXCEPT !.room = home], [q EXCEPT !.room = p.room]}
    BY <1>7
  <2> DEFINE p2 == [p EXCEPT !.room = home]
             q2 == [q EXCEPT !.room = p.room]
  <2>2. Alike(p2, p) /\ Alike(q2, q) /\ rows' = (rows \ {p, q}) \cup {p2, q2}
    BY <1>3, <1>4, <2>1
  <2> HIDE DEF p2, q2
  <2>3. OtherRooms(rows, rows')
    BY <1>3, <1>5, <2>1, <2>2 DEF OtherRooms
  <2> QED
    BY <2>3
<1>8. OtherRooms(rows, rows')
  BY <1>2, <1>6, <1>7
<1> QED
  BY <1>1, <1>8

\* Rooms do not matter.
LEMMA RoomsTravel ==
  ASSUME NEW R, NEW S, OtherRooms(R, S), TravelKept(R)
  PROVE  TravelKept(S)
<1>1. /\ \A r \in R : \E q \in S : q.lesson = r.lesson /\ q.slot = r.slot /\ q.teacher = r.teacher
      /\ \A q \in S : \E r \in R : q.lesson = r.lesson /\ q.slot = r.slot /\ q.teacher = r.teacher
  BY DEF OtherRooms, Alike
<1>2. ASSUME NEW q \in Starts(S) PROVE Travels(q, S)
  <2>1. q \in S
    BY DEF Starts
  <2>2. PICK r \in R : q.lesson = r.lesson /\ q.slot = r.slot /\ q.teacher = r.teacher
    BY <1>1, <2>1
  <2>3. FirstOfDay(q, S) => FirstOfDay(r, R)
    BY <1>1, <2>2 DEF FirstOfDay, RowsOfOn
  <2>4. r \in Starts(R)
    BY <2>2, <2>3 DEF Starts
  <2>5. Travels(r, R)
    BY <2>4 DEF TravelKept
  <2>6. \A x : Undisturbed(r, x, R) => Undisturbed(q, x, S)
    BY <1>1, <2>2 DEF Undisturbed
  <2> QED
    BY <2>2, <2>5, <2>6 DEF Travels
<1> QED
  BY <1>2 DEF TravelKept

\* The invariant: of the schedule, the best one, and what an undo goes back to.
TravelInv ==
    /\ TravelKept(rows) /\ TravelKept(best)
    /\ phase \in {"rescue", "recreate"} => TravelKept(Base)

\* No single hour that needs travel time may be swapped.
NoBufferedSwap ==
    \A l, m \in Lessons : l \notin Frozen /\ Swappable(l, m) =>
      {l, m} \cap (PreBuffer \cup PostBuffer) = {}

\* A block that is placed.
LEMMA PlacedTravel ==
  ASSUME Inv, TravelKept(rows), NEW l \in Lessons, NEW s \in Slots, NEW room \in Rooms,
         NEW t \in Teachers, Place(l, s, room, t)
  PROVE  TravelKept(rows')
<1>1. /\ rows \in SUBSET Row /\ TypeOK /\ Orderly(rows) /\ NoDoubleBooking(rows)
      /\ TravelFits(l, s, t, {}) /\ Window(s, BlockSize[l]) \subseteq Slots
      /\ rows' = rows \cup Block(l, s, room, t)
  BY DEF Inv, TypeOK, Orderly, Place, CanPlace
<1>2. Block(l, s, room, t) \in SUBSET Row
  BY <1>1, BlockType
<1>3. Welcomes(rows, l, s, t)
  <2>1. {o.slot : o \in {}} = {} /\ rows \ {} = rows /\ {} \in SUBSET rows
    OBVIOUS
  <2> HIDE DEF Welcomes
  <2> QED
    BY <1>1, <2>1, FitsWelcome
<1> QED
  BY <1>1, <1>2, <1>3, AddedTravel

\* A block that moves.
LEMMA ChangeTravel ==
  ASSUME Inv, TravelKept(rows), NEW l \in Lessons, Change(l)
  PROVE  TravelKept(rows')
<1>1. /\ rows \in SUBSET Row /\ TypeOK /\ Orderly(rows) /\ NoDoubleBooking(rows)
      /\ LocksHold(rows, tally.teacherLock) /\ l \notin Pinned
  BY DEF Change, Searching, Frozen, Inv, TypeOK, Orderly, Mirrored
<1>picked. PICK R \in Sources(l), s \in Slots :
        LET own == {r.slot : r \in R}
            W == Window(s, BlockSize[l])
            any == CHOOSE r \in R : TRUE
            old == [day |-> Day(any.slot), room |-> any.room]
        IN  /\ W \subseteq Slots
            /\ TravelFits(l, s, any.teacher, own)
            /\ \E room \in ChangeRooms(l, old, Day(s), W, own) :
                 rows' = (rows \ R) \cup Block(l, s, room, any.teacher)
  BY DEF Change
<1> DEFINE any == CHOOSE r \in R : TRUE
           t == any.teacher
<1>2. /\ Window(s, BlockSize[l]) \subseteq Slots
      /\ TravelFits(l, s, t, {r.slot : r \in R})
      /\ \E room \in Rooms : rows' = (rows \ R) \cup Block(l, s, room, t)
  BY <1>picked DEF ChangeRooms
<1>room. PICK room \in Rooms : rows' = (rows \ R) \cup Block(l, s, room, t)
  BY <1>2
<1>3. /\ R \in SUBSET rows /\ R # {}
      /\ \A r, q \in R : r.lesson = l /\ r.teacher = q.teacher
  BY <1>1, SourceRows
<1>4. \A r \in R : r.lesson = l /\ r.teacher = t
  BY <1>3
<1> HIDE DEF t, any
<1>5. TravelKept(rows \ R)
  <2>1. ASSUME NEW o \in R, NEW r \in rows \ R, o.lesson = r.lesson, Day(o.slot) = Day(r.slot)
        PROVE  BlockSize[r.lesson] = 1 /\ r.lesson \notin Pinned
    <3>1. r.lesson = l
      BY <1>4, <2>1
    <3>2. CASE BlockSize[l] # 1
      <4>1. PICK d \in DaysOf(rows, l) : R = RowsOfOn(rows, l, d)
        BY <3>2 DEF Sources
      <4> QED
        BY <2>1, <3>1, <4>1 DEF RowsOfOn
    <3> QED
      BY <1>1, <3>1, <3>2
  <2> QED
    BY <1>3, <2>1, LeftTravel
<1>6. t \in Teachers
  BY <1>1, <1>3, <1>4 DEF Row
<1>7. Block(l, s, room, t) \in SUBSET Row
  BY <1>2, <1>6, <1>room, BlockType
<1>8. Welcomes(rows \ R, l, s, t)
  BY <1>1, <1>2, <1>3, <1>4, FitsWelcome
<1> QED
  BY <1>1, <1>5, <1>7, <1>8, <1>room, AddedTravel

\* Two hours that trade places and need no travel time themselves: each is
\* asked whether it is in the way of the others before the swap.
LEMMA SwapTravel ==
  ASSUME NoBufferedSwap, Inv, TypeOK', TravelKept(rows), NEW l \in Lessons, NEW m \in Lessons, Swap(l, m)
  PROVE  TravelKept(rows')
<1>1. /\ rows \in SUBSET Row /\ rows' \in SUBSET Row /\ NoDoubleBooking(rows)
      /\ l \notin Pinned /\ m \notin Pinned /\ l # m
      /\ BlockSize[l] = 1 /\ BlockSize[m] = 1
      /\ l \notin PreBuffer \cup PostBuffer /\ m \notin PreBuffer \cup PostBuffer
  BY DEF Swap, Searching, Swappable, Frozen, NoBufferedSwap, Inv, TypeOK, Orderly
<1>2. PICK a \in RowsOf(rows, l), b \in RowsOf(rows, m) :
        /\ SwapTravels(a, b)
        /\ rows' = (rows \ {a, b}) \cup {[a EXCEPT !.slot = b.slot], [b EXCEPT !.slot = a.slot]}
  BY DEF Swap
<1>3. /\ a \in rows /\ b \in rows /\ a \in Row /\ b \in Row /\ a.lesson = l /\ b.lesson = m
      /\ a.slot \in Slots /\ b.slot \in Slots
  BY <1>1 DEF RowsOf, Row
<1> DEFINE A == Block(l, b.slot, a.room, a.teacher)
           B == Block(m, a.slot, b.room, b.teacher)
           K == rows \ {a, b}
<1>4. ASSUME NEW r \in Row, NEW s \in Slots, BlockSize[r.lesson] = 1
      PROVE  /\ Block(r.lesson, s, r.room, r.teacher) = {[r EXCEPT !.slot = s]}
             /\ Window(s, BlockSize[r.lesson]) = {s}
  <2>1. s = <<Day(s), Pos(s) + 0>>
    BY ProblemAssumption DEF Day, Pos
  <2>2. 0..(BlockSize[r.lesson] - 1) = {0}
    BY <1>4
  <2>3. Window(s, BlockSize[r.lesson]) = {s}
    BY <2>1, <2>2 DEF Window
  <2>4. [r EXCEPT !.slot = s]
          = [lesson |-> r.lesson, slot |-> s, room |-> r.room, teacher |-> r.teacher]
    BY DEF Row
  <2> QED
    BY <2>3, <2>4 DEF Block
<1>5. /\ A = {[a EXCEPT !.slot = b.slot]} /\ B = {[b EXCEPT !.slot = a.slot]}
      /\ Window(b.slot, BlockSize[l]) \subseteq Slots /\ Window(a.slot, BlockSize[m]) \subseteq Slots
  <2>1. A = {[a EXCEPT !.slot = b.slot]} /\ Window(b.slot, BlockSize[l]) = {b.slot}
    <3>1. BlockSize[a.lesson] = 1
      BY <1>1, <1>3
    <3> QED
      BY <1>3, <1>4, <3>1
  <2>2. B = {[b EXCEPT !.slot = a.slot]} /\ Window(a.slot, BlockSize[m]) = {a.slot}
    <3>1. BlockSize[b.lesson] = 1
      BY <1>1, <1>3
    <3> QED
      BY <1>3, <1>4, <3>1
  <2> QED
    BY <1>3, <2>1, <2>2
<1>6. A \in SUBSET Row /\ B \in SUBSET Row /\ rows' = (K \cup A) \cup B
  BY <1>1, <1>2, <1>5
<1>7. \A r \in A : r.lesson = l
  BY BlockRows
<1> HIDE DEF A, B
<1>8. Welcomes(rows \ {a}, l, b.slot, a.teacher) /\ Welcomes(rows \ {b}, m, a.slot, b.teacher)
  <2>1. {o.slot : o \in {a}} = {a.slot} /\ {o.slot : o \in {b}} = {b.slot}
    OBVIOUS
  <2>2. /\ TravelFits(l, b.slot, a.teacher, {a.slot}) /\ TravelFits(m, a.slot, b.teacher, {b.slot})
    BY <1>2, <1>3 DEF SwapTravels
  <2>3. Welcomes(rows \ {a}, l, b.slot, a.teacher)
    BY <1>1, <1>3, <1>5, <2>1, <2>2, FitsWelcome
  <2>4. Welcomes(rows \ {b}, m, a.slot, b.teacher)
    BY <1>1, <1>3, <1>5, <2>1, <2>2, FitsWelcome
  <2> QED
    BY <2>3, <2>4
<1>9. TravelKept(K)
  BY <1>1, <1>3, LeftTravel
<1>10. Welcomes(K, l, b.slot, a.teacher) /\ Welcomes(K, m, a.slot, b.teacher)
  BY <1>8, WelcomesAmong
<1> HIDE DEF K
<1>11. K \in SUBSET Row
  BY <1>1 DEF K
<1>12. TravelKept(K \cup A)
  BY <1>3, <1>6, <1>9, <1>10, <1>11, AddedTravel DEF A
<1>13. Welcomes(K \cup A, m, a.slot, b.teacher)
  BY <1>1, <1>7, <1>10 DEF Welcomes, Travels
<1>14. TravelKept((K \cup A) \cup B)
  <2>1. K \cup A \in SUBSET Row
    BY <1>6, <1>11
  <2> QED
    BY <1>3, <1>6, <1>12, <1>13, <2>1, AddedTravel DEF B
<1> QED
  BY <1>6, <1>14

\* An iteration that ends with such a schedule.
LEMMA SettledTravel ==
  ASSUME TravelInv, TravelKept(rows'), phase' \notin {"rescue", "recreate"},
         best' = best \/ EndIteration(rows')
  PROVE  TravelInv'
BY DEF TravelInv, EndIteration

\* A ruin takes whole days, and an undo would go back to where it began.
LEMMA RuinedTravel ==
  ASSUME TravelInv, Ruin \/ \E l \in Lessons : Rescue(l)
  PROVE  TravelInv'
<1>1. PICK R : Uproots(R)
  BY StartUproots
<1>2. R \in SUBSET rows /\ rows' = rows \ R /\ attempt'.ruined = R /\ attempt'.added = {}
  BY ONLY <1>1 DEF Uproots, TakeOut
<1>3. \A o \in R, r \in rows : o.lesson = r.lesson /\ Day(o.slot) = Day(r.slot) => r \in R
  <2>1. CASE Ruin
    <3> DEFINE n == IF RuinSize < Cardinality(Anchors) THEN RuinSize
                                                       ELSE Cardinality(Anchors)
    <3>1. PICK chosen \in [1..n -> Anchors] : TakeOut(UNION {chosen[i] : i \in 1..n})
                /\ \E turns : attempt' = [NoAttempt EXCEPT !.ruined = UNION {chosen[i] : i \in 1..n},
                                                           !.todo = turns,
                                                           !.locks = tally.teacherLock]
      BY <2>1 DEF Ruin
    <3> HIDE DEF n
    <3>2. attempt'.ruined = UNION {chosen[i] : i \in 1..n}
      BY <3>1, FreshAttempt
    <3>3. \A X \in Anchors : \A o \in X, r \in rows :
            o.lesson = r.lesson /\ Day(o.slot) = Day(r.slot) => r \in X
      BY DEF Anchors, BlocksOf, RowsOfOn
    <3> QED
      BY <1>2, <3>1, <3>2, <3>3
  <2>2. CASE \E l \in Lessons : Rescue(l)
    <3>1. PICK l \in Lessons, r \in rows :
            attempt'.ruined = RowsOf(rows, l) \cup RowsOfOn(rows, r.lesson, Day(r.slot))
      BY <2>2 DEF Rescue, Siblings, NoAttempt
    <3> QED
      BY <1>2, <3>1 DEF RowsOf, RowsOfOn
  <2> QED
    BY <2>1, <2>2
<1>4. TravelKept(rows')
  BY <1>2, <1>3, LeftTravel DEF TravelInv
<1>5. Base' = rows
  BY <1>2 DEF Base
<1> QED
  BY <1>4, <1>5, StartUproots DEF TravelInv

\* Every step keeps it.
LEMMA NextTravel ==
  ASSUME NoBufferedSwap
  PROVE  Inv /\ TravelInv /\ [Next]_vars => TravelInv'
<1> SUFFICES ASSUME Inv, TravelInv, [Next]_vars PROVE TravelInv'
  OBVIOUS
<1>1. TypeOK' /\ TravelKept(rows)
  BY NextType DEF Inv, TravelInv
<1>2. CASE UNCHANGED vars
  BY <1>2 DEF vars, TravelInv, Base
<1>3. ASSUME NEW l \in Lessons, FfdPlace(l) PROVE TravelInv'
  <2>1. PICK s \in Slots, room \in Rooms, t \in Teachers : Place(l, s, room, t)
    BY <1>3 DEF FfdPlace
  <2>2. TravelKept(rows')
    BY <1>1, <2>1, PlacedTravel
  <2>3. phase' = "ffd" /\ best' = best
    BY <1>3 DEF FfdPlace, FfdTurn
  <2> QED
    BY <2>2, <2>3, SettledTravel
<1>4. ASSUME NEW l \in Lessons, FfdMiss(l) \/ RebuildMiss(l) PROVE TravelInv'
  <2>1. UNCHANGED <<phase, rows, best>> 
    BY <1>4 DEF FfdMiss, RebuildMiss
  <2>2. attempt'.added = attempt.added /\ attempt'.ruined = attempt.ruined
    <3>1. attempt \in AttemptType
      BY DEF Inv, TypeOK
    <3> QED
      BY <1>4, <3>1 DEF FfdMiss, RebuildMiss, AttemptType
  <2> QED
    BY <2>1, <2>2 DEF TravelInv, Base
<1>5. ASSUME NEW l \in Lessons, \/ Change(l) \/ HomeRoomRepair(l)
                                \/ \E m \in Lessons : Swap(l, m)
      PROVE  TravelInv'
  <2>1. phase' = "search" /\ EndIteration(rows')
    BY <1>5 DEF Change, HomeRoomRepair, Swap, Searching
  <2>2. TravelKept(rows')
    BY <1>1, <1>5, ChangeTravel, SwapTravel, RepairedRooms, RoomsTravel
  <2> QED
    BY <2>1, <2>2, SettledTravel
<1>6. ASSUME NEW l \in Lessons, RebuildPlace(l) PROVE TravelInv'
  <2>1. PICK s \in Slots, room \in Rooms, t \in Teachers : Place(l, s, room, t)
    BY <1>6 DEF RebuildPlace
  <2>2. TravelKept(rows')
    BY <1>1, <2>1, PlacedTravel
  <2>3. Base' = Base
    BY <1>1, <1>6, RebuildPlaceInv
  <2>4. phase' = phase /\ best' = best
    BY <1>6 DEF RebuildPlace
  <2> QED
    BY <2>2, <2>3, <2>4 DEF TravelInv
<1>7. CASE FfdEnd \/ NothingToRuin \/ Keep \/ Finish
  <2>1. TravelKept(rows') /\ (best' = best \/ EndIteration(rows') \/ best' = rows)
    BY <1>1, <1>7 DEF FfdEnd, NothingToRuin, Keep, Finish, TravelInv, EndIteration
  <2>2. phase' \in {"search", "done"}
    BY <1>7 DEF FfdEnd, NothingToRuin, Keep, Finish
  <2> QED
    BY <1>1, <2>1, <2>2 DEF TravelInv, EndIteration
<1>8. CASE Undo
  <2>1. rows' = Base /\ phase \in {"rescue", "recreate"}
    BY <1>1, <1>8, UndoInv DEF Undo, Rebuilt
  <2>2. phase' \in {"ruin", "search"} /\ (best' = best \/ EndIteration(rows'))
    BY <1>8 DEF Undo
  <2> QED
    BY <2>1, <2>2, SettledTravel DEF TravelInv
<1>9. CASE Ruin \/ \E l \in Lessons : Rescue(l)
  BY <1>9, RuinedTravel
<1> QED
  BY <1>2, <1>3, <1>4, <1>5, <1>6, <1>7, <1>8, <1>9 DEF Next

\* The returned schedule leaves travel time around every lesson that needs it,
\* where the pins do and no single hour that needs it can be swapped: a Change,
\* a ruin, a rebuild or an undo never takes it away.
THEOREM TravelTimeKept ==
  ASSUME NoBufferedSwap, TravelBuffers(PinnedRows)
  PROVE  Spec => []ReturnedKeepsTravelTime
<1>1. Init => TravelInv
  <2> SUFFICES ASSUME Init PROVE TravelInv
    OBVIOUS
  <2>1. rows = PinnedRows /\ best = {} /\ phase = "ffd"
    BY DEF Init
  <2>2. TravelKept(PinnedRows)
    BY TravelAccepted DEF Pinned
  <2>3. TravelKept({})
    BY DEF TravelKept, Starts
  <2> QED
    BY <2>1, <2>2, <2>3 DEF TravelInv
<1>2. Inv /\ TravelInv /\ [Next]_vars => TravelInv'
  BY NextTravel
<1>3. TravelInv => ReturnedKeepsTravelTime
  BY TravelAccepted DEF TravelInv, ReturnedKeepsTravelTime
<1> QED
  BY <1>1, <1>2, <1>3, Invariance, SpecLoose, PTL
=============================================================================
