------------------------- MODULE ScheduleScore_proofs --------------------------
(***************************************************************************)
(* Sums over finite sets; that every price is a natural number; that the   *)
(* shortcuts for gap-hours price what they stand for; and that the quality *)
(* report adds up to the cost.  For every problem and all weights.         *)
(***************************************************************************)
EXTENDS ScheduleScore, Timetable_proofs, WellFoundedInduction

\* A set of numbers that is not empty has one with no predecessor in it.
LEMMA FirstOf ==
  ASSUME NEW T \in SUBSET Nat, T # {}
  PROVE  \E n \in T : n = 0 \/ n - 1 \notin T
<1>1. PICK n \in T : \A k \in T : <<k, n>> \notin OpToRel(<, Nat)
  BY NatLessThanWellFounded, WFMin
<1>2. ASSUME n # 0, n - 1 \in T PROVE FALSE
  <2>1. n \in Nat /\ n - 1 \in Nat /\ n - 1 < n
    BY <1>2
  <2>2. <<n - 1, n>> \in OpToRel(<, Nat)
    BY <2>1 DEF OpToRel
  <2> QED
    BY <1>1, <1>2, <2>2
<1> QED
  BY <1>2

\* Of some subsets of a finite set, one has no smaller one beside it.
LEMMA SmallestSet ==
  ASSUME NEW S, IsFiniteSet(S), NEW B \in SUBSET SUBSET S, B # {}
  PROVE  \E s \in B : \A x \in s : s \ {x} \notin B
<1> DEFINE T == {Cardinality(s) : s \in B}
<1>1. \A s \in B : IsFiniteSet(s) /\ Cardinality(s) \in Nat
  BY FS_Subset, FS_CardinalityType
<1>2. T \in SUBSET Nat /\ T # {}
  BY <1>1
<1>3. PICK n \in T : n = 0 \/ n - 1 \notin T
  BY ONLY <1>2, FirstOf
<1>4. PICK s \in B : Cardinality(s) = n
  BY <1>3
<1>5. ASSUME NEW x \in s, s \ {x} \in B PROVE FALSE
  <2>1. Cardinality(s \ {x}) = n - 1
    BY <1>1, <1>4, FS_RemoveElement
  <2>2. n - 1 \in T /\ Cardinality(s \ {x}) \in Nat
    BY <1>1, <1>5, <2>1
  <2>3. n # 0
    BY <2>1, <2>2
  <2> QED
    BY <1>3, <2>2, <2>3
<1> QED
  BY <1>5

-----------------------------------------------------------------------------
(* Folds over a finite set.                                                 *)

\* g takes z through the elements of each set of D, pick[s] being the last of s.
Folding(g, z, pick, step, D) ==
    g = [s \in D |-> IF s = {} THEN z ELSE step[<<pick[s], g[s \ {pick[s]}]>>]]

\* Subsets of up to n elements.
Small(S, n) == {s \in SUBSET S : Cardinality(s) <= n}

\* A fold over the sets of n - 1 elements extends to those of n.
LEMMA LongerFold ==
  ASSUME NEW S, IsFiniteSet(S), NEW z, NEW step, NEW pick,
         \A s \in SUBSET S : s # {} => pick[s] \in s,
         NEW n \in Nat, n # 0, NEW g, Folding(g, z, pick, step, Small(S, n - 1))
  PROVE  \E h : Folding(h, z, pick, step, Small(S, n))
<1> DEFINE D == Small(S, n)
           E == Small(S, n - 1)
           h == [s \in D |-> IF s \in E THEN g[s] ELSE step[<<pick[s], g[s \ {pick[s]}]>>]]
<1>1. ASSUME NEW s \in SUBSET S PROVE IsFiniteSet(s) /\ Cardinality(s) \in Nat
  BY FS_Subset, FS_CardinalityType
<1>2. {} \in E
  BY FS_EmptySet DEF Small
<1>3. E \in SUBSET D
  BY <1>1 DEF Small
<1>4. ASSUME NEW s \in D, s # {} PROVE s \ {pick[s]} \in E
  <2>1. /\ s \in SUBSET S /\ Cardinality(s) <= n /\ IsFiniteSet(s) /\ Cardinality(s) \in Nat
        /\ pick[s] \in s
    BY <1>1, <1>4 DEF Small
  <2>2. Cardinality(s \ {pick[s]}) = Cardinality(s) - 1
    BY ONLY <2>1, FS_RemoveElement
  <2>3. s \ {pick[s]} \in SUBSET S /\ Cardinality(s) - 1 <= n - 1
    BY <2>1
  <2> QED
    BY <2>2, <2>3 DEF Small
<1>5. g = [s \in E |-> IF s = {} THEN z ELSE step[<<pick[s], g[s \ {pick[s]}]>>]]
  BY DEF Folding
<1> HIDE DEF D, E
<1>6. \A s \in E : g[s] = IF s = {} THEN z ELSE step[<<pick[s], g[s \ {pick[s]}]>>]
  BY <1>5
<1>7. ASSUME NEW s \in D
      PROVE  h[s] = IF s = {} THEN z ELSE step[<<pick[s], h[s \ {pick[s]}]>>]
  <2>1. CASE s = {}
    <3>1. g[{}] = z /\ h[{}] = g[{}]
      BY <1>2, <1>3, <1>6
    <3> QED
      BY <2>1, <3>1
  <2>2. CASE s # {}
    <3> DEFINE t == s \ {pick[s]}
    <3>1. t \in E /\ t \in D
      BY <1>3, <1>4, <2>2
    <3>2. h[t] = g[t]
      BY <3>1
    <3>3. h[s] = step[<<pick[s], g[t]>>]
      BY <1>6, <2>2
    <3> QED
      BY <2>2, <3>2, <3>3
  <2> QED
    BY <2>1, <2>2
<1>8. h = [s \in D |-> h[s]]
  OBVIOUS
<1> HIDE DEF h
<1>9. h = [s \in D |-> IF s = {} THEN z ELSE step[<<pick[s], h[s \ {pick[s]}]>>]]
  BY <1>7, <1>8
<1> QED
  BY <1>9 DEF Folding, D

\* A finite set can be folded.
LEMMA FoldExists ==
  ASSUME NEW S, IsFiniteSet(S), NEW z, NEW step, NEW pick,
         \A s \in SUBSET S : s # {} => pick[s] \in s
  PROVE  \E g : Folding(g, z, pick, step, SUBSET S)
<1> DEFINE T == {n \in Nat : ~\E g : Folding(g, z, pick, step, Small(S, n))}
<1>1. T = {}
  <2> SUFFICES ASSUME T # {} PROVE FALSE
    OBVIOUS
  <2>1. T \in SUBSET Nat
    OBVIOUS
  <2>2. PICK n \in T : n = 0 \/ n - 1 \notin T
    BY <2>1, FirstOf
  <2>3. CASE n = 0
    <3> DEFINE g == [s \in Small(S, 0) |-> z]
    <3>1. ASSUME NEW s \in Small(S, 0) PROVE s = {}
      BY FS_EmptySet, FS_Subset, FS_CardinalityType DEF Small
    <3>2. \A s \in Small(S, 0) : z = IF s = {} THEN z ELSE step[<<pick[s], g[s \ {pick[s]}]>>]
      BY <3>1
    <3>3. g = [s \in Small(S, 0) |-> IF s = {} THEN z ELSE step[<<pick[s], g[s \ {pick[s]}]>>]]
      BY <3>2
    <3> QED
      BY <2>3, <3>3 DEF Folding
  <2>4. CASE n # 0
    <3>1. n \in Nat /\ n - 1 \in Nat
      BY <2>4
    <3>2. PICK g : Folding(g, z, pick, step, Small(S, n - 1))
      BY <2>2, <2>4, <3>1
    <3>3. \E h : Folding(h, z, pick, step, Small(S, n))
      BY ONLY <2>4, <3>1, <3>2, LongerFold, IsFiniteSet(S),
              \A s \in SUBSET S : s # {} => pick[s] \in s
    <3> QED
      BY <3>3
  <2> QED
    BY <2>3, <2>4
<1>2. Cardinality(S) \in Nat
  BY FS_CardinalityType
<1>3. Small(S, Cardinality(S)) = SUBSET S
  BY FS_Subset DEF Small
<1>4. \E g : Folding(g, z, pick, step, Small(S, Cardinality(S)))
  BY <1>1, <1>2
<1> QED
  BY ONLY <1>3, <1>4

\* What every step keeps holds of the result.
LEMMA FoldType ==
  ASSUME NEW S, IsFiniteSet(S), NEW A, NEW z \in A, NEW step \in [S \X A -> A], NEW pick,
         \A s \in SUBSET S : s # {} => pick[s] \in s,
         NEW g, Folding(g, z, pick, step, SUBSET S)
  PROVE  g \in [SUBSET S -> A]
<1> DEFINE B == {s \in SUBSET S : g[s] \notin A}
<1>0. g = [s \in SUBSET S |-> IF s = {} THEN z ELSE step[<<pick[s], g[s \ {pick[s]}]>>]]
  BY DEF Folding
<1>1. \A s \in SUBSET S : g[s] = IF s = {} THEN z ELSE step[<<pick[s], g[s \ {pick[s]}]>>]
  BY <1>0
<1>2. B = {}
  <2> SUFFICES ASSUME B # {} PROVE FALSE
    OBVIOUS
  <2>1. B \in SUBSET SUBSET S
    OBVIOUS
  <2> HIDE DEF B
  <2>2. PICK s \in B : \A x \in s : s \ {x} \notin B
    BY ONLY <2>1, SmallestSet, B # {}, IsFiniteSet(S)
  <2> USE DEF B
  <2>3. s \in SUBSET S /\ g[s] \notin A
    OBVIOUS
  <2>4. s # {}
    BY <1>1, <2>3
  <2>5. pick[s] \in s /\ s \ {pick[s]} \in SUBSET S
    BY <2>3, <2>4
  <2>6. g[s \ {pick[s]}] \in A
    BY <2>2, <2>5
  <2>7. g[s] = step[<<pick[s], g[s \ {pick[s]}]>>] /\ pick[s] \in S
    BY <1>1, <2>3, <2>4, <2>5
  <2> QED
    BY ONLY <2>3, <2>6, <2>7, step \in [S \X A -> A]
<1> QED
  BY <1>0, <1>2

-----------------------------------------------------------------------------
(* Sums.                                                                    *)

\* The element SumFunction takes next.
Pick(s) == CHOOSE x \in s : TRUE

\* g sums f over the sets of D as the folds of the library do.
Folds(g, f, D) == g = [s \in D |-> IF s = {} THEN 0 ELSE f[Pick(s)] + g[s \ {Pick(s)}]]

\* It is an element.
LEMMA Picked == ASSUME NEW s, s # {} PROVE Pick(s) \in s
BY DEF Pick

\* Sums can be made that way.
LEMMA SumFoldExists ==
  ASSUME NEW S, IsFiniteSet(S), NEW f, \A x \in S : f[x] \in Int
  PROVE  \E g : Folds(g, f, SUBSET S)
<1> DEFINE pick == [s \in SUBSET S |-> Pick(s)]
           step == [y \in S \X Int |-> f[y[1]] + y[2]]
<1>1. \A s \in SUBSET S : s # {} => pick[s] \in s
  BY Picked
<1>2. step \in [S \X Int -> Int]
  OBVIOUS
<1>3. \A x \in S : \A n \in Int : step[<<x, n>>] = f[x] + n
  OBVIOUS
<1>4. \A s \in SUBSET S : pick[s] = Pick(s)
  OBVIOUS
<1> HIDE DEF pick, step
<1>5. PICK g : Folding(g, 0, pick, step, SUBSET S)
  BY <1>1, FoldExists
<1>6. g \in [SUBSET S -> Int]
  <2>1. 0 \in Int
    OBVIOUS
  <2> QED
    BY ONLY <1>1, <1>2, <1>5, <2>1, FoldType, IsFiniteSet(S)
<1>7. g = [s \in SUBSET S |-> IF s = {} THEN 0 ELSE step[<<pick[s], g[s \ {pick[s]}]>>]]
  BY <1>5 DEF Folding
<1>8. ASSUME NEW s \in SUBSET S, s # {}
      PROVE  step[<<pick[s], g[s \ {pick[s]}]>>] = f[Pick(s)] + g[s \ {Pick(s)}]
  BY <1>1, <1>3, <1>4, <1>6, <1>8
<1>9. g = [s \in SUBSET S |-> IF s = {} THEN 0 ELSE f[Pick(s)] + g[s \ {Pick(s)}]]
  BY <1>7, <1>8
<1> QED
  BY <1>9 DEF Folds

\* g sums f over the subsets of S, in whichever order.
Sums(g, f, S) ==
    /\ g[{}] = 0
    /\ \A s \in SUBSET S : g[s] \in Int
    /\ \A s \in SUBSET S : \A x \in s : g[s] = f[x] + g[s \ {x}]

\* What folds a sum adds up, whichever element is taken next.
LEMMA FoldSums ==
  ASSUME NEW S, IsFiniteSet(S), NEW f, \A x \in S : f[x] \in Int,
         NEW g, Folds(g, f, SUBSET S)
  PROVE  Sums(g, f, S)
<1>1. \A s \in SUBSET S : g[s] = IF s = {} THEN 0 ELSE f[Pick(s)] + g[s \ {Pick(s)}]
  <2>1. g = [s \in SUBSET S |-> IF s = {} THEN 0 ELSE f[Pick(s)] + g[s \ {Pick(s)}]]
    BY DEF Folds
  <2> QED
    BY <2>1
<1>2. g[{}] = 0
  BY <1>1
<1>3. ASSUME NEW s \in SUBSET S, s # {}
      PROVE  Pick(s) \in s /\ s \ {Pick(s)} \in SUBSET S /\ g[s] = f[Pick(s)] + g[s \ {Pick(s)}]
  BY <1>1, <1>3, Picked
<1>4. \A s \in SUBSET S : g[s] \in Int
  <2> DEFINE B == {s \in SUBSET S : g[s] \notin Int}
  <2> SUFFICES ASSUME B # {} PROVE FALSE
    OBVIOUS
  <2>1. B \in SUBSET SUBSET S
    OBVIOUS
  <2> HIDE DEF B
  <2>2. PICK s \in B : \A x \in s : s \ {x} \notin B
    BY ONLY <2>1, SmallestSet, B # {}, IsFiniteSet(S)
  <2> USE DEF B
  <2>3. s \in SUBSET S /\ g[s] \notin Int
    OBVIOUS
  <2>4. s # {}
    BY ONLY <1>2, <2>3
  <2>5. PICK c \in s : s \ {c} \in SUBSET S /\ g[s] = f[c] + g[s \ {c}]
    BY ONLY <1>3, <2>3, <2>4
  <2>6. s \ {c} \notin B
    BY <2>2
  <2>7. g[s \ {c}] \in Int /\ f[c] \in Int
    BY <2>3, <2>5, <2>6
  <2> QED
    BY ONLY <2>3, <2>5, <2>7
<1>5. \A s \in SUBSET S : \A x \in s : g[s] = f[x] + g[s \ {x}]
  <2> DEFINE B == {s \in SUBSET S : \E x \in s : g[s] # f[x] + g[s \ {x}]}
  <2> SUFFICES ASSUME B # {} PROVE FALSE
    OBVIOUS
  <2>1. B \in SUBSET SUBSET S
    OBVIOUS
  <2> HIDE DEF B
  <2>2. PICK s \in B : \A x \in s : s \ {x} \notin B
    BY ONLY <2>1, SmallestSet, B # {}, IsFiniteSet(S)
  <2> USE DEF B
  <2>3. PICK x \in s : g[s] # f[x] + g[s \ {x}]
    BY <2>2
  <2>4. s \in SUBSET S /\ s # {}
    BY <2>3
  <2> DEFINE c == Pick(s)
             u == s \ {c}
             v == s \ {x}
             w == (s \ {c}) \ {x}
  <2>5. c \in s /\ g[s] = f[c] + g[u]
    BY <1>3, <2>4
  <2>6. x # c
    BY <2>3, <2>5
  <2>7. u \in SUBSET S /\ v \in SUBSET S /\ u \notin B /\ v \notin B /\ x \in u /\ c \in v
    BY <2>2, <2>3, <2>4, <2>5, <2>6
  <2>8. g[u] = f[x] + g[w]
    BY <2>7
  <2>9. g[v] = f[c] + g[w]
    <3>1. v \ {c} = w
      OBVIOUS
    <3>2. g[v] = f[c] + g[v \ {c}]
      BY <2>7
    <3> QED
      BY <3>1, <3>2
  <2>10. f[c] \in Int /\ f[x] \in Int /\ g[w] \in Int
    BY <1>4, <2>4, <2>5
  <2> HIDE DEF c, u, v, w
  <2>11. g[s] = f[x] + g[v]
    BY <2>5, <2>8, <2>9, <2>10
  <2> QED
    BY <2>3, <2>11 DEF v
<1> QED
  BY <1>2, <1>4, <1>5 DEF Sums

\* There is a sum of every part.
LEMMA SumsExist ==
  ASSUME NEW S, IsFiniteSet(S), NEW f, \A x \in S : f[x] \in Int
  PROVE  \E g : Folds(g, f, SUBSET S) /\ Sums(g, f, S)
BY SumFoldExists, FoldSums

\* What the library sums follows the same rules.
LEMMA SumRules ==
  ASSUME NEW S, IsFiniteSet(S), NEW f, \A x \in S : f[x] \in Int
  PROVE  /\ SumFunctionOnSet(f, {}) = 0
         /\ \A s \in SUBSET S : SumFunctionOnSet(f, s) \in Int
         /\ \A s \in SUBSET S : \A x \in s :
              SumFunctionOnSet(f, s) = f[x] + SumFunctionOnSet(f, s \ {x})
<1>1. PICK g : Sums(g, f, S)
  BY SumsExist
<1>2. ASSUME NEW s \in SUBSET S PROVE SumFunctionOnSet(f, s) = g[s]
  <2> DEFINE A(h) == h = [u \in SUBSET s |->
               IF u = {} THEN 0
               ELSE f[CHOOSE x \in u : TRUE] + h[u \ {CHOOSE x \in u : TRUE}]]
             h0 == CHOOSE h : A(h)
  <2>1. SumFunctionOnSet(f, s) = h0[s]
    BY DEF SumFunctionOnSet, FoldFunctionOnSet, MapThenFoldSet
  <2>2. \A h : A(h) <=> Folds(h, f, SUBSET s)
    BY DEF Folds, Pick
  <2>3. IsFiniteSet(s) /\ \A x \in s : f[x] \in Int
    BY FS_Subset
  <2> HIDE DEF A
  <2>4. \E h : A(h)
    BY <2>2, <2>3, SumFoldExists
  <2>5. A(h0)
    BY ONLY <2>4
  <2> HIDE DEF h0
  <2>6. Folds(h0, f, SUBSET s)
    BY <2>2, <2>5
  <2>7. Sums(h0, f, s)
    BY ONLY <2>3, <2>6, FoldSums
  <2> DEFINE B == {u \in SUBSET s : h0[u] # g[u]}
  <2>8. B = {}
    <3> SUFFICES ASSUME B # {} PROVE FALSE
      OBVIOUS
    <3>1. B \in SUBSET SUBSET s
      OBVIOUS
    <3> HIDE DEF B
    <3>2. PICK u \in B : \A x \in u : u \ {x} \notin B
      BY ONLY <3>1, <2>3, SmallestSet, B # {}
    <3> USE DEF B
    <3>3. u \in SUBSET s /\ h0[u] # g[u]
      OBVIOUS
    <3>4. CASE u = {}
      BY ONLY <1>1, <2>7, <3>3, <3>4 DEF Sums
    <3>5. CASE u # {}
      <4>1. PICK x : x \in u
        BY <3>5
      <4>2. h0[u] = f[x] + h0[u \ {x}]
        BY <2>7, <3>3, <4>1 DEF Sums
      <4>3. g[u] = f[x] + g[u \ {x}]
        BY <1>1, <3>3, <4>1 DEF Sums
      <4>4. h0[u \ {x}] = g[u \ {x}]
        BY <3>2, <3>3, <4>1
      <4> QED
        BY ONLY <3>3, <4>2, <4>3, <4>4
    <3> QED
      BY <3>4, <3>5
  <2> QED
    BY <2>1, <2>8
<1>3. {} \in SUBSET S /\ \A s \in SUBSET S : \A x \in s : s \ {x} \in SUBSET S
  OBVIOUS
<1> QED
  BY <1>1, <1>2, <1>3 DEF Sums

\* Equal values have equal sums.
LEMMA SumSame ==
  ASSUME NEW S, IsFiniteSet(S), NEW f, NEW h, \A x \in S : f[x] \in Int /\ h[x] = f[x]
  PROVE  SumFunctionOnSet(f, S) = SumFunctionOnSet(h, S)
<1> DEFINE B == {s \in SUBSET S : SumFunctionOnSet(f, s) # SumFunctionOnSet(h, s)}
<1> SUFFICES ASSUME B # {} PROVE FALSE
  OBVIOUS
<1>1. B \in SUBSET SUBSET S
  OBVIOUS
<1> HIDE DEF B
<1>2. PICK s \in B : \A x \in s : s \ {x} \notin B
  BY ONLY <1>1, SmallestSet, B # {}, IsFiniteSet(S)
<1> USE DEF B
<1>3. s \in SUBSET S /\ SumFunctionOnSet(f, s) # SumFunctionOnSet(h, s)
  OBVIOUS
<1>4. /\ SumFunctionOnSet(f, {}) = 0 /\ SumFunctionOnSet(h, {}) = 0
      /\ \A x \in s : SumFunctionOnSet(f, s) = f[x] + SumFunctionOnSet(f, s \ {x})
      /\ \A x \in s : SumFunctionOnSet(h, s) = h[x] + SumFunctionOnSet(h, s \ {x})
  BY <1>3, SumRules
<1>5. PICK x : x \in s
  BY <1>3, <1>4
<1>6. SumFunctionOnSet(f, s \ {x}) = SumFunctionOnSet(h, s \ {x}) /\ h[x] = f[x]
  BY <1>2, <1>3, <1>5
<1> QED
  BY ONLY <1>3, <1>4, <1>5, <1>6

\* Sums of numbers are numbers.
LEMMA SumType ==
  ASSUME NEW S, IsFiniteSet(S), NEW f \in [S -> Int]
  PROVE  /\ SumFunction(f) = SumFunctionOnSet(f, S)
         /\ SumFunction(f) \in Int
         /\ (\A x \in S : f[x] \in Nat) => SumFunction(f) \in Nat
<1>1. SumFunction(f) = SumFunctionOnSet(f, S) /\ SumFunctionOnSet(f, S) \in Int
  BY SumRules DEF SumFunction
<1>2. ASSUME \A x \in S : f[x] \in Nat PROVE SumFunctionOnSet(f, S) \in Nat
  <2> DEFINE B == {s \in SUBSET S : SumFunctionOnSet(f, s) \notin Nat}
  <2> SUFFICES ASSUME B # {} PROVE FALSE
    OBVIOUS
  <2>1. B \in SUBSET SUBSET S
    OBVIOUS
  <2> HIDE DEF B
  <2>2. PICK s \in B : \A x \in s : s \ {x} \notin B
    BY ONLY <2>1, SmallestSet, B # {}, IsFiniteSet(S)
  <2> USE DEF B
  <2>3. s \in SUBSET S /\ SumFunctionOnSet(f, s) \notin Nat
    OBVIOUS
  <2>4. /\ SumFunctionOnSet(f, {}) = 0
        /\ \A x \in s : SumFunctionOnSet(f, s) = f[x] + SumFunctionOnSet(f, s \ {x})
    BY <2>3, SumRules
  <2>5. PICK x : x \in s
    <3>1. s # {}
      BY ONLY <2>3, <2>4
    <3> QED
      BY ONLY <3>1
  <2>6. SumFunctionOnSet(f, s \ {x}) \in Nat /\ f[x] \in Nat
    BY <1>2, <2>2, <2>3, <2>5
  <2> QED
    BY ONLY <2>3, <2>4, <2>5, <2>6
<1> QED
  BY <1>1, <1>2

\* What is summed in two parts.
LEMMA SumBoth ==
  ASSUME NEW S, IsFiniteSet(S), NEW f, \A x \in S : f[x] \in Int,
         NEW A \in SUBSET S, NEW C \in SUBSET S, A \cap C = {}
  PROVE  SumFunctionOnSet(f, A \cup C) = SumFunctionOnSet(f, A) + SumFunctionOnSet(f, C)
<1> DEFINE sum(s) == SumFunctionOnSet(f, s)
           B == {s \in SUBSET A : sum(s \cup C) # sum(s) + sum(C)}
<1> SUFFICES ASSUME B # {} PROVE FALSE
  OBVIOUS
<1>1. B \in SUBSET SUBSET A /\ IsFiniteSet(A)
  BY FS_Subset
<1> HIDE DEF B
<1>2. PICK s \in B : \A x \in s : s \ {x} \notin B
  BY ONLY <1>1, SmallestSet, B # {}
<1> USE DEF B
<1>3. s \in SUBSET A /\ sum(s \cup C) # sum(s) + sum(C)
  OBVIOUS
<1>4. /\ sum({}) = 0
      /\ \A z \in SUBSET S : sum(z) \in Int /\ \A x \in z : sum(z) = f[x] + sum(z \ {x})
  <2>1. /\ sum({}) = 0
        /\ \A z \in SUBSET S : sum(z) \in Int
        /\ \A z \in SUBSET S : \A x \in z : sum(z) = f[x] + sum(z \ {x})
    BY ONLY SumRules, IsFiniteSet(S), \A x \in S : f[x] \in Int
  <2> QED
    BY ONLY <2>1
<1> HIDE DEF sum
<1>5. s # {}
  <2>1. CASE s = {}
    <3>1. s \cup C = C
      BY <2>1
    <3>2. sum(C) \in Int
      BY <1>4
    <3> QED
      BY ONLY <1>3, <1>4, <2>1, <3>1, <3>2
  <2> QED
    BY <2>1
<1>6. PICK x : x \in s
  BY <1>5
<1> DEFINE t == s \ {x}
<1>7. sum(s) = f[x] + sum(t)
  BY <1>3, <1>4, <1>6
<1>8. sum(s \cup C) = f[x] + sum(t \cup C)
  <2>1. (s \cup C) \ {x} = t \cup C /\ s \cup C \in SUBSET S /\ x \in s \cup C
    BY <1>3, <1>6
  <2>2. sum(s \cup C) = f[x] + sum((s \cup C) \ {x})
    BY ONLY <1>4, <2>1
  <2> QED
    BY <2>1, <2>2
<1>9. sum(t \cup C) = sum(t) + sum(C)
  BY <1>2, <1>3, <1>6
<1>10. f[x] \in Int /\ sum(t) \in Int /\ sum(C) \in Int
  BY <1>3, <1>4, <1>6
<1> QED
  BY ONLY <1>3, <1>7, <1>8, <1>9, <1>10

\* Sums of differences.
LEMMA SumMinus ==
  ASSUME NEW S, IsFiniteSet(S), NEW f \in [S -> Int], NEW h \in [S -> Int]
  PROVE  SumFunction([x \in S |-> f[x] - h[x]]) = SumFunction(f) - SumFunction(h)
<1> DEFINE k == [x \in S |-> f[x] - h[x]]
           B == {s \in SUBSET S :
                   SumFunctionOnSet(k, s) # SumFunctionOnSet(f, s) - SumFunctionOnSet(h, s)}
<1>1. k \in [S -> Int] /\ \A x \in S : k[x] = f[x] - h[x]
  OBVIOUS
<1> HIDE DEF k
<1>2. B = {}
  <2> SUFFICES ASSUME B # {} PROVE FALSE
    OBVIOUS
  <2>1. B \in SUBSET SUBSET S
    OBVIOUS
  <2> HIDE DEF B
  <2>2. PICK s \in B : \A x \in s : s \ {x} \notin B
    BY ONLY <2>1, SmallestSet, B # {}, IsFiniteSet(S)
  <2> USE DEF B
  <2>3. /\ s \in SUBSET S
        /\ SumFunctionOnSet(k, s) # SumFunctionOnSet(f, s) - SumFunctionOnSet(h, s)
    OBVIOUS
  <2>4. /\ SumFunctionOnSet(f, {}) = 0
        /\ \A x \in s : /\ SumFunctionOnSet(f, s) = f[x] + SumFunctionOnSet(f, s \ {x})
                        /\ SumFunctionOnSet(f, s \ {x}) \in Int
    BY <2>3, SumRules
  <2>5. /\ SumFunctionOnSet(h, {}) = 0
        /\ \A x \in s : /\ SumFunctionOnSet(h, s) = h[x] + SumFunctionOnSet(h, s \ {x})
                        /\ SumFunctionOnSet(h, s \ {x}) \in Int
    BY <2>3, SumRules
  <2>6. /\ SumFunctionOnSet(k, {}) = 0
        /\ \A x \in s : SumFunctionOnSet(k, s) = k[x] + SumFunctionOnSet(k, s \ {x})
    BY <1>1, <2>3, SumRules
  <2>7. PICK x : x \in s
    BY <2>3, <2>4, <2>5, <2>6
  <2>8. /\ SumFunctionOnSet(k, s \ {x}) = SumFunctionOnSet(f, s \ {x}) - SumFunctionOnSet(h, s \ {x})
        /\ k[x] = f[x] - h[x] /\ f[x] \in Int /\ h[x] \in Int
    BY <1>1, <2>2, <2>3, <2>7
  <2> QED
    BY ONLY <2>3, <2>4, <2>5, <2>6, <2>7, <2>8
<1>3. SumFunctionOnSet(k, S) = SumFunctionOnSet(f, S) - SumFunctionOnSet(h, S)
  BY <1>2
<1>4. SumFunction(k) = SumFunction(f) - SumFunction(h)
  BY <1>1, <1>3, SumType
<1> QED
  BY <1>4 DEF k

\* A sum over a part.
LEMMA SumPart ==
  ASSUME NEW S, IsFiniteSet(S), NEW f, \A x \in S : f[x] \in Int, NEW A \in SUBSET S
  PROVE  SumFunction([x \in A |-> f[x]]) = SumFunctionOnSet(f, A)
<1> DEFINE h == [x \in A |-> f[x]]
<1>1. IsFiniteSet(A) /\ h \in [A -> Int] /\ \A x \in A : h[x] \in Int /\ f[x] = h[x]
  BY FS_Subset
<1> HIDE DEF h
<1>2. SumFunctionOnSet(h, A) = SumFunctionOnSet(f, A)
  BY <1>1, SumSame
<1>3. SumFunction(h) = SumFunctionOnSet(h, A)
  BY <1>1, SumType
<1> QED
  BY <1>2, <1>3 DEF h

\* What changes a sum are the values that change.
LEMMA SumChange ==
  ASSUME NEW S, IsFiniteSet(S), NEW f \in [S -> Int], NEW h \in [S -> Int],
         NEW A \in SUBSET S, \A x \in S \ A : h[x] = f[x]
  PROVE  SumFunction(h) - SumFunction(f) = SumFunction([x \in A |-> h[x] - f[x]])
<1> DEFINE k == [x \in S |-> h[x] - f[x]]
           u == [x \in A |-> h[x] - f[x]]
<1>1. k \in [S -> Int] /\ (\A x \in A : k[x] = h[x] - f[x]) /\ \A x \in S \ A : k[x] = 0
  OBVIOUS
<1>2. u = [x \in A |-> k[x]]
  OBVIOUS
<1>3. SumFunction(k) = SumFunction(h) - SumFunction(f)
  BY SumMinus
<1> HIDE DEF k, u
<1>4. SumFunctionOnSet(k, S \ A) = 0
  <2> DEFINE B == {s \in SUBSET (S \ A) : SumFunctionOnSet(k, s) # 0}
  <2> SUFFICES ASSUME B # {} PROVE FALSE
    OBVIOUS
  <2>1. B \in SUBSET SUBSET (S \ A) /\ IsFiniteSet(S \ A)
    BY FS_Subset
  <2> HIDE DEF B
  <2>2. PICK s \in B : \A x \in s : s \ {x} \notin B
    BY ONLY <2>1, SmallestSet, B # {}
  <2> USE DEF B
  <2>3. s \in SUBSET (S \ A) /\ SumFunctionOnSet(k, s) # 0
    OBVIOUS
  <2>4. /\ SumFunctionOnSet(k, {}) = 0
        /\ \A x \in s : SumFunctionOnSet(k, s) = k[x] + SumFunctionOnSet(k, s \ {x})
    BY <1>1, <2>3, SumRules
  <2>5. PICK x : x \in s
    BY <2>3, <2>4
  <2>6. SumFunctionOnSet(k, s \ {x}) = 0 /\ k[x] = 0
    BY <1>1, <2>2, <2>3, <2>5
  <2> QED
    BY ONLY <2>3, <2>4, <2>5, <2>6
<1>5. SumFunction(k) = SumFunctionOnSet(k, S) /\ SumFunctionOnSet(k, A) \in Int
  BY <1>1, SumType, SumRules
<1>6. SumFunctionOnSet(k, S) = SumFunctionOnSet(k, A) + SumFunctionOnSet(k, S \ A)
  <2>1. A \cup (S \ A) = S /\ A \cap (S \ A) = {} /\ S \ A \in SUBSET S
    OBVIOUS
  <2>2. SumFunctionOnSet(k, A \cup (S \ A)) = SumFunctionOnSet(k, A) + SumFunctionOnSet(k, S \ A)
    BY <1>1, <2>1, SumBoth
  <2> QED
    BY <2>1, <2>2
<1>7. SumFunction(u) = SumFunctionOnSet(k, A)
  <2>1. SumFunction([x \in A |-> k[x]]) = SumFunctionOnSet(k, A)
    BY <1>1, SumPart
  <2> QED
    BY <1>2, <2>1
<1> QED
  BY <1>3, <1>4, <1>5, <1>6, <1>7 DEF u

\* One value is its own sum.
LEMMA SumOne ==
  ASSUME NEW x, NEW f, f[x] \in Int
  PROVE  SumFunctionOnSet(f, {x}) = f[x]
<1>1. IsFiniteSet({x})
  BY FS_Singleton
<1>2. SumFunctionOnSet(f, {x}) = f[x] + SumFunctionOnSet(f, {x} \ {x}) /\ SumFunctionOnSet(f, {}) = 0
  BY <1>1, SumRules
<1>3. {x} \ {x} = {}
  OBVIOUS
<1> QED
  BY <1>2, <1>3

\* The same values, summed over other things.
LEMMA SumReindex ==
  ASSUME NEW S, IsFiniteSet(S), NEW f \in [S -> Int], NEW T, NEW k \in [T -> Int],
         NEW b, \A x \in S : b[x] \in T /\ f[x] = k[b[x]],
         \A x, y \in S : b[x] = b[y] => x = y,
         \A z \in T : \E x \in S : b[x] = z
  PROVE  SumFunction(f) = SumFunction(k)
<1> DEFINE over(s) == {b[x] : x \in s}
           B == {s \in SUBSET S : SumFunctionOnSet(f, s) # SumFunctionOnSet(k, over(s))}
<1>1. over(S) = T /\ IsFiniteSet(T)
  <2>1. over(S) = T
    OBVIOUS
  <2>2. IsFiniteSet(over(S))
    <3> DEFINE c == [x \in S |-> b[x]]
    <3>1. c \in Surjection(S, over(S))
      BY DEF Surjection
    <3> HIDE DEF c, over
    <3> QED
      BY <3>1, FS_Surjection
  <2> QED
    BY <2>1, <2>2
<1>2. B = {}
  <2> SUFFICES ASSUME B # {} PROVE FALSE
    OBVIOUS
  <2>1. B \in SUBSET SUBSET S
    OBVIOUS
  <2> HIDE DEF B
  <2>2. PICK s \in B : \A x \in s : s \ {x} \notin B
    BY ONLY <2>1, SmallestSet, B # {}, IsFiniteSet(S)
  <2> USE DEF B
  <2>3. s \in SUBSET S /\ SumFunctionOnSet(f, s) # SumFunctionOnSet(k, over(s))
    OBVIOUS
  <2>4. /\ SumFunctionOnSet(f, {}) = 0
        /\ \A x \in s : SumFunctionOnSet(f, s) = f[x] + SumFunctionOnSet(f, s \ {x})
    BY <2>3, SumRules
  <2>5. /\ SumFunctionOnSet(k, {}) = 0
        /\ \A z \in over(s) : SumFunctionOnSet(k, over(s))
                                = k[z] + SumFunctionOnSet(k, over(s) \ {z})
    <3>1. over(s) \in SUBSET T
      BY <2>3
    <3> HIDE DEF over
    <3> QED
      BY <1>1, <3>1, SumRules
  <2>6. s # {}
    <3>1. over({}) = {}
      OBVIOUS
    <3> HIDE DEF over
    <3> QED
      BY <2>3, <2>4, <2>5, <3>1
  <2>7. PICK x : x \in s
    BY <2>6
  <2>8. over(s) \ {b[x]} = over(s \ {x}) /\ b[x] \in over(s)
    BY <2>3, <2>7
  <2>9. SumFunctionOnSet(f, s \ {x}) = SumFunctionOnSet(k, over(s \ {x})) /\ f[x] = k[b[x]]
    BY <2>2, <2>3, <2>7
  <2> HIDE DEF over
  <2> QED
    BY ONLY <2>3, <2>4, <2>5, <2>7, <2>8, <2>9
<1>3. SumFunctionOnSet(f, S) = SumFunctionOnSet(k, T)
  BY <1>1, <1>2
<1> HIDE DEF over
<1>4. SumFunction(f) = SumFunctionOnSet(f, S) /\ SumFunction(k) = SumFunctionOnSet(k, T)
  BY <1>1, SumType
<1> QED
  BY <1>3, <1>4

-----------------------------------------------------------------------------
(* Finite sets.                                                             *)

\* The image of a finite set is finite.
LEMMA ImageFinite ==
  ASSUME NEW S, IsFiniteSet(S), NEW f
  PROVE  IsFiniteSet({f[x] : x \in S})
<1> DEFINE T == {f[x] : x \in S}
           b == [x \in S |-> f[x]]
<1>1. b \in Surjection(S, T)
  BY DEF Surjection
<1> HIDE DEF b, T
<1>2. IsFiniteSet(T)
  BY <1>1, FS_Surjection
<1> QED
  BY <1>2 DEF T

\* A finite set of numbers has a greatest and a least one.
LEMMA MaxIn ==
  ASSUME NEW P \in SUBSET Int, IsFiniteSet(P), P # {}
  PROVE  Max(P) \in P /\ \A y \in P : y <= Max(P)
<1> DEFINE B == {s \in SUBSET P : s # {} /\ ~\E m \in s : \A y \in s : y <= m}
<1>1. B = {}
  <2> SUFFICES ASSUME B # {} PROVE FALSE
    OBVIOUS
  <2>1. B \in SUBSET SUBSET P
    OBVIOUS
  <2> HIDE DEF B
  <2>2. PICK s \in B : \A x \in s : s \ {x} \notin B
    BY ONLY <2>1, SmallestSet, B # {}, IsFiniteSet(P)
  <2> USE DEF B
  <2>3. s \in SUBSET P /\ s # {} /\ ~\E m \in s : \A y \in s : y <= m
    OBVIOUS
  <2>4. PICK x : x \in s
    BY <2>3
  <2>5. s \ {x} # {}
    <3>1. x \in Int
      BY <2>3, <2>4
    <3> QED
      BY <2>3, <2>4, <3>1
  <2>6. PICK m \in s \ {x} : \A y \in s \ {x} : y <= m
    BY <2>2, <2>3, <2>4, <2>5
  <2>7. x \in Int /\ m \in Int
    BY <2>3, <2>4
  <2>8. CASE x <= m
    BY ONLY <2>3, <2>6, <2>8
  <2>9. CASE m <= x
    <3>1. \A y \in s : y <= x
      BY <2>3, <2>6, <2>7, <2>9
    <3> QED
      BY ONLY <2>3, <2>4, <3>1
  <2> QED
    BY ONLY <2>7, <2>8, <2>9
<1>2. \E m \in P : \A y \in P : y <= m
  BY <1>1
<1>3. \E m \in P : \A y \in P : m >= y
  BY <1>2
<1> QED
  BY <1>3 DEF Max

\* The least of finitely many integers.
LEMMA MinIn ==
  ASSUME NEW P \in SUBSET Int, IsFiniteSet(P), P # {}
  PROVE  Min(P) \in P /\ \A y \in P : Min(P) <= y
<1> DEFINE B == {s \in SUBSET P : s # {} /\ ~\E m \in s : \A y \in s : m <= y}
<1>1. B = {}
  <2> SUFFICES ASSUME B # {} PROVE FALSE
    OBVIOUS
  <2>1. B \in SUBSET SUBSET P
    OBVIOUS
  <2> HIDE DEF B
  <2>2. PICK s \in B : \A x \in s : s \ {x} \notin B
    BY ONLY <2>1, SmallestSet, B # {}, IsFiniteSet(P)
  <2> USE DEF B
  <2>3. s \in SUBSET P /\ s # {} /\ ~\E m \in s : \A y \in s : m <= y
    OBVIOUS
  <2>4. PICK x : x \in s
    BY <2>3
  <2>5. s \ {x} # {}
    <3>1. x \in Int
      BY <2>3, <2>4
    <3> QED
      BY <2>3, <2>4, <3>1
  <2>6. PICK m \in s \ {x} : \A y \in s \ {x} : m <= y
    BY <2>2, <2>3, <2>4, <2>5
  <2>7. x \in Int /\ m \in Int
    BY <2>3, <2>4
  <2>8. CASE m <= x
    BY ONLY <2>3, <2>6, <2>8
  <2>9. CASE x <= m
    <3>1. \A y \in s : x <= y
      BY <2>3, <2>6, <2>7, <2>9
    <3> QED
      BY ONLY <2>3, <2>4, <3>1
  <2> QED
    BY ONLY <2>7, <2>8, <2>9
<1>2. \E m \in P : \A y \in P : m <= y
  BY <1>1
<1> QED
  BY <1>2 DEF Min

-----------------------------------------------------------------------------
(* Prices are numbers.                                                      *)

\* Numbers in a finite set.
HourSets == {P \in SUBSET Nat : IsFiniteSet(P)}

\* The first and the last hour of a day.
LEMMA PositionsEnds ==
  ASSUME NEW P \in HourSets, P # {}
  PROVE  /\ Max(P) \in P /\ Min(P) \in P /\ Max(P) \in Nat /\ Min(P) \in Nat
         /\ \A p \in P : p \in Nat /\ Min(P) <= p /\ p <= Max(P)
<1>1. P \in SUBSET Int /\ IsFiniteSet(P) /\ P \in SUBSET Nat
  BY DEF HourSets
<1>2. Max(P) \in P /\ (\A y \in P : y <= Max(P)) /\ Min(P) \in P /\ \A y \in P : Min(P) <= y
  BY ONLY <1>1, P # {}, MaxIn, MinIn
<1> QED
  BY ONLY <1>1, <1>2

\* Hours do not overlap, so a day is at least as long as it has hours.
LEMMA PositionsFit ==
  ASSUME NEW P \in HourSets
  PROVE  /\ Cardinality(P) \in Nat
         /\ P # {} => Cardinality(P) >= 1 /\ Cardinality(P) <= Max(P) - Min(P) + 1
<1>1. IsFiniteSet(P) /\ Cardinality(P) \in Nat
  BY FS_CardinalityType DEF HourSets
<1>2. ASSUME P # {} PROVE Cardinality(P) >= 1 /\ Cardinality(P) <= Max(P) - Min(P) + 1
  <2> DEFINE lo == Min(P)
             hi == Max(P)
  <2>1. lo \in Nat /\ hi \in Nat /\ lo <= hi /\ P \in SUBSET (lo..hi)
    BY <1>2, PositionsEnds
  <2> HIDE DEF lo, hi
  <2>2. IsFiniteSet(lo..hi) /\ Cardinality(lo..hi) = hi - lo + 1
    BY <2>1, FS_Interval
  <2>3. Cardinality(P) <= hi - lo + 1
    BY <2>1, <2>2, FS_Subset
  <2>4. Cardinality(P) # 0
    BY <1>1, <1>2, FS_EmptySet
  <2> QED
    BY <1>1, <2>3, <2>4 DEF lo, hi
<1> QED
  BY <1>1, <1>2

\* Gap-hours are a number.
LEMMA GapNat ==
  ASSUME NEW P \in HourSets
  PROVE  GapCount(P) \in Nat
<1>1. CASE Cardinality(P) < 2
  BY <1>1 DEF GapCount
<1>2. CASE ~(Cardinality(P) < 2)
  <2>1. P # {} /\ Cardinality(P) \in Nat
    BY <1>2, FS_EmptySet, PositionsFit
  <2>2. Max(P) \in Nat /\ Min(P) \in Nat /\ Cardinality(P) <= Max(P) - Min(P) + 1
    BY <2>1, PositionsEnds, PositionsFit
  <2> QED
    BY <1>2, <2>1, <2>2 DEF GapCount
<1> QED
  BY <1>1, <1>2

\* The positions of a schedule.
LEMMA RowsPositions ==
  ASSUME NEW R \in SUBSET Row, NEW d
  PROVE  PositionsOf(R, d) \in HourSets
<1> DEFINE Q == {q \in R : Day(q.slot) = d}
           f == [r \in Q |-> Pos(r.slot)]
<1>1. IsFiniteSet(Q)
  BY ScheduleFinite
<1>2. \A r \in Q : Pos(r.slot) \in Nat
  BY ProblemAssumption DEF Row, Pos
<1>3. PositionsOf(R, d) = {f[r] : r \in Q}
  BY DEF PositionsOf
<1>4. PositionsOf(R, d) \in SUBSET Nat
  BY <1>2, <1>3
<1> HIDE DEF Q, f
<1> QED
  BY <1>1, <1>3, <1>4, ImageFinite DEF HourSets

\* Positions by class or teacher and day.
ByDay(X, pos) == pos \in [X \X AllDays -> HourSets]

\* The positions of a schedule are sets of hours, for each class and teacher.
LEMMA SchedulePositions ==
  ASSUME NEW R \in SUBSET Row
  PROVE  ByDay(Classes, ClassPositions(R)) /\ ByDay(Teachers, TeacherPositions(R))
<1>1. \A c, d : PositionsOf(ClassRows(R, c), d) \in HourSets
  BY RowsPositions DEF ClassRows
<1>2. \A t, d : PositionsOf(TeacherRows(R, t), d) \in HourSets
  BY RowsPositions DEF TeacherRows
<1> QED
  BY <1>1, <1>2 DEF ByDay, ClassPositions, TeacherPositions

\* Days are numbered from 0.
LEMMA DaysNumbered ==
  /\ DayCount \in Nat /\ IsFiniteSet(AllDays)
  /\ \A s \in TimeBlocks : Day(s) \in AllDays /\ Day(s) \in Nat /\ Pos(s) \in Nat
<1> DEFINE f == [s \in TimeBlocks |-> Day(s)]
           D == {f[s] : s \in TimeBlocks} \cup {-1}
<1>1. IsFiniteSet(TimeBlocks) /\ TimeBlocks \subseteq Nat \X Nat
  BY ProblemAssumption, WeightAssumption, FS_Union DEF TimeBlocks
<1>2. \A s \in TimeBlocks : Day(s) \in Nat /\ Pos(s) \in Nat /\ f[s] = Day(s)
  BY <1>1 DEF Day, Pos
<1>3. IsFiniteSet(D)
  <2> DEFINE I == {f[s] : s \in TimeBlocks}
  <2> HIDE DEF f
  <2>1. IsFiniteSet(I)
    BY <1>1, ImageFinite
  <2>2. D = I \cup {-1}
    OBVIOUS
  <2> HIDE DEF I, D
  <2>3. IsFiniteSet(I \cup {-1})
    BY ONLY <2>1, FS_AddElement
  <2> QED
    BY ONLY <2>2, <2>3
<1>4. D = {Day(s) : s \in TimeBlocks} \cup {-1} /\ D \in SUBSET Int /\ D # {}
  BY <1>2
<1> HIDE DEF D
<1>5. Max(D) \in D /\ \A y \in D : y <= Max(D)
  BY <1>3, <1>4, MaxIn
<1>6. DayCount = Max(D) + 1
  BY <1>4 DEF DayCount
<1>7. Max(D) = -1 \/ Max(D) \in Nat
  BY <1>2, <1>4, <1>5
<1>8. \A s \in TimeBlocks : Day(s) <= Max(D)
  BY <1>4, <1>5
<1>9. DayCount \in Nat /\ \A s \in TimeBlocks : Day(s) <= DayCount - 1
  BY <1>2, <1>6, <1>7, <1>8
<1> QED
  BY <1>2, <1>9, FS_Interval DEF AllDays

\* No slot lies behind the last time block of its day.
LEMMA LastPosLast ==
  ASSUME NEW s \in Slots
  PROVE  Pos(s) \in Nat /\ LastPos(Day(s)) \in Nat /\ Pos(s) <= LastPos(Day(s))
<1> DEFINE B == {b \in TimeBlocks : Day(b) = Day(s)}
           f == [b \in B |-> Pos(b)]
           P == {f[b] : b \in B}
<1>1. IsFiniteSet(B)
  <2>1. IsFiniteSet(TimeBlocks)
    BY ProblemAssumption, WeightAssumption, FS_Union DEF TimeBlocks
  <2> QED
    BY <2>1, FS_Subset
<1>2. (\A b \in B : Pos(b) \in Nat) /\ s \in B /\ P = {Pos(b) : b \in B}
  BY DaysNumbered DEF TimeBlocks
<1>3. IsFiniteSet(P)
  <2> HIDE DEF B, f
  <2> QED
    BY <1>1, ImageFinite
<1>4. P \in HourSets /\ Pos(s) \in P
  BY <1>2, <1>3 DEF HourSets
<1>5. LastPos(Day(s)) = Max(P)
  BY <1>2 DEF LastPos
<1> HIDE DEF P
<1> QED
  BY <1>4, <1>5, PositionsEnds

-----------------------------------------------------------------------------
(* Each axis.                                                               *)

\* What a subject makes of a slot.
LEMMA PreferenceNat ==
  ASSUME NEW subject \in Subjects, NEW s \in Slots
  PROVE  SubjectPreference(subject, s) \in Nat
<1>1. Pos(s) \in Nat /\ LastPos(Day(s)) - Pos(s) \in Nat
  BY LastPosLast
<1>2. /\ Wish[subject].early \in Nat /\ Wish[subject].first \in Nat
      /\ Wish[subject].last \in Nat /\ Wish[subject].late \in Nat
  BY WeightAssumption
<1>3. /\ Weight["early"] \in Nat /\ Weight["first"] \in Nat
      /\ Weight["last"] \in Nat /\ Weight["late"] \in Nat
  BY WeightAssumption DEF Axes
<1>4. \A m, n \in Nat : m * n \in Nat
  OBVIOUS
<1> DEFINE a == Weight["early"] * Wish[subject].early
           b == Weight["first"] * Wish[subject].first
           c == Weight["last"] * Wish[subject].last
           d == Weight["late"] * Wish[subject].late
<1>5. a \in Nat /\ b \in Nat /\ c \in Nat /\ d \in Nat
  BY ONLY <1>2, <1>3, <1>4
<1> HIDE DEF a, b, c, d
<1>6. a * Pos(s) \in Nat /\ d * (LastPos(Day(s)) - Pos(s)) \in Nat
  BY ONLY <1>1, <1>4, <1>5
<1>7. SubjectPreference(subject, s)
        = a * Pos(s) + (IF Pos(s) = 0 THEN b ELSE 0)
          + (IF Pos(s) = LastPos(Day(s)) THEN c ELSE 0) + d * (LastPos(Day(s)) - Pos(s))
  BY DEF SubjectPreference, a, b, c, d
<1> QED
  BY ONLY <1>5, <1>6, <1>7

\* What a lesson in a room costs.
LEMMA PenaltyNat ==
  ASSUME NEW l \in Lessons, NEW room
  PROVE  HomeRoomPenalty(l, room) \in Nat
<1> DEFINE n == Cardinality({c \in ClassesOf[l] : StrangeRoom(c, room)})
<1>1. n \in Nat
  <2>1. ClassesOf[l] \subseteq Classes /\ IsFiniteSet(Classes)
    BY ProblemAssumption DEF ValidLessons
  <2>2. IsFiniteSet({c \in ClassesOf[l] : StrangeRoom(c, room)})
    BY <2>1, FS_Subset
  <2> QED
    BY <2>2, FS_CardinalityType
<1>2. Weight["homeRoom"] \in Nat
  BY WeightAssumption DEF Axes
<1>3. HomeRoomPenalty(l, room) = Weight["homeRoom"] * n
  BY DEF HomeRoomPenalty
<1> HIDE DEF n
<1> QED
  BY ONLY <1>1, <1>2, <1>3

\* Gap-hours of a week, and the balance of a class.
LEMMA GapHoursNat ==
  ASSUME NEW X, IsFiniteSet(X), NEW pos, ByDay(X, pos)
  PROVE  /\ GapHours(pos) \in Nat
         /\ \A c \in X : GapHoursOf(pos, c) \in Nat /\ BalanceOf(pos, c) \in Nat
<1>1. pos \in [X \X AllDays -> HourSets] /\ DOMAIN pos = X \X AllDays
  BY DEF ByDay
<1>2. \A x \in X \X AllDays : GapCount(pos[x]) \in Nat
  BY <1>1, GapNat
<1>3. IsFiniteSet(AllDays) /\ IsFiniteSet(X \X AllDays) /\ DayCount \in Nat
  BY DaysNumbered, FS_Product
<1>4. GapHours(pos) \in Nat
  <2> DEFINE f == [x \in X \X AllDays |-> GapCount(pos[x])]
  <2>1. f \in [X \X AllDays -> Int] /\ \A x \in X \X AllDays : f[x] \in Nat
    BY <1>2
  <2>2. GapHours(pos) = SumFunction(f)
    BY <1>1 DEF GapHours
  <2> HIDE DEF f
  <2> QED
    BY <1>3, <2>1, <2>2, SumType
<1>5. ASSUME NEW c \in X PROVE GapHoursOf(pos, c) \in Nat
  <2> DEFINE f == [d \in AllDays |-> GapCount(pos[<<c, d>>])]
  <2>1. f \in [AllDays -> Int] /\ \A d \in AllDays : f[d] \in Nat
    BY <1>2
  <2>2. GapHoursOf(pos, c) = SumFunction(f)
    BY DEF GapHoursOf
  <2> HIDE DEF f
  <2> QED
    BY <1>3, <2>1, <2>2, SumType
<1>6. ASSUME NEW c \in X PROVE BalanceOf(pos, c) \in Nat
  <2> DEFINE n == Loads(pos, c)
             sum == SumFunction(n)
             f == [d \in AllDays |-> AbsDiff(n[d] * DayCount, sum)]
  <2>1. \A d \in AllDays : n[d] \in Nat
    <3>1. \A d \in AllDays : pos[<<c, d>>] \in HourSets
      BY <1>1
    <3> QED
      BY <3>1, PositionsFit DEF Loads
  <2>2. n \in [AllDays -> Int]
    BY <2>1 DEF Loads
  <2> HIDE DEF n
  <2>3. sum \in Nat
    BY <1>3, <2>1, <2>2, SumType
  <2> HIDE DEF sum
  <2>4. \A d \in AllDays : AbsDiff(n[d] * DayCount, sum) \in Nat
    <3>1. \A k, m \in Nat : k * m \in Nat
      OBVIOUS
    <3>2. \A k, m \in Nat : AbsDiff(k, m) \in Nat
      BY DEF AbsDiff
    <3> QED
      BY ONLY <1>3, <2>1, <2>3, <3>1, <3>2
  <2>5. f \in [AllDays -> Int] /\ \A d \in AllDays : f[d] \in Nat
    BY <2>4
  <2>6. BalanceOf(pos, c) = IF sum = 0 THEN 0 ELSE SumFunction(f) \div DayCount
    BY DEF BalanceOf, Spread, n, sum
  <2> HIDE DEF f
  <2>7. SumFunction(f) \in Nat
    BY <1>3, <2>5, SumType
  <2>8. sum # 0 => DayCount # 0
    <3>1. ASSUME DayCount = 0 PROVE sum = 0
      <4>1. AllDays = {}
        BY <3>1 DEF AllDays
      <4>2. SumFunction(n) = SumFunctionOnSet(n, {}) /\ SumFunctionOnSet(n, {}) = 0
        BY <1>3, <2>2, <4>1, SumType, SumRules
      <4> QED
        BY <4>2 DEF sum
    <3> QED
      BY <3>1
  <2> QED
    BY ONLY <1>3, <2>6, <2>7, <2>8
<1> QED
  BY <1>4, <1>5, <1>6

\* What is summed row by row.
LEMMA RowSumsNat ==
  ASSUME NEW R \in SUBSET Row
  PROVE  RowPreference(R) \in Nat /\ HomeRoomTotal(R) \in Nat
<1>1. IsFiniteSet(R) /\ \A r \in R : r.lesson \in Lessons /\ r.slot \in Slots
  BY ScheduleFinite DEF Row
<1>2. \A l \in Lessons : SubjectOf[l] \in Subjects
  BY ProblemAssumption DEF ValidLessons
<1>3. RowPreference(R) \in Nat
  <2> DEFINE f == [r \in R |-> SubjectPreference(SubjectOf[r.lesson], r.slot)]
  <2>1. f \in [R -> Int] /\ \A r \in R : f[r] \in Nat
    BY <1>1, <1>2, PreferenceNat
  <2>2. RowPreference(R) = SumFunction(f)
    BY DEF RowPreference
  <2> HIDE DEF f
  <2> QED
    BY <1>1, <2>1, <2>2, SumType
<1>4. HomeRoomTotal(R) \in Nat
  <2> DEFINE f == [r \in R |-> HomeRoomPenalty(r.lesson, r.room)]
  <2>1. f \in [R -> Int] /\ \A r \in R : f[r] \in Nat
    BY <1>1, PenaltyNat
  <2>2. HomeRoomTotal(R) = SumFunction(f)
    BY DEF HomeRoomTotal
  <2> HIDE DEF f
  <2> QED
    BY <1>1, <2>1, <2>2, SumType
<1> QED
  BY <1>3, <1>4

\* The worst of a few numbers, or nothing.
LEMMA WorstNat ==
  ASSUME NEW S, IsFiniteSet(S), NEW f, \A x \in S : f[x] \in Int
  PROVE  Max({0} \cup {f[x] : x \in S}) \in Nat
<1> DEFINE I == {f[x] : x \in S}
           T == {0} \cup I
<1>1. IsFiniteSet(I) /\ I \in SUBSET Int
  BY ImageFinite
<1> HIDE DEF I
<1>2. T = I \cup {0}
  OBVIOUS
<1>3. IsFiniteSet(T)
  BY <1>1, <1>2, FS_AddElement
<1>4. T \in SUBSET Int /\ T # {} /\ 0 \in T
  BY <1>1
<1> HIDE DEF T
<1>5. Max(T) \in T /\ 0 <= Max(T)
  BY <1>3, <1>4, MaxIn
<1> QED
  BY <1>4, <1>5 DEF T, I

\* The class with the most gap-hours.
LEMMA WorstGapsNat ==
  ASSUME NEW R \in SUBSET Row
  PROVE  WorstClassGaps(R) \in Nat
<1> DEFINE f == [c \in Classes |-> GapHoursOf(ClassPositions(R), c)]
<1>1. IsFiniteSet(Classes)
  BY ProblemAssumption
<1>2. \A c \in Classes : f[c] \in Int
  BY <1>1, SchedulePositions, GapHoursNat
<1>3. Max({0} \cup {f[c] : c \in Classes}) \in Nat
  BY <1>1, <1>2, WorstNat
<1>4. {f[c] : c \in Classes} = {GapHoursOf(ClassPositions(R), c) : c \in Classes}
  OBVIOUS
<1> QED
  BY <1>3, <1>4 DEF WorstClassGaps

\* The class with the most uneven days.
LEMMA WorstSpreadNat ==
  ASSUME NEW R \in SUBSET Row
  PROVE  WorstClassSpread(R) \in Nat
<1> DEFINE load(c, d) == Cardinality({r \in ClassRows(R, c) : Day(r.slot) = d})
           loads(c) == {load(c, d) : d \in 0..4}
           busy == {c \in Classes : \E r \in ClassRows(R, c) : Day(r.slot) < 5}
           f == [c \in busy |-> Max(loads(c)) - Min(loads(c))]
<1>1. IsFiniteSet(busy)
  BY ProblemAssumption, FS_Subset
<1>2. ASSUME NEW c \in busy PROVE f[c] \in Int
  <2> DEFINE g == [d \in 0..4 |-> load(c, d)]
  <2>1. \A d \in 0..4 : load(c, d) \in Nat
    <3>1. \A d : {r \in ClassRows(R, c) : Day(r.slot) = d} \in SUBSET Row
      BY DEF ClassRows
    <3> QED
      BY <3>1, ScheduleFinite
  <2>2. IsFiniteSet(0..4)
    <3>1. 0 \in Int /\ 4 \in Int
      OBVIOUS
    <3> QED
      BY ONLY <3>1, FS_Interval
  <2>3. loads(c) = {g[d] : d \in 0..4}
    OBVIOUS
  <2>4. IsFiniteSet({g[d] : d \in 0..4})
    <3> HIDE DEF g
    <3> QED
      BY <2>2, ImageFinite
  <2>5. loads(c) \in HourSets /\ loads(c) # {}
    <3>1. load(c, 0) \in loads(c) /\ loads(c) \in SUBSET Nat
      <4> HIDE DEF load
      <4> QED
        BY ONLY <2>1
    <3> QED
      BY ONLY <2>3, <2>4, <3>1 DEF HourSets
  <2>6. Max(loads(c)) \in Nat /\ Min(loads(c)) \in Nat
    <3> HIDE DEF loads
    <3> QED
      BY <2>5, PositionsEnds
  <2> QED
    BY <2>6
<1>3. {f[c] : c \in busy} = {Max(loads(c)) - Min(loads(c)) : c \in busy}
  OBVIOUS
<1>4. WorstClassSpread(R) = Max({0} \cup {Max(loads(c)) - Min(loads(c)) : c \in busy})
  BY DEF WorstClassSpread
<1> HIDE DEF loads, f, busy
<1>5. Max({0} \cup {f[c] : c \in busy}) \in Nat
  BY <1>1, <1>2, WorstNat
<1> QED
  BY <1>3, <1>4, <1>5

\* What is counted.
LEMMA MissesNat ==
  ASSUME NEW R \in SUBSET Row
  PROVE  ClassTeacherMisses(R) \in Nat /\ SoftPinMisses(R) \in Nat
<1>1. IsFiniteSet(Classes \X Subjects) /\ IsFiniteSet(SoftPins)
  BY ProblemAssumption, WeightAssumption, FS_Product
<1>2. \A S : IsFiniteSet(S) => \A T \in SUBSET S : Cardinality(T) \in Nat
  BY FS_Subset, FS_CardinalityType
<1> DEFINE T == {x \in Classes \X Subjects : \E r \in ClassRows(R, x[1]) :
                    /\ SubjectOf[r.lesson] = x[2]
                    /\ PrefersOwn(x[1], x[2], r.teacher)}
           P == {k \in SoftPins : ~\E r \in R : r.lesson = k[1] /\ r.slot = k[2]}
<1>3. T \in SUBSET (Classes \X Subjects) /\ P \in SUBSET SoftPins
  OBVIOUS
<1>4. ClassTeacherMisses(R) = Cardinality(T) /\ SoftPinMisses(R) = Cardinality(P)
  BY DEF ClassTeacherMisses, SoftPinMisses
<1> HIDE DEF T, P
<1> QED
  BY ONLY <1>1, <1>2, <1>3, <1>4

-----------------------------------------------------------------------------
(* The rota.                                                                *)

\* Of some breaks, one is the latest.
LEMMA LatestIn ==
  ASSUME NEW S \in SUBSET Breaks, S # {}
  PROVE  Latest(S) \in S
<1> DEFINE le(x, b) == Day(x) < Day(b) \/ (Day(x) = Day(b) /\ Pos(x) <= Pos(b))
           last(T) == \E b \in T : \A x \in T : le(x, b)
           B == {T \in SUBSET S : T # {} /\ ~last(T)}
<1>1. IsFiniteSet(S) /\ \A b \in S : Day(b) \in Nat /\ Pos(b) \in Nat
  BY WeightAssumption, FS_Subset, DaysNumbered DEF TimeBlocks
<1>2. \A x, y \in S : /\ le(x, y) \/ le(y, x)
                      /\ \A z \in S : le(x, y) /\ le(y, z) => le(x, z)
  BY ONLY <1>1
<1> HIDE DEF le
<1>3. B = {}
  <2> SUFFICES ASSUME B # {} PROVE FALSE
    OBVIOUS
  <2>1. B \in SUBSET SUBSET S
    OBVIOUS
  <2> HIDE DEF B
  <2>2. PICK T \in B : \A x \in T : T \ {x} \notin B
    BY ONLY <2>1, <1>1, SmallestSet, B # {}
  <2> USE DEF B
  <2>3. T \in SUBSET S /\ T # {} /\ ~last(T)
    OBVIOUS
  <2>4. PICK x : x \in T
    BY ONLY <2>3
  <2>5. T \ {x} # {}
    BY ONLY <1>2, <2>3, <2>4
  <2>6. last(T \ {x})
    <3>1. T \ {x} \in SUBSET S /\ T \ {x} \notin B
      BY <2>2, <2>3, <2>4
    <3> HIDE DEF last
    <3> QED
      BY <2>5, <3>1
  <2>7. PICK b \in T \ {x} : \A y \in T \ {x} : le(y, b)
    BY ONLY <2>6
  <2>8. ~le(x, b)
    BY ONLY <2>3, <2>7
  <2>9. le(b, x) /\ le(x, x)
    BY ONLY <1>2, <2>3, <2>4, <2>7, <2>8
  <2>10. \A y \in T : le(y, x)
    BY ONLY <1>2, <2>3, <2>4, <2>7, <2>9
  <2> QED
    BY ONLY <2>3, <2>4, <2>10
<1>4. last(S)
  <2> HIDE DEF last
  <2> QED
    BY <1>3
<1> QED
  BY <1>4 DEF Latest, le

\* The rota counts every teacher's supervisions.
LEMMA RotaType ==
  ASSUME NEW eligible
  PROVE  Rota(eligible) \in [Teachers -> Nat]
<1> DEFINE A == [Teachers -> Nat]
           zero == [t \in Teachers |-> 0]
           pick == [s \in SUBSET Breaks |-> Latest(s)]
           step == [y \in Breaks \X A |-> Assign(eligible, y[1], y[2])]
           Deals(g) == g = [s \in SUBSET Breaks |->
                              IF s = {} THEN zero
                              ELSE Assign(eligible, Latest(s), g[s \ {Latest(s)}])]
           g0 == CHOOSE g : Deals(g)
<1>1. Rota(eligible) = g0[Breaks]
  BY DEF Rota, MapThenFoldSet
<1>2. IsFiniteSet(Breaks) /\ zero \in A
  BY WeightAssumption
<1>3. \A s \in SUBSET Breaks : s # {} => pick[s] \in s
  BY LatestIn
<1>4. ASSUME NEW b, NEW count \in A PROVE Assign(eligible, b, count) \in A
  <2>1. ASSUME NEW t PROVE [count EXCEPT ![t] = @ + 1] \in A
    <3> DEFINE n == [x \in Teachers |-> IF x = t THEN count[x] + 1 ELSE count[x]]
    <3>1. n \in A
      OBVIOUS
    <3>2. [count EXCEPT ![t] = @ + 1] = n
      OBVIOUS
    <3> QED
      BY ONLY <3>1, <3>2
  <2> QED
    BY <2>1 DEF Assign
<1>5. step \in [Breaks \X A -> A]
  BY <1>4
<1>6. (\A s \in SUBSET Breaks : pick[s] = Latest(s))
      /\ \A b \in Breaks : \A count \in A : step[<<b, count>>] = Assign(eligible, b, count)
  OBVIOUS
<1> HIDE DEF A, zero, pick, step
<1>7. ASSUME NEW g, Folding(g, zero, pick, step, SUBSET Breaks)
      PROVE  g \in [SUBSET Breaks -> A] /\ Deals(g)
  <2>1. g \in [SUBSET Breaks -> A]
    BY ONLY <1>2, <1>3, <1>5, <1>7, FoldType
  <2>2. g = [s \in SUBSET Breaks |-> IF s = {} THEN zero ELSE step[<<pick[s], g[s \ {pick[s]}]>>]]
    BY <1>7 DEF Folding
  <2>3. ASSUME NEW s \in SUBSET Breaks, s # {}
        PROVE  step[<<pick[s], g[s \ {pick[s]}]>>] = Assign(eligible, Latest(s), g[s \ {Latest(s)}])
    BY <1>3, <1>6, <2>1, <2>3
  <2> QED
    BY <2>1, <2>2, <2>3
<1>8. \E g : Folding(g, zero, pick, step, SUBSET Breaks)
  BY ONLY <1>2, <1>3, FoldExists
<1>9. \E g : Deals(g)
  BY <1>7, <1>8
<1>10. Deals(g0)
  <2> HIDE DEF Deals
  <2> QED
    BY <1>9
<1> HIDE DEF g0
<1>11. g0 \in [SUBSET Breaks -> A]
  <2> DEFINE B == {s \in SUBSET Breaks : g0[s] \notin A}
  <2>0. \A s \in SUBSET Breaks : g0[s] = IF s = {} THEN zero
                                         ELSE Assign(eligible, Latest(s), g0[s \ {Latest(s)}])
    BY <1>10
  <2>1. B = {}
    <3> SUFFICES ASSUME B # {} PROVE FALSE
      OBVIOUS
    <3>1. B \in SUBSET SUBSET Breaks
      OBVIOUS
    <3> HIDE DEF B
    <3>2. PICK s \in B : \A x \in s : s \ {x} \notin B
      BY ONLY <3>1, <1>2, SmallestSet, B # {}
    <3> USE DEF B
    <3>3. s \in SUBSET Breaks /\ g0[s] \notin A
      OBVIOUS
    <3>4. s # {}
      BY <1>2, <2>0, <3>3
    <3>5. Latest(s) \in s
      BY <3>3, <3>4, LatestIn
    <3>6. g0[s \ {Latest(s)}] \in A
      BY <3>2, <3>3, <3>5
    <3>7. g0[s] = Assign(eligible, Latest(s), g0[s \ {Latest(s)}])
      BY <2>0, <3>3, <3>4
    <3> QED
      BY ONLY <1>4, <3>3, <3>6, <3>7
  <2>2. \A s \in SUBSET Breaks : g0[s] \in A
    BY <2>1
  <2> QED
    BY <1>10, <2>2
<1> QED
  BY <1>1, <1>11 DEF A

\* The spread of the rota.
LEMMA SupervisionNat ==
  ASSUME NEW R
  PROVE  SupervisionSpread(R) \in Nat
<1> DEFINE count == Rota(Eligible(R))
           loads == {count[t] : t \in Teachers} \ {0}
<1>1. count \in [Teachers -> Nat] /\ IsFiniteSet(Teachers)
  BY RotaType, ProblemAssumption
<1> HIDE DEF count
<1>2. IsFiniteSet({count[t] : t \in Teachers})
  BY <1>1, ImageFinite
<1>3. loads \in HourSets
  BY <1>1, <1>2, FS_Subset DEF HourSets
<1>4. SupervisionSpread(R) = IF loads = {} THEN 0 ELSE Max(loads) - Min(loads)
  BY DEF SupervisionSpread, count
<1> HIDE DEF loads
<1>5. loads # {} => Max(loads) \in Nat /\ Min(loads) \in Nat /\ Min(loads) <= Max(loads)
  BY <1>3, PositionsEnds
<1> QED
  BY ONLY <1>4, <1>5

-----------------------------------------------------------------------------
(* The whole price.                                                         *)

\* What a schedule costs, its home rooms aside.
CostBesideRooms(R) ==
      SliceCost(R)
    + Weight["balance"] * ClassDayBalance(R)
    + Weight["worstSpread"] * WorstClassSpread(R)
    + Weight["worstGaps"] * WorstClassGaps(R)
    + Weight["softPin"] * SoftPinMisses(R)
    + Weight["classTeacher"] * ClassTeacherMisses(R)
    + Weight["supervision"] * SupervisionSpread(R)

\* The balance of all classes.
LEMMA BalanceNat ==
  ASSUME NEW R \in SUBSET Row
  PROVE  ClassDayBalance(R) \in Nat
<1> DEFINE f == [c \in Classes |-> BalanceOf(ClassPositions(R), c)]
<1>1. IsFiniteSet(Classes)
  BY ProblemAssumption
<1>2. f \in [Classes -> Int] /\ \A c \in Classes : f[c] \in Nat
  BY <1>1, SchedulePositions, GapHoursNat
<1>3. ClassDayBalance(R) = SumFunction(f)
  BY DEF ClassDayBalance
<1> HIDE DEF f
<1> QED
  BY <1>1, <1>2, <1>3, SumType

\* A schedule costs a number, of which its rooms are a part.
LEMMA PriceNat ==
  ASSUME NEW R \in SUBSET Row
  PROVE  /\ SliceCost(R) \in Nat /\ CostBesideRooms(R) \in Nat /\ HomeRoomTotal(R) \in Nat
         /\ ScoreSolution(R) = CostBesideRooms(R) + HomeRoomTotal(R)
         /\ ScoreSolution(R) \in Nat
<1>1. \A a \in Axes : Weight[a] \in Nat
  BY WeightAssumption
<1>2. \A a \in Axes : \A n \in Nat : Weight[a] * n \in Nat
  BY ONLY <1>1
<1>3. /\ GapHours(ClassPositions(R)) \in Nat /\ GapHours(TeacherPositions(R)) \in Nat
      /\ RowPreference(R) \in Nat /\ HomeRoomTotal(R) \in Nat
  <2>1. IsFiniteSet(Classes) /\ IsFiniteSet(Teachers)
    BY ProblemAssumption
  <2> QED
    BY <2>1, SchedulePositions, GapHoursNat, RowSumsNat
<1>4. /\ ClassDayBalance(R) \in Nat /\ WorstClassSpread(R) \in Nat /\ WorstClassGaps(R) \in Nat
      /\ SoftPinMisses(R) \in Nat /\ ClassTeacherMisses(R) \in Nat /\ SupervisionSpread(R) \in Nat
  BY BalanceNat, WorstSpreadNat, WorstGapsNat, MissesNat, SupervisionNat
<1>5. /\ Weight["classGap"] * GapHours(ClassPositions(R)) \in Nat
      /\ Weight["teacherGap"] * GapHours(TeacherPositions(R)) \in Nat
      /\ Weight["balance"] * ClassDayBalance(R) \in Nat
      /\ Weight["worstSpread"] * WorstClassSpread(R) \in Nat
      /\ Weight["worstGaps"] * WorstClassGaps(R) \in Nat
      /\ Weight["softPin"] * SoftPinMisses(R) \in Nat
      /\ Weight["classTeacher"] * ClassTeacherMisses(R) \in Nat
      /\ Weight["supervision"] * SupervisionSpread(R) \in Nat
  <2>1. {"classGap", "teacherGap", "balance", "worstSpread", "worstGaps", "softPin",
         "classTeacher", "supervision"} \subseteq Axes
    BY DEF Axes
  <2> QED
    BY ONLY <1>2, <1>3, <1>4, <2>1
<1>6. SliceCost(R) \in Nat
  BY ONLY <1>3, <1>5 DEF SliceCost
<1> QED
  BY ONLY <1>3, <1>5, <1>6 DEF CostBesideRooms, ScoreSolution

-----------------------------------------------------------------------------
(* Gap-hours after an hour comes, goes or moves.                            *)

\* The ends of a day are where they are.
LEMMA EndsAre ==
  ASSUME NEW P \in HourSets, NEW x \in P, NEW y \in P,
         \A p \in P : x <= p /\ p <= y
  PROVE  Min(P) = x /\ Max(P) = y
<1>1. /\ Max(P) \in P /\ Min(P) \in P /\ Max(P) \in Nat /\ Min(P) \in Nat
      /\ \A p \in P : p \in Nat /\ Min(P) <= p /\ p <= Max(P)
  BY PositionsEnds
<1>2. x \in Nat /\ y \in Nat
  BY <1>1
<1>3. /\ x <= Min(P) /\ Min(P) <= x
      /\ Max(P) <= y /\ y <= Max(P)
  BY <1>1
<1> QED
  BY ONLY <1>1, <1>2, <1>3

\* An hour more.
LEMMA HourAdded ==
  ASSUME NEW P \in HourSets, NEW p \in Nat
  PROVE  /\ P \cup {p} \in HourSets
         /\ Cardinality(P) \in Nat
         /\ Cardinality(P \cup {p}) = Cardinality(P) + (IF p \in P THEN 0 ELSE 1)
         /\ P # {} => /\ Max(P \cup {p}) = Higher(Max(P), p)
                      /\ Min(P \cup {p}) = Lower(Min(P), p)
<1>1. P \in SUBSET Nat /\ IsFiniteSet(P) /\ Cardinality(P) \in Nat
  BY FS_CardinalityType DEF HourSets
<1>2. IsFiniteSet(P \cup {p}) /\ Cardinality(P \cup {p}) = Cardinality(P) + (IF p \in P THEN 0 ELSE 1)
  <2>1. CASE p \in P
    <3>1. P \cup {p} = P
      BY <2>1
    <3> QED
      BY <1>1, <2>1, <3>1
  <2>2. CASE p \notin P
    BY <1>1, <2>2, FS_AddElement
  <2> QED
    BY <2>1, <2>2
<1>3. P \cup {p} \in HourSets
  BY <1>1, <1>2 DEF HourSets
<1>4. ASSUME P # {}
      PROVE  Max(P \cup {p}) = Higher(Max(P), p) /\ Min(P \cup {p}) = Lower(Min(P), p)
  <2> DEFINE Q == P \cup {p}
             x == Lower(Min(P), p)
             y == Higher(Max(P), p)
  <2>1. /\ Max(P) \in P /\ Min(P) \in P /\ Max(P) \in Nat /\ Min(P) \in Nat
        /\ \A u \in P : u \in Nat /\ Min(P) <= u /\ u <= Max(P)
    BY <1>4, PositionsEnds
  <2>2. x \in Q /\ y \in Q
    BY <2>1 DEF Lower, Higher
  <2>3. x <= Min(P) /\ Max(P) <= y /\ x <= p /\ p <= y /\ x \in Nat /\ y \in Nat
    BY <2>1 DEF Lower, Higher
  <2> HIDE DEF x, y
  <2>4. \A u \in Q : x <= u /\ u <= y
    BY <2>1, <2>3
  <2>5. Min(Q) = x /\ Max(Q) = y
    BY <1>3, <2>2, <2>4, EndsAre
  <2> QED
    BY <2>5 DEF x, y
<1> QED
  BY <1>1, <1>2, <1>3, <1>4

\* gap_count_after_insert gives what counting the longer day gives.
LEMMA InsertExact ==
  ASSUME NEW P \in HourSets, NEW p \in Nat
  PROVE  GapAfterInsert(P, p) = GapCount(P \cup {p})
<1> DEFINE size == Cardinality(P) + (IF p \in P THEN 0 ELSE 1)
<1>1. Cardinality(P \cup {p}) = size /\ Cardinality(P) \in Nat
  BY HourAdded
<1>2. CASE P = {}
  <2>1. Cardinality(P) = 0 /\ Cardinality(P \cup {p}) = 1
    BY <1>1, <1>2, FS_EmptySet
  <2> QED
    BY <1>2, <2>1 DEF GapAfterInsert, GapCount
<1>3. CASE P # {}
  <2>1. Max(P \cup {p}) = Higher(Max(P), p) /\ Min(P \cup {p}) = Lower(Min(P), p)
    BY <1>3, HourAdded
  <2>2. GapAfterInsert(P, p) = IF size < 2 THEN 0
                               ELSE Higher(Max(P), p) - Lower(Min(P), p) + 1 - size
    BY <1>3 DEF GapAfterInsert
  <2>3. GapCount(P \cup {p}) = IF size < 2 THEN 0
                               ELSE Max(P \cup {p}) - Min(P \cup {p}) + 1 - size
    BY <1>1 DEF GapCount
  <2> QED
    BY ONLY <2>1, <2>2, <2>3
<1> QED
  BY <1>2, <1>3

\* An hour less.
LEMMA HourRemoved ==
  ASSUME NEW P \in HourSets, NEW p \in P
  PROVE  /\ P \ {p} \in HourSets /\ p \in Nat
         /\ Cardinality(P) \in Nat /\ Cardinality(P) >= 1
         /\ Cardinality(P \ {p}) = Cardinality(P) - 1
         /\ Cardinality(P) >= 2 => /\ P \ {p} # {}
                                   /\ Max(P \ {p}) = LastWithout(P, p)
                                   /\ Min(P \ {p}) = FirstWithout(P, p)
<1>1. P \in SUBSET Nat /\ IsFiniteSet(P) /\ Cardinality(P) \in Nat
  BY FS_CardinalityType DEF HourSets
<1>2. IsFiniteSet(P \ {p}) /\ Cardinality(P \ {p}) = Cardinality(P) - 1 /\ Cardinality(P \ {p}) \in Nat
  BY <1>1, FS_RemoveElement, FS_CardinalityType
<1>3. P \ {p} \in HourSets /\ p \in Nat
  BY <1>1, <1>2 DEF HourSets
<1>4. ASSUME Cardinality(P) >= 2
      PROVE  /\ P \ {p} # {}
             /\ Max(P \ {p}) = LastWithout(P, p)
             /\ Min(P \ {p}) = FirstWithout(P, p)
  <2> DEFINE Q == P \ {p}
  <2>1. Q # {}
    <3>1. Cardinality(Q) # 0
      BY <1>1, <1>2, <1>4
    <3> QED
      BY <3>1, FS_EmptySet
  <2>2. /\ Max(P) \in P /\ Min(P) \in P /\ Max(P) \in Nat /\ Min(P) \in Nat
        /\ \A u \in P : u \in Nat /\ Min(P) <= u /\ u <= Max(P)
    BY PositionsEnds
  <2>3. Max(Q) \in Q /\ Min(Q) \in Q /\ \A u \in Q : u \in Nat /\ Min(Q) <= u /\ u <= Max(Q)
    BY <1>3, <2>1, PositionsEnds
  <2>4. p # Max(P) => Max(Q) = Max(P)
    <3> SUFFICES ASSUME p # Max(P) PROVE Max(Q) = Max(P)
      OBVIOUS
    <3>1. Max(P) \in Q /\ Max(Q) \in P /\ Max(Q) \in Nat
      BY <2>2, <2>3
    <3>2. Max(P) <= Max(Q) /\ Max(Q) <= Max(P)
      BY <2>2, <2>3, <3>1
    <3> QED
      BY ONLY <2>2, <3>1, <3>2
  <2>5. p # Min(P) => Min(Q) = Min(P)
    <3> SUFFICES ASSUME p # Min(P) PROVE Min(Q) = Min(P)
      OBVIOUS
    <3>1. Min(P) \in Q /\ Min(Q) \in P /\ Min(Q) \in Nat
      BY <2>2, <2>3
    <3>2. Min(P) <= Min(Q) /\ Min(Q) <= Min(P)
      BY <2>2, <2>3, <3>1
    <3> QED
      BY ONLY <2>2, <3>1, <3>2
  <2> QED
    BY <2>1, <2>4, <2>5 DEF LastWithout, FirstWithout
<1>5. Cardinality(P) >= 1
  BY <1>1, <1>2
<1> QED
  BY <1>1, <1>2, <1>3, <1>4, <1>5

\* gap_count_after_remove gives what counting the shorter day gives.
LEMMA RemoveExact ==
  ASSUME NEW P \in HourSets, NEW p \in P
  PROVE  GapAfterRemove(P, p) = GapCount(P \ {p})
<1>1. /\ Cardinality(P) \in Nat /\ Cardinality(P) >= 1
      /\ Cardinality(P \ {p}) = Cardinality(P) - 1
      /\ Cardinality(P) >= 2 => /\ Max(P \ {p}) = LastWithout(P, p)
                                /\ Min(P \ {p}) = FirstWithout(P, p)
  BY HourRemoved
<1>2. GapAfterRemove(P, p) = IF Cardinality(P) < 3 THEN 0
        ELSE LastWithout(P, p) - FirstWithout(P, p) + 1 - (Cardinality(P) - 1)
  BY DEF GapAfterRemove
<1>3. GapCount(P \ {p}) = IF Cardinality(P \ {p}) < 2 THEN 0
        ELSE Max(P \ {p}) - Min(P \ {p}) + 1 - Cardinality(P \ {p})
  BY DEF GapCount
<1> QED
  BY ONLY <1>1, <1>2, <1>3

\* gap_count_after_swap gives what counting the changed day gives.
LEMMA SwapExact ==
  ASSUME NEW P \in HourSets, NEW old \in P, NEW new \in Nat
  PROVE  GapAfterSwap(P, old, new) = GapCount((P \ {old}) \cup {new})
<1> DEFINE Q == P \ {old}
           size == IF new \in P THEN Cardinality(P) - 1 ELSE Cardinality(P)
<1>1. CASE old = new
  <2>1. Q \cup {new} = P
    BY <1>1
  <2> QED
    BY <1>1, <2>1 DEF GapAfterSwap
<1>2. CASE old # new
  <2>1. /\ Q \in HourSets
        /\ Cardinality(P) \in Nat /\ Cardinality(P) >= 1
        /\ Cardinality(Q) = Cardinality(P) - 1
        /\ Cardinality(P) >= 2 => /\ Q # {}
                                  /\ Max(Q) = LastWithout(P, old)
                                  /\ Min(Q) = FirstWithout(P, old)
    BY HourRemoved
  <2>2. new \in Q <=> new \in P
    BY <1>2
  <2>3. GapAfterSwap(P, old, new)
          = IF size < 2 THEN 0
            ELSE Higher(LastWithout(P, old), new) - Lower(FirstWithout(P, old), new) + 1 - size
    BY <1>2 DEF GapAfterSwap
  <2> HIDE DEF Q
  <2>4. /\ Cardinality(Q \cup {new}) = Cardinality(Q) + (IF new \in Q THEN 0 ELSE 1)
        /\ Q # {} => /\ Max(Q \cup {new}) = Higher(Max(Q), new)
                     /\ Min(Q \cup {new}) = Lower(Min(Q), new)
    BY <2>1, HourAdded
  <2>5. Cardinality(Q \cup {new}) = size
    BY <2>1, <2>2, <2>4
  <2>6. size < 2 \/ Cardinality(P) >= 2
    BY <2>1
  <2>7. GapCount(Q \cup {new}) = IF size < 2 THEN 0
          ELSE Max(Q \cup {new}) - Min(Q \cup {new}) + 1 - size
    BY <2>5 DEF GapCount
  <2> HIDE DEF size
  <2>8. GapAfterSwap(P, old, new) = GapCount(Q \cup {new})
    BY <2>1, <2>3, <2>4, <2>6, <2>7
  <2> QED
    BY <2>8 DEF Q
<1> QED
  BY <1>1, <1>2

\* gap_count_after_window_insert gives what counting the longer day gives, for
\* hours that were free.
LEMMA WindowExact ==
  ASSUME NEW P \in HourSets, NEW p \in Nat, NEW n \in Nat \ {0}, P \cap (p..(p + n - 1)) = {}
  PROVE  /\ GapAfterWindow(P, p, n) = GapCount(P \cup (p..(p + n - 1)))
         /\ P \cup (p..(p + n - 1)) \in HourSets
<1> DEFINE W == p..(p + n - 1)
           z == p + n - 1
           Q == P \cup W
<1>1. z \in Nat /\ p <= z /\ n \in Nat /\ n >= 1 /\ W \in SUBSET Nat
      /\ p \in W /\ z \in W /\ \A u \in W : p <= u /\ u <= z
  OBVIOUS
<1>2. IsFiniteSet(W) /\ Cardinality(W) = n
  BY <1>1, FS_Interval
<1>3. P \in SUBSET Nat /\ IsFiniteSet(P) /\ Cardinality(P) \in Nat
  BY FS_CardinalityType DEF HourSets
<1>4. IsFiniteSet(Q) /\ Cardinality(Q) = Cardinality(P) + n
  BY <1>2, <1>3, SizeOfUnion, FS_Union
<1>5. Q \in HourSets
  BY <1>1, <1>3, <1>4 DEF HourSets
<1>6. CASE P = {}
  <2>1. Q = W /\ Cardinality(Q) = n
    BY <1>2, <1>6
  <2>2. Min(Q) = p /\ Max(Q) = z
    BY <1>1, <1>5, <2>1, EndsAre
  <2>3. GapCount(Q) = IF n < 2 THEN 0 ELSE Max(Q) - Min(Q) + 1 - n
    BY <2>1 DEF GapCount
  <2>4. GapAfterWindow(P, p, n) = 0
    BY <1>6 DEF GapAfterWindow
  <2> HIDE DEF Q, W
  <2>5. GapCount(Q) = 0
    BY <2>2, <2>3
  <2> QED
    BY <1>5, <2>4, <2>5 DEF Q, W
<1>7. CASE P # {}
  <2>1. /\ Max(P) \in P /\ Min(P) \in P /\ Max(P) \in Nat /\ Min(P) \in Nat
        /\ \A u \in P : u \in Nat /\ Min(P) <= u /\ u <= Max(P)
    BY <1>7, PositionsEnds
  <2> DEFINE x == Lower(Min(P), p)
             y == Higher(Max(P), z)
  <2>2. x \in Q /\ y \in Q
    BY <1>1, <2>1 DEF Lower, Higher
  <2>3. x <= Min(P) /\ Max(P) <= y /\ x <= p /\ z <= y /\ x \in Nat /\ y \in Nat
    BY <1>1, <2>1 DEF Lower, Higher
  <2> HIDE DEF x, y, z, W
  <2>4. \A u \in Q : x <= u /\ u <= y
    <3>1. \A u \in P : u \in Nat /\ x <= u /\ u <= y
      BY <2>1, <2>3
    <3>2. \A u \in W : u \in Nat /\ x <= u /\ u <= y
      BY <1>1, <2>3
    <3> QED
      BY <3>1, <3>2
  <2>5. Min(Q) = x /\ Max(Q) = y
    BY <1>5, <2>2, <2>4, EndsAre
  <2>6. Cardinality(P) >= 1
    BY <1>7, PositionsFit
  <2>7. GapCount(Q) = y - x + 1 - (Cardinality(P) + n) /\ GapCount(Q) \in Nat
    BY <1>1, <1>3, <1>4, <1>5, <2>5, <2>6, GapNat DEF GapCount
  <2>8. GapAfterWindow(P, p, n) = Floor0(y - x + 1 - (Cardinality(P) + n))
    BY <1>7 DEF GapAfterWindow, x, y, z
  <2>9. Floor0(GapCount(Q)) = GapCount(Q)
    BY <2>7 DEF Floor0, Higher
  <2> QED
    BY <1>5, <2>7, <2>8, <2>9 DEF W
<1> QED
  BY <1>6, <1>7

\* Sums of sums.
LEMMA SumPlus ==
  ASSUME NEW S, IsFiniteSet(S), NEW f \in [S -> Int], NEW h \in [S -> Int]
  PROVE  SumFunction([x \in S |-> f[x] + h[x]]) = SumFunction(f) + SumFunction(h)
<1> DEFINE k == [x \in S |-> f[x] + h[x]]
<1>1. k \in [S -> Int] /\ \A x \in S : k[x] - h[x] = f[x]
  OBVIOUS
<1>2. [x \in S |-> k[x] - h[x]] = f
  BY <1>1
<1> HIDE DEF k
<1>3. SumFunction([x \in S |-> k[x] - h[x]]) = SumFunction(k) - SumFunction(h)
  BY <1>1, SumMinus
<1>4. SumFunction(k) \in Int /\ SumFunction(h) \in Int
  BY <1>1, SumType
<1>5. SumFunction(k) = SumFunction(f) + SumFunction(h)
  BY <1>2, <1>3, <1>4
<1> QED
  BY <1>5 DEF k

\* Who is not concerned, and the other days, keep their gaps.
LEMMA DayShift ==
  ASSUME NEW X, IsFiniteSet(X), NEW pos, ByDay(X, pos), NEW new, ByDay(X, new),
         NEW A \in SUBSET X, NEW d \in AllDays,
         \A x \in X \X AllDays : x \notin A \X {d} => new[x] = pos[x]
  PROVE  /\ GapHours(new) - GapHours(pos)
              = SumFunction([c \in A |-> GapCount(new[<<c, d>>]) - GapCount(pos[<<c, d>>])])
         /\ GapHours(new) \in Int /\ GapHours(pos) \in Int
<1> DEFINE S == X \X AllDays
           T == A \X {d}
           f == [x \in S |-> GapCount(pos[x])]
           h == [x \in S |-> GapCount(new[x])]
           k == [x \in T |-> h[x] - f[x]]
           g == [c \in A |-> GapCount(new[<<c, d>>]) - GapCount(pos[<<c, d>>])]
           b == [c \in A |-> <<c, d>>]
<1>1. IsFiniteSet(S) /\ T \in SUBSET S
  BY DaysNumbered, FS_Product
<1>2. f \in [S -> Int] /\ h \in [S -> Int]
  <2>1. \A x \in S : pos[x] \in HourSets /\ new[x] \in HourSets
    BY DEF ByDay
  <2>2. \A x \in S : GapCount(pos[x]) \in Nat /\ GapCount(new[x]) \in Nat
    BY <2>1, GapNat
  <2> QED
    BY <2>2
<1>3. \A x \in S \ T : h[x] = f[x]
  OBVIOUS
<1>4. DOMAIN pos = S /\ DOMAIN new = S
  BY DEF ByDay
<1>5. GapHours(pos) = SumFunction(f) /\ GapHours(new) = SumFunction(h)
  BY <1>4 DEF GapHours
<1>6. \A c \in A : b[c] \in T /\ g[c] = k[b[c]]
  OBVIOUS
<1>7. \A c, e \in A : b[c] = b[e] => c = e
  OBVIOUS
<1>8. \A z \in T : \E c \in A : b[c] = z
  OBVIOUS
<1>9. k \in [T -> Int]
  BY <1>1, <1>2
<1>10. \A c \in A : g[c] \in Int
  BY <1>6, <1>9
<1>11. g \in [A -> Int]
  BY <1>10
<1>12. IsFiniteSet(A)
  BY FS_Subset
<1> HIDE DEF S, T, f, h, g, b
<1>13. SumFunction(h) - SumFunction(f) = SumFunction(k)
  BY <1>1, <1>2, <1>3, SumChange
<1> HIDE DEF k
<1>14. SumFunction(g) = SumFunction(k)
  BY ONLY <1>6, <1>7, <1>8, <1>9, <1>11, <1>12, SumReindex
<1>15. SumFunction(h) \in Int /\ SumFunction(f) \in Int
  BY <1>1, <1>2, SumType
<1> QED
  BY <1>5, <1>13, <1>14, <1>15 DEF g

-----------------------------------------------------------------------------
(* Sums of sums.                                                            *)

\* One summand more.
LEMMA SumInsert ==
  ASSUME NEW S, IsFiniteSet(S), NEW f, \A x \in S : f[x] \in Int, NEW x \in S,
         NEW A \in SUBSET S, x \notin A
  PROVE  /\ SumFunctionOnSet(f, A \cup {x}) = f[x] + SumFunctionOnSet(f, A)
         /\ SumFunctionOnSet(f, A) \in Int
<1>1. A \cup {x} \in SUBSET S /\ (A \cup {x}) \ {x} = A
  OBVIOUS
<1>2. /\ \A s \in SUBSET S : SumFunctionOnSet(f, s) \in Int
      /\ \A s \in SUBSET S : \A y \in s : SumFunctionOnSet(f, s) = f[y] + SumFunctionOnSet(f, s \ {y})
  BY SumRules
<1>3. SumFunctionOnSet(f, A \cup {x}) = f[x] + SumFunctionOnSet(f, (A \cup {x}) \ {x})
  BY <1>1, <1>2
<1> QED
  BY <1>1, <1>2, <1>3

\* A common factor.
LEMMA SumTimes ==
  ASSUME NEW S, IsFiniteSet(S), NEW f \in [S -> Int], NEW w \in Int
  PROVE  SumFunction([x \in S |-> w * f[x]]) = w * SumFunction(f)
<1> DEFINE k == [x \in S |-> w * f[x]]
           B == {s \in SUBSET S : SumFunctionOnSet(k, s) # w * SumFunctionOnSet(f, s)}
<1>0. \A m, n \in Int : w * (m + n) = w * m + w * n /\ w * m \in Int /\ w * n \in Int
  OBVIOUS
<1>1. B = {}
  <2> SUFFICES ASSUME B # {} PROVE FALSE
    OBVIOUS
  <2>1. B \in SUBSET SUBSET S
    OBVIOUS
  <2> HIDE DEF B
  <2>2. PICK s \in B : \A x \in s : s \ {x} \notin B
    BY ONLY <2>1, SmallestSet, B # {}, IsFiniteSet(S)
  <2> USE DEF B
  <2>3. s \in SUBSET S /\ SumFunctionOnSet(k, s) # w * SumFunctionOnSet(f, s)
    OBVIOUS
  <2>4. (\A x \in S : f[x] \in Int) /\ (\A x \in S : k[x] = w * f[x] /\ k[x] \in Int)
    BY <1>0
  <2> HIDE DEF k
  <2>5. /\ SumFunctionOnSet(f, {}) = 0 /\ SumFunctionOnSet(k, {}) = 0
        /\ \A x \in s : /\ SumFunctionOnSet(f, s) = f[x] + SumFunctionOnSet(f, s \ {x})
                        /\ SumFunctionOnSet(f, s \ {x}) \in Int
                        /\ SumFunctionOnSet(k, s) = k[x] + SumFunctionOnSet(k, s \ {x})
    <3>1. \A x \in s : s \ {x} \in SUBSET S
      BY <2>3
    <3>2. /\ SumFunctionOnSet(f, {}) = 0
          /\ \A u \in SUBSET S : SumFunctionOnSet(f, u) \in Int
          /\ \A u \in SUBSET S : \A x \in u :
                SumFunctionOnSet(f, u) = f[x] + SumFunctionOnSet(f, u \ {x})
      BY ONLY <2>4, SumRules, IsFiniteSet(S)
    <3>3. /\ SumFunctionOnSet(k, {}) = 0
          /\ \A u \in SUBSET S : \A x \in u :
                SumFunctionOnSet(k, u) = k[x] + SumFunctionOnSet(k, u \ {x})
      BY ONLY <2>4, SumRules, IsFiniteSet(S)
    <3> QED
      BY ONLY <2>3, <3>1, <3>2, <3>3
  <2>6. PICK x : x \in s
    <3>1. w * 0 = 0
      <4>1. 0 \in Int /\ 0 + 0 = 0
        OBVIOUS
      <4>2. w * (0 + 0) = w * 0 + w * 0 /\ w * 0 \in Int
        BY ONLY <1>0, <4>1
      <4> DEFINE z == w * 0
      <4>3. z = z + z /\ z \in Int
        BY <4>1, <4>2
      <4> HIDE DEF z
      <4>4. z = 0
        BY ONLY <4>3
      <4> QED
        BY <4>4 DEF z
    <3>2. CASE s = {}
      <4>1. SumFunctionOnSet(k, s) = 0 /\ SumFunctionOnSet(f, s) = 0
        BY ONLY <2>5, <3>2
      <4>2. w * SumFunctionOnSet(f, s) = 0
        BY ONLY <3>1, <4>1
      <4> QED
        BY ONLY <2>3, <4>1, <4>2
    <3>3. CASE s # {}
      BY ONLY <3>3
    <3> QED
      BY ONLY <3>2, <3>3
  <2>7. SumFunctionOnSet(k, s \ {x}) = w * SumFunctionOnSet(f, s \ {x})
    BY <2>2, <2>3, <2>6
  <2>8. x \in S
    BY <2>3, <2>6
  <2>9. w * (f[x] + SumFunctionOnSet(f, s \ {x})) = w * f[x] + w * SumFunctionOnSet(f, s \ {x})
    BY ONLY <1>0, <2>4, <2>5, <2>6, <2>8
  <2> QED
    BY ONLY <2>3, <2>4, <2>5, <2>6, <2>7, <2>8, <2>9
<1>2. S \in SUBSET S
  OBVIOUS
<1>3. SumFunctionOnSet(k, S) = w * SumFunctionOnSet(f, S)
  BY <1>1, <1>2
<1>4. k \in [S -> Int]
  BY <1>0
<1> HIDE DEF k
<1>5. SumFunction(k) = SumFunctionOnSet(k, S) /\ SumFunction(f) = SumFunctionOnSet(f, S)
  BY <1>4, SumType
<1> QED
  BY <1>3, <1>5 DEF k

\* The sum of each line of a table.
LineSums(f, S, T) == [x \in S |-> SumFunction([t \in T |-> f[<<x, t>>]])]

\* A sum over pairs, line by line.
LEMMA SumPairs ==
  ASSUME NEW S, IsFiniteSet(S), NEW T, IsFiniteSet(T), NEW f \in [S \X T -> Int]
  PROVE  SumFunction(f) = SumFunction(LineSums(f, S, T)) /\ LineSums(f, S, T) \in [S -> Int]
<1> DEFINE line(x) == [t \in T |-> f[<<x, t>>]]
           k == [x \in S |-> SumFunction(line(x))]
           total(s) == SumFunctionOnSet(f, s \X T)
           B == {s \in SUBSET S : total(s) # SumFunctionOnSet(k, s)}
<1>1. IsFiniteSet(S \X T)
  BY FS_Product
<1>2. ASSUME NEW x \in S
      PROVE  k[x] \in Int /\ k[x] = SumFunctionOnSet(f, {x} \X T)
  <2>1. line(x) \in [T -> Int]
    OBVIOUS
  <2>2. SumFunction(line(x)) \in Int
    BY ONLY <2>1, IsFiniteSet(T), SumType
  <2> DEFINE h == [y \in {x} \X T |-> f[y]]
             b == [y \in {x} \X T |-> y[2]]
  <2>3. IsFiniteSet({x} \X T) /\ {x} \X T \in SUBSET (S \X T)
    <3>1. {x} \X T \in SUBSET (S \X T)
      OBVIOUS
    <3> QED
      BY <1>1, <3>1, FS_Subset
  <2>4. h \in [{x} \X T -> Int]
    BY <2>3
  <2>5. /\ \A y \in {x} \X T : b[y] \in T /\ h[y] = line(x)[b[y]]
        /\ \A y, z \in {x} \X T : b[y] = b[z] => y = z
        /\ \A t \in T : \E y \in {x} \X T : b[y] = t
    <3>1. ASSUME NEW y \in {x} \X T PROVE b[y] \in T /\ h[y] = line(x)[b[y]] /\ y = <<x, b[y]>>
      <4>1. PICK t \in T : y = <<x, t>>
        OBVIOUS
      <4> QED
        BY <4>1
    <3>2. ASSUME NEW t \in T PROVE \E y \in {x} \X T : b[y] = t
      <4>1. <<x, t>> \in {x} \X T /\ b[<<x, t>>] = t
        OBVIOUS
      <4> QED
        BY <4>1
    <3> HIDE DEF b, h, line
    <3>3. ASSUME NEW y \in {x} \X T, NEW z \in {x} \X T, b[y] = b[z] PROVE y = z
      BY ONLY <3>1, <3>3
    <3> QED
      BY ONLY <3>1, <3>2, <3>3
  <2>6. SumFunction(h) = SumFunctionOnSet(f, {x} \X T)
    BY <1>1, <2>3, SumPart
  <2> DEFINE U == {x} \X T
             g == line(x)
  <2>7. /\ IsFiniteSet(U) /\ h \in [U -> Int] /\ g \in [T -> Int]
        /\ \A y \in U : b[y] \in T /\ h[y] = g[b[y]]
        /\ \A y, z \in U : b[y] = b[z] => y = z
        /\ \A t \in T : \E y \in U : b[y] = t
    BY <2>1, <2>3, <2>4, <2>5
  <2> HIDE DEF h, b, U, g
  <2>8. SumFunction(h) = SumFunction(g)
    BY ONLY <2>7, SumReindex
  <2> QED
    BY <2>2, <2>6, <2>8 DEF g, U
<1>3. k \in [S -> Int]
  BY <1>2
<1> HIDE DEF k
<1>4. \A s \in SUBSET S : \A x \in s :
        total(s) = total(s \ {x}) + SumFunctionOnSet(f, {x} \X T) /\ total(s) \in Int
  <2> SUFFICES ASSUME NEW s \in SUBSET S, NEW x \in s
               PROVE  /\ total(s) = total(s \ {x}) + SumFunctionOnSet(f, {x} \X T)
                      /\ total(s) \in Int
    OBVIOUS
  <2> DEFINE A == (s \ {x}) \X T
             C == {x} \X T
  <2>1. A \in SUBSET (S \X T) /\ C \in SUBSET (S \X T) /\ A \cap C = {} /\ s \X T = A \cup C
        /\ s \X T \in SUBSET (S \X T)
    OBVIOUS
  <2>2. \A y \in S \X T : f[y] \in Int
    OBVIOUS
  <2> HIDE DEF A, C
  <2>3. SumFunctionOnSet(f, A \cup C) = SumFunctionOnSet(f, A) + SumFunctionOnSet(f, C)
    BY ONLY <1>1, <2>1, <2>2, SumBoth
  <2>4. SumFunctionOnSet(f, s \X T) \in Int
    BY ONLY <1>1, <2>1, <2>2, SumRules
  <2> QED
    BY <2>1, <2>3, <2>4 DEF A, C
<1>5. total({}) = 0 /\ total({}) \in Int
  <2>1. {} \X T = {}
    OBVIOUS
  <2>2. SumFunctionOnSet(f, {}) = 0
    BY ONLY <1>1, \A y \in S \X T : f[y] \in Int, SumRules
  <2> QED
    BY <2>1, <2>2
<1> HIDE DEF total
<1>6. B = {}
  <2> SUFFICES ASSUME B # {} PROVE FALSE
    OBVIOUS
  <2>1. B \in SUBSET SUBSET S
    OBVIOUS
  <2> HIDE DEF B
  <2>2. PICK s \in B : \A x \in s : s \ {x} \notin B
    BY ONLY <2>1, SmallestSet, B # {}, IsFiniteSet(S)
  <2> USE DEF B
  <2>3. s \in SUBSET S /\ total(s) # SumFunctionOnSet(k, s)
    OBVIOUS
  <2>4. /\ SumFunctionOnSet(k, {}) = 0
        /\ \A x \in s : SumFunctionOnSet(k, s) = k[x] + SumFunctionOnSet(k, s \ {x})
    BY ONLY <1>3, <2>3, IsFiniteSet(S), SumRules
  <2>5. PICK x : x \in s
    <3>1. CASE s = {}
      BY <1>5, <2>3, <2>4, <3>1
    <3>2. CASE s # {}
      BY ONLY <3>2
    <3> QED
      BY ONLY <3>1, <3>2
  <2>6. total(s \ {x}) = SumFunctionOnSet(k, s \ {x})
    BY <2>2, <2>3, <2>5
  <2>7. total(s) = total(s \ {x}) + k[x] /\ k[x] \in Int
    <3>1. x \in S
      BY <2>3, <2>5
    <3>2. k[x] \in Int /\ k[x] = SumFunctionOnSet(f, {x} \X T)
      BY <1>2, <3>1
    <3>3. total(s) = total(s \ {x}) + SumFunctionOnSet(f, {x} \X T)
      BY <1>4, <2>3, <2>5
    <3> QED
      BY ONLY <3>2, <3>3
  <2>8. total(s \ {x}) \in Int
    <3>1. s \ {x} \in SUBSET S
      BY <2>3
    <3>2. CASE s \ {x} = {}
      BY ONLY <1>5, <3>2
    <3>3. CASE s \ {x} # {}
      <4>1. PICK y : y \in s \ {x}
        BY <3>3
      <4> QED
        BY ONLY <1>4, <3>1, <4>1
    <3> QED
      BY <3>2, <3>3
  <2> QED
    BY ONLY <2>3, <2>4, <2>5, <2>6, <2>7, <2>8
<1>7. total(S) = SumFunctionOnSet(k, S)
  BY <1>6
<1>8. SumFunction(k) = SumFunctionOnSet(k, S)
  BY <1>3, SumType
<1>9. SumFunction(f) = total(S)
  <2>1. SumFunction(f) = SumFunctionOnSet(f, S \X T)
    BY ONLY <1>1, f \in [S \X T -> Int], SumType
  <2> QED
    BY <2>1 DEF total
<1>10. k = LineSums(f, S, T)
  BY DEF k, LineSums
<1> QED
  BY ONLY <1>3, <1>7, <1>8, <1>9, <1>10

-----------------------------------------------------------------------------
(* The report.                                                              *)

\* To count is to add up ones.
LEMMA CountSum ==
  ASSUME NEW S, IsFiniteSet(S), NEW A \in SUBSET S
  PROVE  SumFunction([x \in S |-> IF x \in A THEN 1 ELSE 0]) = Cardinality(A)
<1> DEFINE k == [x \in S |-> IF x \in A THEN 1 ELSE 0]
           B == {s \in SUBSET S : SumFunctionOnSet(k, s) # Cardinality(s \cap A)}
<1>1. k \in [S -> Int] /\ \A x \in S : k[x] \in Int /\ k[x] = IF x \in A THEN 1 ELSE 0
  OBVIOUS
<1> HIDE DEF k
<1>2. \A s \in SUBSET S : IsFiniteSet(s \cap A) /\ Cardinality(s \cap A) \in Nat
  <2> SUFFICES ASSUME NEW s \in SUBSET S
               PROVE  IsFiniteSet(s \cap A) /\ Cardinality(s \cap A) \in Nat
    OBVIOUS
  <2>1. s \cap A \in SUBSET S
    OBVIOUS
  <2> QED
    BY <2>1, FS_Subset, FS_CardinalityType
<1>3. B = {}
  <2> SUFFICES ASSUME B # {} PROVE FALSE
    OBVIOUS
  <2>1. B \in SUBSET SUBSET S
    OBVIOUS
  <2> HIDE DEF B
  <2>2. PICK s \in B : \A x \in s : s \ {x} \notin B
    BY ONLY <2>1, SmallestSet, B # {}, IsFiniteSet(S)
  <2> USE DEF B
  <2>3. s \in SUBSET S /\ SumFunctionOnSet(k, s) # Cardinality(s \cap A)
    OBVIOUS
  <2>4. /\ SumFunctionOnSet(k, {}) = 0
        /\ \A u \in SUBSET S : SumFunctionOnSet(k, u) \in Int
        /\ \A u \in SUBSET S : \A x \in u :
              SumFunctionOnSet(k, u) = k[x] + SumFunctionOnSet(k, u \ {x})
    BY ONLY <1>1, SumRules, IsFiniteSet(S)
  <2>5. PICK x : x \in s
    <3>1. CASE s = {}
      <4>1. Cardinality(s \cap A) = 0
        <5>1. s \cap A = {}
          BY <3>1
        <5> QED
          BY <5>1, FS_EmptySet
      <4> QED
        BY ONLY <2>3, <2>4, <3>1, <4>1
    <3>2. CASE s # {}
      BY ONLY <3>2
    <3> QED
      BY ONLY <3>1, <3>2
  <2>6. x \in S /\ s \ {x} \in SUBSET S
    BY <2>3, <2>5
  <2>7. SumFunctionOnSet(k, s \ {x}) = Cardinality((s \ {x}) \cap A)
    BY <2>2, <2>5, <2>6
  <2>8. SumFunctionOnSet(k, s) = k[x] + Cardinality((s \ {x}) \cap A)
    BY ONLY <2>3, <2>4, <2>5, <2>7
  <2>9. CASE x \in A
    <3>1. (s \ {x}) \cap A = (s \cap A) \ {x} /\ x \in s \cap A
      BY <2>5, <2>9
    <3>2. IsFiniteSet(s \cap A) /\ Cardinality(s \cap A) \in Nat
      BY <1>2, <2>3
    <3>3. Cardinality((s \cap A) \ {x}) = Cardinality(s \cap A) - 1
      BY ONLY <3>1, <3>2, FS_RemoveElement
    <3>4. k[x] = 1
      BY ONLY <1>1, <2>6, <2>9
    <3>5. Cardinality((s \ {x}) \cap A) = Cardinality(s \cap A) - 1
      BY ONLY <3>1, <3>3
    <3> QED
      BY ONLY <2>3, <2>8, <3>2, <3>4, <3>5
  <2>10. CASE x \notin A
    <3>1. (s \ {x}) \cap A = s \cap A
      BY <2>10
    <3>2. Cardinality(s \cap A) \in Nat
      BY <1>2, <2>3
    <3>3. k[x] = 0
      BY ONLY <1>1, <2>6, <2>10
    <3> QED
      BY ONLY <2>3, <2>8, <3>1, <3>2, <3>3
  <2> QED
    BY <2>9, <2>10
<1>4. S \in SUBSET S /\ S \cap A = A
  OBVIOUS
<1>5. SumFunctionOnSet(k, S) = Cardinality(A)
  BY <1>3, <1>4
<1>6. SumFunction(k) = SumFunctionOnSet(k, S)
  BY ONLY <1>1, IsFiniteSet(S), SumType
<1> QED
  BY <1>5, <1>6 DEF k

\* The sum of each column of a table.
ColumnSums(f, S, T) == [t \in T |-> SumFunction([x \in S |-> f[<<x, t>>]])]

\* The lines' sums and the columns' sums of a table add up to the same.
LEMMA SumCrossed ==
  ASSUME NEW S, IsFiniteSet(S), NEW T, IsFiniteSet(T), NEW f \in [S \X T -> Int]
  PROVE  SumFunction(LineSums(f, S, T)) = SumFunction(ColumnSums(f, S, T))
<1> DEFINE U == S \X T
           V == T \X S
           b == [y \in U |-> <<y[2], y[1]>>]
<1>1. IsFiniteSet(U) /\ IsFiniteSet(V)
  BY FS_Product
<1>2. PICK k \in [T \X S -> Int] : \A t \in T, x \in S : k[<<t, x>>] = f[<<x, t>>]
  <2> DEFINE h == [y \in T \X S |-> f[<<y[2], y[1]>>]]
  <2>1. h \in [T \X S -> Int] /\ \A t \in T, x \in S : h[<<t, x>>] = f[<<x, t>>]
    OBVIOUS
  <2> QED
    BY <2>1
<1>3. /\ \A y \in U : b[y] \in V /\ f[y] = k[b[y]]
      /\ \A y, z \in U : b[y] = b[z] => y = z
      /\ \A z \in V : \E y \in U : b[y] = z
  <2>1. ASSUME NEW y \in U PROVE b[y] \in V /\ f[y] = k[b[y]] /\ y = <<b[y][2], b[y][1]>>
    <3>1. PICK x \in S, t \in T : y = <<x, t>>
      OBVIOUS
    <3>2. b[y] = <<t, x>>
      BY <3>1
    <3>3. <<t, x>> \in V /\ k[<<t, x>>] = f[<<x, t>>]
      BY <1>2
    <3> QED
      BY <3>1, <3>2, <3>3
  <2>2. ASSUME NEW z \in V PROVE \E y \in U : b[y] = z
    <3>1. PICK t \in T, x \in S : z = <<t, x>>
      OBVIOUS
    <3>2. <<x, t>> \in U /\ b[<<x, t>>] = <<t, x>>
      OBVIOUS
    <3> QED
      BY <3>1, <3>2
  <2> HIDE DEF U, V, b
  <2>3. ASSUME NEW y \in U, NEW z \in U, b[y] = b[z] PROVE y = z
    BY ONLY <2>1, <2>3
  <2> QED
    BY ONLY <2>1, <2>2, <2>3
<1>4. f \in [U -> Int] /\ k \in [V -> Int]
  OBVIOUS
<1> HIDE DEF U, V, b
<1>5. SumFunction(f) = SumFunction(k)
  BY ONLY <1>1, <1>3, <1>4, SumReindex
<1>6. SumFunction(f) = SumFunction(LineSums(f, S, T))
  BY ONLY f \in [S \X T -> Int], IsFiniteSet(S), IsFiniteSet(T), SumPairs
<1>7. SumFunction(k) = SumFunction(LineSums(k, T, S))
  BY ONLY k \in [T \X S -> Int], IsFiniteSet(S), IsFiniteSet(T), SumPairs
<1>8. LineSums(k, T, S) = ColumnSums(f, S, T)
  <2>1. \A t \in T : [x \in S |-> k[<<t, x>>]] = [x \in S |-> f[<<x, t>>]]
    BY <1>2
  <2> QED
    BY ONLY <2>1 DEF LineSums, ColumnSums
<1> QED
  BY ONLY <1>5, <1>6, <1>7, <1>8

\* The gap-hours, class by class or teacher by teacher.
LEMMA GapsAddUp ==
  ASSUME NEW X, IsFiniteSet(X), NEW pos, ByDay(X, pos)
  PROVE  GapHours(pos) = SumFunction([c \in X |-> GapHoursOf(pos, c)])
<1>1. pos \in [X \X AllDays -> HourSets] /\ DOMAIN pos = X \X AllDays
  BY DEF ByDay
<1>2. \A x \in X \X AllDays : GapCount(pos[x]) \in Nat
  BY <1>1, GapNat
<1>3. PICK f \in [X \X AllDays -> Int] : f = [x \in X \X AllDays |-> GapCount(pos[x])]
  <2> DEFINE h == [x \in X \X AllDays |-> GapCount(pos[x])]
  <2>1. h \in [X \X AllDays -> Int]
    BY <1>2
  <2> QED
    BY <2>1
<1>4. GapHours(pos) = SumFunction(f)
  BY <1>1, <1>3 DEF GapHours
<1>5. IsFiniteSet(AllDays)
  BY DaysNumbered
<1>6. SumFunction(f) = SumFunction(LineSums(f, X, AllDays))
  BY ONLY <1>5, IsFiniteSet(X), f \in [X \X AllDays -> Int], SumPairs
<1>7. LineSums(f, X, AllDays) = [c \in X |-> GapHoursOf(pos, c)]
  <2>1. \A c \in X : [d \in AllDays |-> f[<<c, d>>]] = [d \in AllDays |-> GapCount(pos[<<c, d>>])]
    BY <1>3
  <2> QED
    BY ONLY <2>1 DEF LineSums, GapHoursOf
<1> QED
  BY ONLY <1>4, <1>6, <1>7

\* The rows in a strange room, class by class, are what the rooms cost.
LEMMA RoomsAddUp ==
  ASSUME NEW R \in SUBSET Row
  PROVE  /\ HomeRoomTotal(R) = Weight["homeRoom"] * SumFunction(ByClass(R).homeRoom)
         /\ SumFunction(ByClass(R).homeRoom) \in Int
<1> DEFINE strange(c, r) == c \in ClassesOf[r.lesson] /\ StrangeRoom(c, r.room)
           w == Weight["homeRoom"]
<1>1. /\ IsFiniteSet(R) /\ IsFiniteSet(Classes) /\ w \in Int
      /\ \A r \in R : r.lesson \in Lessons /\ ClassesOf[r.lesson] \in SUBSET Classes
  BY ScheduleFinite, ProblemAssumption, WeightAssumption DEF Row, ValidLessons, Axes
<1>2. PICK f \in [Classes \X R -> Int] :
         \A c \in Classes, r \in R : f[<<c, r>>] = IF strange(c, r) THEN 1 ELSE 0
  <2> DEFINE h == [x \in Classes \X R |-> IF strange(x[1], x[2]) THEN 1 ELSE 0]
  <2>1. /\ h \in [Classes \X R -> Int]
        /\ \A c \in Classes, r \in R : h[<<c, r>>] = IF strange(c, r) THEN 1 ELSE 0
    OBVIOUS
  <2> QED
    BY <2>1
<1>3. LineSums(f, Classes, R) = ByClass(R).homeRoom
  <2>1. ASSUME NEW c \in Classes
        PROVE  SumFunction([r \in R |-> f[<<c, r>>]])
                 = Cardinality({r \in ClassRows(R, c) : StrangeRoom(c, r.room)})
    <3> DEFINE A == {r \in R : strange(c, r)}
    <3>1. [r \in R |-> f[<<c, r>>]] = [r \in R |-> IF r \in A THEN 1 ELSE 0]
      BY <1>2
    <3>2. A = {r \in ClassRows(R, c) : StrangeRoom(c, r.room)}
      BY DEF ClassRows
    <3>3. A \in SUBSET R
      OBVIOUS
    <3> HIDE DEF A
    <3>4. SumFunction([r \in R |-> IF r \in A THEN 1 ELSE 0]) = Cardinality(A)
      BY ONLY <1>1, <3>3, CountSum
    <3> QED
      BY ONLY <3>1, <3>2, <3>4
  <2> QED
    BY ONLY <2>1 DEF LineSums, ByClass
<1> DEFINE k == [r \in R |-> SumFunction([c \in Classes |-> f[<<c, r>>]])]
<1>4. ASSUME NEW r \in R
      PROVE  /\ k[r] = Cardinality({c \in ClassesOf[r.lesson] : StrangeRoom(c, r.room)})
             /\ k[r] \in Int
  <2> DEFINE A == {c \in Classes : strange(c, r)}
  <2>1. [c \in Classes |-> f[<<c, r>>]] = [c \in Classes |-> IF c \in A THEN 1 ELSE 0]
    BY <1>2
  <2>2. A = {c \in ClassesOf[r.lesson] : StrangeRoom(c, r.room)}
    BY <1>1
  <2>3. A \in SUBSET Classes
    OBVIOUS
  <2>4. Cardinality(A) \in Int
    BY <1>1, <2>3, FS_Subset, FS_CardinalityType
  <2> HIDE DEF A
  <2>5. SumFunction([c \in Classes |-> IF c \in A THEN 1 ELSE 0]) = Cardinality(A)
    BY ONLY <1>1, <2>3, CountSum
  <2> QED
    BY ONLY <2>1, <2>2, <2>4, <2>5
<1>5. HomeRoomTotal(R) = SumFunction([r \in R |-> w * k[r]])
  <2>1. \A r \in R : HomeRoomPenalty(r.lesson, r.room) = w * k[r]
    BY <1>4 DEF HomeRoomPenalty
  <2> HIDE DEF k, w
  <2> QED
    BY ONLY <2>1 DEF HomeRoomTotal
<1>6. k \in [R -> Int]
  <2>1. k = [r \in R |-> k[r]]
    OBVIOUS
  <2> HIDE DEF k
  <2> QED
    BY ONLY <1>4, <2>1
<1>7. SumFunction(LineSums(f, Classes, R)) = SumFunction(k)
  <2>1. k = ColumnSums(f, Classes, R)
    BY DEF ColumnSums
  <2> HIDE DEF k
  <2> QED
    BY ONLY <1>1, <2>1, f \in [Classes \X R -> Int], SumCrossed
<1> HIDE DEF k, w
<1>8. SumFunction([r \in R |-> w * k[r]]) = w * SumFunction(k)
  BY ONLY <1>1, <1>6, SumTimes
<1>9. SumFunction(k) \in Int
  BY ONLY <1>1, <1>6, SumType
<1> QED
  BY <1>3, <1>5, <1>7, <1>8, <1>9 DEF w

\* The four wishes of the subjects, each in its own sum, add up to what the
\* periods of the rows cost.
LEMMA PeriodsAddUp ==
  ASSUME NEW R \in SUBSET Row
  PROVE  /\ RowPreference(R) = Weight["early"] * PeriodUnits(R).early
                             + Weight["first"] * PeriodUnits(R).first
                             + Weight["last"] * PeriodUnits(R).last
                             + Weight["late"] * PeriodUnits(R).late
         /\ PeriodUnits(R) \in [early : Int, first : Int, last : Int, late : Int]
<1> DEFINE wish(r) == Wish[SubjectOf[r.lesson]]
           last(r) == LastPos(Day(r.slot))
           e == [r \in R |-> wish(r).early * Pos(r.slot)]
           f == [r \in R |-> IF Pos(r.slot) = 0 THEN wish(r).first ELSE 0]
           g == [r \in R |-> IF Pos(r.slot) = last(r) THEN wish(r).last ELSE 0]
           h == [r \in R |-> wish(r).late * (last(r) - Pos(r.slot))]
           we == Weight["early"]
           wf == Weight["first"]
           wg == Weight["last"]
           wh == Weight["late"]
<1>1. IsFiniteSet(R) /\ \A r \in R : r.slot \in Slots /\ SubjectOf[r.lesson] \in Subjects
  BY ScheduleFinite, ProblemAssumption DEF Row, ValidLessons
<1>2. we \in Int /\ wf \in Int /\ wg \in Int /\ wh \in Int
  BY WeightAssumption DEF Axes
<1>3. ASSUME NEW r \in R
      PROVE  /\ Pos(r.slot) \in Int /\ last(r) \in Int /\ last(r) - Pos(r.slot) \in Int
             /\ wish(r).early \in Int /\ wish(r).first \in Int
             /\ wish(r).last \in Int /\ wish(r).late \in Int
  <2>1. Pos(r.slot) \in Nat /\ LastPos(Day(r.slot)) \in Nat
    BY <1>1, LastPosLast
  <2>2. wish(r) \in [early : Nat, first : Nat, last : Nat, late : Nat]
    BY <1>1, WeightAssumption
  <2> QED
    BY <2>1, <2>2
<1>4. \A m, n \in Int : m * n \in Int
  OBVIOUS
<1>5. /\ e \in [R -> Int] /\ f \in [R -> Int] /\ g \in [R -> Int] /\ h \in [R -> Int]
  <2>1. \A r \in R : wish(r).early * Pos(r.slot) \in Int
    BY ONLY <1>3, <1>4
  <2>2. \A r \in R : wish(r).late * (last(r) - Pos(r.slot)) \in Int
    BY ONLY <1>3, <1>4
  <2> HIDE DEF wish, last
  <2> QED
    BY <1>3, <2>1, <2>2
<1>6. ASSUME NEW r \in R
      PROVE  SubjectPreference(SubjectOf[r.lesson], r.slot)
               = ((we * e[r] + wf * f[r]) + wg * g[r]) + wh * h[r]
  <2> DEFINE p == Pos(r.slot)
             z == last(r) - p
             a == wish(r).early
             b == wish(r).first
             c == wish(r).last
             d == wish(r).late
  <2>1. p \in Int /\ z \in Int /\ a \in Int /\ b \in Int /\ c \in Int /\ d \in Int
    BY <1>3
  <2>2. SubjectPreference(SubjectOf[r.lesson], r.slot)
          = we * a * p + (IF p = 0 THEN wf * b ELSE 0) + (IF p = last(r) THEN wg * c ELSE 0)
            + wh * d * z
    BY DEF SubjectPreference
  <2>3. /\ e[r] = a * p /\ f[r] = (IF p = 0 THEN b ELSE 0)
        /\ g[r] = (IF p = last(r) THEN c ELSE 0) /\ h[r] = d * z
    OBVIOUS
  <2> HIDE DEF p, z, a, b, c, d, we, wf, wg, wh, e, f, g, h, wish, last
  <2>4. /\ we * a * p = we * (a * p) /\ wh * d * z = wh * (d * z)
        /\ we * (a * p) \in Int /\ wh * (d * z) \in Int
    BY ONLY <1>2, <2>1
  <2>5. wf * f[r] = (IF p = 0 THEN wf * b ELSE 0) /\ wf * f[r] \in Int
    BY ONLY <1>2, <2>1, <2>3
  <2>6. wg * g[r] = (IF p = last(r) THEN wg * c ELSE 0) /\ wg * g[r] \in Int
    BY ONLY <1>2, <2>1, <2>3
  <2> QED
    BY ONLY <2>2, <2>3, <2>4, <2>5, <2>6
<1>7. /\ RowPreference(R) = SumFunction([r \in R |-> ((we * e[r] + wf * f[r]) + wg * g[r]) + wh * h[r]])
      /\ PeriodUnits(R) = [early |-> SumFunction(e), first |-> SumFunction(f),
                           last |-> SumFunction(g), late |-> SumFunction(h)]
  <2>1. PeriodUnits(R) = [early |-> SumFunction(e), first |-> SumFunction(f),
                          last |-> SumFunction(g), late |-> SumFunction(h)]
    BY DEF PeriodUnits
  <2> HIDE DEF e, f, g, h, we, wf, wg, wh
  <2>2. [r \in R |-> SubjectPreference(SubjectOf[r.lesson], r.slot)]
          = [r \in R |-> ((we * e[r] + wf * f[r]) + wg * g[r]) + wh * h[r]]
    BY ONLY <1>6
  <2> QED
    BY ONLY <2>1, <2>2 DEF RowPreference
<1> HIDE DEF e, f, g, h, we, wf, wg, wh
<1>8. RowPreference(R) = we * SumFunction(e) + wf * SumFunction(f)
                         + wg * SumFunction(g) + wh * SumFunction(h)
  <2> DEFINE E == [r \in R |-> we * e[r]]
             F == [r \in R |-> wf * f[r]]
             G == [r \in R |-> wg * g[r]]
             H == [r \in R |-> wh * h[r]]
             I == [r \in R |-> E[r] + F[r]]
             J == [r \in R |-> I[r] + G[r]]
             K == [r \in R |-> J[r] + H[r]]
  <2>1. RowPreference(R) = SumFunction(K)
    <3>1. K = [r \in R |-> ((we * e[r] + wf * f[r]) + wg * g[r]) + wh * h[r]]
      OBVIOUS
    <3> HIDE DEF K
    <3> QED
      BY ONLY <1>7, <3>1
  <2>2. E \in [R -> Int] /\ F \in [R -> Int] /\ G \in [R -> Int] /\ H \in [R -> Int]
    <3>1. \A r \in R : /\ we * e[r] \in Int /\ wf * f[r] \in Int
                       /\ wg * g[r] \in Int /\ wh * h[r] \in Int
      BY ONLY <1>2, <1>4, <1>5
    <3> QED
      BY ONLY <3>1
  <2>3. SumFunction(E) = we * SumFunction(e)
    BY ONLY <1>1, <1>2, <1>5, SumTimes
  <2>4. SumFunction(F) = wf * SumFunction(f)
    BY ONLY <1>1, <1>2, <1>5, SumTimes
  <2>5. SumFunction(G) = wg * SumFunction(g)
    BY ONLY <1>1, <1>2, <1>5, SumTimes
  <2>6. SumFunction(H) = wh * SumFunction(h)
    BY ONLY <1>1, <1>2, <1>5, SumTimes
  <2> HIDE DEF E, F, G, H
  <2>7. /\ SumFunction(E) \in Int /\ SumFunction(F) \in Int
        /\ SumFunction(G) \in Int /\ SumFunction(H) \in Int
    BY ONLY <1>1, <2>2, SumType
  <2>8. I \in [R -> Int]
    BY ONLY <2>2
  <2>9. SumFunction(I) = SumFunction(E) + SumFunction(F)
    BY ONLY <1>1, <2>2, SumPlus
  <2> HIDE DEF I
  <2>10. J \in [R -> Int]
    BY ONLY <2>2, <2>8
  <2>11. SumFunction(J) = SumFunction(I) + SumFunction(G)
    BY ONLY <1>1, <2>2, <2>8, SumPlus
  <2> HIDE DEF J
  <2>12. SumFunction(K) = SumFunction(J) + SumFunction(H)
    BY ONLY <1>1, <2>2, <2>10, SumPlus
  <2> HIDE DEF K
  <2> QED
    BY ONLY <2>1, <2>3, <2>4, <2>5, <2>6, <2>7, <2>9, <2>11, <2>12
<1>9. /\ SumFunction(e) \in Int /\ SumFunction(f) \in Int
      /\ SumFunction(g) \in Int /\ SumFunction(h) \in Int
  BY ONLY <1>1, <1>5, SumType
<1> QED
  BY ONLY <1>7, <1>8, <1>9 DEF we, wf, wg, wh

\* The order in which the axes are added up.
LEMMA AxesListed ==
  ASSUME NEW k, \A a \in Axes : k[a] \in Int
  PROVE  /\ SumFunctionOnSet(k, Axes \ {"early", "first", "last", "late", "homeRoom"})
              = k["classGap"] + k["teacherGap"] + k["balance"] + k["worstSpread"]
                + k["worstGaps"] + k["classTeacher"] + k["supervision"] + k["softPin"]
         /\ SumFunctionOnSet(k, Axes)
              = k["classGap"] + k["teacherGap"] + k["balance"] + k["worstSpread"]
                + k["worstGaps"] + k["classTeacher"] + k["supervision"] + k["softPin"]
                + k["early"] + k["first"] + k["last"] + k["late"] + k["homeRoom"]
         /\ IsFiniteSet(Axes)
<1> DEFINE A1 == {} \cup {"classGap"}
           A2 == A1 \cup {"teacherGap"}
           A3 == A2 \cup {"balance"}
           A4 == A3 \cup {"worstSpread"}
           A5 == A4 \cup {"worstGaps"}
           A6 == A5 \cup {"classTeacher"}
           A7 == A6 \cup {"supervision"}
           A8 == A7 \cup {"softPin"}
           A9 == A8 \cup {"early"}
           A10 == A9 \cup {"first"}
           A11 == A10 \cup {"last"}
           A12 == A11 \cup {"late"}
           A13 == A12 \cup {"homeRoom"}
           total(A) == SumFunctionOnSet(k, A)
<1>1. A13 = Axes /\ A8 = Axes \ {"early", "first", "last", "late", "homeRoom"}
  BY DEF Axes
<1>2. IsFiniteSet(Axes)
  <2>1. IsFiniteSet({}) /\ \A A, x : IsFiniteSet(A) => IsFiniteSet(A \cup {x})
    BY FS_EmptySet, FS_AddElement
  <2>2. IsFiniteSet(A1)
    BY ONLY <2>1
  <2> HIDE DEF A1
  <2>3. IsFiniteSet(A2)
    BY ONLY <2>1, <2>2
  <2> HIDE DEF A2
  <2>4. IsFiniteSet(A3)
    BY ONLY <2>1, <2>3
  <2> HIDE DEF A3
  <2>5. IsFiniteSet(A4)
    BY ONLY <2>1, <2>4
  <2> HIDE DEF A4
  <2>6. IsFiniteSet(A5)
    BY ONLY <2>1, <2>5
  <2> HIDE DEF A5
  <2>7. IsFiniteSet(A6)
    BY ONLY <2>1, <2>6
  <2> HIDE DEF A6
  <2>8. IsFiniteSet(A7)
    BY ONLY <2>1, <2>7
  <2> HIDE DEF A7
  <2>9. IsFiniteSet(A8)
    BY ONLY <2>1, <2>8
  <2> HIDE DEF A8
  <2>10. IsFiniteSet(A9)
    BY ONLY <2>1, <2>9
  <2> HIDE DEF A9
  <2>11. IsFiniteSet(A10)
    BY ONLY <2>1, <2>10
  <2> HIDE DEF A10
  <2>12. IsFiniteSet(A11)
    BY ONLY <2>1, <2>11
  <2> HIDE DEF A11
  <2>13. IsFiniteSet(A12)
    BY ONLY <2>1, <2>12
  <2> HIDE DEF A12
  <2>14. IsFiniteSet(A13)
    BY ONLY <2>1, <2>13
  <2> HIDE DEF A13
  <2> QED
    BY <1>1, <2>14
<1>3. /\ total({}) = 0
      /\ \A A \in SUBSET Axes : \A x \in Axes : x \notin A =>
            total(A \cup {x}) = k[x] + total(A) /\ total(A) \in Int
  <2>1. total({}) = 0
    BY <1>2, SumRules
  <2>2. ASSUME NEW A \in SUBSET Axes, NEW x \in Axes, x \notin A
        PROVE  total(A \cup {x}) = k[x] + total(A) /\ total(A) \in Int
    BY ONLY <1>2, <2>2, \A a \in Axes : k[a] \in Int, SumInsert
  <2> QED
    BY <2>1, <2>2
<1> HIDE DEF total
<1>4. total(A1) = k["classGap"] + total({}) /\ total({}) \in Int
  <2>1. {} \in SUBSET Axes /\ "classGap" \in Axes /\ "classGap" \notin {}
    BY DEF Axes
  <2> QED
    BY ONLY <1>3, <2>1
<1>5. total(A2) = k["teacherGap"] + total(A1) /\ total(A1) \in Int
  <2>1. A1 \in SUBSET Axes /\ "teacherGap" \in Axes /\ "teacherGap" \notin A1
    BY DEF Axes
  <2> HIDE DEF A1
  <2> QED
    BY ONLY <1>3, <2>1
<1>6. total(A3) = k["balance"] + total(A2) /\ total(A2) \in Int
  <2>1. A2 \in SUBSET Axes /\ "balance" \in Axes /\ "balance" \notin A2
    BY DEF Axes
  <2> HIDE DEF A2
  <2> QED
    BY ONLY <1>3, <2>1
<1>7. total(A4) = k["worstSpread"] + total(A3) /\ total(A3) \in Int
  <2>1. A3 \in SUBSET Axes /\ "worstSpread" \in Axes /\ "worstSpread" \notin A3
    BY DEF Axes
  <2> HIDE DEF A3
  <2> QED
    BY ONLY <1>3, <2>1
<1>8. total(A5) = k["worstGaps"] + total(A4) /\ total(A4) \in Int
  <2>1. A4 \in SUBSET Axes /\ "worstGaps" \in Axes /\ "worstGaps" \notin A4
    BY DEF Axes
  <2> HIDE DEF A4
  <2> QED
    BY ONLY <1>3, <2>1
<1>9. total(A6) = k["classTeacher"] + total(A5) /\ total(A5) \in Int
  <2>1. A5 \in SUBSET Axes /\ "classTeacher" \in Axes /\ "classTeacher" \notin A5
    BY DEF Axes
  <2> HIDE DEF A5
  <2> QED
    BY ONLY <1>3, <2>1
<1>10. total(A7) = k["supervision"] + total(A6) /\ total(A6) \in Int
  <2>1. A6 \in SUBSET Axes /\ "supervision" \in Axes /\ "supervision" \notin A6
    BY DEF Axes
  <2> HIDE DEF A6
  <2> QED
    BY ONLY <1>3, <2>1
<1>11. total(A8) = k["softPin"] + total(A7) /\ total(A7) \in Int
  <2>1. A7 \in SUBSET Axes /\ "softPin" \in Axes /\ "softPin" \notin A7
    BY DEF Axes
  <2> HIDE DEF A7
  <2> QED
    BY ONLY <1>3, <2>1
<1>12. total(A9) = k["early"] + total(A8) /\ total(A8) \in Int
  <2>1. A8 \in SUBSET Axes /\ "early" \in Axes /\ "early" \notin A8
    BY DEF Axes
  <2> HIDE DEF A8
  <2> QED
    BY ONLY <1>3, <2>1
<1>13. total(A10) = k["first"] + total(A9) /\ total(A9) \in Int
  <2>1. A9 \in SUBSET Axes /\ "first" \in Axes /\ "first" \notin A9
    BY DEF Axes
  <2> HIDE DEF A9
  <2> QED
    BY ONLY <1>3, <2>1
<1>14. total(A11) = k["last"] + total(A10) /\ total(A10) \in Int
  <2>1. A10 \in SUBSET Axes /\ "last" \in Axes /\ "last" \notin A10
    BY DEF Axes
  <2> HIDE DEF A10
  <2> QED
    BY ONLY <1>3, <2>1
<1>15. total(A12) = k["late"] + total(A11) /\ total(A11) \in Int
  <2>1. A11 \in SUBSET Axes /\ "late" \in Axes /\ "late" \notin A11
    BY DEF Axes
  <2> HIDE DEF A11
  <2> QED
    BY ONLY <1>3, <2>1
<1>16. total(A13) = k["homeRoom"] + total(A12) /\ total(A12) \in Int
  <2>1. A12 \in SUBSET Axes /\ "homeRoom" \in Axes /\ "homeRoom" \notin A12
    BY DEF Axes
  <2> HIDE DEF A12
  <2> QED
    BY ONLY <1>3, <2>1
<1> HIDE DEF A1, A2, A3, A4, A5, A6, A7, A8, A9, A10, A11, A12, A13
<1>17. total({}) = 0
  BY ONLY <1>3
<1>18. /\ k["classGap"] \in Int /\ k["teacherGap"] \in Int /\ k["balance"] \in Int
       /\ k["worstSpread"] \in Int /\ k["worstGaps"] \in Int /\ k["classTeacher"] \in Int
       /\ k["supervision"] \in Int /\ k["softPin"] \in Int /\ k["early"] \in Int
       /\ k["first"] \in Int /\ k["last"] \in Int /\ k["late"] \in Int /\ k["homeRoom"] \in Int
  BY ONLY \A a \in Axes : k[a] \in Int DEF Axes
<1>19. total(A8) = k["classGap"] + k["teacherGap"] + k["balance"] + k["worstSpread"]
                   + k["worstGaps"] + k["classTeacher"] + k["supervision"] + k["softPin"]
  BY ONLY <1>4, <1>5, <1>6, <1>7, <1>8, <1>9, <1>10, <1>11, <1>17, <1>18
<1>20. total(A13) = total(A8) + k["early"] + k["first"] + k["last"] + k["late"] + k["homeRoom"]
  BY ONLY <1>12, <1>13, <1>14, <1>15, <1>16, <1>18
<1> QED
  BY <1>1, <1>2, <1>18, <1>19, <1>20 DEF total

\* The report of a schedule adds up to what the schedule costs, both ways.
LEMMA ReportExact ==
  ASSUME NEW R \in SUBSET Row
  PROVE  /\ ReportedScore(R) = ScoreSolution(R)
         /\ SumFunction([a \in Axes |-> Weight[a] * Report(R)[a]]) = ScoreSolution(R)
<1> DEFINE rep == Report(R)
           weighted == Axes \ {"early", "first", "last", "late", "homeRoom"}
           k == [a \in Axes |-> Weight[a] * rep[a]]
           class == ClassPositions(R)
           per == PeriodUnits(R)
<1>1. IsFiniteSet(Classes) /\ IsFiniteSet(Teachers)
  BY ProblemAssumption
<1>2. ByDay(Classes, class) /\ ByDay(Teachers, TeacherPositions(R))
  BY SchedulePositions
<1>3. /\ SumFunction(ByClass(R).classGap) = GapHours(class)
      /\ GapHours(class) \in Int /\ GapHours(TeacherPositions(R)) \in Int
  <2>1. ByClass(R).classGap = [c \in Classes |-> GapHoursOf(class, c)]
    BY DEF ByClass
  <2> HIDE DEF class
  <2>2. GapHours(class) = SumFunction([c \in Classes |-> GapHoursOf(class, c)])
    BY ONLY <1>1, <1>2, GapsAddUp
  <2>3. GapHours(class) \in Nat /\ GapHours(TeacherPositions(R)) \in Nat
    BY ONLY <1>1, <1>2, GapHoursNat
  <2> QED
    BY ONLY <2>1, <2>2, <2>3
<1>4. SumFunction(ByClass(R).balance) = ClassDayBalance(R) /\ ClassDayBalance(R) \in Int
  BY BalanceNat DEF ByClass, ClassDayBalance
<1>5. /\ HomeRoomTotal(R) = Weight["homeRoom"] * SumFunction(ByClass(R).homeRoom)
      /\ SumFunction(ByClass(R).homeRoom) \in Int
  BY RoomsAddUp
<1>6. /\ RowPreference(R) = Weight["early"] * per.early + Weight["first"] * per.first
                            + Weight["last"] * per.last + Weight["late"] * per.late
      /\ per.early \in Int /\ per.first \in Int /\ per.last \in Int /\ per.late \in Int
  BY PeriodsAddUp
<1>7. /\ WorstClassSpread(R) \in Int /\ WorstClassGaps(R) \in Int
      /\ ClassTeacherMisses(R) \in Int /\ SupervisionSpread(R) \in Int /\ SoftPinMisses(R) \in Int
  BY WorstSpreadNat, WorstGapsNat, MissesNat, SupervisionNat
<1>8. /\ rep["classGap"] = GapHours(class) /\ rep["teacherGap"] = GapHours(TeacherPositions(R))
      /\ rep["balance"] = ClassDayBalance(R) /\ rep["worstSpread"] = WorstClassSpread(R)
      /\ rep["worstGaps"] = WorstClassGaps(R) /\ rep["classTeacher"] = ClassTeacherMisses(R)
      /\ rep["supervision"] = SupervisionSpread(R) /\ rep["softPin"] = SoftPinMisses(R)
      /\ rep["early"] = per.early /\ rep["first"] = per.first
      /\ rep["last"] = per.last /\ rep["late"] = per.late
      /\ rep["homeRoom"] = SumFunction(ByClass(R).homeRoom)
  BY <1>3, <1>4 DEF Report
<1> HIDE DEF rep, class, per
<1>9. \A a \in Axes : Weight[a] \in Int /\ rep[a] \in Int
  BY <1>3, <1>4, <1>5, <1>6, <1>7, <1>8, WeightAssumption DEF Axes
<1>10. \A a \in Axes : k[a] = Weight[a] * rep[a] /\ k[a] \in Int
  <2>1. \A m, n \in Int : m * n \in Int
    OBVIOUS
  <2> QED
    BY ONLY <1>9, <2>1
<1>11. k \in [Axes -> Int]
  BY <1>10
<1>12. k = [a \in Axes |-> Weight[a] * Report(R)[a]]
  BY DEF rep
<1>13. [a \in weighted |-> Weight[a] * Report(R)[a]] = [a \in weighted |-> k[a]]
  BY DEF rep
<1> HIDE DEF k
<1>14. /\ SumFunctionOnSet(k, weighted)
              = k["classGap"] + k["teacherGap"] + k["balance"] + k["worstSpread"]
                + k["worstGaps"] + k["classTeacher"] + k["supervision"] + k["softPin"]
       /\ SumFunctionOnSet(k, Axes)
              = k["classGap"] + k["teacherGap"] + k["balance"] + k["worstSpread"]
                + k["worstGaps"] + k["classTeacher"] + k["supervision"] + k["softPin"]
                + k["early"] + k["first"] + k["last"] + k["late"] + k["homeRoom"]
       /\ IsFiniteSet(Axes)
  BY ONLY <1>10, AxesListed
<1>15. SumFunction([a \in weighted |-> k[a]]) = SumFunctionOnSet(k, weighted)
  <2>1. weighted \in SUBSET Axes
    OBVIOUS
  <2> HIDE DEF weighted
  <2> QED
    BY ONLY <1>10, <1>14, <2>1, SumPart
<1>16. SumFunction(k) = SumFunctionOnSet(k, Axes)
  BY ONLY <1>11, <1>14, SumType
<1>17. ReportedScore(R) = SumFunctionOnSet(k, weighted) + RowPreference(R) + HomeRoomTotal(R)
  BY <1>13, <1>15 DEF ReportedScore
<1>18. /\ k["classGap"] = Weight["classGap"] * GapHours(class)
       /\ k["teacherGap"] = Weight["teacherGap"] * GapHours(TeacherPositions(R))
       /\ k["balance"] = Weight["balance"] * ClassDayBalance(R)
       /\ k["worstSpread"] = Weight["worstSpread"] * WorstClassSpread(R)
       /\ k["worstGaps"] = Weight["worstGaps"] * WorstClassGaps(R)
       /\ k["classTeacher"] = Weight["classTeacher"] * ClassTeacherMisses(R)
       /\ k["supervision"] = Weight["supervision"] * SupervisionSpread(R)
       /\ k["softPin"] = Weight["softPin"] * SoftPinMisses(R)
       /\ k["early"] = Weight["early"] * per.early
       /\ k["first"] = Weight["first"] * per.first
       /\ k["last"] = Weight["last"] * per.last
       /\ k["late"] = Weight["late"] * per.late
       /\ k["homeRoom"] = HomeRoomTotal(R)
  BY ONLY <1>5, <1>8, <1>10 DEF Axes
<1>19. RowPreference(R) = k["early"] + k["first"] + k["last"] + k["late"]
  BY ONLY <1>6, <1>18
<1>20. /\ k["classGap"] \in Int /\ k["teacherGap"] \in Int /\ k["balance"] \in Int
       /\ k["worstSpread"] \in Int /\ k["worstGaps"] \in Int /\ k["classTeacher"] \in Int
       /\ k["supervision"] \in Int /\ k["softPin"] \in Int /\ k["early"] \in Int
       /\ k["first"] \in Int /\ k["last"] \in Int /\ k["late"] \in Int /\ k["homeRoom"] \in Int
  BY ONLY <1>10 DEF Axes
<1>21. ScoreSolution(R) = k["classGap"] + k["teacherGap"] + RowPreference(R) + k["balance"]
                          + k["worstSpread"] + k["worstGaps"] + k["homeRoom"] + k["softPin"]
                          + k["classTeacher"] + k["supervision"]
  BY <1>18 DEF ScoreSolution, SliceCost, class
<1> HIDE DEF weighted
<1>22. ReportedScore(R) = ScoreSolution(R)
  BY ONLY <1>14, <1>17, <1>18, <1>19, <1>20, <1>21
<1>23. SumFunction(k) = ScoreSolution(R)
  BY ONLY <1>14, <1>16, <1>19, <1>20, <1>21
<1> QED
  BY <1>12, <1>22, <1>23
=============================================================================
