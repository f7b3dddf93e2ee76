-------------------------------- MODULE Facts --------------------------------
(***************************************************************************)
(* What the proofs about several components rest on: induction, for sets   *)
(* and without a predicate as a parameter, totals over finite sets, and    *)
(* what the operators of Executions compute for a history of any length.   *)
(***************************************************************************)
EXTENDS Executions, FiniteSetsExt, FiniteSetTheorems, WellFoundedInduction, TLAPS

-----------------------------------------------------------------------------
(* Induction *)

\* Numbers that are in G whenever all smaller ones are, are in G.
LEMMA StrongInduction ==
  ASSUME NEW G,
         \A n \in Nat : (\A m \in Nat : m < n => m \in G) => n \in G
  PROVE  Nat \subseteq G
<1> DEFINE less == {pair \in Nat \X Nat : pair[1] < pair[2]}
           out  == Nat \ G
<1>1. IsWellFoundedOn(less, Nat)
  BY NatLessThanWellFounded, Zenon DEF OpToRel
<1> SUFFICES ASSUME out # {} PROVE FALSE
  OBVIOUS
<1>2. PICK n \in out : \A m \in out : <<m, n>> \notin less
  <2> HIDE DEF less
  <2> QED BY <1>1, WFMin
<1>3. \A m \in Nat : m < n => m \in G
  <2> SUFFICES ASSUME NEW m \in Nat, m < n PROVE m \in G
    OBVIOUS
  <2>1. <<m, n>> \in less
    OBVIOUS
  <2> QED BY <1>2, <2>1
<1> QED BY <1>3

\* Subsets of a finite set that are in G whenever all smaller ones are.
LEMMA SubsetInduction ==
  ASSUME NEW S, IsFiniteSet(S), NEW G,
         \A s \in SUBSET S : (\A t \in SUBSET s : t # s => t \in G) => s \in G
  PROVE  SUBSET S \subseteq G
<1> DEFINE N == {n \in Nat : \A s \in SUBSET S : Cardinality(s) = n => s \in G}
<1>1. \A s \in SUBSET S : IsFiniteSet(s) /\ Cardinality(s) \in Nat
  BY FS_Subset, FS_CardinalityType
<1>2. ASSUME NEW n \in Nat, \A m \in Nat : m < n => m \in N PROVE n \in N
  <2> SUFFICES ASSUME NEW s \in SUBSET S, Cardinality(s) = n PROVE s \in G
    OBVIOUS
  <2>1. ASSUME NEW t \in SUBSET s, t # s PROVE t \in G
    <3>1. t \in SUBSET S /\ Cardinality(t) \in Nat
      BY <1>1
    <3>2. Cardinality(t) <= n /\ Cardinality(t) # n
      BY <1>1, <2>1, FS_Subset
    <3> QED BY <1>2, <3>1, <3>2
  <2> QED BY <2>1
<1>3. Nat \subseteq N
  <2> HIDE DEF N
  <2> QED BY <1>2, StrongInduction
<1> QED BY <1>1, <1>3

\* Of finitely many there is one with the least number.
LEMMA LeastExists ==
  ASSUME NEW S, IsFiniteSet(S), S # {}, NEW f, \A x \in S : f[x] \in Int
  PROVE  \E x \in S : \A y \in S : f[x] <= f[y]
<1> DEFINE G == {s \in SUBSET S : s # {} => \E x \in s : \A y \in s : f[x] <= f[y]}
<1>1. ASSUME NEW s \in SUBSET S, \A t \in SUBSET s : t # s => t \in G
      PROVE  s \in G
  <2> SUFFICES ASSUME s # {} PROVE \E x \in s : \A y \in s : f[x] <= f[y]
    OBVIOUS
  <2>1. PICK z \in s : TRUE
    OBVIOUS
  <2>2. PICK t : t = s \ {z}
    OBVIOUS
  <2>3. t \in G /\ \A y \in s : y = z \/ y \in t
    BY <1>1, <2>1, <2>2
  <2>4. CASE t = {}
    BY <2>1, <2>3, <2>4
  <2>5. CASE t # {}
    <3>1. PICK x \in t : \A y \in t : f[x] <= f[y]
      BY <2>3, <2>5
    <3>2. \A y \in s : f[y] \in Int
      OBVIOUS
    <3>3. x \in s /\ f[x] \in Int /\ f[z] \in Int
      BY <2>1, <2>2, <3>1, <3>2
    <3>4. CASE f[x] <= f[z]
      BY <2>3, <3>1, <3>3, <3>4
    <3>5. CASE f[z] <= f[x]
      BY <2>1, <2>3, <3>1, <3>2, <3>3, <3>5
    <3> QED BY <3>3, <3>4, <3>5
  <2> QED BY <2>4, <2>5
<1>2. SUBSET S \subseteq G
  <2> HIDE DEF G
  <2> QED BY <1>1, SubsetInduction
<1> QED BY <1>2

\* The ends of a finite set of numbers.
LEMMA MaxIsIn ==
  ASSUME NEW s, IsFiniteSet(s), s # {}, s \subseteq Int
  PROVE  Max(s) \in s /\ \A y \in s : y <= Max(s)
<1>1. PICK f : f = [x \in s |-> -x]
  OBVIOUS
<1>2. \A x \in s : f[x] \in Int
  BY <1>1
<1>3. PICK x \in s : \A y \in s : f[x] <= f[y]
  BY <1>2, LeastExists
<1>4. \A y \in s : y <= x
  BY <1>1, <1>3
<1> QED BY <1>4 DEF Max

LEMMA MinIsIn ==
  ASSUME NEW s, IsFiniteSet(s), s # {}, s \subseteq Int
  PROVE  Min(s) \in s /\ \A y \in s : Min(s) <= y
<1>1. PICK f : f = [x \in s |-> x]
  OBVIOUS
<1>2. \A x \in s : f[x] \in Int
  BY <1>1
<1>3. PICK x \in s : \A y \in s : f[x] <= f[y]
  BY <1>2, LeastExists
<1>4. \A y \in s : x <= y
  BY <1>1, <1>3
<1> QED BY <1>4 DEF Min

LEMMA MaxOfNumbers ==
  ASSUME NEW N \in Nat, NEW s \in SUBSET (1..N), s # {}
  PROVE  Max(s) \in s /\ \A y \in s : y <= Max(s)
<1>1. IsFiniteSet(1..N)
  BY FS_Interval
<1>2. IsFiniteSet(s)
  BY <1>1, FS_Subset
<1>3. s \subseteq Int
  OBVIOUS
<1> QED BY <1>2, <1>3, MaxIsIn

-----------------------------------------------------------------------------
(* Folds *)

\* What a fold of the community modules builds, one element at a time, in the
\* order in which pick takes them.
IsFolding(run, base, pick, step, S) ==
  run = [s \in SUBSET S |->
           IF s = {} THEN base ELSE step[<<pick[s], run[s \ {pick[s]}]>>]]

LEMMA FoldingAgree ==
  ASSUME NEW base, NEW pick, NEW step, NEW S, IsFiniteSet(S),
         \A s \in SUBSET S : s # {} => pick[s] \in s,
         NEW g, NEW R, IsFolding(g, base, pick, step, R),
         NEW h, IsFolding(h, base, pick, step, S), S \subseteq R
  PROVE  g[S] = h[S]
<1> DEFINE G == {s \in SUBSET S : g[s] = h[s]}
<1>1. ASSUME NEW s \in SUBSET S, \A t \in SUBSET s : t # s => t \in G
      PROVE  s \in G
  <2>1. /\ g[s] = IF s = {} THEN base ELSE step[<<pick[s], g[s \ {pick[s]}]>>]
        /\ h[s] = IF s = {} THEN base ELSE step[<<pick[s], h[s \ {pick[s]}]>>]
    <3>1. s \in SUBSET R
      OBVIOUS
    <3> QED BY <3>1 DEF IsFolding
  <2>2. CASE s = {}
    BY <2>1, <2>2
  <2>3. CASE s # {}
    <3>1. pick[s] \in s
      BY <2>3
    <3>2. s \ {pick[s]} \in G
      BY <1>1, <3>1
    <3> QED BY <2>1, <2>3, <3>2
  <2> QED BY <2>2, <2>3
<1>2. SUBSET S \subseteq G
  <2> HIDE DEF G
  <2> QED BY <1>1, SubsetInduction
<1> QED BY <1>2

LEMMA FoldingExists ==
  ASSUME NEW base, NEW pick, NEW step, NEW S, IsFiniteSet(S),
         \A s \in SUBSET S : s # {} => pick[s] \in s
  PROVE  \E run : IsFolding(run, base, pick, step, S)
<1> DEFINE G == {s \in SUBSET S : \E run : IsFolding(run, base, pick, step, s)}
<1>1. ASSUME NEW R \in SUBSET S, \A t \in SUBSET R : t # R => t \in G
      PROVE  R \in G
  <2> DEFINE of(s) == CHOOSE run : IsFolding(run, base, pick, step, s)
             next(s, x) == IF s = {} THEN base ELSE step[<<pick[s], x>>]
             fold  == [s \in SUBSET R |-> next(s, of(s \ {pick[s]})[s \ {pick[s]}])]
  <2>1. \A s \in SUBSET R : s # R => IsFolding(of(s), base, pick, step, s)
    <3> SUFFICES ASSUME NEW s \in SUBSET R, s # R
                 PROVE  IsFolding(of(s), base, pick, step, s)
      OBVIOUS
    <3>1. PICK run : IsFolding(run, base, pick, step, s)
      BY <1>1
    <3> QED BY <3>1
  <2> HIDE DEF of
  <2>2. ASSUME NEW s \in SUBSET R, s # R PROVE fold[s] = of(s)[s]
    <3>1. of(s)[s] = next(s, of(s)[s \ {pick[s]}])
      <4>1. PICK h : h = of(s)
        OBVIOUS
      <4>2. IsFolding(h, base, pick, step, s) /\ s \in SUBSET s
        BY <2>1, <2>2, <4>1
      <4>3. h[s] = next(s, h[s \ {pick[s]}])
        BY <4>2 DEF IsFolding
      <4> QED BY <4>1, <4>3
    <3>2. CASE s = {}
      BY <3>1, <3>2
    <3>3. CASE s # {}
      <4>1. PICK t : t = s \ {pick[s]}
        OBVIOUS
      <4>2. t \subseteq s /\ t \in SUBSET R /\ t # R
        BY <2>2, <3>3, <4>1
      <4>3. IsFiniteSet(t) /\ \A r \in SUBSET t : r # {} => pick[r] \in r
        BY <4>2, FS_Subset
      <4>4. of(s)[t] = of(t)[t]
        <5>1. PICK g, h : g = of(s) /\ h = of(t)
          OBVIOUS
        <5>2. IsFolding(g, base, pick, step, s) /\ IsFolding(h, base, pick, step, t)
          BY <2>1, <2>2, <4>2, <5>1
        <5>3. g[t] = h[t]
          BY <4>2, <4>3, <5>2, FoldingAgree
        <5> QED BY <5>1, <5>3
      <4> HIDE DEF next
      <4>5. fold[s] = next(s, of(t)[t])
        BY <4>1
      <4> QED BY <3>1, <4>1, <4>4, <4>5
    <3> QED BY <3>2, <3>3
  <2>3. IsFolding(fold, base, pick, step, R)
    <3>1. ASSUME NEW s \in SUBSET R PROVE fold[s] = next(s, fold[s \ {pick[s]}])
      <4>1. CASE s = {}
        BY <4>1
      <4>2. CASE s # {}
        <5>1. PICK t : t = s \ {pick[s]}
          OBVIOUS
        <5>2. t \in SUBSET R /\ t # R
          BY <4>2, <5>1
        <5>3. fold[t] = of(t)[t]
          BY <2>2, <5>2
        <5> HIDE DEF next
        <5>4. fold[s] = next(s, of(t)[t])
          BY <5>1
        <5> HIDE DEF fold
        <5> QED BY <5>1, <5>3, <5>4
      <4> QED BY <4>1, <4>2
    <3>2. fold = [s \in SUBSET R |-> fold[s]]
      OBVIOUS
    <3> HIDE DEF fold
    <3>3. fold = [s \in SUBSET R |-> next(s, fold[s \ {pick[s]}])]
      <4> HIDE DEF next
      <4> QED BY <3>1, <3>2
    <3> QED BY <3>3 DEF IsFolding
  <2> QED BY <2>3
<1>2. SUBSET S \subseteq G
  <2> HIDE DEF G
  <2> QED BY <1>1, SubsetInduction
<1> QED BY <1>2

\* What a fold over the numbers up to N builds, the largest last.
IsCounting(run, N, A, base, step) ==
  /\ run = [s \in SUBSET (1..N) |-> run[s]]
  /\ \A s \in SUBSET (1..N) :
       /\ run[s] \in A
       /\ run[s] = IF s = {} THEN base ELSE step[<<Max(s), run[s \ {Max(s)}]>>]

\* It stays in A, if its step does.
LEMMA CountingExists ==
  ASSUME NEW N \in Nat, NEW A, NEW base \in A, NEW step,
         \A i \in 1..N, a \in A : step[<<i, a>>] \in A
  PROVE  \E run : IsCounting(run, N, A, base, step)
<1>0. IsFiniteSet(1..N) /\ 1..N \subseteq Int
  BY FS_Interval
<1>1. PICK S : S = 1..N
  OBVIOUS
<1>2. \A s \in SUBSET S : s # {} => Max(s) \in s
  BY <1>1, MaxOfNumbers
<1>3. PICK pick : pick = [s \in SUBSET S |-> Max(s)]
  OBVIOUS
<1>4. \A s \in SUBSET S : s # {} => pick[s] \in s
  BY <1>2, <1>3
<1>5. PICK run : IsFolding(run, base, pick, step, S)
  BY <1>0, <1>1, <1>4, FoldingExists
<1>6. /\ run = [s \in SUBSET S |-> run[s]]
      /\ \A s \in SUBSET S :
           run[s] = IF s = {} THEN base ELSE step[<<Max(s), run[s \ {Max(s)}]>>]
  BY <1>3, <1>5 DEF IsFolding
<1> DEFINE G == {s \in SUBSET S : run[s] \in A}
<1>7. ASSUME NEW s \in SUBSET S, \A t \in SUBSET s : t # s => t \in G
      PROVE  s \in G
  <2>1. CASE s = {}
    BY <1>6, <2>1
  <2>2. CASE s # {}
    <3>1. PICK m, t : m = Max(s) /\ t = s \ {m}
      OBVIOUS
    <3>2. m \in 1..N /\ run[t] \in A
      BY <1>1, <1>2, <1>7, <2>2, <3>1
    <3> QED BY <1>6, <2>2, <3>1, <3>2
  <2> QED BY <2>1, <2>2
<1>8. SUBSET S \subseteq G
  <2>1. IsFiniteSet(S)
    BY <1>0, <1>1
  <2> HIDE DEF G
  <2> QED BY <1>7, <2>1, SubsetInduction
<1> QED BY <1>1, <1>6, <1>8 DEF IsCounting

\* The sets a fold from the left goes through.
LEMMA InitialSegments ==
  ASSUME NEW N \in Nat
  PROVE  /\ 1..0 = {}
         /\ \A m \in 1..N : /\ 1..m \in SUBSET (1..N) /\ 1..m # {}
                            /\ Max(1..m) = m /\ (1..m) \ {m} = 1..(m - 1)
<1>1. ASSUME NEW m \in 1..N PROVE Max(1..m) = m
  <2>1. m \in Int /\ m \in 1..m
    OBVIOUS
  <2>2. IsFiniteSet(1..m)
    BY <2>1, FS_Interval
  <2>3. 1..m # {} /\ 1..m \subseteq Int
    BY <2>1
  <2>4. Max(1..m) \in 1..m /\ \A y \in 1..m : y <= Max(1..m)
    BY <2>2, <2>3, MaxIsIn
  <2>5. m <= Max(1..m)
    BY <2>1, <2>4
  <2> QED BY <2>1, <2>4, <2>5
<1>2. ASSUME NEW m \in 1..N
      PROVE  1..m \in SUBSET (1..N) /\ 1..m # {} /\ (1..m) \ {m} = 1..(m - 1)
  <2>1. m \in 1..m
    OBVIOUS
  <2>2. 1..m \in SUBSET (1..N)
    OBVIOUS
  <2>3. (1..m) \ {m} = 1..(m - 1)
    OBVIOUS
  <2> QED BY <2>1, <2>2, <2>3
<1>3. 1..0 = {}
  OBVIOUS
<1> QED BY <1>1, <1>2, <1>3

-----------------------------------------------------------------------------
(* Totals *)

Some(s) == CHOOSE x \in s : TRUE

\* The function that the fold of the community modules builds.
IsRunning(run, f, S) ==
  run = [s \in SUBSET S |-> IF s = {} THEN 0 ELSE f[Some(s)] + run[s \ {Some(s)}]]

\* The sum of f over S.
Total(f, S) == (CHOOSE run : IsRunning(run, f, S))[S]

LEMMA RunningAgree ==
  ASSUME NEW f, NEW S, IsFiniteSet(S), NEW g, NEW R, IsRunning(g, f, R),
         NEW h, IsRunning(h, f, S), S \subseteq R
  PROVE  g[S] = h[S]
<1> DEFINE G == {s \in SUBSET S : g[s] = h[s]}
<1>1. ASSUME NEW s \in SUBSET S, \A t \in SUBSET s : t # s => t \in G
      PROVE  s \in G
  <2>1. /\ g[s] = IF s = {} THEN 0 ELSE f[Some(s)] + g[s \ {Some(s)}]
        /\ h[s] = IF s = {} THEN 0 ELSE f[Some(s)] + h[s \ {Some(s)}]
    <3>1. s \in SUBSET R
      OBVIOUS
    <3> QED BY <3>1 DEF IsRunning
  <2>2. CASE s = {}
    BY <2>1, <2>2
  <2>3. CASE s # {}
    <3>1. Some(s) \in s
      BY <2>3 DEF Some
    <3>2. s \ {Some(s)} \in G
      BY <1>1, <3>1
    <3> QED BY <2>1, <2>3, <3>2
  <2> QED BY <2>2, <2>3
<1>2. SUBSET S \subseteq G
  <2> HIDE DEF G
  <2> QED BY <1>1, SubsetInduction
<1> QED BY <1>2

LEMMA RunningExists ==
  ASSUME NEW f, NEW S, IsFiniteSet(S)
  PROVE  \E run : IsRunning(run, f, S)
<1> DEFINE G == {s \in SUBSET S : \E run : IsRunning(run, f, s)}
<1>1. ASSUME NEW R \in SUBSET S, \A t \in SUBSET R : t # R => t \in G
      PROVE  R \in G
  <2> DEFINE of(s) == CHOOSE run : IsRunning(run, f, s)
             sum   == [s \in SUBSET R |->
                         IF s = {} THEN 0
                         ELSE f[Some(s)] + of(s \ {Some(s)})[s \ {Some(s)}]]
  <2>1. \A s \in SUBSET R : s # R => IsRunning(of(s), f, s)
    <3> SUFFICES ASSUME NEW s \in SUBSET R, s # R PROVE IsRunning(of(s), f, s)
      OBVIOUS
    <3>1. PICK run : IsRunning(run, f, s)
      BY <1>1
    <3> QED BY <3>1
  <2>2. \A s \in SUBSET R : s # {} => Some(s) \in s
    BY DEF Some
  <2> HIDE DEF of
  <2>3. ASSUME NEW s \in SUBSET R, s # R PROVE sum[s] = of(s)[s]
    <3>1. of(s)[s] = IF s = {} THEN 0 ELSE f[Some(s)] + of(s)[s \ {Some(s)}]
      BY <2>1, <2>3 DEF IsRunning
    <3>2. CASE s = {}
      BY <3>1, <3>2
    <3>3. CASE s # {}
      <4>1. PICK t : t = s \ {Some(s)}
        OBVIOUS
      <4>2. t \subseteq s /\ t \in SUBSET R /\ t # R
        BY <2>2, <2>3, <3>3, <4>1
      <4>3. IsFiniteSet(t)
        BY <4>2, FS_Subset
      <4>4. of(s)[t] = of(t)[t]
        BY <2>1, <2>3, <4>2, <4>3, RunningAgree
      <4>5. sum[s] = f[Some(s)] + of(t)[t]
        BY <3>3, <4>1
      <4> QED BY <3>1, <3>3, <4>1, <4>4, <4>5
    <3> QED BY <3>2, <3>3
  <2>4. IsRunning(sum, f, R)
    <3>1. ASSUME NEW s \in SUBSET R
          PROVE  sum[s] = IF s = {} THEN 0 ELSE f[Some(s)] + sum[s \ {Some(s)}]
      <4>1. CASE s = {}
        BY <4>1
      <4>2. CASE s # {}
        <5>1. PICK t : t = s \ {Some(s)}
          OBVIOUS
        <5>2. t \in SUBSET R /\ t # R
          BY <2>2, <4>2, <5>1
        <5>3. sum[t] = of(t)[t]
          BY <2>3, <5>2
        <5>4. sum[s] = f[Some(s)] + of(t)[t]
          BY <4>2, <5>1
        <5> HIDE DEF sum
        <5> QED BY <4>2, <5>1, <5>3, <5>4
      <4> QED BY <4>1, <4>2
    <3>2. sum = [s \in SUBSET R |-> sum[s]]
      OBVIOUS
    <3> HIDE DEF sum
    <3> QED BY <3>1, <3>2 DEF IsRunning
  <2> QED BY <2>4
<1>2. SUBSET S \subseteq G
  <2> HIDE DEF G
  <2> QED BY <1>1, SubsetInduction
<1> QED BY <1>2

\* Any function that runs over a set that holds S computes the total of S.
LEMMA RunningIsTotal ==
  ASSUME NEW f, NEW S, IsFiniteSet(S), NEW g, NEW R, IsRunning(g, f, R), S \subseteq R
  PROVE  g[S] = Total(f, S)
<1>1. IsRunning(CHOOSE run : IsRunning(run, f, S), f, S)
  BY RunningExists
<1> QED BY <1>1, RunningAgree DEF Total

LEMMA TotalUnfolds ==
  ASSUME NEW f, NEW S, IsFiniteSet(S)
  PROVE  /\ S = {} => Total(f, S) = 0
         /\ S # {} => /\ Some(S) \in S
                      /\ Total(f, S) = f[Some(S)] + Total(f, S \ {Some(S)})
<1>1. PICK run : IsRunning(run, f, S)
  BY RunningExists
<1>2. run[S] = Total(f, S)
  BY <1>1, RunningIsTotal
<1>3. run[S] = IF S = {} THEN 0 ELSE f[Some(S)] + run[S \ {Some(S)}]
  BY <1>1 DEF IsRunning
<1>4. run[S \ {Some(S)}] = Total(f, S \ {Some(S)})
  BY <1>1, RunningIsTotal, FS_RemoveElement
<1>5. S # {} => Some(S) \in S
  BY DEF Some
<1> QED BY <1>2, <1>3, <1>4, <1>5

LEMMA TotalTyped ==
  ASSUME NEW f, NEW S, IsFiniteSet(S)
  PROVE  /\ (\A x \in S : f[x] \in Int) => Total(f, S) \in Int
         /\ (\A x \in S : f[x] \in Nat) => Total(f, S) \in Nat
<1> DEFINE G == {s \in SUBSET S :
                   /\ (\A x \in S : f[x] \in Int) => Total(f, s) \in Int
                   /\ (\A x \in S : f[x] \in Nat) => Total(f, s) \in Nat}
<1>1. ASSUME NEW s \in SUBSET S, \A t \in SUBSET s : t # s => t \in G
      PROVE  s \in G
  <2>1. /\ s = {} => Total(f, s) = 0
        /\ s # {} => /\ Some(s) \in s
                     /\ Total(f, s) = f[Some(s)] + Total(f, s \ {Some(s)})
    BY TotalUnfolds, FS_Subset
  <2>2. s # {} => s \ {Some(s)} \in G
    BY <1>1, <2>1
  <2> QED BY <2>1, <2>2
<1>2. SUBSET S \subseteq G
  <2> HIDE DEF G
  <2> QED BY <1>1, SubsetInduction
<1> QED BY <1>2

\* The order in which the elements are taken does not matter.
LEMMA TotalTakeOut ==
  ASSUME NEW f, NEW S, IsFiniteSet(S), \A x \in S : f[x] \in Int, NEW y \in S
  PROVE  Total(f, S) = f[y] + Total(f, S \ {y})
<1> DEFINE G == {s \in SUBSET S : \A x \in s : Total(f, s) = f[x] + Total(f, s \ {x})}
<1>1. ASSUME NEW s \in SUBSET S, \A t \in SUBSET s : t # s => t \in G
      PROVE  s \in G
  <2> SUFFICES ASSUME NEW x \in s PROVE Total(f, s) = f[x] + Total(f, s \ {x})
    OBVIOUS
  <2>1. \A t \in SUBSET S : IsFiniteSet(t) /\ Total(f, t) \in Int
    BY FS_Subset, TotalTyped
  <2>2. PICK z \in s : z = Some(s) /\ Total(f, s) = f[z] + Total(f, s \ {z})
    BY <2>1, TotalUnfolds
  <2>3. CASE x = z
    BY <2>2, <2>3
  <2>4. CASE x # z
    <3>1. PICK r : r = s \ {x, z}
      OBVIOUS
    <3>2. /\ s \ {x} \in SUBSET s /\ s \ {x} # s /\ z \in s \ {x} /\ (s \ {x}) \ {z} = r
          /\ s \ {z} \in SUBSET s /\ s \ {z} # s /\ x \in s \ {z} /\ (s \ {z}) \ {x} = r
          /\ r \in SUBSET S
      BY <2>4, <3>1
    <3>3. Total(f, s \ {x}) = f[z] + Total(f, r)
      BY <1>1, <3>2
    <3>4. Total(f, s \ {z}) = f[x] + Total(f, r)
      BY <1>1, <3>2
    <3>5. f[x] \in Int /\ f[z] \in Int /\ Total(f, r) \in Int
      BY <2>1, <3>2
    <3> QED BY <2>2, <3>3, <3>4, <3>5
  <2> QED BY <2>3, <2>4
<1>2. SUBSET S \subseteq G
  <2> HIDE DEF G
  <2> QED BY <1>1, SubsetInduction
<1> QED BY <1>2

LEMMA TotalOfUnion ==
  ASSUME NEW f, NEW S, NEW R, IsFiniteSet(S), IsFiniteSet(R), S \cap R = {},
         \A x \in S \cup R : f[x] \in Int
  PROVE  Total(f, S \cup R) = Total(f, S) + Total(f, R)
<1> DEFINE G == {s \in SUBSET S : Total(f, s \cup R) = Total(f, s) + Total(f, R)}
<1>1. ASSUME NEW s \in SUBSET S, \A t \in SUBSET s : t # s => t \in G
      PROVE  s \in G
  <2>1. Total(f, R) \in Int
    BY TotalTyped
  <2>2. CASE s = {}
    <3>1. Total(f, s) = 0
      BY <2>2, TotalUnfolds, FS_Subset
    <3>2. s \cup R = R
      BY <2>2
    <3>3. Total(f, s \cup R) = Total(f, R)
      BY <3>2
    <3> QED BY <2>1, <3>1, <3>3
  <2>3. CASE s # {}
    <3>1. PICK x \in s : TRUE
      BY <2>3
    <3>2. PICK t : t = s \ {x}
      OBVIOUS
    <3>3. t \in SUBSET s /\ t # s /\ t \in SUBSET S /\ (s \cup R) \ {x} = t \cup R
      BY <3>2
    <3>4. IsFiniteSet(s) /\ IsFiniteSet(t) /\ IsFiniteSet(s \cup R)
      BY <3>3, FS_Subset, FS_Union
    <3>5. Total(f, s) = f[x] + Total(f, t)
      BY <3>2, <3>4, TotalTakeOut
    <3>6. Total(f, s \cup R) = f[x] + Total(f, t \cup R)
      BY <3>3, <3>4, TotalTakeOut
    <3>7. Total(f, t \cup R) = Total(f, t) + Total(f, R)
      BY <1>1, <3>3
    <3>8. f[x] \in Int /\ Total(f, t) \in Int
      BY <3>3, <3>4, TotalTyped
    <3> QED BY <2>1, <3>5, <3>6, <3>7, <3>8
  <2> QED BY <2>2, <2>3
<1>2. SUBSET S \subseteq G
  <2> HIDE DEF G
  <2> QED BY <1>1, SubsetInduction
<1> QED BY <1>2

\* More of what is not negative comes to no less.
LEMMA TotalGrows ==
  ASSUME NEW f, NEW R, IsFiniteSet(R), \A x \in R : f[x] \in Nat, NEW S \in SUBSET R
  PROVE  Total(f, S) \in Nat /\ Total(f, R) \in Nat /\ Total(f, S) <= Total(f, R)
<1>1. PICK rest : rest = R \ S
  OBVIOUS
<1>2. S \cup rest = R /\ S \cap rest = {} /\ IsFiniteSet(S) /\ IsFiniteSet(rest)
  BY <1>1, FS_Subset
<1>3. \A x \in S \cup rest : f[x] \in Int
  BY <1>2
<1>4. Total(f, S \cup rest) = Total(f, S) + Total(f, rest)
  BY <1>2, <1>3, TotalOfUnion
<1>5. Total(f, S) \in Nat /\ Total(f, rest) \in Nat
  BY <1>1, <1>2, TotalTyped
<1>6. Total(f, R) = Total(f, S) + Total(f, rest)
  BY <1>2, <1>4
<1> QED BY <1>5, <1>6

\* The steps from one value to the next add up to the way from first to last.
LEMMA TotalTelescopes ==
  ASSUME NEW f, NEW p, NEW n \in Nat \ {0}, \A i \in 1..n : p[i] \in Int,
         \A i \in 2..n : f[i] = p[i] - p[i - 1]
  PROVE  Total(f, 2..n) = p[n] - p[1]
<1> DEFINE G == {m \in Nat : m \in 1..n => Total(f, 2..m) = p[m] - p[1]}
<1>1. ASSUME NEW m \in Nat, \A j \in Nat : j < m => j \in G PROVE m \in G
  <2> SUFFICES ASSUME m \in 1..n PROVE Total(f, 2..m) = p[m] - p[1]
    OBVIOUS
  <2>1. CASE m = 1
    <3>1. 2..m = {}
      BY <2>1
    <3>2. Total(f, 2..m) = 0
      BY <3>1, TotalUnfolds, FS_EmptySet
    <3> QED BY <2>1, <3>2
  <2>2. CASE m > 1
    <3>1. m - 1 \in Nat /\ m - 1 \in 1..n /\ m - 1 \in G
      BY <1>1, <2>2
    <3>2. m \in 2..m /\ (2..m) \ {m} = 2..(m - 1)
      BY <2>2
    <3>3. IsFiniteSet(2..m)
      BY FS_Interval
    <3>4. \A i \in 2..m : f[i] \in Int
      OBVIOUS
    <3>5. Total(f, 2..m) = f[m] + Total(f, 2..(m - 1))
      <4>1. PICK S, R, y : S = 2..m /\ R = 2..(m - 1) /\ y = m
        OBVIOUS
      <4>2. y \in S /\ S \ {y} = R /\ IsFiniteSet(S) /\ \A i \in S : f[i] \in Int
        BY <3>2, <3>3, <3>4, <4>1
      <4>3. Total(f, S) = f[y] + Total(f, R)
        BY <4>2, TotalTakeOut
      <4> QED BY <4>1, <4>3
    <3>6. Total(f, 2..(m - 1)) = p[m - 1] - p[1]
      BY <3>1
    <3>7. f[m] = p[m] - p[m - 1] /\ p[m] \in Int /\ p[m - 1] \in Int /\ p[1] \in Int
      BY <2>2, <3>1
    <3> QED BY <3>5, <3>6, <3>7
  <2> QED BY <2>1, <2>2
<1>2. Nat \subseteq G
  <2> HIDE DEF G
  <2> QED BY <1>1, StrongInduction
<1> QED BY <1>2

-----------------------------------------------------------------------------
(* Order *)

\* A history that can be put in order.
IsDated(T) ==
  /\ IsFiniteSet(DOMAIN T) /\ DOMAIN T \subseteq Int
  /\ \A u \in DOMAIN T : T[u].takenAt \in Int /\ T[u].uploadedAt \in Int

\* Dates, times of upload and ids put any two executions in order.
LEMMA PrecedesIsAnOrder ==
  ASSUME NEW T, IsDated(T)
  PROVE  /\ \A u, v \in DOMAIN T : u = v \/ Precedes(T, u, v) \/ Precedes(T, v, u)
         /\ \A u \in DOMAIN T : ~Precedes(T, u, u)
         /\ \A u, v, w \in DOMAIN T :
              Precedes(T, u, v) /\ Precedes(T, v, w) => Precedes(T, u, w)
<1>1. PICK t, s :
        /\ t = [u \in DOMAIN T |-> T[u].takenAt]
        /\ s = [u \in DOMAIN T |-> T[u].uploadedAt]
  OBVIOUS
<1>2. \A u \in DOMAIN T : u \in Int /\ t[u] \in Int /\ s[u] \in Int
  BY <1>1 DEF IsDated
<1>3. ASSUME NEW u \in DOMAIN T, NEW v \in DOMAIN T
      PROVE  Precedes(T, u, v) <=> \/ t[u] < t[v]
                                   \/ /\ t[u] = t[v]
                                      /\ s[u] < s[v] \/ (s[u] = s[v] /\ u < v)
  BY <1>1 DEF Precedes
<1> QED BY <1>2, <1>3

\* The numbers of recomputeAccount are 1, 2, ... and in that order, for a
\* history of any length.
LEMMA Ranking ==
  ASSUME NEW T, IsDated(T)
  PROVE  /\ SequenceNo(T) \in [DOMAIN T -> 1..Cardinality(DOMAIN T)]
         /\ \A u, v \in DOMAIN T :
              Precedes(T, u, v) => SequenceNo(T)[u] < SequenceNo(T)[v]
         /\ {SequenceNo(T)[u] : u \in DOMAIN T} = 1..Cardinality(DOMAIN T)
<1> DEFINE n       == Cardinality(DOMAIN T)
           upTo(u) == {v \in DOMAIN T : v = u \/ Precedes(T, v, u)}
           seq     == SequenceNo(T)
<1>1. n \in Nat
  BY FS_CardinalityType DEF IsDated
<1>2. ASSUME NEW u \in DOMAIN T
      PROVE  IsFiniteSet(upTo(u)) /\ Cardinality(upTo(u)) \in 1..n
  <2>1. IsFiniteSet(upTo(u)) /\ Cardinality(upTo(u)) <= n
    <3>1. upTo(u) \in SUBSET DOMAIN T
      OBVIOUS
    <3> HIDE DEF upTo
    <3> QED BY <3>1, FS_Subset DEF IsDated
  <2>2. u \in upTo(u)
    OBVIOUS
  <2> HIDE DEF upTo
  <2>3. Cardinality(upTo(u)) \in Nat /\ Cardinality(upTo(u)) # 0
    BY <2>1, <2>2, FS_CardinalityType, FS_EmptySet
  <2> QED BY <1>1, <2>1, <2>3
<1>3. seq = [u \in DOMAIN T |-> Cardinality(upTo(u))]
  BY DEF SequenceNo
<1>4. seq \in [DOMAIN T -> 1..n]
  <2> HIDE DEF upTo, seq, n
  <2> QED BY <1>2, <1>3
<1>5. ASSUME NEW u \in DOMAIN T, NEW v \in DOMAIN T, Precedes(T, u, v)
      PROVE  seq[u] < seq[v]
  <2>1. upTo(u) \in SUBSET upTo(v)
    BY <1>5, PrecedesIsAnOrder
  <2>2. v \in upTo(v) /\ v \notin upTo(u)
    BY <1>5, PrecedesIsAnOrder
  <2> HIDE DEF upTo
  <2>3. Cardinality(upTo(u)) <= Cardinality(upTo(v)) /\ Cardinality(upTo(u)) # Cardinality(upTo(v))
    BY <1>2, <2>1, <2>2, FS_Subset
  <2>4. Cardinality(upTo(u)) \in Nat /\ Cardinality(upTo(v)) \in Nat
    BY <1>2
  <2> HIDE DEF seq
  <2> QED BY <1>3, <2>3, <2>4
<1>6. seq \in Injection(DOMAIN T, 1..n)
  <2>1. \A u, v \in DOMAIN T : seq[u] = seq[v] => u = v
    <3>1. \A u \in DOMAIN T : seq[u] \in Nat
      BY <1>4
    <3> HIDE DEF seq
    <3> QED BY <1>5, <3>1, PrecedesIsAnOrder
  <2> HIDE DEF seq
  <2> QED BY <1>4, <2>1 DEF Injection, IsInjective
<1>7. IsFiniteSet(1..n) /\ Cardinality(1..n) = n
  BY <1>1, FS_Interval
<1>8. seq \in Surjection(DOMAIN T, 1..n)
  <2> HIDE DEF seq
  <2> QED BY <1>6, <1>7, FS_Injection DEF IsDated
<1>9. {seq[u] : u \in DOMAIN T} = 1..n
  <2> HIDE DEF seq
  <2> QED BY <1>8, <1>4 DEF Surjection
<1> QED BY <1>4, <1>5, <1>9

-----------------------------------------------------------------------------
(* What the rows of a change log say *)

\* Row c says that x came to, or left, a list between the two of a pair.
Says(c, pair, kind, type, x) ==
  /\ c.prev = pair[1] /\ c.upload = pair[2]
  /\ c.list = kind /\ c.type = type /\ c.user = x

\* Row c states a true difference of two executions' lists.
IsTrue(c, prev, last) ==
  /\ c.list \in Shared(prev, last)
  /\ \/ c.type = "followed" /\ c.user \in Arrived(prev, last, c.list)
     \/ c.type = "unfollowed" /\ c.user \in Departed(prev, last, c.list)

\* C is a change log of T: every row is a true difference of two neighbours,
\* and every difference has its row.
IsLogOf(C, T) ==
  /\ \A c \in C :
       /\ <<c.prev, c.upload>> \in Neighbours(T)
       /\ IsTrue(c, T[c.prev].lists, T[c.upload].lists)
  /\ \A pair \in Neighbours(T) :
       LET prev == T[pair[1]].lists
           last == T[pair[2]].lists
       IN  \A kind \in Shared(prev, last) :
             /\ \A x \in Arrived(prev, last, kind) :
                  \E c \in C : Says(c, pair, kind, "followed", x)
             /\ \A x \in Departed(prev, last, kind) :
                  \E c \in C : Says(c, pair, kind, "unfollowed", x)

\* The rows of one pair are its differences, all of them and no other.
LEMMA RowsBetween ==
  ASSUME NEW p, NEW u, NEW prev, NEW last
  PROVE  /\ \A c \in ChangesBetween(p, u, prev, last) :
              /\ c.prev = p /\ c.upload = u
              /\ IsTrue(c, prev, last)
         /\ \A kind \in Shared(prev, last) :
              /\ \A x \in Arrived(prev, last, kind) :
                   \E c \in ChangesBetween(p, u, prev, last) :
                     Says(c, <<p, u>>, kind, "followed", x)
              /\ \A x \in Departed(prev, last, kind) :
                   \E c \in ChangesBetween(p, u, prev, last) :
                     Says(c, <<p, u>>, kind, "unfollowed", x)
<1> DEFINE
  came(kind, x) ==
    [upload |-> u, prev |-> p, list |-> kind, user |-> x,
     type |-> "followed", reason |-> NoReason, renamedTo |-> Nobody,
     renamedFrom |-> IF kind = "followers"
                       THEN OneOrNobody(RenamedFrom(prev, last, x)) ELSE Nobody]
  left(kind, x) ==
    [upload |-> u, prev |-> p, list |-> kind, user |-> x,
     type |-> "unfollowed",
     reason |-> IF kind = "followers" THEN DepartureReason(prev, last, x)
                                      ELSE NoReason,
     renamedTo |-> IF kind = "followers"
                     THEN OneOrNobody(RenamedTo(prev, last, x)) ELSE Nobody,
     renamedFrom |-> Nobody]
  rows == ChangesBetween(p, u, prev, last)
<1>1. \A c : c \in rows <=>
        \E kind \in Shared(prev, last) :
          \/ \E x \in Arrived(prev, last, kind)  : c = came(kind, x)
          \/ \E x \in Departed(prev, last, kind) : c = left(kind, x)
  BY DEF ChangesBetween
<1>2. \A kind, x :
        /\ Says(came(kind, x), <<p, u>>, kind, "followed", x)
        /\ Says(left(kind, x), <<p, u>>, kind, "unfollowed", x)
  BY DEF Says
<1> HIDE DEF came, left, rows
<1>3. ASSUME NEW c \in rows
      PROVE  /\ c.prev = p /\ c.upload = u
             /\ IsTrue(c, prev, last)
  <2>1. PICK kind \in Shared(prev, last) :
          \/ \E x \in Arrived(prev, last, kind)  : c = came(kind, x)
          \/ \E x \in Departed(prev, last, kind) : c = left(kind, x)
    BY <1>1
  <2>2. CASE \E x \in Arrived(prev, last, kind) : c = came(kind, x)
    BY <1>2, <2>1, <2>2 DEF Says, IsTrue
  <2>3. CASE \E x \in Departed(prev, last, kind) : c = left(kind, x)
    BY <1>2, <2>1, <2>3 DEF Says, IsTrue
  <2> QED BY <2>1, <2>2, <2>3
<1>4. ASSUME NEW kind \in Shared(prev, last)
      PROVE  /\ \A x \in Arrived(prev, last, kind) :
                  \E c \in rows : Says(c, <<p, u>>, kind, "followed", x)
             /\ \A x \in Departed(prev, last, kind) :
                  \E c \in rows : Says(c, <<p, u>>, kind, "unfollowed", x)
  BY <1>1, <1>2
<1> QED BY <1>3, <1>4 DEF rows

\* What recomputeAccount writes is a change log of the history it reads.
LEMMA ChangesAreLog ==
  ASSUME NEW T
  PROVE  IsLogOf(Changes(T), T)
<1> DEFINE rows(pair) ==
             ChangesBetween(pair[1], pair[2], T[pair[1]].lists, T[pair[2]].lists)
<1>1. Changes(T) = UNION {rows(pair) : pair \in Neighbours(T)}
  BY DEF Changes
<1>2. \A pair \in Neighbours(T) : pair = <<pair[1], pair[2]>>
  BY DEF Neighbours
<1>3. ASSUME NEW c \in Changes(T)
      PROVE  /\ <<c.prev, c.upload>> \in Neighbours(T)
             /\ IsTrue(c, T[c.prev].lists, T[c.upload].lists)
  <2>1. PICK pair \in Neighbours(T) : c \in rows(pair)
    BY <1>1
  <2>2. PICK p, u, prev, last :
          /\ p = pair[1] /\ u = pair[2]
          /\ prev = T[p].lists /\ last = T[u].lists
          /\ c \in ChangesBetween(p, u, prev, last)
    BY <2>1
  <2>3. /\ c.prev = p /\ c.upload = u
        /\ IsTrue(c, prev, last)
    <3>1. \A d \in ChangesBetween(p, u, prev, last) :
            d.prev = p /\ d.upload = u /\ IsTrue(d, prev, last)
      BY RowsBetween
    <3> QED BY <2>2, <3>1
  <2>4. pair = <<c.prev, c.upload>>
    BY <1>2, <2>2, <2>3
  <2> HIDE DEF rows
  <2> QED BY <2>2, <2>3, <2>4
<1>4. ASSUME NEW pair \in Neighbours(T),
             NEW kind \in Shared(T[pair[1]].lists, T[pair[2]].lists)
      PROVE  /\ \A x \in Arrived(T[pair[1]].lists, T[pair[2]].lists, kind) :
                  \E c \in Changes(T) : Says(c, pair, kind, "followed", x)
             /\ \A x \in Departed(T[pair[1]].lists, T[pair[2]].lists, kind) :
                  \E c \in Changes(T) : Says(c, pair, kind, "unfollowed", x)
  <2>1. rows(pair) \subseteq Changes(T)
    BY <1>1
  <2>2. pair = <<pair[1], pair[2]>>
    BY <1>2
  <2>3. PICK p, u, prev, last :
          /\ p = pair[1] /\ u = pair[2]
          /\ prev = T[p].lists /\ last = T[u].lists
    OBVIOUS
  <2>4. /\ \A x \in Arrived(prev, last, kind) :
             \E c \in ChangesBetween(p, u, prev, last) :
               Says(c, <<p, u>>, kind, "followed", x)
        /\ \A x \in Departed(prev, last, kind) :
             \E c \in ChangesBetween(p, u, prev, last) :
               Says(c, <<p, u>>, kind, "unfollowed", x)
    BY <2>3, RowsBetween
  <2>5. pair = <<p, u>> /\ ChangesBetween(p, u, prev, last) \subseteq Changes(T)
    BY <2>1, <2>2, <2>3
  <2> QED BY <2>3, <2>4, <2>5
<1> QED BY <1>3, <1>4 DEF IsLogOf

-----------------------------------------------------------------------------
(* Neighbours, and the way from one execution to another *)

\* Numbers compare as the executions do.
LEMMA NumbersCompare ==
  ASSUME NEW T, IsDated(T), NEW u \in DOMAIN T, NEW v \in DOMAIN T
  PROVE  /\ SequenceNo(T)[u] \in Nat \ {0} /\ SequenceNo(T)[v] \in Nat \ {0}
         /\ SequenceNo(T)[u] < SequenceNo(T)[v] <=> Precedes(T, u, v)
         /\ SequenceNo(T)[u] = SequenceNo(T)[v] <=> u = v
<1>1. PICK n : n = SequenceNo(T)
  OBVIOUS
<1>2. n[u] \in 1..Cardinality(DOMAIN T) /\ n[v] \in 1..Cardinality(DOMAIN T)
  BY <1>1, Ranking
<1>3. /\ Precedes(T, u, v) => n[u] < n[v]
      /\ Precedes(T, v, u) => n[v] < n[u]
  BY <1>1, Ranking
<1>4. u = v \/ Precedes(T, u, v) \/ Precedes(T, v, u)
  BY PrecedesIsAnOrder
<1>5. Cardinality(DOMAIN T) \in Nat
  BY FS_CardinalityType DEF IsDated
<1> QED BY <1>1, <1>2, <1>3, <1>4, <1>5

\* Who is recorded as having come or gone with an execution.
Recorded(T, u, kind, type) ==
  {c.user : c \in {d \in Changes(T) : d.upload = u /\ d.list = kind /\ d.type = type}}

LEMMA RecordedIsDifference ==
  ASSUME NEW T, IsDated(T), NEW p, NEW u, <<p, u>> \in Neighbours(T), NEW kind
  PROVE  /\ Recorded(T, u, kind, "followed")
              = IF kind \in Shared(T[p].lists, T[u].lists)
                  THEN Arrived(T[p].lists, T[u].lists, kind) ELSE {}
         /\ Recorded(T, u, kind, "unfollowed")
              = IF kind \in Shared(T[p].lists, T[u].lists)
                  THEN Departed(T[p].lists, T[u].lists, kind) ELSE {}
<1>1. PICK C, prev, last :
        C = Changes(T) /\ prev = T[p].lists /\ last = T[u].lists
  OBVIOUS
<1>2. IsLogOf(C, T)
  BY <1>1, ChangesAreLog
<1>3. ASSUME NEW c \in C, c.upload = u
      PROVE  c.prev = p /\ IsTrue(c, prev, last)
  <2>1. PICK q : q = c.prev
    OBVIOUS
  <2>2. <<q, u>> \in Neighbours(T) /\ IsTrue(c, T[q].lists, T[u].lists)
    BY <1>2, <1>3, <2>1 DEF IsLogOf
  <2>3. /\ p \in DOMAIN T /\ u \in DOMAIN T /\ q \in DOMAIN T
        /\ SequenceNo(T)[u] = SequenceNo(T)[p] + 1
        /\ SequenceNo(T)[u] = SequenceNo(T)[q] + 1
    BY <2>2 DEF Neighbours
  <2>4. /\ SequenceNo(T)[p] \in Nat /\ SequenceNo(T)[q] \in Nat
        /\ SequenceNo(T)[p] = SequenceNo(T)[q] <=> p = q
    BY <2>3, NumbersCompare
  <2> QED BY <1>1, <2>1, <2>2, <2>3, <2>4
<1>4. ASSUME kind \in Shared(prev, last)
      PROVE  /\ \A x \in Arrived(prev, last, kind) :
                  \E c \in C : Says(c, <<p, u>>, kind, "followed", x)
             /\ \A x \in Departed(prev, last, kind) :
                  \E c \in C : Says(c, <<p, u>>, kind, "unfollowed", x)
  <2>1. PICK pair : pair = <<p, u>>
    OBVIOUS
  <2>2. pair \in Neighbours(T) /\ T[pair[1]].lists = prev /\ T[pair[2]].lists = last
    BY <1>1, <2>1
  <2> QED BY <1>2, <1>4, <2>1, <2>2 DEF IsLogOf
<1>5. \A x : x \in Recorded(T, u, kind, "followed") <=>
               kind \in Shared(prev, last) /\ x \in Arrived(prev, last, kind)
  <2> SUFFICES ASSUME NEW x
               PROVE  x \in Recorded(T, u, kind, "followed") <=>
                        kind \in Shared(prev, last) /\ x \in Arrived(prev, last, kind)
    OBVIOUS
  <2>1. x \in Recorded(T, u, kind, "followed") <=>
          \E c \in C : c.upload = u /\ c.list = kind /\ c.type = "followed" /\ c.user = x
    BY <1>1 DEF Recorded
  <2> QED BY <1>3, <1>4, <2>1 DEF IsTrue, Says
<1>6. \A x : x \in Recorded(T, u, kind, "unfollowed") <=>
               kind \in Shared(prev, last) /\ x \in Departed(prev, last, kind)
  <2> SUFFICES ASSUME NEW x
               PROVE  x \in Recorded(T, u, kind, "unfollowed") <=>
                        kind \in Shared(prev, last) /\ x \in Departed(prev, last, kind)
    OBVIOUS
  <2>1. x \in Recorded(T, u, kind, "unfollowed") <=>
          \E c \in C : c.upload = u /\ c.list = kind /\ c.type = "unfollowed" /\ c.user = x
    BY <1>1 DEF Recorded
  <2> QED BY <1>3, <1>4, <2>1 DEF IsTrue, Says
<1> QED BY <1>1, <1>5, <1>6

\* Somebody on a list at both ends of a way along which every execution carried
\* it is recorded as having left on the way exactly if they were once not on it.
LEMMA LeftOnTheWay ==
  ASSUME NEW T, IsDated(T), NEW u \in DOMAIN T, NEW v \in DOMAIN T,
         NEW n, n = SequenceNo(T), NEW kind, NEW x,
         \A m \in DOMAIN T : n[m] \in n[u]..n[v] => Carries(T[m].lists, kind),
         x \in Members(T[u].lists, kind), x \in Members(T[v].lists, kind)
  PROVE  (\E c \in Changes(T) :
            /\ c.user = x /\ c.type = "unfollowed" /\ c.list = kind
            /\ n[c.upload] \in (n[u] + 1)..n[v])
         <=>
         (\E m \in DOMAIN T : /\ Precedes(T, u, m) /\ Precedes(T, m, v)
                              /\ x \notin Members(T[m].lists, kind))
<1>1. \A m \in DOMAIN T :
        /\ n[m] \in Nat
        /\ n[u] < n[m] <=> Precedes(T, u, m)
        /\ n[m] < n[v] <=> Precedes(T, m, v)
        /\ n[m] = n[u] <=> m = u
        /\ n[m] = n[v] <=> m = v
  BY NumbersCompare
<1>2. IsLogOf(Changes(T), T)
  BY ChangesAreLog
<1>3. ASSUME NEW c \in Changes(T), c.user = x, c.type = "unfollowed", c.list = kind,
             n[c.upload] \in (n[u] + 1)..n[v]
      PROVE  \E m \in DOMAIN T : /\ Precedes(T, u, m) /\ Precedes(T, m, v)
                                 /\ x \notin Members(T[m].lists, kind)
  <2>1. PICK p, m : p = c.prev /\ m = c.upload
    OBVIOUS
  <2>2. <<p, m>> \in Neighbours(T) /\ IsTrue(c, T[p].lists, T[m].lists)
    BY <1>2, <2>1 DEF IsLogOf
  <2>3. m \in DOMAIN T
    BY <2>2 DEF Neighbours
  <2>4. x \notin Members(T[m].lists, kind)
    BY <1>3, <2>2 DEF IsTrue, Departed
  <2>5. m # v
    BY <2>4
  <2>6. n[u] < n[m] /\ n[m] < n[v]
    BY <1>1, <1>3, <2>1, <2>3, <2>5
  <2> QED BY <1>1, <2>3, <2>4, <2>6
<1>4. ASSUME NEW m \in DOMAIN T, Precedes(T, u, m), Precedes(T, m, v),
             x \notin Members(T[m].lists, kind),
             ~ \E c \in Changes(T) :
                 /\ c.user = x /\ c.type = "unfollowed" /\ c.list = kind
                 /\ n[c.upload] \in (n[u] + 1)..n[v]
      PROVE  FALSE
  <2> DEFINE G == {i \in Nat : \A w \in DOMAIN T :
                     n[w] = i /\ i \in n[u]..n[v] => x \in Members(T[w].lists, kind)}
  <2>1. ASSUME NEW i \in Nat, \A j \in Nat : j < i => j \in G
        PROVE  i \in G
    <3> SUFFICES ASSUME NEW w \in DOMAIN T, n[w] = i, i \in n[u]..n[v]
                 PROVE  x \in Members(T[w].lists, kind)
      OBVIOUS
    <3>1. CASE w = u
      BY <3>1
    <3>2. CASE w # u
      <4>1. n[u] < i /\ n[u] \in Nat \ {0}
        BY <1>1, <3>2, NumbersCompare
      <4>2. PICK p \in DOMAIN T : n[p] = i - 1
        <5>1. {n[z] : z \in DOMAIN T} = 1..Cardinality(DOMAIN T)
          BY Ranking
        <5>2. i \in 1..Cardinality(DOMAIN T)
          BY Ranking
        <5>3. Cardinality(DOMAIN T) \in Nat
          BY FS_CardinalityType DEF IsDated
        <5>4. i - 1 \in 1..Cardinality(DOMAIN T)
          BY <4>1, <5>2, <5>3
        <5> QED BY <5>1, <5>4
      <4>3. x \in Members(T[p].lists, kind)
        <5>1. i - 1 \in Nat /\ i - 1 < i /\ i - 1 \in n[u]..n[v]
          BY <1>1, <4>1
        <5>2. i - 1 \in G
          BY <2>1, <5>1
        <5> QED BY <4>2, <5>1, <5>2
      <4>4. PICK pair \in Neighbours(T) : pair = <<p, w>>
        <5>1. n[w] = n[p] + 1
          BY <4>1, <4>2
        <5> QED BY <5>1 DEF Neighbours
      <4>5. Carries(T[p].lists, kind) /\ Carries(T[w].lists, kind)
        BY <1>1, <4>1, <4>2
      <4>6. ASSUME x \notin Members(T[w].lists, kind) PROVE FALSE
        <5>1. PICK prev, last : prev = T[p].lists /\ last = T[w].lists
          OBVIOUS
        <5>2. kind \in Shared(prev, last) /\ x \in Departed(prev, last, kind)
          BY <4>3, <4>5, <4>6, <5>1 DEF Shared, Departed, Carries
        <5>3. T[pair[1]].lists = prev /\ T[pair[2]].lists = last
          BY <4>4, <5>1
        <5>4. PICK c \in Changes(T) : Says(c, pair, kind, "unfollowed", x)
          BY <1>2, <5>2, <5>3 DEF IsLogOf
        <5>5. c.upload = w /\ c.user = x /\ c.type = "unfollowed" /\ c.list = kind
          BY <4>4, <5>4 DEF Says
        <5>6. n[w] \in (n[u] + 1)..n[v]
          BY <1>1, <4>1
        <5> QED BY <1>4, <5>5, <5>6
      <4> QED BY <4>6
    <3> QED BY <3>1, <3>2
  <2>2. Nat \subseteq G
    <3> HIDE DEF G
    <3> QED BY <2>1, StrongInduction
  <2>3. n[m] \in Nat /\ n[m] \in n[u]..n[v]
    BY <1>1, <1>4
  <2> QED BY <1>4, <2>2, <2>3
<1> QED BY <1>3, <1>4
=============================================================================
