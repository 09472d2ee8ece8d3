------------------------- MODULE ExperimentRun_proofs -------------------------
(***************************************************************************)
(* Proofs about the resumable experiments, for every population, agent,    *)
(* design and interruption.                                                *)
(***************************************************************************)
EXTENDS ExperimentRun, TLAPS, WellFoundedInduction, SequenceTheorems

-----------------------------------------------------------------------------
(***************************************************************************)
(* Least and greatest numbers.                                             *)
(***************************************************************************)

LEMMA LessThan == OpToRel(<, Nat) = {p \in Nat \X Nat : p[1] < p[2]}
  BY DEF OpToRel

LEMMA MinIsLeast ==
  ASSUME NEW S \in SUBSET Nat, S # {}
  PROVE  Min(S) \in S /\ \A x \in S : Min(S) <= x
<1>1. PICK m \in S : \A y \in S : <<y, m>> \notin OpToRel(<, Nat)
  BY WFMin, NatLessThanWellFounded
<1>2. \A y \in S : m <= y
  <2> SUFFICES ASSUME NEW y \in S, y < m PROVE FALSE
    OBVIOUS
  <2>1. <<y, m>> \in {p \in Nat \X Nat : p[1] < p[2]}
    OBVIOUS
  <2> QED
    BY <1>1, <2>1, LessThan, Zenon
<1> QED
  BY <1>2 DEF Min

LEMMA MaxIsGreatest ==
  ASSUME NEW n \in Nat, NEW S \in SUBSET (1..n), S # {}
  PROVE  Max(S) \in S /\ \A x \in S : x <= Max(S)
<1> DEFINE T == {n - x : x \in S}
<1>1. T \in SUBSET Nat /\ T # {}
  <2>1. PICK x \in S : TRUE
    OBVIOUS
  <2>2. n - x \in T /\ \A y \in S : n - y \in Nat
    BY <2>1
  <2> QED
    BY <2>2
<1>2. PICK m \in T : \A t \in T : m <= t
  <2> HIDE DEF T
  <2> QED
    BY <1>1, MinIsLeast
<1>3. PICK g \in S : m = n - g
  OBVIOUS
<1>4. \A x \in S : x <= g
  <2> SUFFICES ASSUME NEW x \in S PROVE x <= g
    OBVIOUS
  <2>1. n - g <= n - x
    BY <1>2, <1>3
  <2> QED
    BY <2>1
<1> QED
  BY <1>4 DEF Max

-----------------------------------------------------------------------------
(***************************************************************************)
(* Turn j of two nested loops is turn Inner(j, w) of round Outer(j, w).    *)
(***************************************************************************)

LEMMA Times ==
  ASSUME NEW w \in Nat, NEW a \in Nat, NEW b \in Nat, a < b
  PROVE  w * a + w <= w * b
<1>1. PICK c \in Nat : b = a + 1 + c
  <2>1. b - a - 1 \in Nat /\ b = a + 1 + (b - a - 1)
    OBVIOUS
  <2> QED
    BY <2>1
<1>2. w * b = w * a + w + w * c
  BY <1>1
<1>3. w * c \in Nat /\ w * a \in Nat
  OBVIOUS
<1> QED
  BY <1>2, <1>3

LEMMA Division ==
  ASSUME NEW w \in Nat, w >= 1, NEW a \in Nat
  PROVE  /\ a \div w \in Nat /\ a % w \in 0..(w - 1)
         /\ a = w * (a \div w) + (a % w)
  OBVIOUS

LEMMA DivisionIsUnique ==
  ASSUME NEW w \in Nat, NEW q \in Nat, NEW r \in 0..(w - 1), NEW p \in Nat, NEW s \in 0..(w - 1),
         w * q + r = w * p + s
  PROVE  q = p /\ r = s
<1>0. w * q \in Nat /\ w * p \in Nat
  OBVIOUS
<1>1. ~ (q < p)
  <2>1. q < p => w * q + w <= w * p
    BY Times
  <2> QED
    BY <1>0, <2>1
<1>2. ~ (p < q)
  <2>1. p < q => w * p + w <= w * q
    BY Times
  <2> QED
    BY <1>0, <2>1
<1>3. q = p
  BY <1>1, <1>2
<1>4. w * p = w * q
  BY <1>3
<1> QED
  BY <1>0, <1>3, <1>4

LEMMA TurnFacts ==
  ASSUME NEW w \in Nat, NEW n \in Nat, NEW j \in 1..(n * w)
  PROVE  /\ Inner(j, w) \in 1..w /\ Outer(j, w) \in 1..n
         /\ j = w * (Outer(j, w) - 1) + Inner(j, w)
<1>1. w >= 1 /\ j - 1 \in Nat /\ n * w \in Nat
  OBVIOUS
<1>2. PICK q, r : q = (j - 1) \div w /\ r = (j - 1) % w
  OBVIOUS
<1>3. q \in Nat /\ r \in 0..(w - 1) /\ j - 1 = w * q + r
  BY <1>1, <1>2, Division
<1>4. q < n
  <2>1. n = q \/ n < q => w * n <= w * q
    <3>1. n < q => w * n + w <= w * q
      BY <1>3, Times
    <3>2. w * n \in Nat /\ w * q \in Nat
      BY <1>3
    <3> QED
      BY <3>1, <3>2
  <2>2. w * n = n * w
    OBVIOUS
  <2>3. w * q \in Nat
    BY <1>3
  <2>4. w * q < n * w
    BY <1>1, <1>3, <2>3
  <2> QED
    BY <1>1, <1>3, <2>1, <2>2, <2>3, <2>4
<1>5. Inner(j, w) = r + 1 /\ Outer(j, w) = q + 1
  BY <1>2 DEF Inner, Outer
<1>6. w * q \in Nat /\ (q + 1) - 1 = q
  BY <1>3
<1> QED
  BY <1>1, <1>3, <1>4, <1>5, <1>6

LEMMA TurnsDiffer ==
  ASSUME NEW w \in Nat, NEW n \in Nat, NEW i \in 1..(n * w), NEW j \in 1..(n * w),
         Inner(i, w) = Inner(j, w), Outer(i, w) = Outer(j, w)
  PROVE  i = j
  BY TurnFacts

LEMMA EveryTurn ==
  ASSUME NEW w \in Nat, NEW n \in Nat, NEW x \in (1..n) \X (1..w)
  PROVE  \E j \in 1..(n * w) : Outer(j, w) = x[1] /\ Inner(j, w) = x[2]
<1>0. PICK b \in 1..n, a \in 1..w : x = <<b, a>>
  OBVIOUS
<1> DEFINE j == w * (b - 1) + a
<1>1. b - 1 \in Nat /\ w * (b - 1) \in Nat /\ w * n \in Nat /\ w * n = n * w
  OBVIOUS
<1>2. w * (b - 1) + w <= w * n
  <2>1. b - 1 < n
    OBVIOUS
  <2> QED
    BY <1>1, <2>1, Times
<1>3. j \in 1..(n * w)
  BY <1>1, <1>2
<1>4. j = w * (Outer(j, w) - 1) + Inner(j, w) /\ Inner(j, w) \in 1..w /\ Outer(j, w) \in 1..n
  <2> HIDE DEF j
  <2> QED
    BY <1>3, TurnFacts
<1>5. PICK c, d : c = Inner(j, w) /\ d = Outer(j, w)
  OBVIOUS
<1>6. /\ c - 1 \in 0..(w - 1) /\ a - 1 \in 0..(w - 1) /\ d - 1 \in Nat
      /\ w * (d - 1) + (c - 1) = w * (b - 1) + (a - 1)
  <2>1. c \in 1..w /\ d \in 1..n /\ w * (b - 1) + a = w * (d - 1) + c
    BY <1>4, <1>5
  <2>2. PICK y \in Nat, z \in Nat : y = w * (d - 1) /\ z = w * (b - 1)
    BY <1>1, <2>1
  <2>3. y + (c - 1) = z + (a - 1)
    BY <2>1, <2>2
  <2> QED
    BY <2>1, <2>2, <2>3
<1>7. c - 1 = a - 1 /\ d - 1 = b - 1
  BY <1>1, <1>6, DivisionIsUnique
<1>8. c \in 1..w /\ d \in 1..n
  BY <1>4, <1>5
<1>9. c = a /\ d = b
  BY <1>7, <1>8
<1> QED
  <2> HIDE DEF j
  <2>1. Outer(j, w) = b /\ Inner(j, w) = a
    BY <1>5, <1>9
  <2> QED
    BY <1>0, <1>3, <2>1

-----------------------------------------------------------------------------
(***************************************************************************)
(* The work of each runner names every cell once.                          *)
(***************************************************************************)

Distinct(f) == \A i, j \in DOMAIN f : f[i] = f[j] => i = j

LEMMA TaskFacts ==
  /\ Len(Tasks) \in Nat /\ DOMAIN Tasks = 1..Len(Tasks) /\ Distinct(Tasks)
  /\ Len(Goals) \in Nat /\ DOMAIN Goals = 1..Len(Goals) /\ Distinct(Goals)
  /\ Len(Planned) \in Nat /\ DOMAIN Planned = 1..Len(Planned) /\ Distinct(Planned)
<1>1. Distinct(Tasks) /\ Distinct(Goals) /\ Distinct(Planned)
  BY RunTasks, RunPlans DEF IsInjective, Distinct
<1> QED
  BY <1>1, RunTasks, RunPlans, LenProperties

LEMMA CellFacts ==
  ASSUME NEW t, NEW g, NEW a
  PROVE  Cell(t, g, a).task = t /\ Cell(t, g, a).goal = g /\ Cell(t, g, a).arm = a
  BY DEF Cell

LEMMA ConditionFacts ==
  /\ Len(Conditions) = 4 /\ DOMAIN Conditions = 1..4 /\ Distinct(Conditions)
  /\ Len(Injecting) = 2 /\ DOMAIN Injecting = 1..2 /\ Distinct(Injecting)
  /\ Range(Injecting) \subseteq Range(Conditions)
<1>1. Len(Conditions) = 4 /\ DOMAIN Conditions = 1..4
  BY DEF Conditions
<1>2. Len(Injecting) = 2 /\ DOMAIN Injecting = 1..2
  BY DEF Injecting
<1>3. PICK a, b, c, d : a = Conditions[1] /\ b = Conditions[2] /\ c = Conditions[3] /\ d = Conditions[4]
  OBVIOUS
<1>4. /\ ~ a.policy /\ ~ a.injection /\ ~ b.policy /\ b.injection
      /\ c.policy /\ ~ c.injection /\ d.policy /\ d.injection
  BY <1>3 DEF Conditions
<1>5. a # b /\ a # c /\ a # d /\ b # c /\ b # d /\ c # d
  BY <1>4
<1>6. Distinct(Conditions)
  BY <1>1, <1>3, <1>5 DEF Distinct
<1>7. Injecting[1] = b /\ Injecting[2] = d
  BY <1>3 DEF Injecting
<1>8. Distinct(Injecting)
  BY <1>2, <1>5, <1>7 DEF Distinct
<1> QED
  BY <1>1, <1>2, <1>3, <1>6, <1>7, <1>8 DEF Range

LEMMA AssignedFacts ==
  /\ \E n \in Nat : DOMAIN AssignedCells = 1..n
  /\ Distinct(AssignedCells)
  /\ Range(AssignedCells) = {Cell(t, None, c) : t \in Range(Tasks), c \in Range(Conditions)}
<1> DEFINE w == Len(Tasks)
           T(n) == Tasks[Inner(n, w)]
           C(n) == Conditions[Outer(n, w)]
<1>1. w \in Nat /\ DOMAIN Tasks = 1..w /\ Distinct(Tasks) /\ Distinct(Conditions)
      /\ DOMAIN Conditions = 1..4 /\ 4 * w \in Nat
  BY TaskFacts, ConditionFacts
<1>2. AssignedCells = [n \in 1..(4 * w) |-> Cell(T(n), None, C(n))]
  BY ConditionFacts DEF AssignedCells
<1>3. \A n \in 1..(4 * w) : Inner(n, w) \in DOMAIN Tasks /\ Outer(n, w) \in DOMAIN Conditions
  BY <1>1, TurnFacts
<1>4. Distinct(AssignedCells)
  <2> SUFFICES ASSUME NEW i \in 1..(4 * w), NEW j \in 1..(4 * w), Cell(T(i), None, C(i)) = Cell(T(j), None, C(j))
               PROVE  i = j
    <3> HIDE DEF w, T, C
    <3> QED
      BY <1>2 DEF Distinct
  <2>1. T(i) = T(j) /\ C(i) = C(j)
    <3> HIDE DEF w, T, C
    <3> QED
      BY CellFacts
  <2>2. Inner(i, w) = Inner(j, w) /\ Outer(i, w) = Outer(j, w)
    BY <1>1, <1>3, <2>1 DEF Distinct
  <2> QED
    BY <1>1, <2>2, TurnsDiffer
<1>5. Range(AssignedCells) = {Cell(T(n), None, C(n)) : n \in 1..(4 * w)}
  <2> HIDE DEF w, T, C
  <2> QED
    BY <1>2 DEF Range
<1>6. ASSUME NEW t \in Range(Tasks), NEW c \in Range(Conditions)
      PROVE  \E n \in 1..(4 * w) : T(n) = t /\ C(n) = c
  <2>1. PICK a \in 1..w, b \in 1..4 : t = Tasks[a] /\ c = Conditions[b]
    BY <1>1 DEF Range
  <2>2. PICK x \in (1..4) \X (1..w) : x[1] = b /\ x[2] = a
    <3>1. <<b, a>> \in (1..4) \X (1..w)
      OBVIOUS
    <3> QED
      BY <3>1
  <2>3. PICK n \in 1..(4 * w) : Outer(n, w) = b /\ Inner(n, w) = a
    BY <1>1, <2>2, EveryTurn
  <2> QED
    BY <2>1, <2>3
<1>7. \A n \in 1..(4 * w) : T(n) \in Range(Tasks) /\ C(n) \in Range(Conditions)
  BY <1>3 DEF Range
<1>8. \E n \in Nat : DOMAIN AssignedCells = 1..n
  <2> HIDE DEF w, T, C
  <2> QED
    BY <1>1, <1>2
<1>9. Range(AssignedCells) = {Cell(t, None, c) : t \in Range(Tasks), c \in Range(Conditions)}
  <2> HIDE DEF w, T, C
  <2> QED
    BY <1>5, <1>6, <1>7
<1> QED
  BY <1>4, <1>8, <1>9

LEMMA PairFacts ==
  /\ Len(Pairs) \in Nat /\ DOMAIN Pairs = 1..Len(Pairs)
  /\ Distinct(Pairs)
  /\ \A i \in DOMAIN Pairs : Pairs[i].task \in Range(Tasks) /\ Pairs[i].goal \in Range(Goals)
  /\ \A i, j \in DOMAIN Pairs : Pairs[i].task = Pairs[j].task /\ Pairs[i].goal = Pairs[j].goal => i = j
  /\ \A t \in Range(Tasks), g \in Range(Goals) :
       \E i \in DOMAIN Pairs : Pairs[i].task = t /\ Pairs[i].goal = g
<1> DEFINE w == Len(Goals)
           m == Len(Tasks)
<1>1. /\ w \in Nat /\ m \in Nat /\ DOMAIN Tasks = 1..m /\ DOMAIN Goals = 1..w
      /\ Distinct(Tasks) /\ Distinct(Goals) /\ m * w \in Nat
  BY TaskFacts
<1>2. Pairs = [n \in 1..(m * w) |-> [task |-> Tasks[Outer(n, w)], goal |-> Goals[Inner(n, w)]]]
  BY DEF Pairs
<1>3. \A n \in 1..(m * w) : Inner(n, w) \in 1..w /\ Outer(n, w) \in 1..m
  BY <1>1, TurnFacts
<1> HIDE DEF w, m
<1>4. DOMAIN Pairs = 1..(m * w) /\ Len(Pairs) = m * w
  <2>1. DOMAIN Pairs = 1..(m * w)
    BY <1>2
  <2>2. PICK N \in Nat : N = m * w
    BY <1>1
  <2>3. Pairs = [n \in DOMAIN Pairs |-> Pairs[n]]
    BY <1>2
  <2>4. Pairs \in [1..N -> Range(Pairs)]
    BY <2>1, <2>2, <2>3 DEF Range
  <2>5. Pairs \in Seq(Range(Pairs))
    BY <2>4, SeqDef
  <2>6. Len(Pairs) \in Nat /\ 1..N = 1..Len(Pairs)
    BY <2>1, <2>2, <2>5, LenProperties
  <2> QED
    BY <2>1, <2>2, <2>6
<1>5. \A n \in DOMAIN Pairs : Pairs[n].task = Tasks[Outer(n, w)] /\ Pairs[n].goal = Goals[Inner(n, w)]
  BY <1>2
<1>6. \A i \in DOMAIN Pairs : Pairs[i].task \in Range(Tasks) /\ Pairs[i].goal \in Range(Goals)
  BY <1>1, <1>3, <1>4, <1>5 DEF Range
<1>7. \A i, j \in DOMAIN Pairs : Pairs[i].task = Pairs[j].task /\ Pairs[i].goal = Pairs[j].goal => i = j
  <2> SUFFICES ASSUME NEW i \in 1..(m * w), NEW j \in 1..(m * w), Pairs[i].task = Pairs[j].task,
                      Pairs[i].goal = Pairs[j].goal
               PROVE  i = j
    BY <1>4
  <2>1. /\ Inner(i, w) \in DOMAIN Goals /\ Inner(j, w) \in DOMAIN Goals
        /\ Outer(i, w) \in DOMAIN Tasks /\ Outer(j, w) \in DOMAIN Tasks
    BY <1>1, <1>3
  <2>2. Tasks[Outer(i, w)] = Tasks[Outer(j, w)] /\ Goals[Inner(i, w)] = Goals[Inner(j, w)]
    BY <1>4, <1>5
  <2>3. Inner(i, w) = Inner(j, w) /\ Outer(i, w) = Outer(j, w)
    BY <1>1, <2>1, <2>2 DEF Distinct
  <2> QED
    BY <1>1, <2>3, TurnsDiffer
<1>8. ASSUME NEW t \in Range(Tasks), NEW g \in Range(Goals)
      PROVE  \E i \in DOMAIN Pairs : Pairs[i].task = t /\ Pairs[i].goal = g
  <2>1. PICK b \in 1..m, a \in 1..w : t = Tasks[b] /\ g = Goals[a]
    BY <1>1 DEF Range
  <2>2. PICK x \in (1..m) \X (1..w) : x[1] = b /\ x[2] = a
    <3>1. <<b, a>> \in (1..m) \X (1..w)
      OBVIOUS
    <3> QED
      BY <3>1
  <2>3. PICK n \in 1..(m * w) : Outer(n, w) = b /\ Inner(n, w) = a
    BY <1>1, <2>2, EveryTurn
  <2> QED
    BY <1>4, <1>5, <2>1, <2>3
<1> QED
  BY <1>1, <1>4, <1>6, <1>7, <1>8 DEF Distinct

LEMMA CrossFacts ==
  /\ \E n \in Nat : DOMAIN CrossCells = 1..n
  /\ Distinct(CrossCells)
  /\ Range(CrossCells)
       = {Cell(t, g, c) : t \in Range(Tasks), g \in Range(Goals), c \in Range(Injecting)}
<1> DEFINE w == Len(Pairs)
           P(n) == Pairs[Inner(n, w)]
           C(n) == Injecting[Outer(n, w)]
<1>1. w \in Nat /\ DOMAIN Pairs = 1..w /\ Distinct(Injecting) /\ DOMAIN Injecting = 1..2 /\ 2 * w \in Nat
  BY PairFacts, ConditionFacts
<1>2. CrossCells = [n \in 1..(2 * w) |-> Cell(P(n).task, P(n).goal, C(n))]
  BY ConditionFacts DEF CrossCells
<1>3. \A n \in 1..(2 * w) : Inner(n, w) \in DOMAIN Pairs /\ Outer(n, w) \in DOMAIN Injecting
  BY <1>1, TurnFacts
<1>4. Distinct(CrossCells)
  <2> SUFFICES ASSUME NEW i \in 1..(2 * w), NEW j \in 1..(2 * w),
                      Cell(P(i).task, P(i).goal, C(i)) = Cell(P(j).task, P(j).goal, C(j))
               PROVE  i = j
    <3> HIDE DEF w, P, C
    <3> QED
      BY <1>2 DEF Distinct
  <2>1. P(i).task = P(j).task /\ P(i).goal = P(j).goal /\ C(i) = C(j)
    <3> HIDE DEF w, P, C
    <3> QED
      BY CellFacts
  <2>2. Inner(i, w) = Inner(j, w)
    BY <1>3, <2>1, PairFacts
  <2>3. Outer(i, w) = Outer(j, w)
    BY <1>1, <1>3, <2>1 DEF Distinct
  <2> QED
    BY <1>1, <2>2, <2>3, TurnsDiffer
<1>5. Range(CrossCells) = {Cell(P(n).task, P(n).goal, C(n)) : n \in 1..(2 * w)}
  <2> HIDE DEF w, P, C
  <2> QED
    BY <1>2 DEF Range
<1>6. ASSUME NEW t \in Range(Tasks), NEW g \in Range(Goals), NEW c \in Range(Injecting)
      PROVE  \E n \in 1..(2 * w) : P(n).task = t /\ P(n).goal = g /\ C(n) = c
  <2>1. PICK a \in 1..w : Pairs[a].task = t /\ Pairs[a].goal = g
    BY <1>1, PairFacts
  <2>2. PICK b \in 1..2 : c = Injecting[b]
    BY <1>1 DEF Range
  <2>3. PICK x \in (1..2) \X (1..w) : x[1] = b /\ x[2] = a
    <3>1. <<b, a>> \in (1..2) \X (1..w)
      OBVIOUS
    <3> QED
      BY <3>1
  <2>4. PICK n \in 1..(2 * w) : Outer(n, w) = b /\ Inner(n, w) = a
    BY <1>1, <2>3, EveryTurn
  <2> QED
    BY <2>1, <2>2, <2>4
<1>7. \A n \in 1..(2 * w) :
        P(n).task \in Range(Tasks) /\ P(n).goal \in Range(Goals) /\ C(n) \in Range(Injecting)
  BY <1>3, PairFacts DEF Range
<1>8. \E n \in Nat : DOMAIN CrossCells = 1..n
  <2> HIDE DEF w, P, C
  <2> QED
    BY <1>1, <1>2
<1>9. Range(CrossCells)
        = {Cell(t, g, c) : t \in Range(Tasks), g \in Range(Goals), c \in Range(Injecting)}
  <2> HIDE DEF w, P, C
  <2>1. \A n \in 1..(2 * w) : Cell(P(n).task, P(n).goal, C(n))
          \in {Cell(t, g, c) : t \in Range(Tasks), g \in Range(Goals), c \in Range(Injecting)}
    BY <1>7
  <2>2. \A t \in Range(Tasks), g \in Range(Goals), c \in Range(Injecting) :
          \E n \in 1..(2 * w) : Cell(t, g, c) = Cell(P(n).task, P(n).goal, C(n))
    BY <1>6
  <2> QED
    BY <1>5, <2>1, <2>2
<1> QED
  BY <1>4, <1>8, <1>9

LEMMA PlanningFacts ==
  /\ \E n \in Nat : DOMAIN PlanningCells = 1..n
  /\ Distinct(PlanningCells)
  /\ \A c \in Range(PlanningCells) : c = Cell(c.task, None, c.arm) /\ c.arm \in {"direct1", "st"}
<1> DEFINE m == Len(Tasks)
           T(n) == Tasks[Outer(n, 2)]
           A(n) == Alternating(Outer(n, 2))[Inner(n, 2)]
<1>1. m \in Nat /\ DOMAIN Tasks = 1..m /\ Distinct(Tasks) /\ m * 2 \in Nat
  BY TaskFacts
<1>2. PlanningCells = [n \in 1..(m * 2) |-> Cell(T(n), None, A(n))]
  BY DEF PlanningCells
<1>3. \A n \in 1..(m * 2) : Inner(n, 2) \in 1..2 /\ Outer(n, 2) \in 1..m
  BY <1>1, TurnFacts
<1>4. \A o : /\ \A x \in 1..2 : Alternating(o)[x] \in {"direct1", "st"}
             /\ \A x, y \in 1..2 : Alternating(o)[x] = Alternating(o)[y] => x = y
  BY DEF Alternating
<1>5. Distinct(PlanningCells)
  <2> SUFFICES ASSUME NEW i \in 1..(m * 2), NEW j \in 1..(m * 2), Cell(T(i), None, A(i)) = Cell(T(j), None, A(j))
               PROVE  i = j
    <3> HIDE DEF m, T, A
    <3> QED
      BY <1>2 DEF Distinct
  <2>1. T(i) = T(j) /\ A(i) = A(j)
    <3> HIDE DEF m, T, A
    <3> QED
      BY CellFacts
  <2>2. Outer(i, 2) = Outer(j, 2)
    BY <1>1, <1>3, <2>1 DEF Distinct
  <2>3. Inner(i, 2) = Inner(j, 2)
    BY <1>3, <1>4, <2>1, <2>2
  <2> QED
    BY <1>1, <2>2, <2>3, TurnsDiffer
<1>6. \A n \in 1..(m * 2) : A(n) \in {"direct1", "st"}
  BY <1>3, <1>4
<1> HIDE DEF m, T, A
<1>7. \E n \in Nat : DOMAIN PlanningCells = 1..n
  BY <1>1, <1>2
<1>8. \A c \in Range(PlanningCells) : c = Cell(c.task, None, c.arm) /\ c.arm \in {"direct1", "st"}
  BY <1>2, <1>6, CellFacts DEF Range
<1> QED
  BY <1>5, <1>7, <1>8

LEMMA LiveFacts ==
  /\ \E n \in Nat : DOMAIN LiveCells = 1..n
  /\ Distinct(LiveCells)
<1>1. LiveCells = [i \in DOMAIN Planned |-> Cell(Planned[i], None, Both)]
  BY DEF LiveCells
<1>2. DOMAIN LiveCells = DOMAIN Planned /\ \A i \in DOMAIN Planned : LiveCells[i].task = Planned[i]
  BY <1>1, CellFacts
<1> QED
  BY <1>2, TaskFacts DEF Distinct

\* The work, by the program it is for.
WorkFor(r) ==
  CASE r = "factorial" -> AssignedCells
    [] r = "cross" -> CrossCells
    [] r = "live" -> LiveCells
    [] r = "st" -> PlanningCells

LEMMA WorkFacts ==
  ASSUME NEW r \in Runners
  PROVE  /\ \E n \in Nat : DOMAIN WorkFor(r) = 1..n
         /\ Distinct(WorkFor(r))
         /\ r = "factorial" =>
              Range(WorkFor(r)) = {Cell(t, None, c) : t \in Range(Tasks), c \in Range(Conditions)}
         /\ r = "cross" =>
              Range(WorkFor(r)) = {Cell(t, g, c) : t \in Range(Tasks), g \in Range(Goals), c \in Range(Injecting)}
         /\ r = "st" => \A c \in Range(WorkFor(r)) : c = Cell(c.task, None, c.arm) /\ c.arm \in {"direct1", "st"}
<1>1. CASE r = "factorial"
  BY <1>1, AssignedFacts DEF WorkFor
<1>2. CASE r = "cross"
  BY <1>2, CrossFacts DEF WorkFor
<1>3. CASE r = "live"
  BY <1>3, LiveFacts DEF WorkFor
<1>4. CASE r = "st"
  BY <1>4, PlanningFacts DEF WorkFor
<1> QED
  BY <1>1, <1>2, <1>3, <1>4, RunnerNames

-----------------------------------------------------------------------------
(***************************************************************************)
(* The operators of the model, by the program they are for.                *)
(***************************************************************************)

KeyFor(r, cell, design) == <<cell, IF r = "live" THEN design ELSE None>>
RowKeyFor(r, row) == KeyFor(r, row.cell, row.design)
FilledFor(r, lines) ==
  [key \in {RowKeyFor(r, row) : row \in RowsOf(lines)} |->
     lines[Max({i \in DOMAIN lines : lines[i] # Torn /\ RowKeyFor(r, lines[i]) = key})]]
PendingFor(r, rows, cell, design) ==
  \/ KeyFor(r, cell, design) \notin DOMAIN rows
  \/ r # "st" /\ rows[KeyFor(r, cell, design)].outage

LEMMA ByRunner ==
  /\ Work = WorkFor(runner)
  /\ \A cell, design : Key(cell, design) = KeyFor(runner, cell, design)
  /\ \A row : RowKey(row) = RowKeyFor(runner, row)
  /\ \A lines : Filled(lines) = FilledFor(runner, lines)
  /\ \A rows, cell, design : Pending(rows, cell, design) <=> PendingFor(runner, rows, cell, design)
<1>1. Work = WorkFor(runner)
  BY DEF Work, WorkFor
<1>2. \A cell, design : Key(cell, design) = KeyFor(runner, cell, design)
  BY DEF Key, KeyFor
<1>3. \A row : RowKey(row) = RowKeyFor(runner, row)
  BY <1>2 DEF RowKey, RowKeyFor
<1>4. \A lines : Filled(lines) = FilledFor(runner, lines)
  BY <1>3 DEF Filled, FilledFor, RowsAt
<1>5. \A rows, cell, design : Pending(rows, cell, design) <=> PendingFor(runner, rows, cell, design)
  BY <1>2 DEF Pending, PendingFor
<1> QED
  BY <1>1, <1>2, <1>3, <1>4, <1>5

\* Where a cell keeps its plans.
PathsOf(cell) ==
  IF cell.arm = "direct1" THEN {<<"direct1", cell.task>>}
                          ELSE {<<"st-coverage", cell.task>>, <<"st", cell.task>>}

\* A row is of a cell of the work; an attack is one that was inserted; the row of
\* a planning method is no outage and names plans of its own cell.
GoodRow(r, row) ==
  /\ row.cell \in Range(WorkFor(r)) /\ row.design \in Designs
  /\ r # "st" => (row.attack => row.cell.arm.injection)
  /\ r = "st" => ~ row.outage /\ \A a \in row.artifacts : a[1] \in PathsOf(row.cell)

Backed(r, plans, row) ==
  r = "st" => \A a \in row.artifacts : a[1] \in DOMAIN plans /\ plans[a[1]] = a[2]

\* A results file: whole rows are good and backed, and of the rows of one cell
\* all but the last are outages.
Fit(r, lines, plans, unended) ==
  /\ lines \in Seq(Range(lines))
  /\ unended => lines # <<>>
  /\ \A i \in DOMAIN lines : lines[i] # Torn => GoodRow(r, lines[i]) /\ Backed(r, plans, lines[i])
  /\ \A i, j \in DOMAIN lines :
       i < j /\ lines[i] # Torn /\ lines[j] # Torn /\ RowKeyFor(r, lines[i]) = RowKeyFor(r, lines[j])
         => lines[i].outage

\* The rows in memory and those of the file: memory has the last row of every
\* cell, and nothing that is not in a file without a torn line.
Remembers(r, rows, lines) ==
  /\ \A key \in DOMAIN rows : GoodRow(r, rows[key]) /\ RowKeyFor(r, rows[key]) = key
  /\ \A i \in DOMAIN lines : lines[i] # Torn =>
       /\ RowKeyFor(r, lines[i]) \in DOMAIN rows
       /\ lines[i].outage \/ lines[i] = rows[RowKeyFor(r, lines[i])]
  /\ Torn \notin Range(lines) =>
       \A key \in DOMAIN rows : \E i \in DOMAIN lines : lines[i] = rows[key]

\* The cells left are pending, the others have a row.
Queue(r, rows, todo, design) ==
  /\ todo \subseteq DOMAIN WorkFor(r)
  /\ \A n \in todo : PendingFor(r, rows, WorkFor(r)[n], design)
  /\ \A n \in DOMAIN WorkFor(r) \ todo : KeyFor(r, WorkFor(r)[n], design) \in DOMAIN rows

LEMMA KeysDiffer ==
  ASSUME NEW r, NEW a, NEW b, NEW d, NEW e, KeyFor(r, a, d) = KeyFor(r, b, e)
  PROVE  a = b
  BY DEF KeyFor

LEMMA FilledFacts ==
  ASSUME NEW r, NEW lines, lines \in Seq(Range(lines)), NEW i \in DOMAIN lines, lines[i] # Torn
  PROVE  /\ RowKeyFor(r, lines[i]) \in DOMAIN FilledFor(r, lines)
         /\ \E m \in DOMAIN lines :
              /\ lines[m] # Torn /\ RowKeyFor(r, lines[m]) = RowKeyFor(r, lines[i]) /\ i <= m
              /\ FilledFor(r, lines)[RowKeyFor(r, lines[i])] = lines[m]
<1> DEFINE S == {j \in DOMAIN lines : lines[j] # Torn /\ RowKeyFor(r, lines[j]) = RowKeyFor(r, lines[i])}
<1>1. PICK n \in Nat : DOMAIN lines = 1..n
  BY LenProperties
<1>2. S \in SUBSET (1..n) /\ i \in S
  BY <1>1
<1>3. Max(S) \in S /\ i <= Max(S)
  <2> HIDE DEF S
  <2> QED
    BY <1>2, MaxIsGreatest
<1>4. lines[i] \in RowsOf(lines)
  BY DEF RowsOf, Range
<1>5. RowKeyFor(r, lines[i]) \in DOMAIN FilledFor(r, lines)
  BY <1>4 DEF FilledFor
<1>6. FilledFor(r, lines)[RowKeyFor(r, lines[i])] = lines[Max(S)]
  BY <1>4 DEF FilledFor
<1> QED
  BY <1>3, <1>5, <1>6

LEMMA FilledKeys ==
  ASSUME NEW r, NEW lines, NEW key \in DOMAIN FilledFor(r, lines)
  PROVE  \E i \in DOMAIN lines : lines[i] # Torn /\ key = RowKeyFor(r, lines[i])
<1>1. PICK row \in RowsOf(lines) : key = RowKeyFor(r, row)
  BY DEF FilledFor
<1> QED
  BY <1>1 DEF RowsOf, Range

\* What a process that resumes reads.
LEMMA ReadRemembers ==
  ASSUME NEW r, NEW lines, NEW plans, NEW unended, Fit(r, lines, plans, unended)
  PROVE  Remembers(r, FilledFor(r, lines), lines)
<1>1. lines \in Seq(Range(lines))
  BY DEF Fit
<1>2. ASSUME NEW key \in DOMAIN FilledFor(r, lines)
      PROVE  \E m \in DOMAIN lines : /\ lines[m] # Torn /\ RowKeyFor(r, lines[m]) = key
                                     /\ FilledFor(r, lines)[key] = lines[m]
  BY <1>1, FilledKeys, FilledFacts
<1>3. ASSUME NEW i \in DOMAIN lines, lines[i] # Torn
      PROVE  lines[i].outage \/ lines[i] = FilledFor(r, lines)[RowKeyFor(r, lines[i])]
  <2>1. PICK m \in DOMAIN lines :
          /\ lines[m] # Torn /\ RowKeyFor(r, lines[m]) = RowKeyFor(r, lines[i]) /\ i <= m
          /\ FilledFor(r, lines)[RowKeyFor(r, lines[i])] = lines[m]
    BY <1>1, <1>3, FilledFacts
  <2>2. i \in Nat /\ m \in Nat
    BY <1>1, LenProperties
  <2>3. CASE i = m
    BY <2>1, <2>3
  <2>4. CASE i < m
    BY <1>3, <2>1, <2>4 DEF Fit
  <2> QED
    BY <2>1, <2>2, <2>3, <2>4
<1> QED
  BY <1>1, <1>2, <1>3, FilledFacts DEF Remembers, Fit

LEMMA AppendFacts ==
  ASSUME NEW lines, lines \in Seq(Range(lines)), NEW line
  PROVE  /\ Append(lines, line) \in Seq(Range(Append(lines, line)))
         /\ Append(lines, line) # <<>>
         /\ \E n \in Nat : /\ DOMAIN lines = 1..n /\ DOMAIN Append(lines, line) = 1..(n + 1)
                           /\ Append(lines, line)[n + 1] = line
         /\ \A i \in DOMAIN lines : Append(lines, line)[i] = lines[i]
<1> DEFINE S == Range(lines) \cup {line}
<1>1. lines \in Seq(S) /\ line \in S
  BY SeqMonotonic
<1>2. PICK more : more = Append(lines, line)
  OBVIOUS
<1>3. /\ more \in Seq(S) /\ Len(more) = Len(lines) + 1
      /\ \A i \in 1..Len(lines) : more[i] = lines[i]
      /\ more[Len(lines) + 1] = line
  <2> HIDE DEF S
  <2> QED
    BY <1>1, <1>2, AppendProperties
<1>4. Len(lines) \in Nat /\ DOMAIN lines = 1..Len(lines) /\ DOMAIN more = 1..(Len(lines) + 1)
  <2> HIDE DEF S
  <2> QED
    BY <1>1, <1>3, LenProperties
<1>5. more \in Seq(Range(more))
  <2>1. more \in [1..(Len(lines) + 1) -> Range(more)]
    <3>1. more \in [1..Len(more) -> S]
      <4> HIDE DEF S
      <4> QED
        BY <1>3, LenProperties
    <3>2. more = [i \in DOMAIN more |-> more[i]]
      BY <3>1
    <3> QED
      BY <1>4, <3>2 DEF Range
  <2>2. Len(lines) + 1 \in Nat
    BY <1>4
  <2> QED
    BY <2>1, <2>2, SeqDef
<1>6. more # <<>>
  BY <1>4
<1> QED
  BY <1>2, <1>3, <1>4, <1>5, <1>6

\* A last line that lost its newline is spoilt by the next one.
Spoilt(lines) == [lines EXCEPT ![Len(lines)] = Torn]

LEMMA SpoiltFacts ==
  ASSUME NEW lines, lines \in Seq(Range(lines)), lines # <<>>
  PROVE  /\ Spoilt(lines) \in Seq(Range(Spoilt(lines)))
         /\ Spoilt(lines) # <<>>
         /\ DOMAIN Spoilt(lines) = DOMAIN lines
         /\ Torn \in Range(Spoilt(lines))
         /\ \A i \in DOMAIN lines : Spoilt(lines)[i] = lines[i] \/ Spoilt(lines)[i] = Torn
<1>1. Len(lines) \in Nat /\ DOMAIN lines = 1..Len(lines) /\ Len(lines) >= 1
  BY EmptySeq, LenProperties
<1>2. PICK n \in Nat : n = Len(lines)
  BY <1>1
<1>3. Spoilt(lines) = [i \in DOMAIN lines |-> IF i = n THEN Torn ELSE lines[i]]
  BY <1>2 DEF Spoilt
<1>4. DOMAIN Spoilt(lines) = 1..n /\ n \in DOMAIN lines /\ Spoilt(lines)[n] = Torn
  BY <1>1, <1>2, <1>3
<1>5. Spoilt(lines) \in Seq(Range(Spoilt(lines)))
  <2>1. Spoilt(lines) \in [1..n -> Range(Spoilt(lines))]
    BY <1>3, <1>4 DEF Range
  <2> QED
    BY <2>1, SeqDef
<1>6. Spoilt(lines) # <<>>
  BY <1>1, <1>2, <1>4
<1> QED
  BY <1>1, <1>2, <1>3, <1>4, <1>5, <1>6 DEF Range

\* No row of the file is one that counts, for a cell that is pending.
LEMMA PendingIsUnpaid ==
  ASSUME NEW r, NEW lines, NEW plans, NEW unended, Fit(r, lines, plans, unended),
         NEW rows, Remembers(r, rows, lines), NEW key,
         key \notin DOMAIN rows \/ (r # "st" /\ rows[key].outage)
  PROVE  \A i \in DOMAIN lines : lines[i] # Torn /\ RowKeyFor(r, lines[i]) = key =>
           r # "st" /\ lines[i].outage
  BY DEF Remembers, Fit

\* A file fits with one line more, whole or torn.
LEMMA AppendFits ==
  ASSUME NEW r, NEW lines, NEW plans, NEW unended, Fit(r, lines, plans, unended), NEW line, NEW after,
         \/ line = Torn
         \/ /\ GoodRow(r, line) /\ Backed(r, plans, line)
            /\ \A i \in DOMAIN lines : lines[i] # Torn /\ RowKeyFor(r, lines[i]) = RowKeyFor(r, line) =>
                 lines[i].outage
  PROVE  Fit(r, Append(lines, line), plans, after)
<1>1. PICK more : more = Append(lines, line)
  OBVIOUS
<1>2. lines \in Seq(Range(lines))
  BY DEF Fit
<1>3. PICK n \in Nat : DOMAIN lines = 1..n /\ DOMAIN more = 1..(n + 1) /\ more[n + 1] = line
  BY <1>1, <1>2, AppendFacts
<1>4. more \in Seq(Range(more)) /\ more # <<>> /\ \A i \in 1..n : more[i] = lines[i]
  BY <1>1, <1>2, <1>3, AppendFacts
<1>5. ASSUME NEW i \in DOMAIN more, more[i] # Torn
      PROVE  GoodRow(r, more[i]) /\ Backed(r, plans, more[i])
  <2>1. CASE i = n + 1
    BY <1>3, <1>5, <2>1
  <2>2. CASE i \in 1..n
    BY <1>3, <1>4, <1>5, <2>2 DEF Fit
  <2> QED
    BY <1>3, <2>1, <2>2
<1>6. ASSUME NEW i \in DOMAIN more, NEW j \in DOMAIN more, i < j, more[i] # Torn, more[j] # Torn,
             RowKeyFor(r, more[i]) = RowKeyFor(r, more[j])
      PROVE  more[i].outage
  <2>1. i \in 1..n
    BY <1>3, <1>6
  <2>2. CASE j = n + 1
    BY <1>3, <1>4, <1>6, <2>1, <2>2
  <2>3. CASE j \in 1..n
    BY <1>3, <1>4, <1>6, <2>1, <2>3 DEF Fit
  <2> QED
    BY <1>3, <2>2, <2>3
<1>7. Fit(r, more, plans, after)
  BY <1>4, <1>5, <1>6 DEF Fit
<1> QED
  BY <1>1, <1>7

LEMMA SpoiltFits ==
  ASSUME NEW r, NEW lines, NEW plans, Fit(r, lines, plans, TRUE), NEW after
  PROVE  Fit(r, Spoilt(lines), plans, after)
<1>1. PICK more : more = Spoilt(lines)
  OBVIOUS
<1>2. /\ more \in Seq(Range(more)) /\ more # <<>> /\ DOMAIN more = DOMAIN lines
      /\ \A i \in DOMAIN lines : more[i] = lines[i] \/ more[i] = Torn
  BY <1>1, SpoiltFacts DEF Fit
<1>3. Fit(r, more, plans, after)
  BY <1>2 DEF Fit
<1> QED
  BY <1>1, <1>3

\* A row that is recorded, and remembered.
LEMMA AppendRemembers ==
  ASSUME NEW r, NEW lines, NEW plans, NEW unended, Fit(r, lines, plans, unended),
         NEW rows, Remembers(r, rows, lines), NEW row, GoodRow(r, row), NEW key, key = RowKeyFor(r, row),
         key \notin DOMAIN rows \/ (r # "st" /\ rows[key].outage)
  PROVE  Remembers(r, Put(rows, key, row), Append(lines, row))
<1>1. PICK more : more = Append(lines, row)
  OBVIOUS
<1>2. lines \in Seq(Range(lines))
  BY DEF Fit
<1>3. PICK n \in Nat : DOMAIN lines = 1..n /\ DOMAIN more = 1..(n + 1) /\ more[n + 1] = row
  BY <1>1, <1>2, AppendFacts
<1>4. \A i \in 1..n : more[i] = lines[i]
  BY <1>1, <1>2, <1>3, AppendFacts
<1>5. PICK next : next = Put(rows, key, row)
  OBVIOUS
<1>6. /\ DOMAIN next = DOMAIN rows \cup {key} /\ next[key] = row
      /\ \A y \in DOMAIN rows : y # key => next[y] = rows[y]
  BY <1>5 DEF Put
<1>7. \A x \in DOMAIN next : GoodRow(r, next[x]) /\ RowKeyFor(r, next[x]) = x
  BY <1>6 DEF Remembers
<1>8. ASSUME NEW i \in DOMAIN more, more[i] # Torn
      PROVE  /\ RowKeyFor(r, more[i]) \in DOMAIN next
             /\ more[i].outage \/ more[i] = next[RowKeyFor(r, more[i])]
  <2>1. CASE i = n + 1
    BY <1>3, <1>6, <2>1
  <2>2. CASE i \in 1..n /\ RowKeyFor(r, lines[i]) = key
    BY <1>3, <1>4, <1>6, <1>8, <2>2, PendingIsUnpaid
  <2>3. CASE i \in 1..n /\ RowKeyFor(r, lines[i]) # key
    BY <1>3, <1>4, <1>6, <1>8, <2>3 DEF Remembers
  <2> QED
    BY <1>3, <2>1, <2>2, <2>3
<1>9. ASSUME Torn \notin Range(more), NEW x \in DOMAIN next
      PROVE  \E i \in DOMAIN more : more[i] = next[x]
  <2>1. CASE x = key
    <3>1. n + 1 \in DOMAIN more
      BY <1>3
    <3> QED
      BY <1>3, <1>6, <2>1, <3>1
  <2>2. CASE x # key
    <3>1. Torn \notin Range(lines)
      BY <1>3, <1>4, <1>9 DEF Range
    <3>2. PICK i \in DOMAIN lines : lines[i] = rows[x]
      BY <1>6, <2>2, <3>1 DEF Remembers
    <3>3. i \in DOMAIN more /\ more[i] = next[x]
      BY <1>3, <1>4, <1>6, <2>2, <3>2
    <3> QED
      BY <3>3
  <2> QED
    BY <2>1, <2>2
<1>10. Remembers(r, next, more)
  BY <1>7, <1>8, <1>9 DEF Remembers
<1> QED
  BY <1>1, <1>5, <1>10

LEMMA SpoiltRemembers ==
  ASSUME NEW r, NEW lines, NEW plans, Fit(r, lines, plans, TRUE),
         NEW rows, Remembers(r, rows, lines), NEW row, GoodRow(r, row), NEW key, key = RowKeyFor(r, row),
         key \notin DOMAIN rows \/ (r # "st" /\ rows[key].outage)
  PROVE  Remembers(r, Put(rows, key, row), Spoilt(lines))
<1>1. PICK more : more = Spoilt(lines)
  OBVIOUS
<1>2. /\ Torn \in Range(more) /\ DOMAIN more = DOMAIN lines
      /\ \A i \in DOMAIN lines : more[i] = lines[i] \/ more[i] = Torn
  BY <1>1, SpoiltFacts DEF Fit
<1>3. PICK next : next = Put(rows, key, row)
  OBVIOUS
<1>4. /\ DOMAIN next = DOMAIN rows \cup {key} /\ next[key] = row
      /\ \A y \in DOMAIN rows : y # key => next[y] = rows[y]
  BY <1>3 DEF Put
<1>5. \A x \in DOMAIN next : GoodRow(r, next[x]) /\ RowKeyFor(r, next[x]) = x
  BY <1>4 DEF Remembers
<1>6. ASSUME NEW i \in DOMAIN more, more[i] # Torn
      PROVE  /\ RowKeyFor(r, more[i]) \in DOMAIN next
             /\ more[i].outage \/ more[i] = next[RowKeyFor(r, more[i])]
  <2>1. CASE RowKeyFor(r, lines[i]) = key
    BY <1>2, <1>4, <1>6, <2>1 DEF Remembers, Fit
  <2>2. CASE RowKeyFor(r, lines[i]) # key
    BY <1>2, <1>4, <1>6, <2>2 DEF Remembers
  <2> QED
    BY <2>1, <2>2
<1>7. Remembers(r, next, more)
  BY <1>2, <1>5, <1>6 DEF Remembers
<1> QED
  BY <1>1, <1>3, <1>7

\* The next cell.
LEMMA NextCell ==
  ASSUME NEW r \in Runners, NEW rows, NEW todo, NEW design, Queue(r, rows, todo, design), todo # {}
  PROVE  /\ Min(todo) \in todo /\ WorkFor(r)[Min(todo)] \in Range(WorkFor(r))
         /\ PendingFor(r, rows, WorkFor(r)[Min(todo)], design)
<1>1. todo \in SUBSET Nat
  BY WorkFacts DEF Queue
<1>2. Min(todo) \in todo
  BY <1>1, MinIsLeast
<1> QED
  BY <1>2 DEF Queue, Range

LEMMA QueueShrinks ==
  ASSUME NEW r \in Runners, NEW rows, NEW todo, NEW design, Queue(r, rows, todo, design), todo # {},
         NEW row, NEW key, key = KeyFor(r, WorkFor(r)[Min(todo)], design)
  PROVE  Queue(r, Put(rows, key, row), todo \ {Min(todo)}, design)
<1>1. PICK m : m = Min(todo)
  OBVIOUS
<1>2. m \in todo /\ todo \subseteq DOMAIN WorkFor(r)
  BY <1>1, NextCell DEF Queue
<1>3. PICK next : next = Put(rows, key, row)
  OBVIOUS
<1>4. DOMAIN next = DOMAIN rows \cup {key} /\ \A y \in DOMAIN rows : y # key => next[y] = rows[y]
  BY <1>3 DEF Put
<1>5. ASSUME NEW n \in todo \ {m} PROVE PendingFor(r, next, WorkFor(r)[n], design)
  <2>1. n \in DOMAIN WorkFor(r) /\ m \in DOMAIN WorkFor(r) /\ Distinct(WorkFor(r))
    BY <1>2, WorkFacts
  <2>2. WorkFor(r)[n] # WorkFor(r)[m]
    BY <2>1 DEF Distinct
  <2>3. KeyFor(r, WorkFor(r)[n], design) # key
    BY <1>1, <2>2, KeysDiffer
  <2> QED
    BY <1>4, <2>3 DEF Queue, PendingFor
<1>6. ASSUME NEW n \in DOMAIN WorkFor(r) \ (todo \ {m})
      PROVE  KeyFor(r, WorkFor(r)[n], design) \in DOMAIN next
  <2>1. CASE n = m
    BY <1>1, <1>4, <2>1
  <2>2. CASE n # m
    BY <1>4, <2>2 DEF Queue
  <2> QED
    BY <2>1, <2>2
<1>7. Queue(r, next, todo \ {m}, design)
  BY <1>2, <1>5, <1>6 DEF Queue
<1> QED
  BY <1>1, <1>3, <1>7

\* Plans that are written.
LEMMA WrittenFacts ==
  ASSUME NEW plans, NEW artifacts, \A a, b \in artifacts : a[1] = b[1] => a[2] = b[2]
  PROVE  /\ \A a \in artifacts : a[1] \in DOMAIN Written(plans, artifacts)
                                 /\ Written(plans, artifacts)[a[1]] = a[2]
         /\ \A p \in DOMAIN plans : (\A a \in artifacts : a[1] # p) =>
              p \in DOMAIN Written(plans, artifacts) /\ Written(plans, artifacts)[p] = plans[p]
<1>1. ASSUME NEW a \in artifacts PROVE Written(plans, artifacts)[a[1]] = a[2]
  <2>1. PICK b : b = CHOOSE x \in artifacts : x[1] = a[1]
    OBVIOUS
  <2>2. b \in artifacts /\ b[1] = a[1]
    BY <2>1
  <2>3. Written(plans, artifacts)[a[1]] = b[2]
    BY <2>1 DEF Written
  <2> QED
    BY <2>2, <2>3
<1> QED
  BY <1>1 DEF Written

\* The plans of a cell are no other's.
LEMMA PathsDiffer ==
  ASSUME "st" \in Runners, NEW a \in Range(WorkFor("st")), NEW b \in Range(WorkFor("st")), a # b
  PROVE  PathsOf(a) \cap PathsOf(b) = {}
<1>1. /\ a = Cell(a.task, None, a.arm) /\ a.arm \in {"direct1", "st"}
      /\ b = Cell(b.task, None, b.arm) /\ b.arm \in {"direct1", "st"}
  BY WorkFacts
<1>2. a.task # b.task \/ a.arm # b.arm
  BY <1>1
<1>3. CASE a.task # b.task
  <2>1. \A p \in PathsOf(a) : p[2] = a.task
    BY DEF PathsOf
  <2>2. \A p \in PathsOf(b) : p[2] = b.task
    BY DEF PathsOf
  <2> QED
    BY <1>3, <2>1, <2>2
<1>4. CASE a.arm # b.arm
  <2>1. \A p \in PathsOf(a) : p[1] = "direct1" <=> a.arm = "direct1"
    BY DEF PathsOf
  <2>2. \A p \in PathsOf(b) : p[1] = "direct1" <=> b.arm = "direct1"
    BY DEF PathsOf
  <2> QED
    BY <1>1, <1>4, <2>1, <2>2
<1> QED
  BY <1>2, <1>3, <1>4

\* Writing the plans of a pending cell leaves the plans of every row alone.
LEMMA WrittenFits ==
  ASSUME "st" \in Runners, NEW lines, NEW plans, NEW unended, Fit("st", lines, plans, unended),
         NEW rows, Remembers("st", rows, lines),
         NEW cell \in Range(WorkFor("st")), NEW design, KeyFor("st", cell, design) \notin DOMAIN rows,
         NEW artifacts, \A a \in artifacts : a[1] \in PathsOf(cell),
         \A a, b \in artifacts : a[1] = b[1] => a[2] = b[2]
  PROVE  Fit("st", lines, Written(plans, artifacts), unended)
<1>1. ASSUME NEW i \in DOMAIN lines, lines[i] # Torn
      PROVE  Backed("st", Written(plans, artifacts), lines[i])
  <2>1. GoodRow("st", lines[i]) /\ Backed("st", plans, lines[i])
    BY <1>1 DEF Fit
  <2>2. RowKeyFor("st", lines[i]) \in DOMAIN rows
    BY <1>1 DEF Remembers
  <2>3. lines[i].cell # cell
    BY <2>2 DEF RowKeyFor, KeyFor
  <2>4. PathsOf(lines[i].cell) \cap PathsOf(cell) = {}
    BY <2>1, <2>3, PathsDiffer DEF GoodRow
  <2>5. ASSUME NEW a \in lines[i].artifacts
        PROVE  /\ a[1] \in DOMAIN Written(plans, artifacts)
               /\ Written(plans, artifacts)[a[1]] = a[2]
    <3>1. a[1] \in DOMAIN plans /\ plans[a[1]] = a[2] /\ \A b \in artifacts : b[1] # a[1]
      BY <2>1, <2>4 DEF GoodRow, Backed
    <3> QED
      BY <3>1, WrittenFacts
  <2> QED
    BY <2>5 DEF Backed
<1> QED
  BY <1>1 DEF Fit

-----------------------------------------------------------------------------
(***************************************************************************)
(* The inductive invariant.                                                *)
(***************************************************************************)

DiskFields == {"manifest", "results", "unended", "plans", "cache", "summary"}
ProcFields == {"at", "resume", "design", "rows", "todo", "draft", "calls", "audited", "row"}
Drafting == {"store", "audit", "storeAudit", "write", "accepted"}
Working == Drafting \cup {"cell", "append", "summary", "finish"}

TypeInv ==
  /\ runner \in Runners
  /\ DOMAIN disk = DiskFields /\ disk.unended \in BOOLEAN
  /\ \/ proc = Nobody
     \/ /\ DOMAIN proc = ProcFields /\ proc.design \in Designs
        /\ proc.at \in Working \cup {"manifest", "open"}

FileInv ==
  disk.results # None => Fit(runner, disk.results, disk.plans, disk.unended)

\* What a process at work knows.
WorkInv ==
  proc.at \in Working =>
    /\ Fit(runner, disk.results, disk.plans, disk.unended)
    /\ Remembers(runner, proc.rows, disk.results)
    /\ Queue(runner, proc.rows, proc.todo, proc.design)

\* A row about to be recorded is of the next cell and has its plans.
RowInv ==
  /\ proc.at \in Drafting => runner = "st" /\ proc.todo # {}
  /\ proc.at = "append" =>
       /\ proc.todo # {}
       /\ proc.row.cell = WorkFor(runner)[Min(proc.todo)] /\ proc.row.design = proc.design
       /\ GoodRow(runner, proc.row) /\ Backed(runner, disk.plans, proc.row)
  /\ proc.at = "finish" => runner # "st" /\ proc.todo = {}

\* Every cell of the work has a row that is no outage.
Answered(r, lines) ==
  \A c \in Range(WorkFor(r)) : \E d \in Designs, i \in DOMAIN lines :
    lines[i] # Torn /\ RowKeyFor(r, lines[i]) = KeyFor(r, c, d) /\ ~ lines[i].outage

DoneInv ==
  last = 0 =>
    /\ proc = Nobody
    /\ Fit(runner, disk.results, disk.plans, disk.unended)
    /\ Torn \notin Range(disk.results) => Answered(runner, disk.results)

IInv == TypeInv /\ FileInv /\ WorkInv /\ RowInv /\ DoneInv

LEMMA InitHolds == Init => IInv
<1> SUFFICES ASSUME Init PROVE IInv
  OBVIOUS
<1>1. proc.at = "off" /\ proc = Nobody /\ last # 0 /\ disk.results = None
  BY RunStatus DEF Init, Nobody
<1>2. TypeInv
  BY DEF Init, TypeInv, DiskFields
<1> QED
  BY <1>1, <1>2 DEF IInv, FileInv, WorkInv, RowInv, DoneInv, Working, Drafting

\* A process goes on, without touching the results or the plans.
LEMMA Quiet ==
  ASSUME IInv, proc.at \in Working, runner' = runner, last' = last,
         DOMAIN disk' = DiskFields, disk'.results = disk.results, disk'.plans = disk.plans,
         disk'.unended = disk.unended, DOMAIN proc' = ProcFields, proc'.at \in Working,
         proc'.rows = proc.rows, proc'.todo = proc.todo, proc'.design = proc.design, RowInv'
  PROVE  IInv'
<1>1. proc # Nobody /\ proc.at # "off"
  BY DEF Nobody, Working, Drafting
<1>2. TypeInv'
  BY <1>1 DEF IInv, TypeInv
<1>3. FileInv' /\ WorkInv'
  BY DEF IInv, FileInv, WorkInv
<1>4. DoneInv'
  BY <1>1 DEF IInv, DoneInv
<1> QED
  BY <1>2, <1>3, <1>4 DEF IInv

\* A process ends, without an answer.
LEMMA Ended ==
  ASSUME TypeInv, runner' = runner, proc' = Nobody, last' # 0,
         DOMAIN disk' = DiskFields, disk'.unended \in BOOLEAN, FileInv'
  PROVE  IInv'
<1>1. proc'.at = "off"
  BY DEF Nobody
<1>2. TypeInv'
  BY DEF TypeInv
<1> QED
  BY <1>1, <1>2 DEF IInv, WorkInv, RowInv, DoneInv, Working, Drafting

LEMMA StartKeeps ==
  ASSUME IInv, NEW resume \in BOOLEAN, NEW design \in Designs, Start(resume, design)
  PROVE  IInv'
<1>1. runner' = runner /\ disk' = disk /\ last' # 0
  BY RunStatus DEF Start, Exit
<1>2. FileInv' /\ DOMAIN disk' = DiskFields /\ disk'.unended \in BOOLEAN
  BY <1>1 DEF IInv, FileInv, TypeInv
<1>3. CASE proc' = Nobody
  BY <1>1, <1>2, <1>3, Ended DEF IInv
<1>4. CASE proc' # Nobody
  <2>1. PICK at \in {"manifest", "open"} : proc' = Process(at, resume, design)
    BY <1>4 DEF Start, Exit
  <2>2. DOMAIN proc' = ProcFields /\ proc'.at = at /\ proc'.design = design
    BY <2>1 DEF Process, ProcFields
  <2>3. TypeInv'
    BY <1>1, <1>2, <2>2 DEF IInv, TypeInv
  <2> QED
    BY <1>1, <1>2, <2>2, <2>3 DEF IInv, WorkInv, RowInv, DoneInv, Working, Drafting
<1> QED
  BY <1>3, <1>4

LEMMA WriteManifestKeeps ==
  ASSUME IInv, WriteManifest
  PROVE  IInv'
<1>1. runner' = runner /\ last' = last /\ proc # Nobody /\ DOMAIN proc = ProcFields
  BY DEF WriteManifest, IInv, TypeInv, Nobody
<1>2. DOMAIN proc' = ProcFields /\ proc'.at = "open" /\ proc'.design = proc.design
  BY <1>1 DEF WriteManifest, ProcFields
<1>3. /\ DOMAIN disk' = DiskFields /\ disk'.results = disk.results /\ disk'.plans = disk.plans
      /\ disk'.unended = disk.unended
  BY DEF WriteManifest, IInv, TypeInv, DiskFields
<1>4. TypeInv'
  BY <1>1, <1>2, <1>3 DEF IInv, TypeInv
<1>5. FileInv'
  BY <1>1, <1>3 DEF IInv, FileInv
<1> QED
  BY <1>1, <1>2, <1>4, <1>5 DEF IInv, WorkInv, RowInv, DoneInv, Working, Drafting

LEMMA EmptyFits ==
  ASSUME NEW r, NEW plans
  PROVE  Fit(r, <<>>, plans, FALSE)
<1>1. <<>> \in Seq(Range(<<>>)) /\ DOMAIN <<>> = {}
  OBVIOUS
<1> QED
  BY <1>1 DEF Fit

LEMMA OpenKeeps ==
  ASSUME IInv, Open
  PROVE  IInv'
<1>1. runner' = runner /\ proc # Nobody /\ DOMAIN proc = ProcFields /\ proc.design \in Designs /\ last # 0
  BY DEF Open, IInv, TypeInv, DoneInv, Nobody
<1>2. CASE ~ Readable(Loaded)
  BY <1>1, <1>2, Ended DEF Open, Exit, IInv, TypeInv, FileInv
<1>3. CASE Readable(Loaded)
  <2> DEFINE lines == Loaded
             rows == Filled(Loaded)
             left == {n \in DOMAIN Work : Pending(rows, Work[n], proc.design)}
  <2>1. /\ proc' = [proc EXCEPT !.at = "cell", !.rows = rows, !.todo = left]
        /\ disk' = IF Mode = "a" THEN disk ELSE [disk EXCEPT !.results = <<>>, !.unended = FALSE]
        /\ last' = last
    BY <1>3 DEF Open
  <2>2. /\ DOMAIN proc' = ProcFields /\ proc'.at = "cell" /\ proc'.rows = rows /\ proc'.todo = left
        /\ proc'.design = proc.design
    <3> HIDE DEF rows, left
    <3> QED
      BY <1>1, <2>1 DEF ProcFields
  <2>3. /\ DOMAIN disk' = DiskFields /\ disk'.unended \in BOOLEAN /\ disk'.results = lines
        /\ Fit(runner, lines, disk'.plans, disk'.unended)
    <3>1. CASE proc.resume /\ disk.results # None
      BY <2>1, <3>1 DEF Mode, Loaded, IInv, TypeInv, FileInv
    <3>2. CASE ~ (proc.resume /\ disk.results # None)
      <4>1. lines = <<>> /\ disk' = [disk EXCEPT !.results = <<>>, !.unended = FALSE]
        BY <2>1, <3>2 DEF Mode, Loaded
      <4>2. DOMAIN disk' = DiskFields /\ disk'.unended = FALSE /\ disk'.results = <<>>
        BY <4>1 DEF IInv, TypeInv, DiskFields
      <4> QED
        BY <4>1, <4>2, EmptyFits
    <3> QED
      BY <3>1, <3>2
  <2>4. Remembers(runner, rows, lines)
    <3>1. rows = FilledFor(runner, lines)
      BY ByRunner
    <3> QED
      BY <2>3, <3>1, ReadRemembers
  <2>5. Queue(runner, rows, left, proc.design)
    <3>1. left = {n \in DOMAIN WorkFor(runner) : PendingFor(runner, rows, WorkFor(runner)[n], proc.design)}
      BY ByRunner
    <3> HIDE DEF left, rows
    <3> QED
      BY <3>1 DEF Queue, PendingFor
  <2> HIDE DEF rows, left, lines
  <2>6. TypeInv'
    BY <1>1, <2>2, <2>3 DEF IInv, TypeInv, Working
  <2>7. FileInv' /\ WorkInv'
    BY <1>1, <2>2, <2>3, <2>4, <2>5 DEF FileInv, WorkInv
  <2> QED
    BY <1>1, <2>1, <2>2, <2>6, <2>7 DEF IInv, RowInv, DoneInv, Drafting
<1> QED
  BY <1>2, <1>3

LEMMA BusyFacts ==
  ASSUME IInv, proc.at \in Working, proc.todo # {}
  PROVE  /\ Cur = WorkFor(runner)[Min(proc.todo)] /\ Cur \in Range(WorkFor(runner))
         /\ PendingFor(runner, proc.rows, Cur, proc.design)
         /\ proc # Nobody /\ DOMAIN proc = ProcFields /\ proc.design \in Designs /\ last # 0
<1>1. Cur = WorkFor(runner)[Min(proc.todo)]
  BY ByRunner DEF Cur
<1>2. proc # Nobody
  BY DEF Nobody, Working, Drafting
<1>3. DOMAIN proc = ProcFields /\ proc.design \in Designs /\ last # 0
  BY <1>2 DEF IInv, TypeInv, DoneInv
<1> QED
  BY <1>1, <1>2, <1>3, NextCell DEF IInv, TypeInv, WorkInv

LEMMA RunAgentKeeps ==
  ASSUME IInv, RunAgent
  PROVE  IInv'
<1>1. proc.at = "cell" /\ proc.todo # {} /\ runner # "st" /\ runner' = runner /\ disk' = disk /\ last' = last
  BY DEF RunAgent, Busy
<1>2. proc.at \in Working
  BY <1>1 DEF Working
<1>3. /\ Cur = WorkFor(runner)[Min(proc.todo)] /\ Cur \in Range(WorkFor(runner))
      /\ DOMAIN proc = ProcFields /\ proc.design \in Designs
  BY <1>1, <1>2, BusyFacts
<1>4. PICK row : /\ proc' = [proc EXCEPT !.at = "append", !.row = row]
                 /\ row.cell = Cur /\ row.design = proc.design
                 /\ row.attack => Cur.arm.injection
  <2>1. CASE \E t \in Transcripts :
               proc' = [proc EXCEPT !.at = "append", !.row = Scored(Cur, Effects(Cur, t))]
    <3>1. PICK t \in Transcripts :
            proc' = [proc EXCEPT !.at = "append", !.row = Scored(Cur, Effects(Cur, t))]
      BY <2>1
    <3>2. PICK row : row = Scored(Cur, Effects(Cur, t))
      OBVIOUS
    <3>3. row.cell = Cur /\ row.design = proc.design /\ (row.attack => Cur.arm.injection)
      BY <3>2 DEF Scored, Attacked
    <3> QED
      BY <3>1, <3>2, <3>3
  <2>2. CASE proc' = [proc EXCEPT !.at = "append", !.row = ErrorRow(Cur)]
    <3>1. PICK row : row = ErrorRow(Cur)
      OBVIOUS
    <3>2. row.cell = Cur /\ row.design = proc.design /\ ~ row.attack
      BY <3>1 DEF ErrorRow
    <3> QED
      BY <2>2, <3>1, <3>2
  <2> QED
    BY <2>1, <2>2 DEF RunAgent
<1>5. /\ DOMAIN proc' = ProcFields /\ proc'.at = "append" /\ proc'.row = row /\ proc'.rows = proc.rows
      /\ proc'.todo = proc.todo /\ proc'.design = proc.design
  BY <1>3, <1>4 DEF ProcFields
<1>6. GoodRow(runner, row) /\ Backed(runner, disk.plans, row)
  BY <1>1, <1>3, <1>4 DEF GoodRow, Backed
<1>7. RowInv'
  BY <1>1, <1>3, <1>4, <1>5, <1>6 DEF RowInv, Drafting
<1> QED
  BY <1>1, <1>2, <1>5, <1>7, Quiet DEF IInv, TypeInv, Working

\* The steps that leave the disk alone, and those that only fill the cache or
\* the summary.
LEMMA AskModelKeeps ==
  ASSUME IInv, AskModel
  PROVE  IInv'
<1>1. proc.at = "cell" /\ proc.todo # {} /\ runner = "st" /\ runner' = runner /\ disk' = disk
  BY DEF AskModel, Busy
<1>2. proc.at \in Working
  BY <1>1 DEF Working
<1>3. proc # Nobody /\ DOMAIN proc = ProcFields /\ last # 0
  BY <1>1, <1>2, BusyFacts
<1>4. FileInv' /\ DOMAIN disk' = DiskFields /\ disk'.unended \in BOOLEAN
  BY <1>1 DEF IInv, FileInv, TypeInv
<1>5. CASE proc' = Nobody /\ last' = 2
  BY <1>1, <1>4, <1>5, Ended DEF IInv
<1>6. ASSUME last' = last, NEW at \in {"store", "audit", "write"},
             DOMAIN proc' = ProcFields, proc'.at = at, proc'.rows = proc.rows,
             proc'.todo = proc.todo, proc'.design = proc.design
      PROVE  IInv'
  <2>1. RowInv'
    BY <1>1, <1>6 DEF RowInv, Drafting
  <2> QED
    BY <1>1, <1>2, <1>6, <2>1, Quiet DEF IInv, TypeInv, Working, Drafting
<1>7. \A draft : AfterDraft(draft) \in {"audit", "write"}
  BY DEF AfterDraft
<1>8. CASE /\ proc' = [proc EXCEPT !.draft = Cached(Phase1), !.at = AfterDraft(Cached(Phase1))]
           /\ UNCHANGED <<last, errors>>
  <2>1. PICK draft : draft = Cached(Phase1)
    OBVIOUS
  <2>2. PICK at \in {"audit", "write"} : at = AfterDraft(draft)
    BY <1>7
  <2>3. /\ DOMAIN proc' = ProcFields /\ proc'.at = at /\ proc'.rows = proc.rows
        /\ proc'.todo = proc.todo /\ proc'.design = proc.design
    BY <1>3, <1>8, <2>1, <2>2 DEF ProcFields
  <2> QED
    BY <1>6, <1>8, <2>3
<1>9. CASE /\ \E d \in Drafts : proc' = [proc EXCEPT !.draft = d, !.calls = 1, !.at = "store"]
           /\ UNCHANGED <<last, errors>>
  <2>1. /\ DOMAIN proc' = ProcFields /\ proc'.at = "store" /\ proc'.rows = proc.rows
        /\ proc'.todo = proc.todo /\ proc'.design = proc.design
    BY <1>3, <1>9 DEF ProcFields
  <2> QED
    BY <1>6, <1>9, <2>1
<1>10. CASE Exit(2)
  BY <1>5, <1>10 DEF Exit
<1> QED
  BY <1>8, <1>9, <1>10 DEF AskModel

LEMMA StoreDraftKeeps ==
  ASSUME IInv, StoreDraft
  PROVE  IInv'
<1>1. proc.at = "store" /\ proc.at \in Working /\ proc # Nobody
  BY DEF StoreDraft, Working, Drafting, Nobody
<1>2. PICK at \in {"audit", "write"} : at = AfterDraft(proc.draft)
  BY DEF AfterDraft
<1>3. /\ DOMAIN proc' = ProcFields /\ proc'.at = at /\ proc'.rows = proc.rows
      /\ proc'.todo = proc.todo /\ proc'.design = proc.design
  BY <1>1, <1>2 DEF StoreDraft, IInv, TypeInv, ProcFields
<1>4. /\ DOMAIN disk' = DiskFields /\ disk'.results = disk.results /\ disk'.plans = disk.plans
      /\ disk'.unended = disk.unended
  BY DEF StoreDraft, IInv, TypeInv, DiskFields
<1>5. runner' = runner /\ last' = last
  BY DEF StoreDraft
<1>6. RowInv'
  BY <1>1, <1>3, <1>5 DEF IInv, RowInv, Drafting
<1> QED
  BY <1>1, <1>3, <1>4, <1>5, <1>6, Quiet DEF Working, Drafting

LEMMA AskAuditKeeps ==
  ASSUME IInv, AskAudit
  PROVE  IInv'
<1>1. proc.at = "audit" /\ proc.at \in Working /\ proc # Nobody /\ runner' = runner /\ disk' = disk
  BY DEF AskAudit, Working, Drafting, Nobody
<1>2. DOMAIN proc = ProcFields
  BY <1>1 DEF IInv, TypeInv
<1>3. FileInv' /\ DOMAIN disk' = DiskFields /\ disk'.unended \in BOOLEAN
  BY <1>1 DEF IInv, FileInv, TypeInv
<1>4. CASE Exit(2)
  BY <1>1, <1>3, <1>4, Ended DEF IInv, Exit
<1>5. CASE ~ Exit(2)
  <2>1. last' = last
    BY <1>5 DEF AskAudit
  <2>2. PICK at \in {"accepted", "storeAudit", "write"} :
          /\ DOMAIN proc' = ProcFields /\ proc'.at = at /\ proc'.rows = proc.rows
          /\ proc'.todo = proc.todo /\ proc'.design = proc.design
    <3>1. CASE proc' = [proc EXCEPT !.at = "accepted"]
      BY <1>2, <3>1 DEF ProcFields
    <3>2. CASE \E next \in {"storeAudit", "write"} :
                 proc' = [proc EXCEPT !.calls = @ + 1, !.audited = TRUE, !.at = next]
      BY <1>2, <3>2 DEF ProcFields
    <3> QED
      BY <1>5, <3>1, <3>2 DEF AskAudit
  <2>3. RowInv'
    BY <1>1, <2>2 DEF IInv, RowInv, Drafting
  <2> QED
    BY <1>1, <2>1, <2>2, <2>3, Quiet DEF IInv, TypeInv, Working, Drafting
<1> QED
  BY <1>4, <1>5

LEMMA StoreAuditKeeps ==
  ASSUME IInv, StoreAudit
  PROVE  IInv'
<1>1. proc.at = "storeAudit" /\ proc.at \in Working /\ proc # Nobody
  BY DEF StoreAudit, Working, Drafting, Nobody
<1>2. /\ DOMAIN proc' = ProcFields /\ proc'.at = "accepted" /\ proc'.rows = proc.rows
      /\ proc'.todo = proc.todo /\ proc'.design = proc.design
  BY <1>1 DEF StoreAudit, IInv, TypeInv, ProcFields
<1>3. /\ DOMAIN disk' = DiskFields /\ disk'.results = disk.results /\ disk'.plans = disk.plans
      /\ disk'.unended = disk.unended
  BY DEF StoreAudit, IInv, TypeInv, DiskFields
<1>4. runner' = runner /\ last' = last
  BY DEF StoreAudit
<1>5. RowInv'
  BY <1>1, <1>2, <1>4 DEF IInv, RowInv, Drafting
<1> QED
  BY <1>1, <1>2, <1>3, <1>4, <1>5, Quiet DEF Working, Drafting

LEMMA SummarizeRowKeeps ==
  ASSUME IInv, SummarizeRow
  PROVE  IInv'
<1>1. proc.at = "summary" /\ proc.at \in Working /\ proc # Nobody
  BY DEF SummarizeRow, Working, Nobody
<1>2. /\ DOMAIN proc' = ProcFields /\ proc'.at = "cell" /\ proc'.rows = proc.rows
      /\ proc'.todo = proc.todo /\ proc'.design = proc.design
  BY <1>1 DEF SummarizeRow, IInv, TypeInv, ProcFields
<1>3. /\ DOMAIN disk' = DiskFields /\ disk'.results = disk.results /\ disk'.plans = disk.plans
      /\ disk'.unended = disk.unended
  BY DEF SummarizeRow, IInv, TypeInv, DiskFields
<1>4. runner' = runner /\ last' = last
  BY DEF SummarizeRow
<1>5. RowInv'
  BY <1>2 DEF RowInv, Drafting
<1> QED
  BY <1>1, <1>2, <1>3, <1>4, <1>5, Quiet DEF Working

LEMMA SummarizeRunKeeps ==
  ASSUME IInv, SummarizeRun
  PROVE  IInv'
<1>1. proc.at = "cell" /\ proc.at \in Working /\ proc # Nobody /\ proc.todo = {} /\ runner # "st"
  BY DEF SummarizeRun, Worked, Working, Nobody
<1>2. /\ DOMAIN proc' = ProcFields /\ proc'.at = "finish" /\ proc'.rows = proc.rows
      /\ proc'.todo = proc.todo /\ proc'.design = proc.design
  BY <1>1 DEF SummarizeRun, IInv, TypeInv, ProcFields
<1>3. /\ DOMAIN disk' = DiskFields /\ disk'.results = disk.results /\ disk'.plans = disk.plans
      /\ disk'.unended = disk.unended
  BY DEF SummarizeRun, IInv, TypeInv, DiskFields
<1>4. runner' = runner /\ last' = last
  BY DEF SummarizeRun
<1>5. RowInv'
  BY <1>1, <1>2, <1>4 DEF RowInv, Drafting
<1> QED
  BY <1>1, <1>2, <1>3, <1>4, <1>5, Quiet DEF Working

-----------------------------------------------------------------------------
(***************************************************************************)
(* Recording.                                                              *)
(***************************************************************************)

LEMMA ArtifactFacts ==
  /\ \A a \in Artifacts : a[1] \in PathsOf(Cur)
  /\ \A a, b \in Artifacts : a[1] = b[1] => a[2] = b[2]
<1>1. CASE Cur.arm = "direct1"
  BY <1>1 DEF Artifacts, PlanPath, Path, PathsOf
<1>2. CASE Cur.arm # "direct1"
  <2>1. \A a \in Artifacts : \/ a = <<<<"st-coverage", Cur.task>>, proc.draft>>
                             \/ a = <<<<"st", Cur.task>>, Kept(proc.draft)>>
    BY <1>2 DEF Artifacts, PlanPath, Path
  <2>2. <<"st-coverage", Cur.task>> # <<"st", Cur.task>>
    OBVIOUS
  <2> QED
    BY <1>2, <2>1, <2>2 DEF PathsOf
<1> QED
  BY <1>1, <1>2

LEMMA WritePlansKeeps ==
  ASSUME IInv, WritePlans
  PROVE  IInv'
<1>1. proc.at \in Working /\ runner = "st" /\ proc.todo # {} /\ runner' = runner /\ last' = last
  BY DEF WritePlans, IInv, RowInv, Working, Drafting
<1>2. /\ Cur = WorkFor(runner)[Min(proc.todo)] /\ Cur \in Range(WorkFor(runner))
      /\ PendingFor(runner, proc.rows, Cur, proc.design)
      /\ DOMAIN proc = ProcFields /\ proc.design \in Designs /\ last # 0 /\ proc # Nobody
  BY <1>1, BusyFacts
<1>3. PICK row : row = PlanRow
  OBVIOUS
<1>4. row.cell = Cur /\ row.design = proc.design /\ row.artifacts = Artifacts /\ ~ row.outage
  BY <1>3 DEF PlanRow
<1>5. /\ DOMAIN proc' = ProcFields /\ proc'.at = "append" /\ proc'.rows = proc.rows /\ proc'.row = row
      /\ proc'.todo = proc.todo /\ proc'.design = proc.design
  BY <1>2, <1>3 DEF WritePlans, ProcFields
<1>6. PICK artifacts : artifacts = Artifacts
  OBVIOUS
<1>7. /\ DOMAIN disk' = DiskFields /\ disk'.results = disk.results
      /\ disk'.plans = Written(disk.plans, artifacts) /\ disk'.unended = disk.unended
  BY <1>6 DEF WritePlans, IInv, TypeInv, DiskFields
<1>8. /\ \A a \in artifacts : a[1] \in PathsOf(Cur)
      /\ \A a, b \in artifacts : a[1] = b[1] => a[2] = b[2]
  BY <1>6, ArtifactFacts
<1>9. "st" \in Runners /\ KeyFor("st", Cur, proc.design) \notin DOMAIN proc.rows
  BY <1>1, <1>2 DEF IInv, TypeInv, PendingFor
<1>10. Fit(runner, disk'.results, disk'.plans, disk'.unended)
  <2>1. Fit("st", disk.results, disk.plans, disk.unended) /\ Remembers("st", proc.rows, disk.results)
    BY <1>1 DEF IInv, WorkInv
  <2>2. Fit("st", disk.results, Written(disk.plans, artifacts), disk.unended)
    BY <1>1, <1>2, <1>8, <1>9, <2>1, WrittenFits
  <2> QED
    BY <1>1, <1>7, <2>2
<1>11. GoodRow(runner, row) /\ Backed(runner, disk'.plans, row)
  BY <1>1, <1>2, <1>4, <1>6, <1>7, <1>8, WrittenFacts DEF GoodRow, Backed
<1>12. TypeInv' /\ FileInv'
  BY <1>1, <1>2, <1>5, <1>7, <1>10 DEF IInv, TypeInv, FileInv, Working
<1>13. WorkInv'
  BY <1>1, <1>5, <1>7, <1>10 DEF IInv, WorkInv
<1>14. RowInv'
  BY <1>1, <1>2, <1>4, <1>5, <1>11 DEF RowInv, Drafting
<1> QED
  BY <1>1, <1>2, <1>12, <1>13, <1>14 DEF IInv, DoneInv

\* The file with the row, or with half of it.
LEMMA RecordedFits ==
  ASSUME IInv, proc.at = "append", NEW line, line \in {Torn, proc.row}, NEW after
  PROVE  Fit(runner, Appended(line), disk.plans, after)
<1>1. /\ proc.at \in Working /\ proc.todo # {} /\ proc.row.cell = WorkFor(runner)[Min(proc.todo)]
      /\ proc.row.design = proc.design /\ GoodRow(runner, proc.row) /\ Backed(runner, disk.plans, proc.row)
      /\ Fit(runner, disk.results, disk.plans, disk.unended) /\ Remembers(runner, proc.rows, disk.results)
  BY DEF IInv, RowInv, WorkInv, Working
<1>2. CASE disk.unended
  <2>1. disk.unended = TRUE
    BY <1>2 DEF IInv, TypeInv
  <2>2. Fit(runner, Spoilt(disk.results), disk.plans, after)
    BY <1>1, <2>1, SpoiltFits
  <2> QED
    BY <1>2, <2>2 DEF Appended, Spoilt
<1>3. CASE ~ disk.unended
  <2>1. PendingFor(runner, proc.rows, proc.row.cell, proc.row.design)
    BY <1>1, BusyFacts
  <2>2. PICK key : key = RowKeyFor(runner, proc.row)
    OBVIOUS
  <2>3. key \notin DOMAIN proc.rows \/ (runner # "st" /\ proc.rows[key].outage)
    BY <2>1, <2>2 DEF PendingFor, RowKeyFor
  <2>4. \A i \in DOMAIN disk.results :
          disk.results[i] # Torn /\ RowKeyFor(runner, disk.results[i]) = key => disk.results[i].outage
    BY <1>1, <2>3, PendingIsUnpaid
  <2>5. \/ line = Torn
        \/ /\ GoodRow(runner, line) /\ Backed(runner, disk.plans, line)
           /\ \A i \in DOMAIN disk.results :
                disk.results[i] # Torn /\ RowKeyFor(runner, disk.results[i]) = RowKeyFor(runner, line) =>
                  disk.results[i].outage
    BY <1>1, <2>2, <2>4
  <2>6. Fit(runner, Append(disk.results, line), disk.plans, after)
    BY <1>1, <2>5, AppendFits
  <2> QED
    BY <1>3, <2>6 DEF Appended
<1> QED
  BY <1>2, <1>3

LEMMA AppendRowKeeps ==
  ASSUME IInv, AppendRow
  PROVE  IInv'
<1>1. /\ proc.at = "append" /\ proc.at \in Working /\ proc.todo # {}
      /\ proc.row.cell = WorkFor(runner)[Min(proc.todo)] /\ proc.row.design = proc.design
      /\ GoodRow(runner, proc.row) /\ runner' = runner /\ last' = last
      /\ Fit(runner, disk.results, disk.plans, disk.unended) /\ Remembers(runner, proc.rows, disk.results)
      /\ Queue(runner, proc.rows, proc.todo, proc.design) /\ runner \in Runners
  BY DEF AppendRow, IInv, RowInv, WorkInv, TypeInv, Working
<1>2. /\ PendingFor(runner, proc.rows, proc.row.cell, proc.row.design)
      /\ DOMAIN proc = ProcFields /\ proc.design \in Designs /\ last # 0 /\ proc # Nobody
  BY <1>1, BusyFacts
<1>3. PICK key : key = RowKeyFor(runner, proc.row)
  OBVIOUS
<1>4. key \notin DOMAIN proc.rows \/ (runner # "st" /\ proc.rows[key].outage)
  BY <1>2, <1>3 DEF PendingFor, RowKeyFor
<1>5. key = KeyFor(runner, WorkFor(runner)[Min(proc.todo)], proc.design)
  BY <1>1, <1>3 DEF RowKeyFor
<1>6. PICK rows, left : rows = Put(proc.rows, key, proc.row) /\ left = proc.todo \ {Min(proc.todo)}
  OBVIOUS
<1>7. PICK at \in {"summary", "cell"} :
        proc' = [Process(at, proc.resume, proc.design) EXCEPT !.rows = rows, !.todo = left]
  BY <1>3, <1>6, ByRunner DEF AppendRow
<1>8. /\ DOMAIN proc' = ProcFields /\ proc'.at = at /\ proc'.rows = rows /\ proc'.todo = left
      /\ proc'.design = proc.design
  BY <1>7 DEF Process, ProcFields
<1>9. /\ DOMAIN disk' = DiskFields /\ disk'.results = Appended(proc.row) /\ disk'.plans = disk.plans
      /\ disk'.unended = FALSE
  BY DEF AppendRow, IInv, TypeInv, DiskFields
<1>10. Fit(runner, disk'.results, disk'.plans, disk'.unended)
  BY <1>1, <1>9, RecordedFits
<1>11. Remembers(runner, rows, Appended(proc.row))
  <2>1. CASE disk.unended
    <3>1. disk.unended = TRUE
      BY <2>1 DEF IInv, TypeInv
    <3>2. Remembers(runner, Put(proc.rows, key, proc.row), Spoilt(disk.results))
      BY <1>1, <1>3, <1>4, <3>1, SpoiltRemembers
    <3> QED
      BY <1>6, <2>1, <3>2 DEF Appended, Spoilt
  <2>2. CASE ~ disk.unended
    <3>1. Remembers(runner, Put(proc.rows, key, proc.row), Append(disk.results, proc.row))
      BY <1>1, <1>3, <1>4, AppendRemembers
    <3> QED
      BY <1>6, <2>2, <3>1 DEF Appended
  <2> QED
    BY <2>1, <2>2
<1>12. Queue(runner, rows, left, proc.design)
  BY <1>1, <1>5, <1>6, QueueShrinks
<1>13. TypeInv' /\ FileInv'
  BY <1>1, <1>2, <1>8, <1>9, <1>10 DEF TypeInv, FileInv, Working
<1>14. WorkInv'
  BY <1>1, <1>8, <1>9, <1>10, <1>11, <1>12 DEF WorkInv
<1> QED
  BY <1>1, <1>2, <1>8, <1>13, <1>14 DEF IInv, RowInv, DoneInv, Drafting

-----------------------------------------------------------------------------
(***************************************************************************)
(* Finishing, and being killed.                                            *)
(***************************************************************************)

\* A process that is done remembers an answer to every cell; so does its file
\* if no line of it is torn.
LEMMA WorkDone ==
  ASSUME IInv, proc.at \in Working, proc.todo = {}, runner = "st" \/ Failed = {},
         Torn \notin Range(disk.results)
  PROVE  Answered(runner, disk.results)
<1>1. /\ Remembers(runner, proc.rows, disk.results) /\ Queue(runner, proc.rows, proc.todo, proc.design)
      /\ proc.design \in Designs
  <2>1. proc # Nobody
    BY DEF Nobody, Working, Drafting
  <2> QED
    BY <2>1 DEF IInv, WorkInv, TypeInv
<1>2. ASSUME NEW c \in Range(WorkFor(runner))
      PROVE  \E i \in DOMAIN disk.results :
               /\ disk.results[i] # Torn /\ RowKeyFor(runner, disk.results[i]) = KeyFor(runner, c, proc.design)
               /\ ~ disk.results[i].outage
  <2>1. PICK key : key = KeyFor(runner, c, proc.design)
    OBVIOUS
  <2>2. key \in DOMAIN proc.rows
    <3>1. PICK n \in DOMAIN WorkFor(runner) : c = WorkFor(runner)[n]
      BY DEF Range
    <3> QED
      BY <1>1, <2>1, <3>1 DEF Queue
  <2>3. GoodRow(runner, proc.rows[key]) /\ RowKeyFor(runner, proc.rows[key]) = key
    BY <1>1, <2>2 DEF Remembers
  <2>4. PICK i \in DOMAIN disk.results : disk.results[i] = proc.rows[key]
    BY <1>1, <2>2 DEF Remembers
  <2>5. ~ proc.rows[key].outage
    <3>1. CASE runner = "st"
      BY <2>3, <3>1 DEF GoodRow
    <3>2. CASE Failed = {}
      <4>1. Key(c, proc.design) = key /\ c \in Range(Work)
        BY <2>1, ByRunner
      <4>2. c \in Done
        BY <2>2, <4>1 DEF Done
      <4> QED
        BY <3>2, <4>1, <4>2 DEF Failed
    <3> QED
      BY <3>1, <3>2
  <2>6. disk.results[i] # Torn
    BY DEF Range
  <2> QED
    BY <2>1, <2>3, <2>4, <2>5, <2>6
<1> QED
  BY <1>1, <1>2 DEF Answered

LEMMA FinishPlanningKeeps ==
  ASSUME IInv, FinishPlanning
  PROVE  IInv'
<1>1. /\ proc.at \in Working /\ proc.todo = {} /\ runner = "st" /\ runner' = runner /\ disk' = disk
      /\ proc' = Nobody
  BY DEF FinishPlanning, Worked, Exit, Working
<1>2. Fit(runner, disk.results, disk.plans, disk.unended)
  BY <1>1 DEF IInv, WorkInv
<1>3. Torn \notin Range(disk.results) => Answered(runner, disk.results)
  BY <1>1, WorkDone
<1>4. TypeInv' /\ FileInv' /\ DoneInv'
  BY <1>1, <1>2, <1>3 DEF IInv, TypeInv, FileInv, DoneInv
<1>5. proc'.at = "off"
  BY <1>1 DEF Nobody
<1> QED
  BY <1>4, <1>5 DEF IInv, WorkInv, RowInv, Working, Drafting

LEMMA FinishKeeps ==
  ASSUME IInv, Finish
  PROVE  IInv'
<1>1. /\ proc.at \in Working /\ proc.todo = {} /\ runner # "st" /\ runner' = runner
      /\ proc' = Nobody /\ (last' = 0 => Failed = {})
  BY DEF Finish, Exit, Working, IInv, RowInv
<1>2. /\ DOMAIN disk' = DiskFields /\ disk'.results = disk.results /\ disk'.plans = disk.plans
      /\ disk'.unended = disk.unended
  <2>1. CASE Factorial
    <3>1. PICK m : disk' = [disk EXCEPT !.manifest = m]
      BY <2>1 DEF Finish
    <3> QED
      BY <3>1 DEF IInv, TypeInv, DiskFields
  <2>2. CASE ~ Factorial
    BY <2>2 DEF Finish, IInv, TypeInv
  <2> QED
    BY <2>1, <2>2
<1>3. Fit(runner, disk.results, disk.plans, disk.unended)
  BY <1>1 DEF IInv, WorkInv
<1>4. last' = 0 /\ Torn \notin Range(disk.results) => Answered(runner, disk.results)
  BY <1>1, WorkDone
<1>5. TypeInv' /\ FileInv' /\ DoneInv'
  BY <1>1, <1>2, <1>3, <1>4 DEF IInv, TypeInv, FileInv, DoneInv
<1>6. proc'.at = "off"
  BY <1>1 DEF Nobody
<1> QED
  BY <1>5, <1>6 DEF IInv, WorkInv, RowInv, Working, Drafting

\* What a kill may leave of the results and the plans.
LEMMA CutFacts ==
  ASSUME IInv, disk' \in Cut
  PROVE  /\ DOMAIN disk' = DiskFields /\ disk'.unended \in BOOLEAN
         /\ \/ /\ disk'.results = disk.results /\ disk'.plans = disk.plans
               /\ disk'.unended = disk.unended
            \/ /\ proc.at \in {"write", "accepted"}
               /\ disk'.results = disk.results /\ disk'.unended = disk.unended
               /\ disk'.plans = Written(disk.plans, {<<a[1], Torn>> : a \in Artifacts})
            \/ /\ proc.at = "append" /\ disk'.unended = TRUE /\ disk'.plans = disk.plans
               /\ disk'.results = Appended(Torn) \/ disk'.results = Appended(proc.row)
<1>0. DOMAIN disk = DiskFields /\ disk.unended \in BOOLEAN
  BY DEF IInv, TypeInv
<1>1. \/ \E m : disk' = [disk EXCEPT !.manifest = m]
      \/ \E c : disk' = [disk EXCEPT !.cache = c]
      \/ \E c : disk' = [disk EXCEPT !.summary = c]
      \/ /\ proc.at \in {"write", "accepted"}
         /\ disk' = [disk EXCEPT !.plans = Written(disk.plans, {<<a[1], Torn>> : a \in Artifacts})]
      \/ /\ proc.at = "append"
         /\ \E t \in Tears : disk' = [disk EXCEPT !.results = IF t = "half" THEN Appended(Torn)
                                                                            ELSE Appended(proc.row),
                                                  !.unended = TRUE]
  <2>1. CASE proc.at = "manifest"
    BY <2>1 DEF Cut
  <2>2. CASE proc.at = "finish"
    BY <2>2 DEF Cut
  <2>3. CASE proc.at = "store"
    BY <2>3 DEF Cut
  <2>4. CASE proc.at \in {"write", "accepted"}
    BY <2>4 DEF Cut
  <2>5. CASE proc.at = "append"
    BY <2>5 DEF Cut
  <2>6. CASE proc.at = "summary" \/ (Worked /\ runner # "st")
    BY <2>6 DEF Cut, Worked
  <2> QED
    BY <2>1, <2>2, <2>3, <2>4, <2>5, <2>6 DEF Cut
<1>2. CASE \E m : disk' = [disk EXCEPT !.manifest = m]
  BY <1>0, <1>2 DEF DiskFields
<1>3. CASE \E c : disk' = [disk EXCEPT !.cache = c]
  BY <1>0, <1>3 DEF DiskFields
<1>4. CASE \E c : disk' = [disk EXCEPT !.summary = c]
  BY <1>0, <1>4 DEF DiskFields
<1>5. CASE /\ proc.at \in {"write", "accepted"}
           /\ disk' = [disk EXCEPT !.plans = Written(disk.plans, {<<a[1], Torn>> : a \in Artifacts})]
  BY <1>0, <1>5 DEF DiskFields
<1>6. CASE /\ proc.at = "append"
           /\ \E t \in Tears : disk' = [disk EXCEPT !.results = IF t = "half" THEN Appended(Torn)
                                                                              ELSE Appended(proc.row),
                                                    !.unended = TRUE]
  BY <1>0, <1>6 DEF DiskFields
<1> QED
  BY <1>1, <1>2, <1>3, <1>4, <1>5, <1>6

LEMMA CrashKeeps ==
  ASSUME IInv, Crash
  PROVE  IInv'
<1>1. runner' = runner /\ proc' = Nobody /\ last' # 0
  BY RunStatus DEF Crash, Exit
<1>2. CASE disk' = disk
  BY <1>1, <1>2, Ended DEF IInv, TypeInv, FileInv
<1>3. CASE disk' \in Cut
  <2>1. DOMAIN disk' = DiskFields /\ disk'.unended \in BOOLEAN
    BY <1>3, CutFacts
  <2>2. FileInv'
    <3>1. CASE /\ disk'.results = disk.results /\ disk'.plans = disk.plans
               /\ disk'.unended = disk.unended
      BY <1>1, <3>1 DEF IInv, FileInv
    <3>2. CASE /\ proc.at \in {"write", "accepted"}
               /\ disk'.results = disk.results /\ disk'.unended = disk.unended
               /\ disk'.plans = Written(disk.plans, {<<a[1], Torn>> : a \in Artifacts})
      <4>1. proc.at \in Working /\ runner = "st" /\ proc.todo # {}
        BY <3>2 DEF IInv, RowInv, Working, Drafting
      <4>2. Cur \in Range(WorkFor(runner)) /\ PendingFor(runner, proc.rows, Cur, proc.design)
        BY <4>1, BusyFacts
      <4>3. PICK artifacts : artifacts = {<<a[1], Torn>> : a \in Artifacts}
        OBVIOUS
      <4>4. /\ \A a \in artifacts : a[1] \in PathsOf(Cur)
            /\ \A a, b \in artifacts : a[1] = b[1] => a[2] = b[2]
        BY <4>3, ArtifactFacts
      <4>5. "st" \in Runners /\ KeyFor("st", Cur, proc.design) \notin DOMAIN proc.rows
        BY <4>1, <4>2 DEF IInv, TypeInv, PendingFor
      <4>6. Fit("st", disk.results, disk.plans, disk.unended) /\ Remembers("st", proc.rows, disk.results)
        BY <4>1 DEF IInv, WorkInv
      <4>7. Fit("st", disk.results, Written(disk.plans, artifacts), disk.unended)
        BY <4>1, <4>2, <4>4, <4>5, <4>6, WrittenFits
      <4> QED
        BY <1>1, <3>2, <4>1, <4>3, <4>7 DEF FileInv
    <3>3. CASE /\ proc.at = "append" /\ disk'.unended = TRUE /\ disk'.plans = disk.plans
               /\ disk'.results = Appended(Torn) \/ disk'.results = Appended(proc.row)
      <4>1. /\ Fit(runner, Appended(Torn), disk.plans, disk'.unended)
            /\ Fit(runner, Appended(proc.row), disk.plans, disk'.unended)
        BY <3>3, RecordedFits
      <4> QED
        BY <1>1, <3>3, <4>1 DEF FileInv
    <3> QED
      BY <1>3, <3>1, <3>2, <3>3, CutFacts
  <2> QED
    BY <1>1, <2>1, <2>2, Ended DEF IInv
<1> QED
  BY <1>2, <1>3 DEF Crash

LEMMA NextKeeps == IInv /\ [Next]_vars => IInv'
<1> SUFFICES ASSUME IInv, [Next]_vars PROVE IInv'
  OBVIOUS
<1>1. CASE \E resume \in BOOLEAN, design \in Designs : Start(resume, design)
  BY <1>1, StartKeeps
<1>2. CASE WriteManifest \/ Open \/ RunAgent
  BY <1>2, WriteManifestKeeps, OpenKeeps, RunAgentKeeps
<1>3. CASE AskModel \/ StoreDraft \/ AskAudit \/ StoreAudit \/ WritePlans
  BY <1>3, AskModelKeeps, StoreDraftKeeps, AskAuditKeeps, StoreAuditKeeps, WritePlansKeeps
<1>4. CASE AppendRow \/ SummarizeRow \/ FinishPlanning \/ SummarizeRun \/ Finish
  BY <1>4, AppendRowKeeps, SummarizeRowKeeps, FinishPlanningKeeps, SummarizeRunKeeps, FinishKeeps
<1>5. CASE Crash
  BY <1>5, CrashKeeps
<1>6. CASE UNCHANGED vars
  BY <1>6 DEF vars, IInv, TypeInv, FileInv, WorkInv, RowInv, DoneInv
<1> QED
  BY <1>1, <1>2, <1>3, <1>4, <1>5, <1>6 DEF Next

\* What holds in every state: see the parts of IInv.
THEOREM Invariant == Spec => []IInv
  BY InitHolds, NextKeeps, PTL DEF Spec

-----------------------------------------------------------------------------
(***************************************************************************)
(* The properties.                                                         *)
(***************************************************************************)

\* Of the rows of a file, the one that counts for a cell is its answer.
LEMMA AnswersCount ==
  ASSUME NEW r, NEW lines, NEW plans, NEW unended, Fit(r, lines, plans, unended),
         NEW i \in DOMAIN lines, lines[i] # Torn, ~ lines[i].outage
  PROVE  /\ RowKeyFor(r, lines[i]) \in DOMAIN FilledFor(r, lines)
         /\ FilledFor(r, lines)[RowKeyFor(r, lines[i])] = lines[i]
<1>1. lines \in Seq(Range(lines))
  BY DEF Fit
<1>2. PICK m \in DOMAIN lines :
        /\ lines[m] # Torn /\ RowKeyFor(r, lines[m]) = RowKeyFor(r, lines[i]) /\ i <= m
        /\ FilledFor(r, lines)[RowKeyFor(r, lines[i])] = lines[m]
  BY <1>1, FilledFacts
<1>3. i \in Nat /\ m \in Nat
  BY <1>1, LenProperties
<1>4. ~ (i < m)
  BY <1>2 DEF Fit
<1>5. i = m
  BY <1>2, <1>3, <1>4
<1> QED
  BY <1>1, <1>2, <1>5, FilledFacts

\* A process that ends with status 0 leaves a file which answers every cell,
\* and no outage stands for an answer; only a torn line may hide one.
THEOREM FinishedFilesAnswer == Spec => []FinishedMeansAnswered
<1>1. IInv => FinishedMeansAnswered
  <2> SUFFICES ASSUME IInv, last = 0, ~ disk.unended, Torn \notin Range(disk.results),
                      NEW c \in Range(Work)
               PROVE  \E d \in Designs : /\ Key(c, d) \in DOMAIN Filled(disk.results)
                                         /\ ~ Filled(disk.results)[Key(c, d)].outage
    BY DEF FinishedMeansAnswered
  <2>1. Fit(runner, disk.results, disk.plans, disk.unended) /\ Answered(runner, disk.results)
    BY DEF IInv, DoneInv
  <2>2. PICK d \in Designs, i \in DOMAIN disk.results :
          /\ disk.results[i] # Torn /\ RowKeyFor(runner, disk.results[i]) = KeyFor(runner, c, d)
          /\ ~ disk.results[i].outage
    BY <2>1, ByRunner DEF Answered
  <2>3. /\ KeyFor(runner, c, d) \in DOMAIN FilledFor(runner, disk.results)
        /\ FilledFor(runner, disk.results)[KeyFor(runner, c, d)] = disk.results[i]
    BY <2>1, <2>2, AnswersCount
  <2>4. Key(c, d) = KeyFor(runner, c, d) /\ Filled(disk.results) = FilledFor(runner, disk.results)
    BY ByRunner
  <2> QED
    BY <2>2, <2>3, <2>4
<1> QED
  BY <1>1, Invariant, PTL

\* The plan files a recorded row names hold what the row says, through every
\* crash and whatever other cells wrote.
THEOREM RowsAreBacked == Spec => []ArtifactsBackRows
<1>1. IInv => ArtifactsBackRows
  <2> SUFFICES ASSUME IInv, runner = "st", disk.results # None, NEW row \in RowsOf(disk.results),
                      NEW a \in row.artifacts
               PROVE  InPlace(a)
    BY DEF ArtifactsBackRows
  <2>1. Fit(runner, disk.results, disk.plans, disk.unended)
    BY DEF IInv, FileInv
  <2>2. PICK i \in DOMAIN disk.results : row = disk.results[i] /\ row # Torn
    BY DEF RowsOf, Range
  <2>3. Backed(runner, disk.plans, row)
    BY <2>1, <2>2 DEF Fit
  <2> QED
    BY <2>3 DEF Backed, InPlace
<1> QED
  BY <1>1, Invariant, PTL

\* A finished file without errors has one row for each cell of the work.
LEMMA CleanFiles ==
  ASSUME IInv, Factorial, last = 0, NEW lines, lines = disk.results,
         \A i \in DOMAIN lines : lines[i] # Torn /\ ~ lines[i].outage
  PROVE  /\ Loadable(lines) /\ OnePer(lines)
         /\ \A row \in Range(lines) : Observation(row) /\ row.cell \in Range(WorkFor(runner))
         /\ \A c \in Range(WorkFor(runner)) : c \in {row.cell : row \in Range(lines)}
<1>1. /\ Fit(runner, lines, disk.plans, disk.unended)
      /\ Torn \notin Range(lines) => Answered(runner, lines)
      /\ runner # "live" /\ runner # "st"
  BY DEF IInv, DoneInv, Factorial
<1>2. Loadable(lines) /\ Torn \notin Range(lines)
  BY DEF Loadable, Range
<1>3. ASSUME NEW i \in DOMAIN lines
      PROVE  Observation(lines[i]) /\ lines[i].cell \in Range(WorkFor(runner))
  BY <1>1 DEF Fit, GoodRow, Observation
<1>4. OnePer(lines)
  <2> SUFFICES ASSUME NEW i \in DOMAIN lines, NEW j \in DOMAIN lines, lines[i].cell = lines[j].cell
               PROVE  i = j
    BY DEF OnePer
  <2>1. RowKeyFor(runner, lines[i]) = RowKeyFor(runner, lines[j])
    BY <1>1 DEF RowKeyFor, KeyFor
  <2>2. ~ (i < j) /\ ~ (j < i)
    BY <1>1, <2>1 DEF Fit
  <2>3. i \in Nat /\ j \in Nat
    BY <1>1, LenProperties DEF Fit
  <2> QED
    BY <2>2, <2>3
<1>5. ASSUME NEW c \in Range(WorkFor(runner))
      PROVE  c \in {row.cell : row \in Range(lines)}
  <2>1. PICK d \in Designs, i \in DOMAIN lines : RowKeyFor(runner, lines[i]) = KeyFor(runner, c, d)
    BY <1>1, <1>2 DEF Answered
  <2>2. lines[i].cell = c
    BY <2>1 DEF RowKeyFor, KeyFor
  <2> QED
    BY <2>2 DEF Range
<1> QED
  BY <1>2, <1>3, <1>4, <1>5 DEF Range

\* The results of a finished experiment in which no row is an error or torn are
\* what the analyzer demands, in both designs: the population is complete and no
\* observation is missing, doubled or impossible, after any number of kills.  The
\* program refuses to start without the plans the analyzer looks for.
THEOREM CleanFilesAreAnalyzable == ASSUME Planned # <<>> PROVE Spec => []CleanRunsAreAnalyzable
<1>1. IInv => CleanRunsAreAnalyzable
  <2> SUFFICES ASSUME IInv, Factorial, last = 0,
                      \A i \in DOMAIN disk.results : disk.results[i] # Torn /\ ~ disk.results[i].outage
               PROVE  Accepted(disk.results)
    BY DEF CleanRunsAreAnalyzable
  <2>1. PICK lines : lines = disk.results
    OBVIOUS
  <2>2. /\ Loadable(lines) /\ OnePer(lines)
        /\ \A row \in Range(lines) : Observation(row) /\ row.cell \in Range(WorkFor(runner))
        /\ \A c \in Range(WorkFor(runner)) : c \in {row.cell : row \in Range(lines)}
    BY <2>1, CleanFiles
  <2>3. CASE runner = "factorial"
    <3>1. Range(WorkFor(runner)) = {Cell(t, None, c) : t \in Range(Tasks), c \in Range(Conditions)}
      BY <2>3, WorkFacts DEF IInv, TypeInv
    <3>2. ASSUME NEW row \in Range(lines) PROVE row.cell.task \in Range(Tasks)
      <4>1. PICK t \in Range(Tasks), c \in Range(Conditions) : row.cell = Cell(t, None, c)
        BY <2>2, <3>1
      <4> QED
        BY <4>1, CellFacts
    <3>3. ASSUME NEW t \in Range(Tasks), NEW arm \in Range(Conditions)
          PROVE  Cell(t, None, arm) \in {other.cell : other \in Range(lines)}
      BY <2>2, <3>1
    <3>4. Indexed(lines)
      BY <2>2, <3>2, <3>3 DEF Indexed
    <3>5. ASSUME NEW t \in Range(Tasks) PROVE t \in {row.cell.task : row \in Range(lines)}
      <4>1. Conditions[1] \in Range(Conditions)
        BY ConditionFacts DEF Range
      <4>2. PICK row \in Range(lines) : row.cell = Cell(t, None, Conditions[1])
        BY <3>3, <4>1
      <4> QED
        BY <4>2, CellFacts
    <3>6. {row.cell.task : row \in Range(lines)} = Range(Tasks)
      BY <3>2, <3>5
    <3> QED
      BY <2>1, <2>2, <2>3, <3>4, <3>6 DEF Accepted, Analyzable
  <2>4. CASE runner = "cross"
    <3>1. Range(WorkFor(runner))
            = {Cell(t, g, c) : t \in Range(Tasks), g \in Range(Goals), c \in Range(Injecting)}
      BY <2>4, WorkFacts DEF IInv, TypeInv
    <3>2. ASSUME NEW row \in Range(lines)
          PROVE  row.cell.task \in Range(Tasks) /\ row.cell.goal \in Range(Goals)
      <4>1. PICK t \in Range(Tasks), g \in Range(Goals), c \in Range(Injecting) : row.cell = Cell(t, g, c)
        BY <2>2, <3>1
      <4> QED
        BY <4>1, CellFacts
    <3>3. ASSUME NEW t \in Range(Tasks), NEW g \in Range(Goals), NEW arm \in Range(Injecting)
          PROVE  Cell(t, g, arm) \in {other.cell : other \in Range(lines)}
      BY <2>2, <3>1
    <3>4. CrossIndexed(lines)
      BY <2>2, <3>2, <3>3 DEF CrossIndexed
    <3>5. ASSUME NEW t \in Range(Tasks), NEW g \in Range(Goals)
          PROVE  \E row \in Range(lines) : row.cell.task = t /\ row.cell.goal = g
      <4>1. Injecting[1] \in Range(Injecting)
        BY ConditionFacts DEF Range
      <4>2. PICK row \in Range(lines) : row.cell = Cell(t, g, Injecting[1])
        BY <3>3, <4>1
      <4> QED
        BY <4>2, CellFacts
    <3>6. {<<row.cell.task, row.cell.goal>> : row \in Range(lines)} = Range(Tasks) \X Range(Goals)
      BY <3>2, <3>5
    <3> QED
      BY <2>1, <2>2, <2>4, <3>4, <3>6 DEF Accepted, CrossAnalyzable
  <2> QED
    BY <2>3, <2>4 DEF Factorial
<1> QED
  BY <1>1, Invariant, PTL

\* A row that is no error was paid for: nothing but a run that was not asked to
\* resume takes it away, no crash and no later row changes it, and its cell is
\* not run again.
THEOREM PaidRowsStay == Spec => PaidRowsAreKept
<1> DEFINE Stays == (disk'.results # disk.results /\ disk.results # None) =>
        \/ ~ proc.resume /\ proc.at = "open"
        \/ /\ proc.at = "append"
           /\ \A i \in DOMAIN disk.results :
                disk.unended \/ disk'.results[i] = disk.results[i]
           /\ \A row \in RowsOf(disk.results) : RowKey(row) = RowKey(proc.row) => row.outage
<1>1. ASSUME IInv, [Next]_vars PROVE Stays
  <2> SUFFICES ASSUME disk'.results # disk.results, disk.results # None
               PROVE  \/ ~ proc.resume /\ proc.at = "open"
                      \/ /\ proc.at = "append"
                         /\ \A i \in DOMAIN disk.results :
                              disk.unended \/ disk'.results[i] = disk.results[i]
                         /\ \A row \in RowsOf(disk.results) : RowKey(row) = RowKey(proc.row) => row.outage
    OBVIOUS
  <2>1. \/ Open
        \/ proc.at = "append" /\ (disk'.results = Appended(Torn) \/ disk'.results = Appended(proc.row))
    <3>0. DOMAIN disk = DiskFields
      BY <1>1 DEF IInv, TypeInv
    <3>1. CASE \E resume \in BOOLEAN, design \in Designs : Start(resume, design)
      BY <3>1 DEF Start
    <3>2. CASE WriteManifest \/ RunAgent \/ AskModel \/ StoreDraft \/ AskAudit \/ StoreAudit
      BY <3>0, <3>2 DEF WriteManifest, RunAgent, AskModel, StoreDraft, AskAudit, StoreAudit, DiskFields
    <3>3. CASE WritePlans \/ SummarizeRow \/ FinishPlanning \/ SummarizeRun
      BY <3>0, <3>3 DEF WritePlans, SummarizeRow, FinishPlanning, SummarizeRun, DiskFields
    <3>4. CASE Finish
      <4>1. PICK m : disk' = [disk EXCEPT !.manifest = m] \/ disk' = disk
        BY <3>4 DEF Finish
      <4> QED
        BY <3>0, <4>1 DEF DiskFields
    <3>5. CASE AppendRow
      BY <3>0, <3>5 DEF AppendRow, DiskFields
    <3>6. CASE Crash
      BY <1>1, <3>6, CutFacts DEF Crash
    <3> QED
      BY <1>1, <3>1, <3>2, <3>3, <3>4, <3>5, <3>6 DEF Next, vars
  <2>2. CASE Open
    <3>1. proc.at = "open" /\ ~ (proc.resume /\ disk.results # None)
      BY <2>2 DEF Open, Mode
    <3> QED
      BY <3>1
  <2>3. CASE proc.at = "append" /\ (disk'.results = Appended(Torn) \/ disk'.results = Appended(proc.row))
    <3>1. /\ proc.at \in Working /\ proc.todo # {} /\ proc.row.cell = WorkFor(runner)[Min(proc.todo)]
          /\ proc.row.design = proc.design
          /\ Fit(runner, disk.results, disk.plans, disk.unended) /\ Remembers(runner, proc.rows, disk.results)
      BY <1>1, <2>3 DEF IInv, RowInv, WorkInv, Working
    <3>2. PendingFor(runner, proc.rows, proc.row.cell, proc.row.design)
      BY <1>1, <3>1, BusyFacts
    <3>3. PICK key : key = RowKeyFor(runner, proc.row)
      OBVIOUS
    <3>4. key \notin DOMAIN proc.rows \/ (runner # "st" /\ proc.rows[key].outage)
      BY <3>2, <3>3 DEF PendingFor, RowKeyFor
    <3>5. \A i \in DOMAIN disk.results :
            disk.results[i] # Torn /\ RowKeyFor(runner, disk.results[i]) = key => disk.results[i].outage
      BY <3>1, <3>4, PendingIsUnpaid
    <3>6. \A row \in RowsOf(disk.results) : RowKey(row) = RowKey(proc.row) => row.outage
      BY <3>3, <3>5, ByRunner DEF RowsOf, Range
    <3>7. CASE ~ disk.unended
      <4>1. PICK line : disk'.results = Append(disk.results, line)
        BY <2>3, <3>7 DEF Appended
      <4>2. disk.results \in Seq(Range(disk.results))
        BY <3>1 DEF Fit
      <4>3. \A i \in DOMAIN disk.results : disk'.results[i] = disk.results[i]
        BY <4>1, <4>2, AppendFacts
      <4> QED
        BY <2>3, <3>6, <4>3
    <3> QED
      BY <2>3, <3>6, <3>7
  <2> QED
    BY <2>1, <2>2, <2>3
<1> QED
  BY <1>1, Invariant, PTL DEF Spec, PaidRowsAreKept
=============================================================================
