----------------------- MODULE EngineLifecycle_proofs -----------------------
(* Proofs about EngineLifecycle, for any modes, plans and surroundings:    *)
(* first the order in which resources are started, then the engine.        *)
EXTENDS EngineLifecycle, Induction, SequenceTheorems, FiniteSetTheorems

-----------------------------------------------------------------------------
(* Resources visited one after the other.                                  *)
Follows(N, visit, names, s, f) ==
  /\ f \in [0..Len(names) -> Seq(N)] /\ f[0] = s
  /\ \A i \in 1..Len(names) : f[i] = visit[names[i]][f[i - 1]]
  /\ VisitAll(visit, names, s) = f[Len(names)]

LEMMA VisitAllSteps ==
  \A N, visit, names, s :
    visit \in [N -> [Seq(N) -> Seq(N)]] /\ names \in Seq(N) /\ s \in Seq(N)
      => \E f : Follows(N, visit, names, s, f)
<1> SUFFICES ASSUME NEW N, NEW visit \in [N -> [Seq(N) -> Seq(N)]], NEW names \in Seq(N),
                    NEW s \in Seq(N)
             PROVE  \E f : Follows(N, visit, names, s, f)
  OBVIOUS
<1> DEFINE n == Len(names)
           step == [i \in 1..n |-> visit[names[i]]]
           after[i \in 0..n] == IF i = 0 THEN s ELSE visit[names[i]][after[i - 1]]
<1>1. n \in Nat /\ \A i \in 1..n : names[i] \in N
  BY LenProperties, ElementOfSeq
<1>2. step \in [1..n -> [Seq(N) -> Seq(N)]]
  BY <1>1
<1>3. PICK f \in [0..n -> Seq(N)] : f[0] = s /\ \A i \in 1..n : f[i] = step[i][f[i - 1]]
  <2> HIDE DEF step, n
  <2>1. \E f : StepByStep(n, Seq(N), s, step, f)
    BY <1>1, <1>2, DefinedStepByStep, Zenon
  <2> QED BY <2>1, Zenon DEF StepByStep
<1>4. \A i \in 1..n : f[i] = visit[names[i]][f[i - 1]]
  BY <1>3
<1>5. f = [i \in 0..n |-> IF i = 0 THEN s ELSE visit[names[i]][f[i - 1]]]
  <2>1. \A i \in 0..n : i = 0 \/ i \in 1..n
    BY <1>1
  <2>2. \A i \in 0..n : f[i] = IF i = 0 THEN s ELSE visit[names[i]][f[i - 1]]
    BY <1>3, <1>4, <2>1
  <2> HIDE DEF n
  <2> QED BY <1>3, <2>2
<1>6. after = [i \in 0..n |-> IF i = 0 THEN s ELSE visit[names[i]][after[i - 1]]]
  <2> HIDE DEF n
  <2> QED BY <1>5
<1>7. after[n] = f[n]
  <2> DEFINE Good == {i \in 0..n : after[i] = f[i]}
  <2> HIDE DEF after, n
  <2>1. 0 \in Good
    BY <1>1, <1>5, <1>6
  <2>2. ASSUME NEW i \in 0..(n - 1), i \in Good PROVE i + 1 \in Good
    <3>1. i + 1 \in 0..n /\ i + 1 # 0 /\ (i + 1) - 1 = i
      BY <1>1
    <3>2. after[i + 1] = visit[names[i + 1]][after[i]]
      BY <1>6, <3>1
    <3>3. f[i + 1] = visit[names[i + 1]][f[i]]
      BY <1>5, <3>1
    <3> QED BY <2>2, <3>1, <3>2, <3>3
  <2>3. 0..n \subseteq Good
    <3> HIDE DEF Good
    <3> QED BY <1>1, <2>1, <2>2, UpTo
  <2> QED BY <1>1, <2>3
<1>8. VisitAll(visit, names, s) = f[n]
  BY <1>7 DEF VisitAll
<1> QED BY <1>3, <1>4, <1>8 DEF Follows

(* What visiting a resource does, given what it does one level deeper.     *)
Visitors(m) == [Names(m) -> [Seq(Names(m)) -> Seq(Names(m))]]
Deeper(m, visit) ==
  [r \in Names(m) |-> [sorted \in Seq(Names(m)) |->
     IF r \in ToSet(sorted) THEN sorted
     ELSE Append(VisitAll(visit, Entry(m, r).deps, sorted), r)]]

LEMMA DepsTyped ==
  ASSUME NEW m \in Modes, NEW r \in Names(m)
  PROVE  /\ Entry(m, r).deps \in Seq(Names(m))
         /\ Len(Entry(m, r).deps) \in Nat
         /\ \A i \in 1..Len(Entry(m, r).deps) : Entry(m, r).deps[i] \in Deps(m, r)
         /\ \A d \in Deps(m, r) : \E i \in 1..Len(Entry(m, r).deps) : Entry(m, r).deps[i] = d
<1> DEFINE E == Entry(m, r)
           E0 == [name : STRING, priority : Nat, deps : Seq(STRING), optional : BOOLEAN]
<1>1. Plan[m] \in Seq(E0) /\ DOMAIN Plan[m] = 1..Len(Plan[m])
  BY PlanAssumption, LenProperties
<1>2. E \in ToSet(Plan[m])
  <2>1. PICK i \in DOMAIN Plan[m] : Plan[m][i].name = r
    BY DEF Names
  <2>2. Plan[m][i] \in ToSet(Plan[m])
    BY DEF ToSet
  <2> QED BY <2>1, <2>2 DEF Entry
<1>3. E \in E0
  <2> HIDE DEF E, E0
  <2>1. PICK i \in 1..Len(Plan[m]) : E = Plan[m][i]
    BY <1>1, <1>2 DEF ToSet
  <2> QED BY <1>1, <2>1, ElementOfSeq
<1> HIDE DEF E
<1>4. E.deps \in Seq(STRING) /\ Len(E.deps) \in Nat /\ DOMAIN E.deps = 1..Len(E.deps)
  BY <1>3, LenProperties
<1>5. Deps(m, r) = {E.deps[i] : i \in 1..Len(E.deps)}
  BY <1>4 DEF Deps, ToSet, E
<1>6. Deps(m, r) \subseteq Names(m)
  BY DependencyAssumption
<1>7. E.deps \in Seq(Names(m))
  <2>1. \A i \in 1..Len(E.deps) : E.deps[i] \in Names(m)
    BY <1>5, <1>6
  <2>2. E.deps = [i \in 1..Len(E.deps) |-> E.deps[i]]
    BY <1>4, LenProperties
  <2> QED BY <1>4, <2>1, <2>2, IsASeq
<1> QED BY <1>4, <1>5, <1>7 DEF E

LEMMA DeeperTyped ==
  ASSUME NEW m \in Modes, NEW visit \in Visitors(m)
  PROVE  Deeper(m, visit) \in Visitors(m)
<1> DEFINE N == Names(m)
<1>1. ASSUME NEW r \in N, NEW s \in Seq(N)
      PROVE  (IF r \in ToSet(s) THEN s ELSE Append(VisitAll(visit, Entry(m, r).deps, s), r)) \in Seq(N)
  <2> DEFINE deps == Entry(m, r).deps
  <2>1. deps \in Seq(N) /\ Len(deps) \in Nat
    BY DepsTyped
  <2>2. VisitAll(visit, deps, s) \in Seq(N)
    <3>1. visit \in [N -> [Seq(N) -> Seq(N)]]
      BY DEF Visitors
    <3> HIDE DEF N, deps
    <3>2. PICK f : Follows(N, visit, deps, s, f)
      BY <1>1, <2>1, <3>1, VisitAllSteps
    <3> QED BY <2>1, <3>2 DEF Follows
  <2> HIDE DEF N
  <2> QED BY <2>2, <1>1, AppendProperties
<1> QED BY <1>1 DEF Deeper, Visitors

LEMMA VisitSteps ==
  ASSUME NEW m \in Modes
  PROVE  /\ Len(Plan[m]) \in Nat
         /\ \E v \in [0..Len(Plan[m]) -> Visitors(m)] :
              /\ \A i \in 1..Len(Plan[m]) : v[i] = Deeper(m, v[i - 1])
              /\ Visit(m) = v[Len(Plan[m])]
<1> DEFINE n == Len(Plan[m])
           N == Names(m)
           base == [r \in N |-> [sorted \in Seq(N) |-> sorted]]
           step == [i \in 1..n |-> [w \in Visitors(m) |-> Deeper(m, w)]]
           v[depth \in 0..n] ==
             [r \in N |-> [sorted \in Seq(N) |->
                IF depth = 0 \/ r \in ToSet(sorted) THEN sorted
                ELSE Append(VisitAll(v[depth - 1], Entry(m, r).deps, sorted), r)]]
<1>1. n \in Nat
  BY PlanAssumption, LenProperties
<1>2. base \in Visitors(m) /\ step \in [1..n -> [Visitors(m) -> Visitors(m)]]
  BY DeeperTyped DEF Visitors
<1>3. PICK f \in [0..n -> Visitors(m)] : f[0] = base /\ \A i \in 1..n : f[i] = step[i][f[i - 1]]
  <2> HIDE DEF base, step, n
  <2>1. \E f : StepByStep(n, Visitors(m), base, step, f)
    BY <1>1, <1>2, DefinedStepByStep, Zenon
  <2> QED BY <2>1, Zenon DEF StepByStep
<1>4. ASSUME NEW i \in 1..n PROVE f[i] = Deeper(m, f[i - 1])
  <2>1. i - 1 \in 0..n
    BY <1>1
  <2>2. f[i - 1] \in Visitors(m)
    BY <1>3, <2>1
  <2> QED BY <1>3, <2>2
<1> DEFINE Level(g, i) ==
             [r \in N |-> [sorted \in Seq(N) |->
                IF i = 0 \/ r \in ToSet(sorted) THEN sorted
                ELSE Append(VisitAll(g[i - 1], Entry(m, r).deps, sorted), r)]]
<1>5. f = [i \in 0..n |-> Level(f, i)]
  <2>1. \A i \in 0..n : i = 0 \/ i \in 1..n
    BY <1>1
  <2>2. Level(f, 0) = base
    OBVIOUS
  <2>3. ASSUME NEW i \in 1..n PROVE Level(f, i) = Deeper(m, f[i - 1])
    <3>1. i # 0
      BY <1>1
    <3> QED BY <3>1 DEF Deeper
  <2> HIDE DEF Level, base, n
  <2>4. \A i \in 0..n : f[i] = Level(f, i)
    BY <1>3, <1>4, <2>1, <2>2, <2>3
  <2> QED BY <1>3, <2>4
<1>6. v = [i \in 0..n |-> Level(v, i)]
  <2> HIDE DEF n, N
  <2> QED BY <1>5
<1>7. \A g, h, i : i \in 0..n /\ (i # 0 => g[i - 1] = h[i - 1]) => Level(g, i) = Level(h, i)
  OBVIOUS
<1>8. v[n] = f[n]
  <2> DEFINE Good == {i \in 0..n : v[i] = f[i]}
  <2> HIDE DEF v, n, Level
  <2>1. 0 \in Good
    BY <1>1, <1>5, <1>6, <1>7
  <2>2. ASSUME NEW i \in 0..(n - 1), i \in Good PROVE i + 1 \in Good
    <3>1. i + 1 \in 0..n /\ i + 1 # 0 /\ (i + 1) - 1 = i
      BY <1>1
    <3>2. v[(i + 1) - 1] = f[(i + 1) - 1]
      BY <2>2, <3>1
    <3>3. Level(v, i + 1) = Level(f, i + 1)
      BY <1>7, <3>1, <3>2, Zenon
    <3> QED BY <1>5, <1>6, <3>1, <3>3
  <2>3. 0..n \subseteq Good
    <3> HIDE DEF Good
    <3> QED BY <1>1, <2>1, <2>2, UpTo
  <2> QED BY <1>1, <2>3
<1>9. Visit(m) = f[n]
  BY <1>8 DEF Visit
<1> QED BY <1>1, <1>3, <1>4, <1>9

(* What visiting resources does to a list: it stays in order, and only     *)
(* resources up to a level are added.                                      *)
Levels(m) ==
  {level \in [Names(m) -> 1..Len(Plan[m])] :
     \A r \in Names(m) : \A d \in Deps(m, r) : level[d] < level[r]}
InOrder(m, s) ==
  /\ s \in Seq(Names(m))
  /\ \A i, j \in 1..Len(s) : s[i] = s[j] => i = j
  /\ \A i \in 1..Len(s) : \A d \in Deps(m, s[i]) : \E j \in 1..(i - 1) : s[j] = d
Extends(m, level, s, t, h) ==
  /\ InOrder(m, t)
  /\ ToSet(s) \subseteq ToSet(t)
  /\ \A r \in ToSet(t) : r \in ToSet(s) \/ level[r] <= h
Visits(m, level, visit, h) ==
  \A r \in Names(m) : \A s :
    InOrder(m, s) /\ level[r] <= h =>
      Extends(m, level, s, visit[r][s], level[r]) /\ r \in ToSet(visit[r][s])

LEMMA Elements ==
  ASSUME NEW N, NEW s \in Seq(N)
  PROVE  /\ Len(s) \in Nat /\ DOMAIN s = 1..Len(s) /\ ToSet(s) \subseteq N
         /\ \A x : x \in ToSet(s) <=> \E i \in 1..Len(s) : s[i] = x
<1>1. Len(s) \in Nat /\ DOMAIN s = 1..Len(s) /\ \A i \in 1..Len(s) : s[i] \in N
  BY LenProperties, ElementOfSeq
<1> QED BY <1>1 DEF ToSet

LEMMA LevelFacts ==
  ASSUME NEW m \in Modes, NEW level \in Levels(m), NEW r \in Names(m)
  PROVE  /\ level[r] \in Nat /\ level[r] >= 1 /\ level[r] <= Len(Plan[m])
         /\ \A d \in Deps(m, r) : d \in Names(m) /\ level[d] \in Nat /\ level[d] < level[r]
<1>1. Len(Plan[m]) \in Nat
  BY VisitSteps
<1>2. \A x \in Names(m) : level[x] \in 1..Len(Plan[m])
  BY DEF Levels
<1>3. \A d \in Deps(m, r) : d \in Names(m) /\ level[d] < level[r]
  BY DependencyAssumption DEF Levels
<1> QED BY <1>1, <1>2, <1>3

LEMMA AllVisited ==
  ASSUME NEW m \in Modes, NEW level \in Levels(m), NEW visit \in Visitors(m), NEW h \in Nat,
         Visits(m, level, visit, h), NEW names \in Seq(Names(m)),
         \A i \in 1..Len(names) : level[names[i]] <= h,
         NEW s, InOrder(m, s)
  PROVE  /\ Extends(m, level, s, VisitAll(visit, names, s), h)
         /\ \A i \in 1..Len(names) : names[i] \in ToSet(VisitAll(visit, names, s))
<1> DEFINE n == Len(names)
           N == Names(m)
<1>1. n \in Nat /\ \A i \in 1..n : names[i] \in N
  BY Elements, ElementOfSeq
<1>2. visit \in [N -> [Seq(N) -> Seq(N)]] /\ s \in Seq(N) /\ names \in Seq(N)
  BY DEF Visitors, InOrder
<1>3. PICK f : Follows(N, visit, names, s, f)
  <2> HIDE DEF N
  <2> QED BY <1>2, VisitAllSteps
<1>4. /\ f \in [0..n -> Seq(N)] /\ f[0] = s
      /\ \A i \in 1..n : f[i] = visit[names[i]][f[i - 1]]
      /\ VisitAll(visit, names, s) = f[n]
  BY <1>3 DEF Follows
<1> DEFINE Good == {i \in 0..n : /\ Extends(m, level, s, f[i], h)
                                 /\ \A k \in 1..i : names[k] \in ToSet(f[i])}
<1>5. 0 \in Good
  BY <1>1, <1>4 DEF Extends
<1>6. ASSUME NEW i \in 0..(n - 1), i \in Good PROVE i + 1 \in Good
  <2>1. i + 1 \in 1..n /\ i + 1 \in 0..n /\ (i + 1) - 1 = i
    BY <1>1
  <2>2. f[i + 1] = visit[names[i + 1]][f[i]] /\ names[i + 1] \in N /\ level[names[i + 1]] <= h
    BY <1>1, <1>4, <2>1
  <2>3. /\ Extends(m, level, f[i], f[i + 1], level[names[i + 1]])
        /\ names[i + 1] \in ToSet(f[i + 1])
    <3>1. InOrder(m, f[i])
      BY <1>6 DEF Extends
    <3> HIDE DEF N
    <3> QED BY <2>2, <3>1 DEF Visits, N
  <2>4. ASSUME NEW r \in ToSet(f[i + 1]) PROVE r \in ToSet(s) \/ level[r] <= h
    <3>1. CASE r \in ToSet(f[i])
      BY <1>6, <3>1 DEF Extends
    <3>2. CASE level[r] <= level[names[i + 1]]
      <4>1. r \in N
        <5>1. f[i + 1] \in Seq(N)
          BY <1>4, <2>1
        <5> QED BY <5>1, <2>4, Elements
      <4>2. level[r] \in Nat /\ level[names[i + 1]] \in Nat
        BY <2>2, <4>1, LevelFacts
      <4> DEFINE a == level[r]
                 b == level[names[i + 1]]
      <4>3. a \in Nat /\ b \in Nat /\ a <= b /\ b <= h
        BY <2>2, <3>2, <4>2
      <4> HIDE DEF a, b
      <4>4. a <= h
        BY <4>3
      <4> QED BY <4>4 DEF a
    <3> QED BY <2>3, <3>1, <3>2 DEF Extends
  <2>5. Extends(m, level, s, f[i + 1], h)
    BY <1>6, <2>3, <2>4 DEF Extends
  <2>6. \A k \in 1..(i + 1) : names[k] \in ToSet(f[i + 1])
    <3>1. \A k \in 1..(i + 1) : k \in 1..i \/ k = i + 1
      BY <1>1
    <3> QED BY <1>6, <2>3, <3>1 DEF Extends
  <2> QED BY <2>1, <2>5, <2>6
<1>7. 0..n \subseteq Good
  <2> HIDE DEF Good
  <2> QED BY <1>1, <1>5, <1>6, UpTo
<1> QED BY <1>1, <1>4, <1>7

LEMMA VisitDeeper ==
  ASSUME NEW m \in Modes, NEW level \in Levels(m), NEW visit \in Visitors(m), NEW h \in Nat,
         Visits(m, level, visit, h)
  PROVE  Visits(m, level, Deeper(m, visit), h + 1)
<1> DEFINE N == Names(m)
<1> SUFFICES ASSUME NEW r \in N, NEW s, InOrder(m, s), level[r] <= h + 1
             PROVE  /\ Extends(m, level, s, Deeper(m, visit)[r][s], level[r])
                    /\ r \in ToSet(Deeper(m, visit)[r][s])
  BY DEF Visits
<1> DEFINE deps == Entry(m, r).deps
           t == VisitAll(visit, deps, s)
           q == Append(t, r)
<1>1. s \in Seq(N)
  BY DEF InOrder
<1>2. Deeper(m, visit)[r][s] = IF r \in ToSet(s) THEN s ELSE q
  BY <1>1 DEF Deeper
<1>3. CASE r \in ToSet(s)
  BY <1>2, <1>3 DEF Extends
<1>4. CASE r \notin ToSet(s)
  <2>1. /\ level[r] \in Nat /\ level[r] >= 1
        /\ \A d \in Deps(m, r) : d \in N /\ level[d] \in Nat /\ level[d] < level[r]
    BY LevelFacts
  <2>2. PICK g \in Nat : level[r] = g + 1 /\ g <= h
    <3> DEFINE a == level[r]
    <3>1. a \in Nat /\ a >= 1 /\ a <= h + 1
      BY <2>1
    <3> HIDE DEF a
    <3>2. a - 1 \in Nat /\ a = (a - 1) + 1 /\ a - 1 <= h
      BY <3>1
    <3> QED BY <3>2 DEF a
  <2>3. Visits(m, level, visit, g)
    <3> SUFFICES ASSUME NEW x \in N, NEW y, InOrder(m, y), level[x] <= g
                 PROVE  level[x] <= h
      BY DEF Visits
    <3>1. level[x] \in Nat
      BY LevelFacts
    <3> DEFINE a == level[x]
    <3>2. a \in Nat /\ a <= g
      BY <3>1
    <3> HIDE DEF a
    <3>3. a <= h
      BY <2>2, <3>2
    <3> QED BY <3>3 DEF a
  <2>4. /\ deps \in Seq(N) /\ \A i \in 1..Len(deps) : deps[i] \in Deps(m, r)
        /\ \A d \in Deps(m, r) : \E i \in 1..Len(deps) : deps[i] = d
    BY DepsTyped
  <2>5. \A d \in Deps(m, r) : level[d] <= g
    <3> SUFFICES ASSUME NEW d \in Deps(m, r) PROVE level[d] <= g
      OBVIOUS
    <3> DEFINE a == level[d]
    <3>1. a \in Nat /\ a < g + 1
      BY <2>1, <2>2
    <3> HIDE DEF a
    <3>2. a <= g
      BY <2>2, <3>1
    <3> QED BY <3>2 DEF a
  <2>6. /\ Extends(m, level, s, t, g)
        /\ \A i \in 1..Len(deps) : deps[i] \in ToSet(t)
    <3> HIDE DEF deps
    <3> QED BY <2>3, <2>4, <2>5, AllVisited
  <2> HIDE DEF deps, t
  <2>7. t \in Seq(N) /\ InOrder(m, t) /\ r \notin ToSet(t)
    <3>1. ~(g + 1 <= g)
      BY <2>2
    <3> QED BY <1>4, <2>2, <2>6, <3>1 DEF Extends, InOrder
  <2>8. /\ Len(t) \in Nat /\ q \in Seq(N) /\ Len(q) = Len(t) + 1
        /\ \A i \in 1..Len(t) : q[i] = t[i]
        /\ q[Len(t) + 1] = r
    BY <2>7, AppendProperties, LenProperties
  <2> HIDE DEF q
  <2>9. \A x : x \in ToSet(q) <=> x \in ToSet(t) \/ x = r
    <3>1. /\ \A x : x \in ToSet(t) <=> \E i \in 1..Len(t) : t[i] = x
          /\ \A x : x \in ToSet(q) <=> \E i \in 1..Len(q) : q[i] = x
      BY <2>7, <2>8, Elements
    <3>2. \A i : i \in 1..Len(q) <=> (i \in 1..Len(t) \/ i = Len(t) + 1)
      BY <2>8
    <3> QED BY <2>8, <3>1, <3>2
  <2>10. InOrder(m, q)
    <3>1. \A i : i \in 1..Len(q) <=> (i \in 1..Len(t) \/ i = Len(t) + 1)
      BY <2>8
    <3>2. \A i \in 1..Len(t) : t[i] # r
      BY <2>7, Elements
    <3>3. \A i, j \in 1..Len(q) : q[i] = q[j] => i = j
      BY <2>7, <2>8, <3>1, <3>2 DEF InOrder
    <3>4. ASSUME NEW i \in 1..Len(q), NEW d \in Deps(m, q[i])
          PROVE  \E j \in 1..(i - 1) : q[j] = d
      <4>1. CASE i \in 1..Len(t)
        <5>1. PICK j \in 1..(i - 1) : t[j] = d
          BY <2>7, <2>8, <3>4, <4>1 DEF InOrder
        <5>2. j \in 1..Len(t)
          BY <2>8, <4>1
        <5> QED BY <2>8, <5>1, <5>2
      <4>2. CASE i = Len(t) + 1
        <5>1. d \in ToSet(t)
          BY <2>4, <2>6, <2>8, <3>4, <4>2
        <5>2. PICK j \in 1..Len(t) : t[j] = d
          BY <2>7, <5>1, Elements
        <5>3. j \in 1..(i - 1)
          BY <2>8, <4>2
        <5> QED BY <2>8, <5>2, <5>3
      <4> QED BY <3>1, <4>1, <4>2
    <3> QED BY <2>8, <3>3, <3>4 DEF InOrder
  <2>11. ASSUME NEW x \in ToSet(q) PROVE x \in ToSet(s) \/ level[x] <= level[r]
    <3>1. CASE x = r
      BY <2>1, <3>1
    <3>2. CASE x \in ToSet(t)
      <4>1. x \in ToSet(s) \/ level[x] <= g
        BY <2>6, <3>2 DEF Extends
      <4>2. x \in N
        BY <2>7, <3>2, Elements
      <4>3. level[x] \in Nat
        BY <4>2, LevelFacts
      <4> DEFINE a == level[x]
      <4>4. a \in Nat /\ (x \in ToSet(s) \/ a <= g)
        BY <4>1, <4>3
      <4> HIDE DEF a
      <4>5. x \in ToSet(s) \/ a <= g + 1
        BY <2>2, <4>4
      <4> QED BY <2>2, <4>5 DEF a
    <3> QED BY <2>9, <3>1, <3>2
  <2>12. Extends(m, level, s, q, level[r]) /\ r \in ToSet(q)
    BY <2>6, <2>9, <2>10, <2>11 DEF Extends
  <2> QED BY <1>2, <1>4, <2>12
<1> QED BY <1>3, <1>4

LEMMA VisitReachesAll ==
  ASSUME NEW m \in Modes, NEW level \in Levels(m)
  PROVE  Visit(m) \in Visitors(m) /\ Visits(m, level, Visit(m), Len(Plan[m]))
<1> DEFINE n == Len(Plan[m])
<1>1. n \in Nat
  BY VisitSteps
<1>2. PICK v \in [0..n -> Visitors(m)] :
        (\A i \in 1..n : v[i] = Deeper(m, v[i - 1])) /\ Visit(m) = v[n]
  BY VisitSteps
<1> HIDE DEF n
<1> DEFINE Good == {i \in 0..n : Visits(m, level, v[i], i)}
<1>3. 0 \in Good
  <2>1. ASSUME NEW r \in Names(m) PROVE ~(level[r] <= 0)
    <3> DEFINE a == level[r]
    <3>1. a \in Nat /\ a >= 1
      BY LevelFacts
    <3> HIDE DEF a
    <3>2. ~(a <= 0)
      BY <3>1
    <3> QED BY <3>2 DEF a
  <2>2. Visits(m, level, v[0], 0)
    BY <2>1 DEF Visits
  <2> QED BY <1>1, <2>2
<1>4. ASSUME NEW i \in 0..(n - 1), i \in Good PROVE i + 1 \in Good
  <2>1. i \in Nat /\ i \in 0..n /\ i + 1 \in 1..n /\ i + 1 \in 0..n /\ (i + 1) - 1 = i
    BY <1>1
  <2>2. v[i + 1] = Deeper(m, v[i]) /\ v[i] \in Visitors(m)
    BY <1>2, <2>1
  <2>3. Visits(m, level, Deeper(m, v[i]), i + 1)
    BY <1>4, <2>1, <2>2, VisitDeeper
  <2> QED BY <2>1, <2>2, <2>3
<1>5. 0..n \subseteq Good
  <2> HIDE DEF Good
  <2> QED BY <1>1, <1>3, <1>4, UpTo
<1>6. n \in Good
  BY <1>1, <1>5
<1> QED BY <1>1, <1>2, <1>6 DEF n

(* The sort by priority: the number of registrations before one is its     *)
(* place, so every registration has a place and every place is taken.      *)
Earlier(m, i) == {j \in DOMAIN Plan[m] : Before(m, j, i)}

LEMMA Priorities ==
  ASSUME NEW m \in Modes
  PROVE  /\ Len(Plan[m]) \in Nat /\ DOMAIN Plan[m] = 1..Len(Plan[m])
         /\ \A i \in DOMAIN Plan[m] : Rank(Plan[m][i]) \in Nat /\ Plan[m][i].name \in Names(m)
<1> DEFINE E0 == [name : STRING, priority : Nat, deps : Seq(STRING), optional : BOOLEAN]
<1>1. Plan[m] \in Seq(E0)
  BY PlanAssumption
<1>2. Len(Plan[m]) \in Nat /\ DOMAIN Plan[m] = 1..Len(Plan[m])
  BY <1>1, LenProperties
<1>3. ASSUME NEW i \in DOMAIN Plan[m] PROVE Rank(Plan[m][i]) \in Nat
  <2>1. Plan[m][i] \in E0
    <3> HIDE DEF E0
    <3> QED BY <1>1, <1>2, ElementOfSeq
  <2> QED BY <2>1 DEF Rank
<1>4. \A i \in DOMAIN Plan[m] : Plan[m][i].name \in Names(m)
  BY DEF Names
<1> QED BY <1>2, <1>3, <1>4

LEMMA BeforeIsTotal ==
  ASSUME NEW m \in Modes, NEW i \in DOMAIN Plan[m], NEW j \in DOMAIN Plan[m], i # j
  PROVE  /\ ~Before(m, i, i)
         /\ Before(m, i, j) \/ Before(m, j, i)
         /\ \A k \in DOMAIN Plan[m] : Before(m, k, i) /\ Before(m, i, j) => Before(m, k, j)
<1> DEFINE R(k) == Rank(Plan[m][k])
<1>1. \A k \in DOMAIN Plan[m] : R(k) \in Nat /\ k \in Nat
  BY Priorities
<1>2. \A k, l : Before(m, k, l) <=> (R(k) < R(l) \/ (R(k) = R(l) /\ k < l))
  BY DEF Before
<1> HIDE DEF R
<1>3. \A k \in DOMAIN Plan[m] : Before(m, k, i) /\ Before(m, i, j) => Before(m, k, j)
  <2> SUFFICES ASSUME NEW k \in DOMAIN Plan[m], Before(m, k, i), Before(m, i, j)
               PROVE  Before(m, k, j)
    OBVIOUS
  <2>1. \A a, b, c, x, y, z \in Nat :
           /\ a < b \/ (a = b /\ x < y)
           /\ b < c \/ (b = c /\ y < z)
           => a < c \/ (a = c /\ x < z)
    OBVIOUS
  <2> QED BY <1>1, <1>2, <2>1
<1>4. \A a, b, x, y \in Nat :
         x # y => (a < b \/ (a = b /\ x < y)) \/ (b < a \/ (b = a /\ y < x))
  OBVIOUS
<1>5. Before(m, i, j) \/ Before(m, j, i)
  BY <1>1, <1>2, <1>4
<1>6. \A a, x \in Nat : ~(a < a \/ (a = a /\ x < x))
  OBVIOUS
<1>7. ~Before(m, i, i)
  BY <1>1, <1>2, <1>6
<1> QED BY <1>3, <1>5, <1>7

LEMMA BeforeIsStrict ==
  ASSUME NEW m \in Modes, NEW i \in DOMAIN Plan[m]
  PROVE  ~Before(m, i, i)
<1>1. Rank(Plan[m][i]) \in Nat /\ i \in Nat
  BY Priorities
<1>2. \A a, x \in Nat : ~(a < a \/ (a = a /\ x < x))
  OBVIOUS
<1> QED BY <1>1, <1>2 DEF Before

LEMMA Places ==
  ASSUME NEW m \in Modes
  PROVE  /\ \A k \in DOMAIN Plan[m] : ByPriority(m)[k] \in Names(m)
         /\ \A r \in Names(m) : \E k \in DOMAIN Plan[m] : ByPriority(m)[k] = r
<1> DEFINE n == Len(Plan[m])
           I == DOMAIN Plan[m]
           c == [i \in I |-> Cardinality(Earlier(m, i))]
<1>1. n \in Nat /\ I = 1..n
  BY Priorities
<1>2. IsFiniteSet(I) /\ Cardinality(I) = n
  <2>1. 1 \in Int /\ n \in Int
    BY <1>1
  <2>2. IsFiniteSet(1..n) /\ Cardinality(1..n) = IF 1 > n THEN 0 ELSE n - 1 + 1
    BY <2>1, FS_Interval
  <2> HIDE DEF n, I
  <2> QED BY <1>1, <2>2
<1> HIDE DEF n, I
<1>3. \A i \in I : Earlier(m, i) \in SUBSET I /\ IsFiniteSet(Earlier(m, i))
                   /\ Cardinality(Earlier(m, i)) \in Nat
  <2>1. \A i \in I : Earlier(m, i) \in SUBSET I
    BY DEF Earlier, I
  <2> QED BY <1>2, <2>1, FS_Subset, FS_CardinalityType
<1>4. ASSUME NEW i \in I PROVE c[i] \in 0..(n - 1)
  <2>1. Earlier(m, i) \in SUBSET (I \ {i})
    BY <1>3, BeforeIsStrict DEF Earlier, I
  <2>2. IsFiniteSet(I \ {i}) /\ Cardinality(I \ {i}) = n - 1
    BY <1>2, FS_RemoveElement
  <2>3. Cardinality(Earlier(m, i)) <= n - 1
    BY <2>1, <2>2, FS_Subset
  <2> QED BY <1>1, <1>3, <2>3
<1>5. ASSUME NEW i \in I, NEW j \in I, Before(m, i, j), i # j
      PROVE  c[i] # c[j]
  <2>1. Earlier(m, i) \cup {i} \in SUBSET Earlier(m, j) /\ i \notin Earlier(m, i)
    BY <1>5, BeforeIsTotal DEF Earlier, I
  <2>2. Cardinality(Earlier(m, i) \cup {i}) = Cardinality(Earlier(m, i)) + 1
    BY <1>3, <2>1, FS_AddElement
  <2>3. Cardinality(Earlier(m, i) \cup {i}) <= Cardinality(Earlier(m, j))
    BY <1>3, <2>1, FS_Subset
  <2> QED BY <1>3, <2>2, <2>3
<1>6. c \in Injection(I, 0..(n - 1))
  <2>1. c \in [I -> 0..(n - 1)]
    BY <1>4
  <2>2. \A i, j \in I : c[i] = c[j] => i = j
    <3> SUFFICES ASSUME NEW i \in I, NEW j \in I, c[i] = c[j], i # j PROVE FALSE
      OBVIOUS
    <3>1. Before(m, i, j) \/ Before(m, j, i)
      BY BeforeIsTotal DEF I
    <3> HIDE DEF c
    <3> QED BY <1>5, <3>1
  <2> HIDE DEF c
  <2> QED BY <2>1, <2>2 DEF Injection, IsInjective
<1>7. \A k \in 0..(n - 1) : \E i \in I : c[i] = k
  <2>1. IsFiniteSet(0..(n - 1)) /\ Cardinality(0..(n - 1)) = n
    <3>1. 0 \in Int /\ n - 1 \in Int
      BY <1>1
    <3>2. IsFiniteSet(0..(n - 1)) /\ Cardinality(0..(n - 1)) = IF 0 > n - 1 THEN 0 ELSE (n - 1) - 0 + 1
      BY <3>1, FS_Interval
    <3> QED BY <1>1, <3>2
  <2> HIDE DEF c
  <2>2. c \in Surjection(I, 0..(n - 1))
    BY <1>2, <1>6, <2>1, FS_Injection
  <2> QED BY <2>2 DEF Surjection
<1> DEFINE at(k) == CHOOSE i \in I : Cardinality(Earlier(m, i)) = k - 1
<1>8. ASSUME NEW k \in I PROVE at(k) \in I /\ c[at(k)] = k - 1
  <2>1. k - 1 \in 0..(n - 1)
    BY <1>1
  <2>2. \E i \in I : Cardinality(Earlier(m, i)) = k - 1
    BY <1>7, <2>1
  <2> QED BY <2>2
<1>9. ByPriority(m) = [k \in I |-> Plan[m][at(k)].name]
  BY DEF ByPriority, Earlier, I
<1>10. ASSUME NEW k \in I PROVE ByPriority(m)[k] \in Names(m)
  <2>1. at(k) \in I
    BY <1>8
  <2> HIDE DEF at
  <2>2. Plan[m][at(k)].name \in Names(m)
    BY <2>1, Priorities DEF I
  <2> QED BY <1>9, <2>2
<1>11. ASSUME NEW r \in Names(m) PROVE \E k \in I : ByPriority(m)[k] = r
  <2>1. PICK i \in I : Plan[m][i].name = r
    BY DEF Names, I
  <2>2. c[i] + 1 \in I /\ (c[i] + 1) - 1 = c[i]
    <3>1. c[i] \in 0..(n - 1)
      BY <1>4
    <3> HIDE DEF c
    <3> QED BY <1>1, <3>1
  <2>3. at(c[i] + 1) \in I /\ c[at(c[i] + 1)] = c[i]
    <3> HIDE DEF c, at
    <3> QED BY <1>8, <2>2
  <2>4. at(c[i] + 1) = i
    <3> HIDE DEF c, at
    <3> QED BY <1>6, <2>1, <2>3 DEF Injection, IsInjective
  <2> HIDE DEF c, at
  <2> QED BY <1>9, <2>1, <2>2, <2>4
<1> QED BY <1>10, <1>11 DEF I

(* OrderSound: every resource of a mode is started once, behind all those  *)
(* it depends on.                                                          *)
THEOREM StartsInOrder == OrderSound
<1> SUFFICES ASSUME NEW m \in Modes
             PROVE  /\ InOrder(m, StartOrder[m]) /\ ToSet(StartOrder[m]) = Names(m)
                    /\ IsInjective(StartOrder[m])
  BY DEF OrderSound, InOrder
<1> DEFINE names == ByPriority(m)
           n == Len(Plan[m])
           s == VisitAll(Visit(m), names, <<>>)
<1>1. n \in Nat /\ DOMAIN Plan[m] = 1..n
  BY Priorities
<1>2. names \in Seq(Names(m)) /\ Len(names) = n
  <2>1. names = [k \in 1..n |-> names[k]] /\ \A k \in 1..n : names[k] \in Names(m)
    BY <1>1, Places DEF ByPriority
  <2> HIDE DEF names, n
  <2> QED BY <1>1, <2>1, IsASeq
<1>3. PICK level \in Levels(m) : TRUE
  BY DependencyAssumption DEF Levels
<1>4. InOrder(m, <<>>) /\ ToSet(<<>>) = {}
  <2>1. <<>> \in Seq(Names(m)) /\ Len(<<>>) = 0 /\ 1..0 = {}
    BY EmptySeq
  <2>2. ToSet(<<>>) = {}
    BY <2>1, Elements
  <2> QED BY <2>1, <2>2 DEF InOrder
<1>5. \A i \in 1..Len(names) : level[names[i]] <= n
  <2> SUFFICES ASSUME NEW i \in 1..Len(names) PROVE level[names[i]] <= n
    OBVIOUS
  <2>1. names[i] \in Names(m)
    BY <1>1, <1>2, Places
  <2> QED BY <2>1, LevelFacts
<1>6. Visit(m) \in Visitors(m) /\ Visits(m, level, Visit(m), n)
  BY VisitReachesAll
<1>7. Extends(m, level, <<>>, s, n) /\ \A i \in 1..Len(names) : names[i] \in ToSet(s)
  <2> HIDE DEF names, n
  <2> QED BY <1>1, <1>2, <1>4, <1>5, <1>6, AllVisited
<1>8. InOrder(m, s) /\ s \in Seq(Names(m))
  BY <1>7 DEF Extends, InOrder
<1>9. ToSet(s) = Names(m)
  <2> HIDE DEF s
  <2>1. ToSet(s) \subseteq Names(m)
    BY <1>8, Elements
  <2>2. \A r \in Names(m) : r \in ToSet(s)
    BY <1>1, <1>2, <1>7, Places
  <2> QED BY <2>1, <2>2
<1>10. IsInjective(s)
  <2> HIDE DEF s
  <2>1. DOMAIN s = 1..Len(s)
    BY <1>8, Elements
  <2> QED BY <1>8, <2>1 DEF InOrder, IsInjective
<1>11. StartOrder[m] = s
  BY DEF StartOrder
<1> QED BY <1>8, <1>9, <1>10, <1>11

LEMMA OrderFacts ==
  \A m \in Modes :
    /\ StartOrder[m] \in Seq(Names(m)) /\ ToSet(StartOrder[m]) = Names(m)
    /\ IsInjective(StartOrder[m])
    /\ \A r \in Names(m) : Deps(m, r) \subseteq Names(m)
BY StartsInOrder, DependencyAssumption DEF OrderSound

-----------------------------------------------------------------------------
(* What is awaited is the head of a job.                                   *)
Awaited == \A p \in Procs : jobs[p].waits # "no" => jobs[p].todo # <<>>
TypeInv == TypeOK /\ Awaited

Ops == {"none", "sidecar", "start", "rollback", "stop"}

LEMMA JobType ==
  ASSUME NEW op \in Ops, NEW todo \in Seq(Resources)
  PROVE  /\ Job(op, todo) \in Jobs
         /\ Job(op, todo).op = op
         /\ Job(op, todo).todo = todo
         /\ Job(op, todo).waits = "no"
BY DEF Job, Jobs, Ops

LEMMA NoJobType == NoJob \in Jobs /\ NoJob.op = "none" /\ NoJob.waits = "no"
<1>1. <<>> \in Seq(Resources)
  BY EmptySeq
<1> QED BY <1>1 DEF NoJob, Jobs

LEMMA ReverseType ==
  ASSUME NEW S, NEW s \in Seq(S)
  PROVE  Reverse(s) \in Seq(S)
<1>1. Len(s) \in Nat /\ \A i \in 1 .. Len(s) : s[i] \in S
  BY ElementOfSeq, LenProperties
<1>2. \A i \in 1 .. Len(s) : (Len(s) - i) + 1 \in 1 .. Len(s)
  BY <1>1
<1> QED BY <1>1, <1>2, IsASeq DEF Reverse

LEMMA OrderType == \A m \in Modes : StartOrder[m] \in Seq(Resources)
<1> SUFFICES ASSUME NEW m \in Modes PROVE StartOrder[m] \in Seq(Resources)
  OBVIOUS
<1>1. StartOrder[m] \in Seq(Names(m))
  BY OrderFacts
<1>2. Names(m) \subseteq Resources
  BY DEF Resources
<1> QED BY <1>1, <1>2, SeqMonotonic

(* A job replaced as a whole, and a job that advances.                     *)
LEMMA Replaced ==
  ASSUME TypeInv, NEW p \in Procs, NEW j \in Jobs, j.waits = "no",
         jobs' = [jobs EXCEPT ![p] = j]
  PROVE  jobs' \in [Procs -> Jobs] /\ Awaited'
BY DEF TypeInv, TypeOK, Awaited

LEMMA Advanced ==
  ASSUME TypeInv, NEW p \in Procs, jobs[p].todo # <<>>, Advance(p)
  PROVE  /\ jobs' \in [Procs -> Jobs] /\ Awaited'
         /\ Current(p) \in Resources
         /\ jobs'[p].op = jobs[p].op
         /\ jobs'[p].todo = Tail(jobs[p].todo)
         /\ \A q \in Procs : q # p => jobs'[q] = jobs[q]
<1>1. jobs \in [Procs -> Jobs] /\ jobs[p] \in Jobs /\ jobs[p].todo \in Seq(Resources)
  BY DEF TypeInv, TypeOK, Jobs
<1>2. Head(jobs[p].todo) \in Resources /\ Tail(jobs[p].todo) \in Seq(Resources)
  BY <1>1, HeadTailProperties
<1>3. /\ jobs' \in [Procs -> Jobs]
      /\ jobs'[p].op = jobs[p].op
      /\ jobs'[p].todo = Tail(jobs[p].todo)
      /\ jobs'[p].waits = "no"
      /\ \A q \in Procs : q # p => jobs'[q] = jobs[q]
  BY <1>1, <1>2 DEF Advance, Jobs
<1>4. Awaited'
  BY <1>3 DEF TypeInv, Awaited
<1> QED BY <1>2, <1>3, <1>4 DEF Current

LEMMA Called ==
  ASSUME TypeInv, NEW p \in Procs, NEW r, Ready(p), Call(r, p)
  PROVE  /\ jobs' \in [Procs -> Jobs] /\ Awaited'
         /\ \A q \in Procs : jobs'[q].op = jobs[q].op /\ jobs'[q].todo = jobs[q].todo
         /\ \A q \in Procs : q # p => jobs'[q] = jobs[q]
<1>1. PICK how \in {"yes", "hung"} : jobs' = [jobs EXCEPT ![p].waits = how]
  BY DEF Call
<1>2. jobs \in [Procs -> Jobs]
  BY DEF TypeInv, TypeOK
<1>3. jobs' \in [Procs -> Jobs]
  BY <1>1, <1>2 DEF Jobs
<1>4. \A q \in Procs : jobs'[q].op = jobs[q].op /\ jobs'[q].todo = jobs[q].todo
  BY <1>1, <1>2 DEF Jobs
<1>5. \A q \in Procs : q # p => jobs'[q] = jobs[q]
  BY <1>1, <1>2
<1>6. Awaited'
  BY <1>3, <1>4, <1>5 DEF Ready, TypeInv, Awaited
<1> QED BY <1>3, <1>4, <1>5, <1>6
(* The whole state but the parts named is typed when those are.            *)
SwitchRecords ==
  [at : {"none", "quiesce", "settle", "halt", "rebuild", "save", "resume"},
   to : Modes, seen : EngineStates, resume : BOOLEAN]

LEMMA StopOrderType == ASSUME TypeInv PROVE StopOrder \in Seq(Resources)
BY ReverseType DEF TypeInv, TypeOK, StopOrder

LEMMA BeginStartType ==
  ASSUME TypeInv, BeginStart
  PROVE  /\ engine' \in EngineStates
         /\ started' \in Seq(Resources)
         /\ jobs' \in [Procs -> Jobs] /\ Awaited'
<1>1. StartOrder[plan] \in Seq(Resources)
  BY OrderType DEF TypeInv, TypeOK
<1>2. /\ Job("start", StartOrder[plan]) \in Jobs
      /\ Job("start", StartOrder[plan]).waits = "no"
  BY <1>1, JobType DEF Ops
<1>3. jobs' = [jobs EXCEPT !["engine"] = Job("start", StartOrder[plan])]
  BY DEF BeginStart
<1>4. jobs' \in [Procs -> Jobs] /\ Awaited'
  BY <1>2, <1>3, Replaced DEF Procs
<1>5. <<>> \in Seq(Resources)
  BY EmptySeq
<1> QED BY <1>4, <1>5 DEF BeginStart, EngineStates

LEMMA BeginStopType ==
  ASSUME TypeInv, BeginStop
  PROVE  /\ engine' \in EngineStates
         /\ jobs' \in [Procs -> Jobs] /\ Awaited'
<1>1. <<>> \in Seq(Resources)
  BY EmptySeq
<1>2. /\ Job("sidecar", <<>>) \in Jobs
      /\ Job("sidecar", <<>>).waits = "no"
  BY <1>1, JobType DEF Ops
<1>3. jobs' = [jobs EXCEPT !["engine"] = Job("sidecar", <<>>)]
  BY DEF BeginStop
<1>4. jobs' \in [Procs -> Jobs] /\ Awaited'
  BY <1>2, <1>3, Replaced DEF Procs
<1> QED BY <1>4 DEF BeginStop, EngineStates

LEMMA KeptJobs ==
  ASSUME TypeInv, UNCHANGED jobs
  PROVE  jobs' \in [Procs -> Jobs] /\ Awaited'
BY DEF TypeInv, TypeOK, Awaited

LEMMA DisconnectedType ==
  ASSUME TypeInv, RadioDisconnected
  PROVE  /\ engine' \in EngineStates
         /\ jobs' \in [Procs -> Jobs] /\ Awaited'
<1>1. CASE engine = "running"
  BY <1>1, BeginStopType DEF RadioDisconnected
<1>2. CASE engine # "running"
  BY <1>2, KeptJobs DEF RadioDisconnected, TypeInv, TypeOK
<1> QED BY <1>1, <1>2

LEMMA RebuildType ==
  ASSUME TypeInv, BeginRebuild
  PROVE  /\ engine' \in EngineStates
         /\ jobs' \in [Procs -> Jobs] /\ Awaited'
<1>1. /\ Job("stop", StopOrder) \in Jobs
      /\ Job("stop", StopOrder).waits = "no"
  BY StopOrderType, JobType DEF Ops
<1>2. jobs' = [jobs EXCEPT !["switch"] = Job("stop", StopOrder)]
  BY DEF BeginRebuild
<1>3. jobs' \in [Procs -> Jobs] /\ Awaited'
  BY <1>1, <1>2, Replaced DEF Procs
<1> QED BY <1>3 DEF BeginRebuild, TypeInv, TypeOK

LEMMA RollbackType ==
  ASSUME TypeInv, jobs' = [jobs EXCEPT !.engine = Rollback]
  PROVE  jobs' \in [Procs -> Jobs] /\ Awaited'
<1>1. /\ Job("rollback", StopOrder) \in Jobs
      /\ Job("rollback", StopOrder).waits = "no"
  BY StopOrderType, JobType DEF Ops
<1>2. jobs' = [jobs EXCEPT !["engine"] = Job("rollback", StopOrder)]
  BY DEF Rollback
<1> QED BY <1>1, <1>2, Replaced DEF Procs

LEMMA IdleJobType ==
  ASSUME TypeInv, NEW p \in Procs, jobs' = [jobs EXCEPT ![p] = NoJob]
  PROVE  jobs' \in [Procs -> Jobs] /\ Awaited'
BY NoJobType, Replaced

LEMMA ActType ==
  ASSUME TypeInv, NEW s \in SwitchRecords, Act(s)
  PROVE  /\ engine' \in EngineStates
         /\ jobs' \in [Procs -> Jobs] /\ Awaited'
         /\ switch' \in SwitchRecords
         /\ wasRunning' \in BOOLEAN
<1>1. s.seen \in EngineStates
  BY DEF SwitchRecords
<1>2. CASE s.seen = "starting"
  <2>1. Acts(s.seen) = "settle"
    BY <1>2 DEF Acts
  <2>2. UNCHANGED <<engine, jobs>>
    BY <2>1 DEF Act
  <2>3. switch' \in SwitchRecords
    BY <2>1 DEF Act, SwitchRecords
  <2> QED BY <2>2, <2>3, KeptJobs DEF Act, TypeInv, TypeOK
<1>3. CASE s.seen \in {"running", "stopping"}
  <2>1. Acts(s.seen) = "halt"
    BY <1>3 DEF Acts
  <2>2. RadioDisconnected
    BY <2>1 DEF Act, StopEngine
  <2>3. switch' \in SwitchRecords
    BY <2>1 DEF Act, SwitchRecords
  <2> QED BY <2>2, <2>3, DisconnectedType DEF Act
<1>4. CASE s.seen = "idle"
  <2>1. Acts(s.seen) = "rebuild"
    BY <1>4 DEF Acts
  <2>2. BeginRebuild
    BY <2>1 DEF Act
  <2>3. switch' \in SwitchRecords
    BY <2>1 DEF Act, SwitchRecords
  <2> QED BY <2>2, <2>3, RebuildType DEF Act
<1> QED BY <1>1, <1>2, <1>3, <1>4 DEF EngineStates

LEMMA InitType == Init => TypeInv
<1> SUFFICES ASSUME Init PROVE TypeInv
  OBVIOUS
<1>1. env \in SUBSET Surroundings
  BY PlanAssumption DEF Init
<1>2. jobs \in [Procs -> Jobs] /\ Awaited
  BY NoJobType DEF Init, Awaited
<1>3. started \in Seq(Resources)
  BY EmptySeq DEF Init
<1>4. switch \in SwitchRecords
  BY PlanAssumption DEF Init, NoSwitch, SwitchRecords, EngineStates
<1>5. state \in [Resources -> ResourceStates]
  BY DEF Init, ResourceStates
<1> QED BY <1>1, <1>2, <1>3, <1>4, <1>5 DEF Init, TypeInv, TypeOK, SwitchRecords, EngineStates

(* Every step keeps the types; a timeout or an answer finds a resource     *)
(* that is awaited.                                                        *)
LEMMA StepType ==
  ASSUME TypeInv, Step, UNCHANGED env
  PROVE  TypeInv'
<1> USE DEF TypeInv
<1>1. CASE UserStart
  BY <1>1, BeginStartType DEF UserStart, TypeOK
<1>2. CASE UserStop
  BY <1>2, BeginStopType DEF UserStop, TypeOK
<1>3. CASE SidecarStopped
  <2>1. /\ Job("stop", StopOrder) \in Jobs
        /\ Job("stop", StopOrder).waits = "no"
    BY StopOrderType, JobType DEF Ops
  <2>2. jobs' = [jobs EXCEPT !["engine"] = Job("stop", StopOrder)]
    BY <1>3 DEF SidecarStopped
  <2>3. jobs' \in [Procs -> Jobs] /\ Awaited'
    BY <2>1, <2>2, Replaced DEF Procs
  <2> QED BY <1>3, <2>3 DEF SidecarStopped, TypeOK
<1>4. CASE EngineSettles
  <2>1. jobs' \in [Procs -> Jobs] /\ Awaited'
    BY <1>4, IdleJobType DEF EngineSettles, Procs
  <2>2. <<>> \in Seq(Resources)
    BY EmptySeq
  <2>3. started' \in Seq(Resources)
    BY <1>4, <2>2 DEF EngineSettles, TypeOK
  <2>4. engine' \in EngineStates
    BY <1>4 DEF EngineSettles, Outcome, EngineStates
  <2> QED BY <1>4, <2>1, <2>3, <2>4 DEF EngineSettles, TypeOK
<1>5. CASE StartResource
  <2> DEFINE r == Current("engine")
  <2>1. Ready("engine") /\ jobs["engine"].todo # <<>> /\ "engine" \in Procs
    BY <1>5 DEF StartResource, Ready, Procs
  <2>2. CASE jobs' = [jobs EXCEPT !.engine = Rollback] /\ UNCHANGED <<state, link, stale>>
    BY <1>5, <2>2, RollbackType DEF StartResource, TypeOK
  <2>3. CASE Advance("engine") /\ UNCHANGED <<state, link, stale>>
    <3>1. jobs' \in [Procs -> Jobs] /\ Awaited'
      BY <2>1, <2>3, Advanced
    <3> QED BY <1>5, <2>3, <3>1 DEF StartResource, TypeOK
  <2>4. CASE /\ Call(r, "engine")
             /\ state' = [state EXCEPT ![r] = "starting"]
             /\ link' = IF r = Radio /\ link # "up" THEN "off" ELSE link
             /\ stale' = FALSE
    <3>1. jobs' \in [Procs -> Jobs] /\ Awaited'
      BY <2>1, <2>4, Called
    <3>2. state' \in [Resources -> ResourceStates]
      BY <2>4 DEF TypeOK, ResourceStates
    <3> QED BY <1>5, <2>4, <3>1, <3>2 DEF StartResource, TypeOK
  <2> QED BY <1>5, <2>2, <2>3, <2>4 DEF StartResource
<1>6. CASE ResourceStarted
  <2>1. jobs["engine"].todo # <<>> /\ "engine" \in Procs
    BY <1>6 DEF ResourceStarted, Awaited, Procs
  <2>2. jobs' \in [Procs -> Jobs] /\ Awaited' /\ Current("engine") \in Resources
    BY <1>6, <2>1, Advanced DEF ResourceStarted
  <2>3. started' \in Seq(Resources)
    BY <1>6, <2>2, AppendProperties DEF ResourceStarted, TypeOK
  <2>4. state' \in [Resources -> ResourceStates]
    BY <1>6, <2>2 DEF ResourceStarted, Book, TypeOK, ResourceStates
  <2>5. up' \in SUBSET Resources
    BY <1>6, <2>2 DEF ResourceStarted, TypeOK
  <2>6. restoring' \in BOOLEAN
    BY <1>6, Zenon DEF ResourceStarted, TypeOK
  <2> QED BY <1>6, <2>2, <2>3, <2>4, <2>5, <2>6 DEF ResourceStarted, TypeOK
<1>7. CASE ResourceFailed
  <2>1. jobs["engine"].todo # <<>> /\ "engine" \in Procs
    BY <1>7 DEF ResourceFailed, TimesOut, Awaited, Procs
  <2>2. Current("engine") \in Resources
    BY <2>1, HeadTailProperties DEF Current, TypeOK, Jobs
  <2>3. jobs' \in [Procs -> Jobs] /\ Awaited'
    <3>1. Advance("engine") \/ jobs' = [jobs EXCEPT !.engine = Rollback]
      BY <1>7 DEF ResourceFailed
    <3> QED BY <2>1, <3>1, Advanced, RollbackType
  <2>4. state' \in [Resources -> ResourceStates]
    BY <1>7, <2>2 DEF ResourceFailed, Book, TypeOK, ResourceStates
  <2>5. late' \in SUBSET (Resources \X {"start", "stop"})
    BY <1>7, <2>2 DEF ResourceFailed, TypeOK
  <2>6. wasRunning' \in BOOLEAN
    BY <1>7, Zenon DEF ResourceFailed, TypeOK
  <2> QED BY <1>7, <2>3, <2>4, <2>5, <2>6 DEF ResourceFailed, TypeOK
<1>8. ASSUME NEW p \in Procs, StopResource(p) PROVE TypeInv'
  <2> DEFINE r == Current(p)
  <2>1. Ready(p) /\ jobs[p].todo # <<>>
    BY <1>8 DEF StopResource, Ready
  <2>2. Advance(p) \/ Call(r, p)
    BY <1>8 DEF StopResource
  <2>3. jobs' \in [Procs -> Jobs] /\ Awaited'
    BY <2>1, <2>2, Advanced, Called
  <2>4. state' \in [Resources -> ResourceStates]
    BY <1>8 DEF StopResource, TypeOK, ResourceStates
  <2>5. stale' \in BOOLEAN
    BY <1>8, Zenon DEF StopResource, TypeOK
  <2> QED BY <1>8, <2>3, <2>4, <2>5 DEF StopResource, TypeOK
<1>9. ASSUME NEW p \in Procs, ResourceStopped(p) PROVE TypeInv'
  <2>1. jobs[p].todo # <<>>
    BY <1>9 DEF ResourceStopped, Awaited
  <2>2. jobs' \in [Procs -> Jobs] /\ Awaited' /\ Current(p) \in Resources
    BY <1>9, <2>1, Advanced DEF ResourceStopped
  <2>3. state' \in [Resources -> ResourceStates]
    BY <1>9, <2>2 DEF ResourceStopped, Book, TypeOK, ResourceStates
  <2>4. wasRunning' \in BOOLEAN
    BY <1>9, Zenon DEF ResourceStopped, Down, TypeOK
  <2> QED BY <1>9, <2>2, <2>3, <2>4 DEF ResourceStopped, Down, TypeOK
<1>10. ASSUME NEW p \in Procs, StopFailed(p) PROVE TypeInv'
  <2>1. jobs[p].todo # <<>>
    BY <1>10 DEF StopFailed, TimesOut, Awaited
  <2>2. jobs' \in [Procs -> Jobs] /\ Awaited' /\ Current(p) \in Resources
    BY <1>10, <2>1, Advanced DEF StopFailed
  <2>3. state' \in [Resources -> ResourceStates]
    BY <1>10, <2>2 DEF StopFailed, Book, TypeOK, ResourceStates
  <2>4. late' \in SUBSET (Resources \X {"start", "stop"})
    BY <1>10, <2>2 DEF StopFailed, TypeOK
  <2> QED BY <1>10, <2>2, <2>3, <2>4 DEF StopFailed, TypeOK
<1>11. ASSUME NEW r \in Resources, LateStart(r) PROVE TypeInv'
  <2>1. restoring' \in BOOLEAN
    BY <1>11, Zenon DEF LateStart, TypeOK
  <2>2. jobs' \in [Procs -> Jobs] /\ Awaited'
    BY <1>11, KeptJobs DEF LateStart
  <2> QED BY <1>11, <2>1, <2>2 DEF LateStart, TypeOK
<1>12. ASSUME NEW r \in Resources, LateStop(r) PROVE TypeInv'
  <2>1. wasRunning' \in BOOLEAN
    BY <1>12, Zenon DEF LateStop, Down, TypeOK
  <2>2. engine' \in EngineStates /\ jobs' \in [Procs -> Jobs] /\ Awaited'
    BY <1>12, DisconnectedType, KeptJobs DEF LateStop, TypeOK
  <2> QED BY <1>12, <2>1, <2>2 DEF LateStop, Down, TypeOK
<1>13. CASE LinkLost
  <2>1. wasRunning' \in BOOLEAN
    BY <1>13, Zenon DEF LinkLost, IsRunning, TypeOK
  <2> QED BY <1>13, <2>1, DisconnectedType DEF LinkLost, TypeOK
<1>14. CASE LinkOff
  BY <1>14, DisconnectedType DEF LinkOff, TypeOK
<1>15. CASE LinkBack
  BY <1>15, KeptJobs DEF LinkBack, TypeOK
<1>16. CASE Restore
  <2>1. BeginStart \/ UNCHANGED <<engine, jobs, started>>
    BY <1>16 DEF Restore, Restart
  <2>2. /\ engine' \in EngineStates /\ started' \in Seq(Resources)
        /\ jobs' \in [Procs -> Jobs] /\ Awaited'
    BY <2>1, BeginStartType, KeptJobs DEF TypeOK
  <2> QED BY <1>16, <2>2 DEF Restore, TypeOK
<1>17. ASSUME NEW m \in Modes, SwitchBegin(m) PROVE TypeInv'
  <2> DEFINE s == [at |-> "quiesce", to |-> m, seen |-> engine,
                   resume |-> engine \in {"running", "starting"}]
  <2>1. (engine \in {"running", "starting"}) \in BOOLEAN
    OBVIOUS
  <2>2. s \in SwitchRecords
    BY <2>1 DEF SwitchRecords, TypeOK
  <2>3. Act(s) \/ (switch' = s /\ UNCHANGED <<engine, jobs, wasRunning>>)
    BY <1>17 DEF SwitchBegin
  <2>4. /\ engine' \in EngineStates /\ switch' \in SwitchRecords
        /\ jobs' \in [Procs -> Jobs] /\ Awaited' /\ wasRunning' \in BOOLEAN
    <3> HIDE DEF s
    <3> QED BY <2>2, <2>3, ActType, KeptJobs DEF TypeOK
  <2> QED BY <1>17, <2>4 DEF SwitchBegin, TypeOK, SwitchRecords
<1>18. CASE SwitchActs
  <2>1. switch \in SwitchRecords
    BY DEF TypeOK, SwitchRecords
  <2>2. /\ engine' \in EngineStates /\ switch' \in SwitchRecords
        /\ jobs' \in [Procs -> Jobs] /\ Awaited' /\ wasRunning' \in BOOLEAN
    BY <1>18, <2>1, ActType DEF SwitchActs
  <2> QED BY <1>18, <2>2 DEF SwitchActs, TypeOK, SwitchRecords
<1>19. CASE SwitchSettled
  <2>1. engine' \in EngineStates /\ jobs' \in [Procs -> Jobs] /\ Awaited'
    BY <1>19, DisconnectedType, RebuildType DEF SwitchSettled, StopEngine
  <2>2. wasRunning' \in BOOLEAN
    BY <1>19, Zenon DEF SwitchSettled, TypeOK
  <2>3. switch' \in SwitchRecords
    <3>1. (engine = "running") \in BOOLEAN
      OBVIOUS
    <3> QED BY <1>19, <3>1 DEF SwitchSettled, TypeOK, SwitchRecords, EngineStates
  <2> QED BY <1>19, <2>1, <2>2, <2>3 DEF SwitchSettled, TypeOK, SwitchRecords
<1>20. CASE SwitchHalted
  <2>1. engine' \in EngineStates /\ jobs' \in [Procs -> Jobs] /\ Awaited'
    BY <1>20, RebuildType DEF SwitchHalted
  <2>2. switch' \in SwitchRecords
    BY <1>20 DEF SwitchHalted, TypeOK, SwitchRecords
  <2> QED BY <1>20, <2>1, <2>2 DEF SwitchHalted, TypeOK, SwitchRecords
<1>21. CASE Rebuilt
  <2>1. jobs' \in [Procs -> Jobs] /\ Awaited'
    BY <1>21, IdleJobType DEF Rebuilt, Procs
  <2>2. started' \in Seq(Resources)
    BY <1>21, EmptySeq DEF Rebuilt
  <2>3. state' \in [Resources -> ResourceStates]
    BY <1>21 DEF Rebuilt, ResourceStates
  <2>4. switch' \in SwitchRecords /\ plan' \in Modes
    BY <1>21 DEF Rebuilt, TypeOK, SwitchRecords
  <2>5. stale' \in BOOLEAN
    BY <1>21, Zenon DEF Rebuilt
  <2> QED BY <1>21, <2>1, <2>2, <2>3, <2>4, <2>5 DEF Rebuilt, TypeOK, SwitchRecords
<1>22. CASE SwitchResumes
  <2>1. BeginStart \/ UNCHANGED <<engine, jobs, started>>
    BY <1>22 DEF SwitchResumes
  <2>2. /\ engine' \in EngineStates /\ started' \in Seq(Resources)
        /\ jobs' \in [Procs -> Jobs] /\ Awaited'
    BY <2>1, BeginStartType, KeptJobs DEF TypeOK
  <2>3. switch' \in SwitchRecords
    BY <1>22, PlanAssumption DEF SwitchResumes, NoSwitch, TypeOK, SwitchRecords, EngineStates
  <2> QED BY <1>22, <2>2, <2>3 DEF SwitchResumes, TypeOK, SwitchRecords
<1>23. CASE SwitchEnds \/ SwitchAborts
  <2>1. jobs' \in [Procs -> Jobs] /\ Awaited'
    BY <1>23, KeptJobs DEF SwitchEnds, SwitchAborts
  <2>2. switch' \in SwitchRecords
    <3>1. switch' = NoSwitch
      BY <1>23 DEF SwitchEnds, SwitchAborts
    <3> QED BY <3>1, PlanAssumption DEF NoSwitch, SwitchRecords, EngineStates
  <2> QED BY <1>23, <2>1, <2>2 DEF SwitchEnds, SwitchAborts, TypeOK, SwitchRecords
<1> QED BY <1>1, <1>2, <1>3, <1>4, <1>5, <1>6, <1>7, <1>8, <1>9, <1>10, <1>11, <1>12, <1>13,
           <1>14, <1>15, <1>16, <1>17, <1>18, <1>19, <1>20, <1>21, <1>22, <1>23
        DEF Step, Manager, Switching

LEMMA StutterType ==
  ASSUME TypeInv, UNCHANGED vars
  PROVE  TypeInv'
<1>1. UNCHANGED <<stale, restoring, wasRunning, env, engine, plan, state, started, up, link, late, faults, jobs, switch>>
  BY Zenon DEF vars
<1>2. stale' \in BOOLEAN /\ restoring' \in BOOLEAN /\ wasRunning' \in BOOLEAN
  BY <1>1, Zenon DEF TypeInv, TypeOK
<1> QED BY <1>1, <1>2 DEF TypeInv, TypeOK, Awaited

(* The types hold in every reachable state, whatever fails and overlaps.   *)
THEOREM TypeCorrect == Spec => []TypeOK
<1>1. Init => TypeInv
  BY InitType
<1>2. TypeInv /\ [Next]_vars => TypeInv'
  BY StepType, StutterType DEF Next
<1>3. TypeInv => TypeOK
  BY DEF TypeInv
<1> QED BY <1>1, <1>2, <1>3, PTL DEF Spec

(* The invariant of an orderly station, where the engine is not started    *)
(* during a switch.  The engine's job agrees with its state; a switch      *)
(* rebuilds the plan only while the engine is at rest, so that the books   *)
(* the job writes are those of the plan; and what a start has not yet      *)
(* reached is still to do.                                                 *)
JobAgrees ==
  /\ engine \in {"idle", "running"} => jobs["engine"] = NoJob
  /\ engine = "starting" => jobs["engine"].op \in {"start", "rollback"}
  /\ engine = "stopping" => jobs["engine"].op \in {"sidecar", "stop"}
SwitchAtRest ==
  /\ switch.at = "rebuild" => engine = "idle"
  /\ switch.at = "quiesce" /\ switch.seen = "idle" => engine = "idle"
  /\ jobs["switch"].op # "none" => switch.at = "rebuild"
Covered ==
  jobs["engine"].op = "start" =>
    \A r \in Required : state[r] = "running" \/ r \in ToSet(jobs["engine"].todo)
Complete == engine = "running" => \A r \in Required : state[r] = "running"
Orderly == ~stale /\ JobAgrees /\ SwitchAtRest /\ Covered /\ Complete
Inv == TypeInv /\ ("overlap" \notin env => Orderly)

LEMMA ToSetOfTail ==
  ASSUME NEW S, NEW s \in Seq(S), s # <<>>, NEW x \in ToSet(s), x # Head(s)
  PROVE  x \in ToSet(Tail(s))
<1>1. PICK i \in 1 .. Len(s) : x = s[i]
  BY LenProperties DEF ToSet
<1>2. i # 1 /\ Len(s) \in Nat
  BY <1>1, HeadTailProperties, LenProperties
<1>3. Len(Tail(s)) = Len(s) - 1 /\ DOMAIN Tail(s) = 1 .. Len(Tail(s))
  BY HeadTailProperties, LenProperties
<1>4. i - 1 \in 1 .. Len(Tail(s)) /\ Tail(s)[i - 1] = s[i]
  BY <1>1, <1>2, <1>3, HeadTailProperties
<1> QED BY <1>1, <1>3, <1>4 DEF ToSet

LEMMA RequiredIsRegistered ==
  ASSUME TypeInv
  PROVE  Required \subseteq Names(plan) /\ Names(plan) \subseteq Resources
BY DEF TypeInv, TypeOK, Required, Resources

(* A start has everything to do, a stop does not concern the switch.       *)
LEMMA BeginStartJob ==
  ASSUME TypeInv, BeginStart
  PROVE  /\ engine' = "starting"
         /\ jobs'["engine"].op = "start"
         /\ Required \subseteq ToSet(jobs'["engine"].todo)
         /\ jobs'["switch"] = jobs["switch"]
<1>1. StartOrder[plan] \in Seq(Resources) /\ ToSet(StartOrder[plan]) = Names(plan)
  BY OrderType, OrderFacts DEF TypeInv, TypeOK
<1>2. /\ Job("start", StartOrder[plan]).op = "start"
      /\ Job("start", StartOrder[plan]).todo = StartOrder[plan]
  BY <1>1, JobType DEF Ops
<1>3. /\ jobs'["engine"] = Job("start", StartOrder[plan])
      /\ jobs'["switch"] = jobs["switch"]
  BY DEF BeginStart, TypeInv, TypeOK, Procs
<1> QED BY <1>1, <1>2, <1>3, RequiredIsRegistered DEF BeginStart

LEMMA DisconnectedJob ==
  ASSUME TypeInv, RadioDisconnected
  PROVE  /\ \/ UNCHANGED <<engine, jobs>> /\ engine # "running"
            \/ engine = "running" /\ engine' = "stopping" /\ jobs'["engine"].op = "sidecar"
         /\ jobs'["switch"] = jobs["switch"]
<1>1. CASE engine = "running"
  <2>1. Job("sidecar", <<>>).op = "sidecar"
    BY EmptySeq, JobType DEF Ops
  <2>2. /\ jobs'["engine"] = Job("sidecar", <<>>)
        /\ jobs'["switch"] = jobs["switch"]
    BY <1>1 DEF RadioDisconnected, BeginStop, TypeInv, TypeOK, Procs
  <2> QED BY <1>1, <2>1, <2>2 DEF RadioDisconnected, BeginStop
<1>2. CASE engine # "running"
  BY <1>2 DEF RadioDisconnected
<1> QED BY <1>1, <1>2

LEMMA RebuildJob ==
  ASSUME TypeInv, BeginRebuild
  PROVE  engine' = engine /\ jobs'["engine"] = jobs["engine"]
BY DEF BeginRebuild, TypeInv, TypeOK, Procs

LEMMA InitOrderly == Init => Orderly
<1> SUFFICES ASSUME Init PROVE Orderly
  OBVIOUS
<1>1. jobs["engine"] = NoJob /\ jobs["switch"] = NoJob
  BY DEF Init, Procs
<1>2. switch.at = "none" /\ engine = "idle" /\ ~stale
  BY DEF Init, NoSwitch
<1>3. jobs["engine"].op = "none" /\ jobs["switch"].op = "none"
  BY <1>1, NoJobType
<1> QED BY <1>1, <1>2, <1>3 DEF Orderly, JobAgrees, SwitchAtRest, Covered, Complete

(* A start of the engine at rest, and the end of a running engine, keep    *)
(* the invariant whatever else the step does to the switch.                *)
LEMMA StartOrderly ==
  ASSUME TypeInv, Orderly, BeginStart, UNCHANGED <<plan, stale>>,
         switch'.at \notin {"rebuild", "quiesce"}, switch.at # "rebuild"
  PROVE  Orderly'
<1>1. Required' = Required
  BY DEF Required
<1>2. jobs'["switch"].op = "none"
  BY BeginStartJob DEF Orderly, SwitchAtRest
<1> QED BY <1>1, <1>2, BeginStartJob DEF Orderly, JobAgrees, SwitchAtRest, Covered, Complete

LEMMA DisconnectedOrderly ==
  ASSUME TypeInv, Orderly, RadioDisconnected, UNCHANGED <<plan, stale, state>>,
         \/ UNCHANGED switch
         \/ switch'.at = "halt" /\ switch.at # "rebuild"
  PROVE  Orderly'
<1>1. Required' = Required
  BY DEF Required
<1>2. CASE UNCHANGED <<engine, jobs>>
  BY <1>1, <1>2 DEF Orderly, JobAgrees, SwitchAtRest, Covered, Complete
<1>3. CASE engine = "running" /\ engine' = "stopping" /\ jobs'["engine"].op = "sidecar"
  BY <1>1, <1>3, DisconnectedJob DEF Orderly, JobAgrees, SwitchAtRest, Covered, Complete
<1> QED BY <1>2, <1>3, DisconnectedJob

LEMMA RebuildOrderly ==
  ASSUME TypeInv, Orderly, BeginRebuild, UNCHANGED <<plan, stale, state>>,
         engine = "idle", switch'.at = "rebuild"
  PROVE  Orderly'
<1>1. jobs["engine"].op = "none"
  BY NoJobType DEF Orderly, JobAgrees
<1> QED BY <1>1, RebuildJob DEF Orderly, JobAgrees, SwitchAtRest, Covered, Complete

(* A step that leaves the engine, the plan, the books and the jobs alone.  *)
LEMMA KeptOrderly ==
  ASSUME Orderly, UNCHANGED <<engine, plan, state, jobs, stale>>,
         \/ UNCHANGED switch
         \/ switch'.at \notin {"rebuild", "quiesce"} /\ switch.at # "rebuild"
  PROVE  Orderly'
<1>1. Required' = Required
  BY DEF Required
<1> QED BY <1>1 DEF Orderly, JobAgrees, SwitchAtRest, Covered, Complete

(* A step of the engine's stop or rollback, or of the switch's stop.       *)
LEMMA StoppingOrderly ==
  ASSUME TypeInv, Orderly, NEW p \in Procs, jobs[p].op \in {"rollback", "stop"},
         UNCHANGED <<engine, plan, switch>>, ~stale',
         \A q \in Procs : jobs'[q].op = jobs[q].op,
         \A q \in Procs : q # p => jobs'[q] = jobs[q]
  PROVE  Orderly'
<1>1. engine # "running"
  <2>1. CASE p = "engine"
    BY <2>1, NoJobType DEF Orderly, JobAgrees
  <2>2. CASE p = "switch"
    BY <2>2 DEF Orderly, SwitchAtRest
  <2> QED BY <2>1, <2>2 DEF Procs
<1>2. jobs["engine"].op # "start"
  <2>1. CASE p = "engine"
    BY <2>1
  <2>2. CASE p = "switch"
    BY <2>2, NoJobType DEF Orderly, SwitchAtRest, JobAgrees
  <2> QED BY <2>1, <2>2 DEF Procs
<1>3. engine = "idle" => p # "engine"
  BY NoJobType DEF Orderly, JobAgrees
<1>4. JobAgrees'
  BY <1>1, <1>3 DEF Orderly, JobAgrees, Procs
<1> QED BY <1>1, <1>2, <1>4 DEF Orderly, SwitchAtRest, Covered, Complete, Procs

LEMMA ActOrderly ==
  ASSUME TypeInv, Orderly, NEW s \in SwitchRecords, Act(s),
         s.seen = "idle" => engine = "idle", switch.at # "rebuild",
         UNCHANGED <<plan, state, stale>>
  PROVE  Orderly'
<1>1. s.seen \in EngineStates
  BY DEF SwitchRecords
<1>2. CASE s.seen = "starting"
  <2>1. Acts(s.seen) = "settle"
    BY <1>2 DEF Acts
  <2>2. UNCHANGED <<engine, jobs>> /\ switch'.at = "settle"
    BY <2>1 DEF Act, SwitchRecords
  <2> QED BY <2>2, KeptOrderly
<1>3. CASE s.seen \in {"running", "stopping"}
  <2>1. Acts(s.seen) = "halt"
    BY <1>3 DEF Acts
  <2>2. RadioDisconnected /\ switch'.at = "halt"
    BY <2>1 DEF Act, StopEngine, SwitchRecords
  <2> QED BY <2>2, DisconnectedOrderly
<1>4. CASE s.seen = "idle"
  <2>1. Acts(s.seen) = "rebuild"
    BY <1>4 DEF Acts
  <2>2. BeginRebuild /\ switch'.at = "rebuild"
    BY <2>1 DEF Act, SwitchRecords
  <2> QED BY <1>4, <2>2, RebuildOrderly
<1> QED BY <1>1, <1>2, <1>3, <1>4 DEF EngineStates

(* The steps of a start: the books and the rest of the job together still  *)
(* cover what the mode requires.                                           *)
LEMMA StartResourceOrderly ==
  ASSUME TypeInv, Orderly, StartResource
  PROVE  Orderly'
<1> DEFINE r == Current("engine")
           todo == jobs["engine"].todo
<1>1. /\ "engine" \in Procs /\ "switch" \in Procs
      /\ Ready("engine") /\ todo # <<>> /\ todo \in Seq(Resources)
      /\ jobs["engine"].op = "start"
      /\ Required' = Required
  BY DEF StartResource, Ready, Procs, TypeInv, TypeOK, Jobs, Required
<1>2. engine = "starting"
  BY <1>1, NoJobType DEF Orderly, JobAgrees, TypeInv, TypeOK, EngineStates
<1>3. CASE jobs' = [jobs EXCEPT !.engine = Rollback] /\ UNCHANGED <<state, link, stale>>
  <2>1. Rollback.op = "rollback"
    BY StopOrderType, JobType DEF Rollback, Ops
  <2>2. jobs'["engine"].op = "rollback" /\ jobs'["switch"] = jobs["switch"]
    BY <1>1, <1>3, <2>1 DEF TypeInv, TypeOK
  <2> QED BY <1>2, <1>3, <2>2 DEF StartResource, Orderly, JobAgrees, SwitchAtRest, Covered, Complete
<1>4. CASE state[r] = "running" /\ Advance("engine") /\ UNCHANGED <<state, link, stale>>
  <2>1. /\ jobs'["engine"].op = "start" /\ jobs'["engine"].todo = Tail(todo)
        /\ jobs'["switch"] = jobs["switch"]
    BY <1>1, <1>4, Advanced DEF Procs
  <2>2. Covered'
    BY <1>1, <1>4, <2>1, ToSetOfTail DEF Orderly, Covered, Current
  <2> QED BY <1>2, <1>4, <2>1, <2>2 DEF StartResource, Orderly, JobAgrees, SwitchAtRest, Complete
<1>5. CASE /\ Call(r, "engine")
           /\ state' = [state EXCEPT ![r] = "starting"]
           /\ stale' = FALSE
  <2>1. /\ jobs'["engine"].op = "start" /\ jobs'["engine"].todo = todo
        /\ jobs'["switch"] = jobs["switch"]
    BY <1>1, <1>5, Called DEF Procs
  <2>2. r \in ToSet(todo)
    <3>1. Len(todo) \in Nat /\ 1 \in 1 .. Len(todo) /\ Head(todo) = todo[1] /\ DOMAIN todo = 1 .. Len(todo)
      BY <1>1, HeadTailProperties, LenProperties, EmptySeq
    <3> QED BY <3>1 DEF Current, ToSet
  <2>3. \A x \in Required : x # r => state'[x] = state[x]
    BY <1>5, RequiredIsRegistered DEF TypeInv, TypeOK
  <2>4. Covered'
    BY <1>1, <2>1, <2>2, <2>3 DEF Orderly, Covered
  <2> QED BY <1>2, <1>5, <2>1, <2>4 DEF StartResource, Orderly, JobAgrees, SwitchAtRest, Complete
<1> QED BY <1>3, <1>4, <1>5 DEF StartResource

LEMMA ResourceStartedOrderly ==
  ASSUME TypeInv, Orderly, ResourceStarted
  PROVE  Orderly'
<1> DEFINE r == Current("engine")
           todo == jobs["engine"].todo
<1>1. /\ "engine" \in Procs /\ "switch" \in Procs
      /\ todo # <<>> /\ todo \in Seq(Resources)
      /\ jobs["engine"].op = "start"
      /\ Required' = Required
  BY DEF ResourceStarted, Procs, TypeInv, TypeOK, Awaited, Jobs, Required
<1>2. engine = "starting"
  BY <1>1, NoJobType DEF Orderly, JobAgrees, TypeInv, TypeOK, EngineStates
<1>3. /\ jobs'["engine"].op = "start" /\ jobs'["engine"].todo = Tail(todo)
      /\ jobs'["switch"] = jobs["switch"]
  BY <1>1, Advanced DEF ResourceStarted, Procs
<1>4. state' = [state EXCEPT ![r] = "running"]
  BY DEF ResourceStarted, Book, Orderly
<1>5. r \in Resources
  BY <1>1, Advanced DEF ResourceStarted
<1>6. state'[r] = "running" /\ \A x \in Required : x # r => state'[x] = state[x]
  BY <1>4, <1>5, RequiredIsRegistered DEF TypeInv, TypeOK
<1>7. Covered'
  BY <1>1, <1>3, <1>6, ToSetOfTail DEF Orderly, Covered, Current
<1> QED BY <1>2, <1>3, <1>7 DEF ResourceStarted, Orderly, JobAgrees, SwitchAtRest, Complete

LEMMA ResourceFailedOrderly ==
  ASSUME TypeInv, Orderly, ResourceFailed
  PROVE  Orderly'
<1> DEFINE r == Current("engine")
           todo == jobs["engine"].todo
<1>1. /\ "engine" \in Procs /\ "switch" \in Procs
      /\ todo # <<>> /\ todo \in Seq(Resources)
      /\ jobs["engine"].op = "start"
      /\ Required' = Required
  BY DEF ResourceFailed, TimesOut, Procs, TypeInv, TypeOK, Awaited, Jobs, Required
<1>2. engine = "starting"
  BY <1>1, NoJobType DEF Orderly, JobAgrees, TypeInv, TypeOK, EngineStates
<1>3. CASE ~(r \in Names(plan) /\ Optional(plan, r))
  <2>1. jobs' = [jobs EXCEPT !.engine = Rollback]
    BY <1>3 DEF ResourceFailed
  <2>2. Rollback.op = "rollback"
    BY StopOrderType, JobType DEF Rollback, Ops
  <2>3. jobs'["engine"].op = "rollback" /\ jobs'["switch"] = jobs["switch"]
    BY <1>1, <2>1, <2>2 DEF TypeInv, TypeOK
  <2> QED BY <1>2, <2>3 DEF ResourceFailed, Orderly, JobAgrees, SwitchAtRest, Covered, Complete
<1>4. CASE r \in Names(plan) /\ Optional(plan, r)
  <2>1. Advance("engine")
    BY <1>4 DEF ResourceFailed
  <2>2. /\ jobs'["engine"].op = "start" /\ jobs'["engine"].todo = Tail(todo)
        /\ jobs'["switch"] = jobs["switch"]
    BY <1>1, <2>1, Advanced DEF Procs
  <2>3. r \notin Required
    BY <1>4 DEF Required
  <2>4. \A x \in Required : state'[x] = state[x]
    BY <2>3, RequiredIsRegistered DEF ResourceFailed, Book, Orderly, TypeInv, TypeOK
  <2>5. Covered'
    BY <1>1, <2>2, <2>3, <2>4, ToSetOfTail DEF Orderly, Covered, Current
  <2> QED BY <1>2, <2>2, <2>5 DEF ResourceFailed, Orderly, JobAgrees, SwitchAtRest, Complete
<1> QED BY <1>3, <1>4

LEMMA EngineSettlesOrderly ==
  ASSUME TypeInv, Orderly, EngineSettles
  PROVE  Orderly'
<1>1. /\ jobs["engine"].todo = <<>>
      /\ jobs["engine"].op \in {"start", "rollback", "stop"}
      /\ jobs'["engine"] = NoJob /\ jobs'["switch"] = jobs["switch"]
      /\ Required' = Required
  BY DEF EngineSettles, Done, Procs, TypeInv, TypeOK, Required
<1>2. engine \in {"starting", "stopping"}
  BY <1>1, NoJobType DEF Orderly, JobAgrees, TypeInv, TypeOK, EngineStates
<1>3. ToSet(<<>>) = {}
  BY DEF ToSet
<1>4. engine' \in {"running", "idle"} /\ (engine' = "running" => jobs["engine"].op = "start")
  BY DEF EngineSettles, Outcome
<1>5. Complete'
  BY <1>1, <1>3, <1>4 DEF EngineSettles, Orderly, Covered, Complete
<1> QED BY <1>1, <1>2, <1>4, <1>5, NoJobType DEF EngineSettles, Orderly, JobAgrees, SwitchAtRest, Covered

LEMMA RebuiltOrderly ==
  ASSUME TypeInv, Orderly, Rebuilt
  PROVE  Orderly'
<1>1. engine = "idle" /\ jobs["engine"] = NoJob
  BY DEF Rebuilt, Orderly, SwitchAtRest, JobAgrees
<1>2. jobs'["switch"] = NoJob /\ jobs'["engine"] = NoJob
  BY <1>1 DEF Rebuilt, TypeInv, TypeOK, Procs
<1>3. ~stale'
  BY <1>1, NoJobType DEF Rebuilt
<1>4. switch'.at = "save"
  BY DEF Rebuilt, TypeInv, TypeOK
<1> QED BY <1>1, <1>2, <1>3, <1>4, NoJobType DEF Rebuilt, Orderly, JobAgrees, SwitchAtRest, Covered, Complete

(* Every step of an orderly station keeps the invariant.                   *)
LEMMA StepOrderly ==
  ASSUME TypeInv, Orderly, "overlap" \notin env, Step
  PROVE  Orderly'
<1>1. CASE UserStart
  <2>1. switch.at = "none"
    BY <1>1 DEF UserStart, MayStart
  <2> QED BY <1>1, <2>1, StartOrderly DEF UserStart
<1>2. CASE UserStop
  <2>1. RadioDisconnected
    BY <1>2 DEF UserStop, RadioDisconnected
  <2> QED BY <1>2, <2>1, DisconnectedOrderly DEF UserStop
<1>3. CASE SidecarStopped
  <2>1. Job("stop", StopOrder).op = "stop"
    BY StopOrderType, JobType DEF Ops
  <2>2. jobs'["engine"].op = "stop" /\ jobs'["switch"] = jobs["switch"]
    BY <1>3, <2>1 DEF SidecarStopped, TypeInv, TypeOK, Procs
  <2>3. engine = "stopping"
    BY <1>3, NoJobType DEF SidecarStopped, Orderly, JobAgrees, TypeInv, TypeOK, EngineStates
  <2> QED BY <1>3, <2>2, <2>3 DEF SidecarStopped, Orderly, JobAgrees, SwitchAtRest, Covered, Complete
<1>4. ASSUME NEW p \in Procs, StopResource(p) PROVE Orderly'
  <2>1. Ready(p) /\ jobs[p].todo # <<>> /\ jobs[p].op \in {"rollback", "stop"}
    BY <1>4 DEF StopResource, Ready
  <2>2. Advance(p) \/ Call(Current(p), p)
    BY <1>4 DEF StopResource
  <2>3. /\ \A q \in Procs : jobs'[q].op = jobs[q].op
        /\ \A q \in Procs : q # p => jobs'[q] = jobs[q]
    BY <2>1, <2>2, Advanced, Called
  <2>4. ~stale'
    BY <1>4 DEF StopResource, Orderly
  <2> QED BY <1>4, <2>1, <2>3, <2>4, StoppingOrderly DEF StopResource
<1>5. ASSUME NEW p \in Procs, ResourceStopped(p) \/ StopFailed(p) PROVE Orderly'
  <2>1. jobs[p].todo # <<>> /\ jobs[p].op \in {"rollback", "stop"} /\ Advance(p)
    BY <1>5 DEF ResourceStopped, StopFailed, TimesOut, TypeInv, Awaited
  <2>2. /\ \A q \in Procs : jobs'[q].op = jobs[q].op
        /\ \A q \in Procs : q # p => jobs'[q] = jobs[q]
    BY <2>1, Advanced
  <2> QED BY <1>5, <2>1, <2>2, StoppingOrderly DEF ResourceStopped, StopFailed, Orderly
<1>6. ASSUME NEW r \in Resources, LateStart(r) PROVE Orderly'
  BY <1>6, KeptOrderly DEF LateStart
<1>7. ASSUME NEW r \in Resources, LateStop(r) PROVE Orderly'
  <2>1. CASE RadioDisconnected
    BY <1>7, <2>1, DisconnectedOrderly DEF LateStop
  <2>2. CASE UNCHANGED <<engine, jobs>>
    BY <1>7, <2>2, KeptOrderly DEF LateStop
  <2> QED BY <1>7, <2>1, <2>2 DEF LateStop
<1>8. CASE LinkLost \/ LinkOff
  BY <1>8, DisconnectedOrderly DEF LinkLost, LinkOff
<1>9. CASE LinkBack
  BY <1>9, KeptOrderly DEF LinkBack
<1>10. CASE Restore
  <2>1. switch.at = "none"
    BY <1>10 DEF Restore, MayStart
  <2>2. CASE BeginStart
    BY <1>10, <2>1, <2>2, StartOrderly DEF Restore
  <2>3. CASE UNCHANGED <<engine, jobs, started>>
    BY <1>10, <2>3, KeptOrderly DEF Restore
  <2> QED BY <1>10, <2>2, <2>3 DEF Restore, Restart
<1>11. ASSUME NEW m \in Modes, SwitchBegin(m) PROVE Orderly'
  <2> DEFINE s == [at |-> "quiesce", to |-> m, seen |-> engine,
                   resume |-> engine \in {"running", "starting"}]
  <2>1. (engine \in {"running", "starting"}) \in BOOLEAN
    OBVIOUS
  <2>2. s \in SwitchRecords /\ s.seen = engine /\ s.at = "quiesce"
    BY <2>1 DEF SwitchRecords, TypeInv, TypeOK
  <2>3. /\ UNCHANGED <<plan, state, stale>> /\ switch.at = "none"
        /\ Act(s) \/ (switch' = s /\ UNCHANGED <<engine, jobs>>)
    BY <1>11 DEF SwitchBegin
  <2> HIDE DEF s
  <2>4. CASE Act(s)
    BY <2>2, <2>3, <2>4, ActOrderly
  <2>5. CASE switch' = s /\ UNCHANGED <<engine, jobs>>
    <3>1. Required' = Required
      BY <2>3 DEF Required
    <3> QED BY <2>2, <2>3, <2>5, <3>1 DEF Orderly, JobAgrees, SwitchAtRest, Covered, Complete
  <2> QED BY <2>3, <2>4, <2>5
<1>12. CASE SwitchActs
  <2>1. switch \in SwitchRecords
    BY DEF TypeInv, TypeOK, SwitchRecords
  <2>2. switch.at = "quiesce" /\ (switch.seen = "idle" => engine = "idle")
    BY <1>12 DEF SwitchActs, Orderly, SwitchAtRest
  <2> QED BY <1>12, <2>1, <2>2, ActOrderly DEF SwitchActs
<1>13. CASE SwitchSettled
  <2>1. CASE engine = "running"
    <3>1. switch'.at = "halt" /\ RadioDisconnected
      BY <1>13, <2>1 DEF SwitchSettled, StopEngine, TypeInv, TypeOK
    <3> QED BY <1>13, <3>1, DisconnectedOrderly DEF SwitchSettled
  <2>2. CASE engine # "running"
    <3>1. switch'.at = "rebuild" /\ BeginRebuild /\ engine = "idle"
      BY <1>13, <2>2 DEF SwitchSettled, TypeInv, TypeOK
    <3> QED BY <1>13, <3>1, RebuildOrderly DEF SwitchSettled
  <2> QED BY <2>1, <2>2
<1>14. CASE SwitchHalted
  <2>1. switch'.at = "rebuild"
    BY <1>14 DEF SwitchHalted, TypeInv, TypeOK
  <2> QED BY <1>14, <2>1, RebuildOrderly DEF SwitchHalted
<1>15. CASE SwitchResumes
  <2>1. switch.at = "save" /\ switch'.at \in {"resume", "none"}
    BY <1>15 DEF SwitchResumes, NoSwitch, TypeInv, TypeOK
  <2>2. CASE BeginStart
    BY <1>15, <2>1, <2>2, StartOrderly DEF SwitchResumes
  <2>3. CASE UNCHANGED <<engine, jobs, started>>
    BY <1>15, <2>1, <2>3, KeptOrderly DEF SwitchResumes
  <2> QED BY <1>15, <2>2, <2>3 DEF SwitchResumes
<1>16. CASE SwitchEnds \/ SwitchAborts
  <2>1. switch'.at = "none" /\ switch.at # "rebuild"
    BY <1>16 DEF SwitchEnds, SwitchAborts, NoSwitch, Target, TypeInv, TypeOK
  <2> QED BY <1>16, <2>1, KeptOrderly DEF SwitchEnds, SwitchAborts
<1> QED BY <1>1, <1>2, <1>3, <1>4, <1>5, <1>6, <1>7, <1>8, <1>9, <1>10, <1>11, <1>12, <1>13,
           <1>14, <1>15, <1>16, StartResourceOrderly, ResourceStartedOrderly,
           ResourceFailedOrderly, EngineSettlesOrderly, RebuiltOrderly
        DEF Step, Manager, Switching

LEMMA Inductive == Inv /\ [Next]_vars => Inv'
<1> SUFFICES ASSUME Inv, [Next]_vars PROVE Inv'
  OBVIOUS
<1>1. CASE Next
  BY <1>1, StepType, StepOrderly DEF Next, Inv
<1>2. CASE UNCHANGED vars
  <2>1. UNCHANGED <<env, engine, plan, state, jobs, stale, switch>>
    BY <1>2 DEF vars
  <2> QED BY <1>2, <2>1, StutterType, KeptOrderly DEF Inv
<1> QED BY <1>1, <1>2

(* For any modes, any plans of resources and any faults: unless it is      *)
(* started during a switch, a running engine has every required resource   *)
(* of its mode running.                                                    *)
THEOREM StartedMeansComplete == Spec => []RunningComplete
<1>1. Init => Inv
  BY InitType, InitOrderly DEF Inv
<1>2. Inv => RunningComplete
  BY DEF Inv, Orderly, Complete, RunningComplete
<1> QED BY <1>1, <1>2, Inductive, PTL DEF Spec

-----------------------------------------------------------------------------
(* Where no function outlives its timeout, none is hung or late.           *)
Steady == env \cap {"overlap", "hang"} = {}

NotHung == \A p \in Procs : jobs[p].waits # "hung"
NoHang == late = {} /\ NotHung

SteadyState == TypeInv /\ Orderly /\ NoHang /\ Steady

Op == jobs["engine"].op
ToStop == ToSet(jobs["engine"].todo)
LEMMA RadioIsResource == Radio \in Resources /\ \A m \in Modes : Radio \in Names(m)
BY PlanAssumption DEF Resources

LEMMA OpFacts ==
  ASSUME SteadyState
  PROVE  /\ "hang" \notin env /\ "overlap" \notin env
         /\ engine \in {"idle", "running"} <=> Op = "none"
         /\ engine = "starting" <=> Op \in {"start", "rollback"}
         /\ engine = "stopping" => Op \in {"sidecar", "stop"}
         /\ jobs["switch"].op # "none" => engine = "idle"
         /\ switch.at = "rebuild" => engine = "idle"
         /\ "engine" \in Procs /\ "switch" \in Procs /\ "engine" # "switch"
         /\ ~stale /\ NotHung /\ late = {} /\ TypeInv
BY NoJobType DEF SteadyState, Steady, Orderly, JobAgrees, SwitchAtRest, NoHang, Op,
                 Procs, TypeInv, TypeOK, EngineStates

(* No function hangs where none may.                                       *)
LEMMA NotHungSet ==
  ASSUME TypeInv, NotHung, NEW p \in Procs, NEW j, j.waits # "hung",
         jobs' = [jobs EXCEPT ![p] = j]
  PROVE  NotHung'
BY DEF TypeInv, TypeOK, NotHung

LEMMA NotHungAdvance ==
  ASSUME TypeInv, NotHung, NEW p \in Procs, Advance(p)
  PROVE  NotHung'
BY DEF TypeInv, TypeOK, Jobs, NotHung, Advance

LEMMA NotHungCall ==
  ASSUME TypeInv, NotHung, NEW p \in Procs, NEW r, Call(r, p), "hang" \notin env
  PROVE  NotHung'
<1>1. jobs' = [jobs EXCEPT ![p].waits = "yes"]
  BY DEF Call, MayHang
<1> QED BY <1>1 DEF TypeInv, TypeOK, Jobs, NotHung

LEMMA NotHungJob ==
  ASSUME TypeInv, NotHung
  PROVE  /\ UNCHANGED jobs => NotHung'
         /\ BeginStart => NotHung'
         /\ RadioDisconnected => NotHung'
         /\ BeginRebuild => NotHung'
         /\ jobs' = [jobs EXCEPT !.engine = Rollback] => NotHung'
         /\ jobs' = [jobs EXCEPT !.engine = Job("stop", StopOrder)] => NotHung'
         /\ \A p \in Procs : jobs' = [jobs EXCEPT ![p] = NoJob] => NotHung'
<1>1. /\ "engine" \in Procs /\ "switch" \in Procs
      /\ \A op, todo : Job(op, todo).waits = "no"
      /\ NoJob.waits = "no"
  BY DEF Procs, Job, NoJob
<1>2. UNCHANGED jobs => NotHung'
  BY DEF NotHung
<1>3. BeginStart => NotHung'
  BY <1>1, NotHungSet DEF BeginStart
<1>4. RadioDisconnected => NotHung'
  BY <1>1, <1>2, NotHungSet DEF RadioDisconnected, BeginStop
<1>5. BeginRebuild => NotHung'
  BY <1>1, NotHungSet DEF BeginRebuild
<1>6. jobs' = [jobs EXCEPT !.engine = Rollback] => NotHung'
  BY <1>1, NotHungSet DEF Rollback
<1>7. jobs' = [jobs EXCEPT !.engine = Job("stop", StopOrder)] => NotHung'
  BY <1>1, NotHungSet
<1>8. \A p \in Procs : jobs' = [jobs EXCEPT ![p] = NoJob] => NotHung'
  BY <1>1, NotHungSet
<1> QED BY <1>2, <1>3, <1>4, <1>5, <1>6, <1>7, <1>8

(* What a switch does to the engine when it acts and when it begins.       *)
LEMMA ActEffect ==
  ASSUME NEW s, s.seen \in EngineStates, Act(s)
  PROVE  RadioDisconnected \/ BeginRebuild \/ UNCHANGED <<engine, jobs>>
<1>1. CASE s.seen = "starting"
  <2>1. Acts(s.seen) = "settle"
    BY <1>1 DEF Acts
  <2> QED BY <2>1 DEF Act
<1>2. CASE s.seen \in {"running", "stopping"}
  <2>1. Acts(s.seen) = "halt"
    BY <1>2 DEF Acts
  <2> QED BY <2>1 DEF Act, StopEngine
<1>3. CASE s.seen = "idle"
  <2>1. Acts(s.seen) = "rebuild"
    BY <1>3 DEF Acts
  <2> QED BY <2>1 DEF Act
<1> QED BY <1>1, <1>2, <1>3 DEF EngineStates

LEMMA BeginEffect ==
  ASSUME TypeInv, NEW m \in Modes, SwitchBegin(m)
  PROVE  RadioDisconnected \/ BeginRebuild \/ UNCHANGED <<engine, jobs>>
<1> DEFINE s == [at |-> "quiesce", to |-> m, seen |-> engine,
                 resume |-> engine \in {"running", "starting"}]
<1>1. s.seen \in EngineStates
  BY DEF TypeInv, TypeOK
<1>2. Act(s) \/ UNCHANGED <<engine, jobs>>
  BY DEF SwitchBegin
<1> HIDE DEF s
<1> QED BY <1>1, <1>2, ActEffect

LEMMA NoHangStep == ASSUME SteadyState, Step PROVE NoHang'
<1>0. TypeInv /\ NotHung /\ late = {} /\ "hang" \notin env
      /\ "engine" \in Procs /\ "switch" \in Procs
  BY OpFacts DEF SteadyState
<1>1. CASE UserStart \/ UserStop \/ SidecarStopped
  <2>1. BeginStop /\ engine = "running" => RadioDisconnected
    BY DEF RadioDisconnected
  <2>2. NotHung'
    BY <1>0, <1>1, <2>1, NotHungJob DEF UserStart, UserStop, SidecarStopped
  <2>3. late' = late
    BY <1>1 DEF UserStart, UserStop, SidecarStopped
  <2> QED BY <1>0, <2>2, <2>3 DEF NoHang
<1>2. CASE EngineSettles \/ Rebuilt
  <2>1. NotHung'
    BY <1>0, <1>2, NotHungJob DEF EngineSettles, Rebuilt
  <2>2. late' = late
    BY <1>2 DEF EngineSettles, Rebuilt
  <2> QED BY <1>0, <2>1, <2>2 DEF NoHang
<1>3. CASE StartResource
  <2>1. NotHung'
    BY <1>0, <1>3, NotHungJob, NotHungAdvance, NotHungCall DEF StartResource
  <2>2. late' = late
    BY <1>3 DEF StartResource
  <2> QED BY <1>0, <2>1, <2>2 DEF NoHang
<1>4. CASE ResourceStarted
  BY <1>0, <1>4, NotHungAdvance DEF ResourceStarted, NoHang
<1>5. CASE ResourceFailed
  <2>1. ~TimesOut("engine")
    BY <1>0 DEF TimesOut, NotHung
  <2>2. late' = late
    BY <1>5, <2>1 DEF ResourceFailed
  <2>3. NotHung'
    BY <1>0, <1>5, NotHungJob, NotHungAdvance DEF ResourceFailed
  <2> QED BY <1>0, <2>2, <2>3 DEF NoHang
<1>6. ASSUME NEW p \in Procs, StopResource(p) PROVE NoHang'
  <2>1. NotHung'
    BY <1>0, <1>6, NotHungAdvance, NotHungCall DEF StopResource
  <2>2. late' = late
    BY <1>6 DEF StopResource
  <2> QED BY <1>0, <2>1, <2>2 DEF NoHang
<1>7. ASSUME NEW p \in Procs, ResourceStopped(p) \/ StopFailed(p) PROVE NoHang'
  <2>1. ~TimesOut(p)
    BY <1>0 DEF TimesOut, NotHung
  <2>2. late' = late
    BY <1>7, <2>1 DEF ResourceStopped, StopFailed
  <2>3. NotHung'
    BY <1>0, <1>7, NotHungAdvance DEF ResourceStopped, StopFailed
  <2> QED BY <1>0, <2>2, <2>3 DEF NoHang
<1>8. ~ \E r \in Resources : LateStart(r) \/ LateStop(r)
  BY <1>0 DEF LateStart, LateStop
<1>9. CASE LinkLost \/ LinkOff \/ LinkBack \/ Restore
  <2>1. NotHung'
    BY <1>0, <1>9, NotHungJob DEF LinkLost, LinkOff, LinkBack, Restore, Restart
  <2>2. late' = late
    BY <1>9 DEF LinkLost, LinkOff, LinkBack, Restore
  <2> QED BY <1>0, <2>1, <2>2 DEF NoHang
<1>11. ASSUME NEW m \in Modes, SwitchBegin(m) PROVE NoHang'
  <2>1. RadioDisconnected \/ BeginRebuild \/ UNCHANGED jobs
    BY <1>0, <1>11, BeginEffect
  <2>2. late' = late
    BY <1>11 DEF SwitchBegin
  <2> QED BY <1>0, <2>1, <2>2, NotHungJob DEF NoHang
<1>12. CASE SwitchActs
  <2>1. RadioDisconnected \/ BeginRebuild \/ UNCHANGED jobs
    BY <1>0, <1>12, ActEffect DEF SwitchActs, TypeInv, TypeOK
  <2>2. late' = late
    BY <1>12 DEF SwitchActs
  <2> QED BY <1>0, <2>1, <2>2, NotHungJob DEF NoHang
<1>13. CASE SwitchSettled \/ SwitchHalted \/ SwitchResumes \/ SwitchEnds \/ SwitchAborts
  <2>1. NotHung'
    BY <1>0, <1>13, NotHungJob
       DEF SwitchSettled, SwitchHalted, SwitchResumes, SwitchEnds, SwitchAborts, StopEngine
  <2>2. late' = late
    BY <1>13 DEF SwitchSettled, SwitchHalted, SwitchResumes, SwitchEnds, SwitchAborts
  <2> QED BY <1>0, <2>1, <2>2 DEF NoHang
<1> QED BY <1>1, <1>2, <1>3, <1>4, <1>5, <1>6, <1>7, <1>8, <1>9, <1>11, <1>12, <1>13
        DEF Step, Manager, Switching

-----------------------------------------------------------------------------
(* The radio.  Where it is not lost while the engine starts, a radio that  *)
(* the books call running is connected and will be stopped with the rest,  *)
(* or is about to be stopped.                                              *)
Calm == env \cap {"overlap", "early", "hang"} = {}

Booked ==
  state[Radio] = "running" =>
    \/ engine = "running" /\ link = "up" /\ Radio \in ToSet(started)
    \/ Op = "start" /\ link = "up" /\ Radio \in ToSet(started)
    \/ Op = "sidecar" /\ Radio \in ToSet(started)
    \/ Op \in {"rollback", "stop"} /\ Radio \in ToStop

RInv == Inv /\ (Steady => NoHang) /\ (Calm => Booked)

(* What is assumed of a state in the lemmas below, and what it says.       *)
CalmState == SteadyState /\ Calm /\ Booked

LEMMA CalmFacts ==
  ASSUME CalmState
  PROVE  /\ "hang" \notin env /\ "early" \notin env /\ "overlap" \notin env
         /\ engine \in {"idle", "running"} <=> Op = "none"
         /\ engine = "idle" => state[Radio] # "running"
         /\ engine = "starting" <=> Op \in {"start", "rollback"}
         /\ engine = "stopping" => Op \in {"sidecar", "stop"}
         /\ jobs["switch"].op # "none" => engine = "idle"
         /\ "engine" \in Procs /\ "switch" \in Procs /\ "engine" # "switch"
         /\ ~stale /\ NotHung /\ late = {} /\ Booked /\ TypeInv
BY OpFacts DEF CalmState, Calm, Booked

(* A radio the books do not call running needs nothing; otherwise the      *)
(* steps that leave the engine's job alone keep what is booked.            *)
LEMMA NotRunningBooked == ASSUME state'[Radio] # "running" PROVE Booked'
BY DEF Booked

LEMMA KeptBooked ==
  ASSUME CalmState, UNCHANGED <<engine, state, started>>, jobs'["engine"] = jobs["engine"],
         link' \in {link, "up"}
  PROVE  Booked'
BY CalmFacts DEF Booked, Op, ToStop

LEMMA BeginStartBooked ==
  ASSUME CalmState, engine = "idle", UNCHANGED state
  PROVE  Booked'
BY CalmFacts, NotRunningBooked

LEMMA DisconnectedBooked ==
  ASSUME CalmState, RadioDisconnected, UNCHANGED <<state, started>>,
         engine # "starting" \/ link' = link
  PROVE  Booked'
<1>1. CASE engine = "running"
  <2>1. state[Radio] = "running" => Radio \in ToSet(started)
    BY <1>1, CalmFacts DEF Booked
  <2>2. jobs'["engine"].op = "sidecar"
    BY <1>1, DisconnectedJob DEF CalmState, SteadyState
  <2> QED BY <2>1, <2>2 DEF Booked, Op
<1>2. CASE engine # "running"
  <2>1. UNCHANGED <<engine, jobs>>
    BY <1>2 DEF RadioDisconnected
  <2>2. CASE engine = "starting"
    BY <2>1, <2>2, KeptBooked
  <2>3. CASE engine # "starting"
    <3>1. state[Radio] = "running" =>
            \/ Op = "sidecar" /\ Radio \in ToSet(started)
            \/ Op \in {"rollback", "stop"} /\ Radio \in ToStop
      BY <1>2, <2>3, CalmFacts DEF Booked
    <3> QED BY <2>1, <3>1 DEF Booked, Op, ToStop
  <2> QED BY <2>2, <2>3
<1> QED BY <1>1, <1>2

LEMMA RebuildBooked ==
  ASSUME CalmState, BeginRebuild, UNCHANGED <<state, started, link>>
  PROVE  Booked'
BY RebuildJob, KeptBooked DEF CalmState, SteadyState

LEMMA ReverseSet ==
  ASSUME NEW S, NEW s \in Seq(S), NEW x \in ToSet(s)
  PROVE  x \in ToSet(Reverse(s))
<1>1. Len(s) \in Nat /\ DOMAIN s = 1 .. Len(s)
  BY LenProperties
<1>2. PICK i \in 1 .. Len(s) : x = s[i]
  BY <1>1 DEF ToSet
<1>3. /\ (Len(s) - i) + 1 \in 1 .. Len(s)
      /\ (Len(s) - ((Len(s) - i) + 1)) + 1 = i
  BY <1>1
<1>4. Reverse(s)[(Len(s) - i) + 1] = s[i]
  BY <1>3 DEF Reverse
<1>5. DOMAIN Reverse(s) = 1 .. Len(s)
  BY DEF Reverse
<1> QED BY <1>2, <1>3, <1>4, <1>5 DEF ToSet

(* A job that stops what was started.                                      *)
LEMMA StopAllBooked ==
  ASSUME CalmState, state[Radio] = "running" => Radio \in ToSet(started), UNCHANGED state,
         NEW op \in {"rollback", "stop"}, jobs' = [jobs EXCEPT !.engine = Job(op, StopOrder)]
  PROVE  Booked'
<1>1. Radio \in ToSet(started) => Radio \in ToSet(StopOrder)
  BY ReverseSet DEF StopOrder, CalmState, SteadyState, TypeInv, TypeOK
<1>2. jobs'["engine"].op = op /\ jobs'["engine"].todo = StopOrder
  BY CalmFacts DEF CalmState, SteadyState, TypeInv, TypeOK, Job
<1> QED BY <1>1, <1>2 DEF Booked, Op, ToStop

LEMMA SettlesBooked == ASSUME CalmState, EngineSettles PROVE Booked'
<1>1. Op \in {"start", "rollback", "stop"} /\ ToStop = {}
  BY DEF EngineSettles, Done, Op, ToStop, ToSet
<1>2. CASE Op = "start"
  <2>1. state[Radio] = "running" => link = "up" /\ Radio \in ToSet(started)
    BY <1>2, CalmFacts DEF Booked
  <2>2. engine' = "running" /\ UNCHANGED <<state, started, link>>
    BY <1>2 DEF EngineSettles, Outcome, Op
  <2> QED BY <2>1, <2>2 DEF Booked
<1>3. CASE Op # "start"
  <2>1. state[Radio] # "running"
    BY <1>1, <1>3, CalmFacts DEF Booked
  <2> QED BY <2>1, NotRunningBooked DEF EngineSettles
<1> QED BY <1>2, <1>3

LEMMA StartResourceBooked == ASSUME CalmState, StartResource PROVE Booked'
<1> DEFINE r == Current("engine")
<1>1. /\ Op = "start" /\ Ready("engine") /\ UNCHANGED <<engine, started>>
      /\ state[Radio] = "running" => link = "up" /\ Radio \in ToSet(started)
  BY CalmFacts DEF StartResource, Op, Booked
<1>2. CASE jobs' = [jobs EXCEPT !.engine = Rollback] /\ UNCHANGED <<state, link, stale>>
  BY <1>1, <1>2, StopAllBooked DEF Rollback
<1>3. CASE Advance("engine") /\ UNCHANGED <<state, link, stale>>
  <2>1. jobs'["engine"].op = "start"
    BY <1>1, <1>3, CalmFacts, Advanced DEF CalmState, SteadyState, Op, Ready
  <2> QED BY <1>1, <1>3, <2>1 DEF Booked, Op
<1>4. CASE /\ Call(r, "engine")
           /\ state' = [state EXCEPT ![r] = "starting"]
           /\ link' = IF r = Radio /\ link # "up" THEN "off" ELSE link
  <2>1. jobs'["engine"].op = "start"
    BY <1>1, <1>4, CalmFacts, Called DEF CalmState, SteadyState, Op
  <2>2. CASE r = Radio
    BY <1>4, <2>2, RadioIsResource, NotRunningBooked DEF CalmState, SteadyState, TypeInv, TypeOK
  <2>3. CASE r # Radio
    BY <1>1, <1>4, <2>1, <2>3, RadioIsResource DEF CalmState, SteadyState, TypeInv, TypeOK, Booked, Op
  <2> QED BY <2>2, <2>3
<1> QED BY <1>2, <1>3, <1>4 DEF StartResource

LEMMA ResourceStartedBooked == ASSUME CalmState, ResourceStarted PROVE Booked'
<1> DEFINE r == Current("engine")
<1>1. /\ Op = "start" /\ UNCHANGED engine /\ jobs["engine"].todo # <<>>
      /\ started' = Append(started, r)
      /\ link' = IF r = Radio THEN "up" ELSE link
      /\ state' = [state EXCEPT ![r] = "running"]
      /\ state[Radio] = "running" => link = "up" /\ Radio \in ToSet(started)
  BY CalmFacts DEF ResourceStarted, Op, Booked, Book, CalmState, SteadyState, TypeInv, Awaited
<1>2. jobs'["engine"].op = "start" /\ r \in Resources
  BY <1>1, CalmFacts, Advanced DEF ResourceStarted, CalmState, SteadyState, Op
<1>3. ToSet(started') = ToSet(started) \cup {r}
  <2>1. /\ started \in Seq(Resources) /\ Len(started) \in Nat
        /\ DOMAIN started = 1 .. Len(started)
        /\ started' \in Seq(Resources) /\ Len(started') = Len(started) + 1
        /\ DOMAIN started' = 1 .. Len(started')
        /\ \A i \in 1 .. Len(started) : started'[i] = started[i]
        /\ started'[Len(started) + 1] = r
    BY <1>1, <1>2, AppendProperties, LenProperties DEF CalmState, SteadyState, TypeInv, TypeOK
  <2> QED BY <2>1 DEF ToSet
<1>4. CASE r = Radio
  BY <1>1, <1>2, <1>3, <1>4 DEF Booked, Op
<1>5. CASE r # Radio
  BY <1>1, <1>2, <1>3, <1>5, RadioIsResource DEF CalmState, SteadyState, TypeInv, TypeOK, Booked, Op
<1> QED BY <1>4, <1>5

LEMMA ResourceFailedBooked == ASSUME CalmState, ResourceFailed PROVE Booked'
<1> DEFINE r == Current("engine")
<1>1. /\ Op = "start" /\ jobs["engine"].todo # <<>> /\ UNCHANGED <<engine, started, link>>
      /\ state' = [state EXCEPT ![r] = "error"]
      /\ state[Radio] = "running" => link = "up" /\ Radio \in ToSet(started)
  BY CalmFacts DEF ResourceFailed, TimesOut, Op, Booked, Book, CalmState, SteadyState, TypeInv, Awaited
<1>2. CASE r = Radio
  BY <1>1, <1>2, RadioIsResource, NotRunningBooked DEF CalmState, SteadyState, TypeInv, TypeOK
<1>3. CASE r # Radio
  <2>1. state'[Radio] = state[Radio]
    BY <1>1, <1>3 DEF CalmState, SteadyState, TypeInv, TypeOK
  <2>2. CASE Advance("engine")
    <3>1. jobs'["engine"].op = "start"
      BY <1>1, <2>2, CalmFacts, Advanced DEF CalmState, SteadyState, Op
    <3> QED BY <1>1, <2>1, <3>1 DEF Booked, Op
  <2>3. CASE jobs' = [jobs EXCEPT !.engine = Rollback]
    <3>1. Radio \in ToSet(started) => Radio \in ToSet(StopOrder)
      BY ReverseSet DEF StopOrder, CalmState, SteadyState, TypeInv, TypeOK
    <3>2. jobs'["engine"].op = "rollback" /\ jobs'["engine"].todo = StopOrder
      BY <2>3, CalmFacts DEF Rollback, CalmState, SteadyState, TypeInv, TypeOK, Job
    <3> QED BY <1>1, <2>1, <3>1, <3>2 DEF Booked, Op, ToStop
  <2> QED BY <2>2, <2>3 DEF ResourceFailed
<1> QED BY <1>2, <1>3

(* A step of a stop or a rollback at the head of its job, for the engine   *)
(* or for a switch, which finds the engine at rest.                        *)
LEMMA StoppingBooked ==
  ASSUME CalmState, NEW p \in Procs, jobs[p].op \in {"rollback", "stop"}, jobs[p].todo # <<>>,
         state'[Radio] = "running" => state[Radio] = "running",
         p = "engine" /\ Current(p) = Radio => state'[Radio] # "running",
         \/ Advance(p)
         \/ jobs'[p].op = jobs[p].op /\ jobs'[p].todo = jobs[p].todo
  PROVE  Booked'
<1>1. CASE p = "switch"
  BY <1>1, CalmFacts, NotRunningBooked
<1>2. CASE p = "engine"
  <2>1. SUFFICES ASSUME state[Radio] = "running", Current(p) # Radio PROVE Booked'
    BY <1>2, NotRunningBooked
  <2>2. Radio \in ToStop
    BY <1>2, <2>1, CalmFacts DEF Booked, Op
  <2>3. jobs["engine"].todo \in Seq(Resources)
    BY CalmFacts DEF CalmState, SteadyState, TypeInv, TypeOK, Jobs
  <2>4. Radio \in ToSet(Tail(jobs["engine"].todo))
    BY <1>2, <2>1, <2>2, <2>3, ToSetOfTail DEF ToStop, Current
  <2>5. jobs'[p].op = jobs[p].op /\ jobs'[p].todo \in {jobs[p].todo, Tail(jobs[p].todo)}
    BY Advanced DEF CalmState, SteadyState
  <2> QED BY <1>2, <2>2, <2>4, <2>5 DEF Booked, Op, ToStop
<1> QED BY <1>1, <1>2 DEF Procs

LEMMA StopResourceBooked == ASSUME CalmState, NEW p \in Procs, StopResource(p) PROVE Booked'
<1> DEFINE r == Current(p)
<1>1. /\ Ready(p) /\ jobs[p].todo # <<>> /\ jobs[p].op \in {"rollback", "stop"}
  BY DEF StopResource, Ready
<1>2. CASE StopSkipped(r) /\ Advance(p) /\ UNCHANGED state
  <2>1. r = Radio => state[Radio] # "running"
    BY <1>2, RadioIsResource DEF StopSkipped, CalmState, SteadyState, TypeInv, TypeOK
  <2> QED BY <1>1, <1>2, <2>1, StoppingBooked
<1>3. CASE /\ Advance(p) \/ Call(r, p)
           /\ state' = [state EXCEPT ![r] = IF Preserve(r) THEN "stopped" ELSE "stopping"]
  <2>1. /\ r = Radio => state'[Radio] # "running"
        /\ state'[Radio] = "running" => state[Radio] = "running"
    BY <1>3, RadioIsResource DEF CalmState, SteadyState, TypeInv, TypeOK
  <2>2. \/ Advance(p)
        \/ jobs'[p].op = jobs[p].op /\ jobs'[p].todo = jobs[p].todo
    BY <1>1, <1>3, Called DEF CalmState, SteadyState
  <2> QED BY <1>1, <2>1, <2>2, StoppingBooked
<1> QED BY <1>2, <1>3 DEF StopResource

LEMMA StopDoneBooked ==
  ASSUME CalmState, NEW p \in Procs, ResourceStopped(p) \/ StopFailed(p) PROVE Booked'
<1> DEFINE r == Current(p)
<1>1. /\ jobs[p].todo # <<>> /\ jobs[p].op \in {"rollback", "stop"} /\ Advance(p)
  BY DEF ResourceStopped, StopFailed, TimesOut, CalmState, SteadyState, TypeInv, Awaited
<1>2. \E s \in {"stopped", "error"} : state' = [state EXCEPT ![r] = s]
  BY CalmFacts DEF ResourceStopped, StopFailed, Book
<1>3. /\ r = Radio => state'[Radio] # "running"
      /\ state'[Radio] = "running" => state[Radio] = "running"
  BY <1>2, RadioIsResource DEF CalmState, SteadyState, TypeInv, TypeOK
<1> QED BY <1>1, <1>3, StoppingBooked

LEMMA BookedStep == ASSUME CalmState, Step PROVE Booked'
<1>1. CASE UserStart
  BY <1>1, BeginStartBooked DEF UserStart
<1>2. CASE UserStop
  BY <1>2, DisconnectedBooked DEF UserStop, RadioDisconnected
<1>3. CASE SidecarStopped
  BY <1>3, CalmFacts, StopAllBooked DEF SidecarStopped, Booked, Op
<1>4. CASE LinkLost \/ LinkOff
  BY <1>4, CalmFacts, DisconnectedBooked DEF LinkLost, LinkOff, May
<1>5. CASE LinkBack
  BY <1>5, KeptBooked DEF LinkBack
<1>6. CASE Restore
  <2>1. CASE engine = "idle"
    BY <1>6, <2>1, BeginStartBooked DEF Restore
  <2>2. CASE engine # "idle"
    BY <1>6, <2>2, KeptBooked DEF Restore, Restart
  <2> QED BY <2>1, <2>2
<1>7. ASSUME RadioDisconnected \/ BeginRebuild \/ UNCHANGED <<engine, jobs>>,
             UNCHANGED <<state, started, link>>
      PROVE  Booked'
  BY <1>7, DisconnectedBooked, RebuildBooked, KeptBooked
<1>8. ASSUME NEW m \in Modes, SwitchBegin(m) PROVE Booked'
  <2>1. UNCHANGED <<state, started, link>>
    BY <1>8 DEF SwitchBegin
  <2> QED BY <1>7, <1>8, <2>1, BeginEffect DEF CalmState, SteadyState
<1>9. CASE SwitchActs
  <2>1. UNCHANGED <<state, started, link>> /\ Act(switch)
    BY <1>9 DEF SwitchActs
  <2> QED BY <1>7, <2>1, ActEffect DEF CalmState, SteadyState, TypeInv, TypeOK
<1>10. CASE SwitchSettled
  <2>1. RadioDisconnected \/ BeginRebuild
    BY <1>10 DEF SwitchSettled, StopEngine
  <2>2. UNCHANGED <<state, started, link>>
    BY <1>10 DEF SwitchSettled
  <2> QED BY <1>7, <2>1, <2>2
<1>11. CASE SwitchHalted
  BY <1>11, RebuildBooked DEF SwitchHalted
<1>12. CASE Rebuilt
  <2>1. state'[Radio] = "idle"
    BY <1>12, RadioIsResource DEF Rebuilt
  <2> QED BY <2>1, NotRunningBooked
<1>13. CASE SwitchResumes
  <2>1. CASE engine = "idle"
    BY <1>13, <2>1, BeginStartBooked DEF SwitchResumes
  <2>2. CASE engine # "idle"
    BY <1>13, <2>2, KeptBooked DEF SwitchResumes
  <2> QED BY <2>1, <2>2
<1>14. CASE SwitchEnds \/ SwitchAborts
  BY <1>14, KeptBooked DEF SwitchEnds, SwitchAborts
<1>15. ~ \E r \in Resources : LateStart(r) \/ LateStop(r)
  BY CalmFacts DEF LateStart, LateStop
<1> QED BY <1>1, <1>2, <1>3, <1>4, <1>5, <1>6, <1>8, <1>9, <1>10, <1>11, <1>12, <1>13,
           <1>14, <1>15, SettlesBooked, StartResourceBooked, ResourceStartedBooked,
           ResourceFailedBooked, StopResourceBooked, StopDoneBooked
        DEF Step, Manager, Switching

LEMMA RadioInductive == RInv /\ [Next]_vars => RInv'
<1> SUFFICES ASSUME RInv, [Next]_vars PROVE RInv'
  OBVIOUS
<1>1. Inv' /\ env' = env
  BY Inductive DEF RInv, Next, vars
<1>2. Steady' = Steady /\ Calm' = Calm /\ (Calm => Steady)
  BY <1>1 DEF Steady, Calm
<1>3. Steady => SteadyState
  BY DEF SteadyState, Steady, RInv, Inv
<1>4. Steady => NoHang'
  <2>1. CASE Next
    BY <1>3, <2>1, NoHangStep DEF Next
  <2>2. CASE UNCHANGED vars
    <3>1. UNCHANGED <<late, jobs>>
      BY <2>2 DEF vars
    <3> QED BY <1>3, <3>1 DEF SteadyState, NoHang, NotHung
  <2> QED BY <2>1, <2>2
<1>5. Calm => Booked'
  <2>1. Calm => CalmState
    BY <1>2, <1>3 DEF CalmState, RInv
  <2>2. CASE Next
    BY <2>1, <2>2, BookedStep DEF Next
  <2>3. CASE UNCHANGED vars
    <3>1. UNCHANGED <<engine, state, started, link, jobs>>
      BY <2>3 DEF vars
    <3> QED BY <2>1, <3>1, KeptBooked
  <2> QED BY <2>2, <2>3
<1> QED BY <1>1, <1>2, <1>4, <1>5 DEF RInv

LEMMA RadioInit == Init => RInv
<1> SUFFICES ASSUME Init PROVE RInv
  OBVIOUS
<1>1. NoHang
  BY NoJobType DEF Init, NoHang, NotHung
<1>2. state[Radio] = "idle"
  BY RadioIsResource DEF Init
<1> QED BY <1>1, <1>2, InitType, InitOrderly DEF RInv, Inv, Booked

(* Where no function outlives its timeout, the engine is not started       *)
(* during a switch and the radio is not lost before the engine runs: an    *)
(* engine whose mode needs the radio never runs without it.                *)
THEOREM NeverWithoutRadio == Spec => []RunningHasRadio
<1>1. RInv => RunningHasRadio
  <2> SUFFICES ASSUME RInv, Calm, engine = "running", Radio \in Required PROVE link = "up"
    BY DEF RunningHasRadio, Calm
  <2>1. CalmState
    BY DEF CalmState, SteadyState, Steady, Calm, RInv, Inv
  <2>2. state[Radio] = "running"
    BY <2>1 DEF CalmState, SteadyState, Orderly, Complete
  <2> QED BY <2>1, <2>2, CalmFacts DEF Booked
<1> QED BY <1>1, RadioInit, RadioInductive, PTL DEF Spec

-----------------------------------------------------------------------------
(* What is up.  Where besides no stop fails, the books and the resources   *)
(* agree, what is live is booked to be stopped, and it was started after   *)
(* and will be stopped before what it depends on.                          *)
Tidy == env \cap {"overlap", "jam", "hang"} = {}

Live == up \cup {r \in Resources : state[r] = "running"}
Placed ==
  IF Op \in {"rollback", "stop"} THEN ToStop
  ELSE IF engine = "idle" THEN {} ELSE ToSet(started)

Distinct(s) == \A i, j \in 1 .. Len(s) : s[i] = s[j] => i = j
StartChain(s) ==
  /\ Distinct(s)
  /\ \A i \in 1 .. Len(s) : \A d \in Deps(plan, s[i]) \ {Radio} : \E j \in 1 .. i - 1 : s[j] = d
StopChain(s) ==
  /\ Distinct(s)
  /\ \A i \in 1 .. Len(s) : \A d \in Deps(plan, s[i]) \ {Radio} : \E j \in i + 1 .. Len(s) : s[j] = d

(* What a start has yet to do, and why the resource it awaits may start.   *)
Unstarted ==
  LET todo == jobs["engine"].todo
  IN  /\ Distinct(todo)
      /\ ToSet(todo) \cap ToSet(started) = {}
      /\ ToSet(todo) \subseteq Names(plan)
      /\ jobs["engine"].waits # "no" => \A d \in Deps(plan, Head(todo)) : state[d] = "running"

UpStates ==
  /\ Radio \notin up
  /\ \A r \in Resources \ {Radio} : state[r] = "running" => r \in up
  /\ \A r \in up : state[r] \in {"running", "stopping"}
UpInv ==
  /\ Live \subseteq Placed \cap Names(plan)
  /\ UpStates
  /\ \A r \in up : Deps(plan, r) \ {Radio} \subseteq up
  /\ Op \in {"rollback", "stop"} => StopChain(jobs["engine"].todo)
  /\ Op \in {"none", "start", "sidecar"} /\ engine # "idle" => StartChain(started)
  /\ Op = "start" => Unstarted

TidyState == SteadyState /\ Tidy /\ UpInv

LEMMA SeqFacts ==
  ASSUME NEW S, NEW s \in Seq(S)
  PROVE  /\ Len(s) \in Nat /\ DOMAIN s = 1 .. Len(s)
         /\ ToSet(s) = {s[i] : i \in 1 .. Len(s)}
         /\ ToSet(s) \subseteq S
         /\ s # <<>> => /\ Head(s) = s[1] /\ Tail(s) \in Seq(S) /\ Len(s) \in Nat \ {0}
                        /\ Len(Tail(s)) = Len(s) - 1
                        /\ \A i \in 1 .. Len(Tail(s)) : Tail(s)[i] = s[i + 1]
<1>1. Len(s) \in Nat /\ DOMAIN s = 1 .. Len(s) /\ \A i \in 1 .. Len(s) : s[i] \in S
  BY LenProperties, ElementOfSeq
<1>2. ToSet(s) = {s[i] : i \in 1 .. Len(s)}
  BY <1>1 DEF ToSet
<1>3. s # <<>> => /\ Head(s) = s[1] /\ Tail(s) \in Seq(S) /\ Len(s) \in Nat \ {0}
                  /\ Len(Tail(s)) = Len(s) - 1
                  /\ \A i \in 1 .. Len(Tail(s)) : Tail(s)[i] = s[i + 1]
  BY <1>1, HeadTailProperties, EmptySeq
<1> QED BY <1>1, <1>2, <1>3

(* The oldest of a list of distinct resources is not in the rest of it.    *)
LEMMA TailDistinct ==
  ASSUME NEW S, NEW s \in Seq(S), s # <<>>, Distinct(s)
  PROVE  /\ Distinct(Tail(s))
         /\ Head(s) \in ToSet(s)
         /\ ToSet(Tail(s)) = ToSet(s) \ {Head(s)}
<1>1. /\ Len(s) \in Nat \ {0} /\ ToSet(s) = {s[i] : i \in 1 .. Len(s)}
      /\ Head(s) = s[1] /\ Tail(s) \in Seq(S) /\ Len(Tail(s)) = Len(s) - 1
      /\ \A i \in 1 .. Len(Tail(s)) : Tail(s)[i] = s[i + 1]
  BY SeqFacts
<1>2. ToSet(Tail(s)) = {Tail(s)[i] : i \in 1 .. Len(Tail(s))}
  BY <1>1, SeqFacts
<1> DEFINE t == Tail(s)
<1> HIDE DEF t
<1>3. Distinct(t)
  BY <1>1 DEF Distinct, t
<1>4. ASSUME NEW x \in ToSet(t) PROVE x \in ToSet(s) \ {Head(s)}
  <2>1. PICK i \in 1 .. Len(t) : x = t[i]
    BY <1>2 DEF t
  <2>2. x = s[i + 1] /\ i + 1 \in 1 .. Len(s) /\ i + 1 # 1 /\ 1 \in 1 .. Len(s)
    BY <1>1, <2>1 DEF t
  <2> QED BY <1>1, <2>2 DEF Distinct
<1>5. ASSUME NEW x \in ToSet(s), x # Head(s) PROVE x \in ToSet(t)
  BY <1>5, ToSetOfTail DEF t
<1>6. Head(s) \in ToSet(s)
  BY <1>1
<1> QED BY <1>3, <1>4, <1>5, <1>6 DEF t

LEMMA TailStopChain ==
  ASSUME NEW S, NEW s \in Seq(S), s # <<>>, StopChain(s)
  PROVE  StopChain(Tail(s))
<1> DEFINE t == Tail(s)
<1>1. /\ Len(s) \in Nat \ {0} /\ Len(t) = Len(s) - 1
      /\ \A i \in 1 .. Len(t) : t[i] = s[i + 1]
  BY SeqFacts
<1>2. Distinct(t)
  BY TailDistinct DEF StopChain
<1> HIDE DEF t
<1>3. ASSUME NEW i \in 1 .. Len(t), NEW d \in Deps(plan, t[i]) \ {Radio}
      PROVE  \E j \in i + 1 .. Len(t) : t[j] = d
  <2>1. i + 1 \in 1 .. Len(s) /\ t[i] = s[i + 1]
    BY <1>1
  <2>2. PICK j \in (i + 1) + 1 .. Len(s) : s[j] = d
    BY <1>3, <2>1 DEF StopChain
  <2>3. j - 1 \in i + 1 .. Len(t) /\ t[j - 1] = s[j]
    BY <1>1, <2>2
  <2> QED BY <2>2, <2>3
<1> QED BY <1>2, <1>3 DEF StopChain, t

(* Stopped in reverse, a resource goes before what it depends on.          *)
LEMMA ReverseChain ==
  ASSUME NEW S, NEW s \in Seq(S), StartChain(s)
  PROVE  StopChain(Reverse(s))
<1> DEFINE t == Reverse(s)
           n == Len(s)
<1>1. n \in Nat
  BY SeqFacts
<1>2. t \in Seq(S) /\ \A i \in 1 .. n : t[i] = s[(n - i) + 1]
  BY ReverseType DEF Reverse
<1>3. Len(t) = n
  <2>1. DOMAIN t = 1 .. n /\ DOMAIN t = 1 .. Len(t) /\ Len(t) \in Nat
    BY <1>2, SeqFacts DEF Reverse
  <2> QED BY <1>1, <2>1
<1> HIDE DEF t, n
<1>4. Distinct(t)
  <2> SUFFICES ASSUME NEW i \in 1 .. n, NEW j \in 1 .. n, t[i] = t[j] PROVE i = j
    BY <1>3 DEF Distinct
  <2>1. (n - i) + 1 \in 1 .. n /\ (n - j) + 1 \in 1 .. n
    BY <1>1
  <2>2. s[(n - i) + 1] = s[(n - j) + 1]
    BY <1>2
  <2>3. (n - i) + 1 = (n - j) + 1
    BY <2>1, <2>2, Zenon DEF StartChain, Distinct, n
  <2> QED BY <1>1, <2>3
<1>5. ASSUME NEW i \in 1 .. n, NEW d \in Deps(plan, t[i]) \ {Radio}
      PROVE  \E j \in i + 1 .. n : t[j] = d
  <2>1. (n - i) + 1 \in 1 .. n /\ t[i] = s[(n - i) + 1]
    BY <1>1, <1>2
  <2>2. PICK k \in 1 .. ((n - i) + 1) - 1 : s[k] = d
    BY <1>5, <2>1 DEF StartChain, n
  <2>3. (n - k) + 1 \in i + 1 .. n /\ (n - ((n - k) + 1)) + 1 = k
    BY <1>1, <2>2
  <2>4. t[(n - k) + 1] = s[k]
    BY <1>1, <1>2, <2>3
  <2> QED BY <2>2, <2>3, <2>4
<1> QED BY <1>3, <1>4, <1>5 DEF StopChain, t

LEMMA TidyFacts ==
  ASSUME TidyState
  PROVE  /\ engine \in {"idle", "running"} <=> Op = "none"
         /\ engine = "starting" <=> Op \in {"start", "rollback"}
         /\ engine = "stopping" => Op \in {"sidecar", "stop"}
         /\ engine = "idle" => Live = {}
         /\ jobs["switch"].op # "none" => engine = "idle"
         /\ "engine" \in Procs /\ "switch" \in Procs /\ "engine" # "switch"
         /\ ~stale /\ NotHung /\ late = {} /\ "jam" \notin env /\ TypeInv /\ UpInv
         /\ started \in Seq(Resources) /\ jobs["engine"].todo \in Seq(Resources)
         /\ jobs["engine"].waits # "no" => jobs["engine"].todo # <<>>
         /\ state \in [Resources -> ResourceStates] /\ up \subseteq Resources
         /\ plan \in Modes
<1>1. "jam" \notin env /\ UpInv /\ SteadyState
  BY DEF TidyState, Tidy
<1>2. engine = "idle" => Live = {}
  BY <1>1, OpFacts DEF UpInv, Placed
<1> QED BY <1>1, <1>2, OpFacts DEF TypeInv, TypeOK, Jobs, Awaited

(* The engine at rest with nothing live, and the steps that leave the      *)
(* engine's job and what is live alone.                                    *)
LEMMA RestUp ==
  ASSUME engine' = "idle", Op' = "none", Live' = {}
  PROVE  UpInv'
BY DEF UpInv, UpStates, Live

LEMMA KeptUp ==
  ASSUME UpInv, UNCHANGED <<engine, plan, state, started, up>>, jobs'["engine"] = jobs["engine"]
  PROVE  UpInv'
<1>1. Op' = Op /\ ToStop' = ToStop
  BY DEF Op, ToStop
<1>2. Live' = Live /\ Placed' = Placed
  BY <1>1 DEF Live, Placed
<1>3. StartChain(started)' <=> StartChain(started)
  BY DEF StartChain
<1>4. StopChain(jobs["engine"].todo)' <=> StopChain(jobs["engine"].todo)
  BY DEF StopChain
<1> QED BY <1>1, <1>2, <1>3, <1>4 DEF UpInv, UpStates, Unstarted

LEMMA BeginStartUp ==
  ASSUME TidyState, engine = "idle", BeginStart, UNCHANGED <<plan, state, up>>
  PROVE  UpInv'
<1>1. /\ engine' = "starting" /\ started' = <<>>
      /\ jobs'["engine"] = Job("start", StartOrder[plan])
  BY TidyFacts DEF BeginStart, TypeInv, TypeOK
<1>2. /\ Op' = "start" /\ jobs'["engine"].todo = StartOrder[plan]
      /\ jobs'["engine"].waits = "no"
  BY <1>1 DEF Op, Job
<1>3. Live = {} /\ Live' = Live
  BY TidyFacts DEF Live
<1>4. StartChain(started)'
  <2>1. Len(started') = 0
    BY <1>1
  <2> QED BY <2>1 DEF StartChain, Distinct
<1>5. Unstarted'
  <2> DEFINE o == StartOrder[plan]
  <2>1. o \in Seq(Names(plan)) /\ ToSet(o) = Names(plan) /\ IsInjective(o)
    BY OrderFacts, TidyFacts
  <2>2. DOMAIN o = 1 .. Len(o)
    BY <2>1, SeqFacts
  <2>3. Distinct(o)
    BY <2>1, <2>2 DEF IsInjective, Distinct
  <2>4. ToSet(started') = {}
    BY <1>1 DEF ToSet
  <2> QED BY <1>2, <2>1, <2>3, <2>4 DEF Unstarted
<1> QED BY <1>2, <1>3, <1>4, <1>5 DEF UpInv, UpStates, Live

LEMMA DisconnectedUp ==
  ASSUME TidyState, RadioDisconnected, UNCHANGED <<plan, state, started, up>>
  PROVE  UpInv'
<1>1. CASE engine = "running"
  <2>1. Op = "none" /\ engine' = "stopping" /\ Op' = "sidecar"
    BY <1>1, TidyFacts, DisconnectedJob DEF Op
  <2>2. Live' = Live /\ Placed' = Placed
    BY <1>1, <2>1 DEF Live, Placed
  <2>3. StartChain(started)' <=> StartChain(started)
    BY DEF StartChain
  <2> QED BY <1>1, <2>1, <2>2, <2>3, TidyFacts DEF UpInv, UpStates
<1>2. CASE engine # "running"
  BY <1>2, KeptUp, TidyFacts DEF RadioDisconnected
<1> QED BY <1>1, <1>2

LEMMA RebuildUp ==
  ASSUME TidyState, BeginRebuild, UNCHANGED <<plan, state, started, up>>
  PROVE  UpInv'
BY RebuildJob, KeptUp, TidyFacts

(* A job that stops what was started.                                      *)
LEMMA StopAllUp ==
  ASSUME TidyState, Op \in {"start", "sidecar"}, UNCHANGED <<plan, up>>,
         Live' \subseteq Live, UpStates',
         NEW op \in {"rollback", "stop"}, jobs' = [jobs EXCEPT !.engine = Job(op, StopOrder)]
  PROVE  UpInv'
<1>1. Op' = op /\ jobs'["engine"].todo = StopOrder
  BY TidyFacts DEF TypeInv, TypeOK, Job, Op
<1>2. engine # "idle" /\ Live \subseteq ToSet(started) \cap Names(plan) /\ StartChain(started)
  BY TidyFacts DEF UpInv, Placed
<1>3. ToSet(started) \subseteq ToSet(StopOrder)
  BY TidyFacts, ReverseSet DEF StopOrder
<1>4. StopChain(StopOrder)
  BY <1>2, TidyFacts, ReverseChain DEF StopOrder
<1>5. StopChain(jobs["engine"].todo)'
  <2> DEFINE q == jobs'["engine"].todo
  <2>1. StopChain(q)
    BY <1>1, <1>4
  <2>2. plan' = plan
    OBVIOUS
  <2> HIDE DEF q
  <2>3. /\ Distinct(q)
        /\ \A i \in 1 .. Len(q) :
             \A d \in Deps(plan', q[i]) \ {Radio} : \E j \in i + 1 .. Len(q) : q[j] = d
    BY <2>1, <2>2 DEF StopChain
  <2> QED BY <2>3 DEF StopChain, Distinct, q
<1>6. Live' \subseteq Placed' \cap Names(plan)'
  BY <1>1, <1>2, <1>3 DEF Placed, ToStop
<1> QED BY <1>1, <1>5, <1>6, TidyFacts DEF UpInv

LEMMA SettlesUp == ASSUME TidyState, EngineSettles PROVE UpInv'
<1>1. /\ Op \in {"start", "rollback", "stop"} /\ ToStop = {} /\ UNCHANGED <<plan, state, up>>
      /\ jobs'["engine"] = NoJob
  BY TidyFacts DEF EngineSettles, Done, Op, ToStop, ToSet, TypeInv, TypeOK
<1>2. Op' = "none" /\ Live' = Live
  BY <1>1 DEF Op, NoJob, Live
<1>3. CASE Op = "start"
  <2>1. engine' = "running" /\ started' = started /\ engine = "starting"
    BY <1>3, TidyFacts DEF EngineSettles, Outcome, Op
  <2>2. Placed' = Placed
    BY <1>2, <1>3, <2>1 DEF Placed
  <2>3. StartChain(started)'
    BY <1>1, <1>3, <2>1, TidyFacts DEF UpInv, StartChain
  <2> QED BY <1>1, <1>2, <2>1, <2>2, <2>3, TidyFacts DEF UpInv, UpStates
<1>4. CASE Op # "start"
  <2>1. Live = {}
    BY <1>1, <1>4, TidyFacts DEF UpInv, Placed
  <2>2. engine' = "idle"
    BY <1>4 DEF EngineSettles, Outcome, Op
  <2> QED BY <1>2, <2>1, <2>2, RestUp
<1> QED BY <1>3, <1>4

(* The next resource of a start is not live, and not on the list of the    *)
(* started ones.                                                           *)
LEMMA StartFacts ==
  ASSUME TidyState, Op = "start", jobs["engine"].todo # <<>>
  PROVE  LET r == Current("engine")
         IN  /\ r \in Names(plan) /\ r \in Resources
             /\ r \notin ToSet(started) /\ r \notin Live
             /\ engine = "starting" /\ Live \subseteq ToSet(started)
             /\ StartChain(started) /\ Unstarted
<1> DEFINE r == Current("engine")
<1>1. engine = "starting" /\ Unstarted /\ StartChain(started) /\ Live \subseteq ToSet(started)
  BY TidyFacts DEF UpInv, Placed
<1>2. r \in ToSet(jobs["engine"].todo)
  BY <1>1, TidyFacts, TailDistinct DEF Unstarted, Current
<1>3. r \in Names(plan) /\ r \notin ToSet(started)
  BY <1>1, <1>2 DEF Unstarted
<1>4. r \in Resources
  BY <1>3, TidyFacts DEF Resources
<1> QED BY <1>1, <1>3, <1>4

(* A start that goes on with the list of the started ones as it is.        *)
LEMMA StartGoesOn ==
  ASSUME TidyState, Op = "start", UNCHANGED <<engine, plan, started, up>>,
         NEW r, r \notin Live, NEW s \in {"starting", "error"},
         UNCHANGED state \/ state' = [state EXCEPT ![r] = s],
         Op' = "start", Unstarted'
  PROVE  UpInv'
<1>1. Live' = Live /\ UpStates'
  <2>1. r \notin up /\ (r \in Resources => state[r] # "running")
    BY DEF Live
  <2>2. \A x \in Resources : x # r => state'[x] = state[x]
    BY TidyFacts
  <2>3. r \in Resources => state'[r] # "running"
    BY <2>1, TidyFacts
  <2>4. Live' = Live
    BY <2>1, <2>2, <2>3 DEF Live
  <2>5. UpStates'
    BY <2>1, <2>2, <2>3, TidyFacts DEF UpInv, UpStates
  <2> QED BY <2>4, <2>5
<1>2. Placed' = Placed
  BY DEF Placed
<1>3. StartChain(started)'
  BY TidyFacts DEF UpInv, StartChain
<1> QED BY <1>1, <1>2, <1>3, TidyFacts DEF UpInv

LEMMA StartResourceUp == ASSUME TidyState, StartResource PROVE UpInv'
<1> DEFINE r == Current("engine")
<1>1. /\ Op = "start" /\ jobs["engine"].todo # <<>> /\ Ready("engine")
      /\ UNCHANGED <<engine, plan, started, up>>
  BY DEF StartResource, Op, Ready
<1>2. r \in Resources /\ r \notin Live /\ Unstarted /\ state[r] # "running"
  BY <1>1, StartFacts DEF Live
<1>3. CASE jobs' = [jobs EXCEPT !.engine = Rollback] /\ UNCHANGED state
  <2>1. Live' = Live /\ UpStates'
    BY <1>1, <1>3, TidyFacts DEF Live, UpInv, UpStates
  <2> QED BY <1>1, <1>3, <2>1, StopAllUp DEF Rollback
<1>4. CASE Startable(r) /\ Call(r, "engine") /\ state' = [state EXCEPT ![r] = "starting"]
  <2>1. Op' = "start" /\ jobs'["engine"].todo = jobs["engine"].todo
    BY <1>1, <1>4, TidyFacts, Called DEF Op
  <2>2. \A d \in Deps(plan, r) : state[d] = "running" /\ d \in Resources
    BY <1>1, <1>2, <1>4, StartFacts, TidyFacts, OrderFacts DEF Startable, Resources
  <2>3. \A d \in Deps(plan, r) : state'[d] = "running"
    BY <1>2, <1>4, <2>2, TidyFacts
  <2>4. Unstarted'
    BY <1>1, <1>2, <2>1, <2>3 DEF Unstarted, Distinct, Current
  <2> QED BY <1>1, <1>2, <1>4, <2>1, <2>4, StartGoesOn
<1> QED BY <1>2, <1>3, <1>4 DEF StartResource

(* The rest of a start, when its next resource is started or has failed.   *)
LEMMA RestUnstarted ==
  ASSUME TidyState, Op = "start", jobs["engine"].todo # <<>>, Advance("engine"),
         UNCHANGED plan, ToSet(started') \subseteq ToSet(started) \cup {Current("engine")}
  PROVE  Op' = "start" /\ Unstarted'
<1> DEFINE todo == jobs["engine"].todo
<1>1. Op' = "start" /\ jobs'["engine"].todo = Tail(todo) /\ jobs'["engine"].waits = "no"
  <2>1. TypeInv /\ "engine" \in Procs
    BY TidyFacts
  <2>2. Op' = "start" /\ jobs'["engine"].todo = Tail(todo)
    BY <2>1, Advanced DEF Op
  <2>3. jobs'["engine"].waits = "no"
    BY <2>1 DEF Advance, TypeInv, TypeOK, Jobs
  <2> QED BY <2>2, <2>3
<1>2. Unstarted /\ todo \in Seq(Resources) /\ Distinct(todo)
  BY StartFacts, TidyFacts DEF Unstarted
<1>3. /\ Distinct(Tail(todo)) /\ Head(todo) \in ToSet(todo)
      /\ ToSet(Tail(todo)) = ToSet(todo) \ {Head(todo)}
  BY <1>2, TailDistinct
<1>4. ToSet(Tail(todo)) \cap ToSet(started') = {}
  BY <1>2, <1>3 DEF Unstarted, Current
<1> QED BY <1>1, <1>2, <1>3, <1>4 DEF Unstarted, Distinct

LEMMA ResourceFailedUp == ASSUME TidyState, ResourceFailed PROVE UpInv'
<1> DEFINE r == Current("engine")
<1>1. /\ Op = "start" /\ jobs["engine"].todo # <<>>
      /\ UNCHANGED <<engine, plan, started, up>>
      /\ state' = [state EXCEPT ![r] = "error"]
  BY TidyFacts DEF ResourceFailed, TimesOut, Op, Book, TypeInv, Awaited
<1>2. r \in Resources /\ r \notin Live
  BY <1>1, StartFacts
<1>3. CASE Advance("engine")
  BY <1>1, <1>2, <1>3, RestUnstarted, StartGoesOn
<1>4. CASE jobs' = [jobs EXCEPT !.engine = Rollback]
  <2>1. \A x \in Resources : x # r => state'[x] = state[x]
    BY <1>1, TidyFacts
  <2>2. Live' \subseteq Live /\ UpStates'
    BY <1>1, <1>2, <2>1, TidyFacts DEF Live, UpInv, UpStates
  <2> QED BY <1>1, <1>4, <2>2, StopAllUp DEF Rollback
<1> QED BY <1>3, <1>4 DEF ResourceFailed

LEMMA ResourceStartedUp == ASSUME TidyState, ResourceStarted PROVE UpInv'
<1> DEFINE r == Current("engine")
           n == Len(started)
<1>1. /\ Op = "start" /\ jobs["engine"].todo # <<>> /\ jobs["engine"].waits # "no"
      /\ UNCHANGED <<engine, plan>> /\ Advance("engine")
      /\ state' = [state EXCEPT ![r] = "running"]
      /\ started' = Append(started, r)
      /\ up' = up \cup ({r} \ {Radio})
  BY TidyFacts DEF ResourceStarted, Op, Book, TypeInv, Awaited
<1>2. /\ r \in Names(plan) /\ r \in Resources
      /\ r \notin ToSet(started) /\ r \notin Live
      /\ engine = "starting" /\ Live \subseteq ToSet(started)
      /\ StartChain(started) /\ Unstarted
  BY <1>1, StartFacts
<1>3. /\ n \in Nat /\ Len(started') = n + 1
      /\ \A i \in 1 .. n : started'[i] = started[i]
      /\ started'[n + 1] = r
      /\ ToSet(started) = {started[i] : i \in 1 .. n}
      /\ started' \in Seq(Resources)
  BY <1>1, <1>2, TidyFacts, SeqFacts, AppendProperties
<1>4. ToSet(started') = ToSet(started) \cup {r}
  <2>1. ToSet(started') = {started'[i] : i \in 1 .. n + 1}
    BY <1>3, SeqFacts
  <2> QED BY <1>3, <2>1
<1>5. \A d \in Deps(plan, r) \ {Radio} : d \in up /\ d \in ToSet(started)
  <2> SUFFICES ASSUME NEW d \in Deps(plan, r) \ {Radio} PROVE d \in up /\ d \in ToSet(started)
    OBVIOUS
  <2>1. d \in Resources /\ state[d] = "running"
    BY <1>1, <1>2, TidyFacts, OrderFacts DEF Unstarted, Current, Resources
  <2> QED BY <1>2, <2>1, TidyFacts DEF UpInv, UpStates, Live
<1>6. Op' = "start" /\ Unstarted'
  BY <1>1, <1>4, RestUnstarted
<1>7. Live' = Live \cup {r} /\ UpStates'
  <2>1. \A x \in Resources : state'[x] = IF x = r THEN "running" ELSE state[x]
    BY <1>1, TidyFacts
  <2>2. Live' = Live \cup {r}
    BY <1>1, <1>2, <2>1 DEF Live
  <2>3. UpStates'
    BY <1>1, <1>2, <2>1, TidyFacts DEF UpInv, UpStates
  <2> QED BY <2>2, <2>3
<1>8. Live' \subseteq Placed' \cap Names(plan)'
  <2>1. Live \subseteq Names(plan) /\ Placed' = ToSet(started')
    BY <1>1, <1>2, <1>6, TidyFacts DEF UpInv, Placed
  <2> QED BY <1>1, <1>2, <1>4, <1>7, <2>1
<1>9. \A x \in up' : Deps(plan, x) \ {Radio} \subseteq up'
  BY <1>1, <1>5, TidyFacts DEF UpInv
<1>10. StartChain(started)'
  <2> DEFINE s == started'
  <2>1. \A i \in 1 .. n : started[i] # r
    BY <1>2, <1>3
  <2>2. Distinct(started)
    BY <1>2 DEF StartChain
  <2>3. /\ \A i \in 1 .. n : s[i] = started[i]
        /\ Len(s) = n + 1 /\ s[n + 1] = r
    BY <1>3
  <2> HIDE DEF s
  <2>4. Distinct(s)
    BY <1>3, <2>1, <2>2, <2>3 DEF Distinct
  <2>5. ASSUME NEW i \in 1 .. Len(s), NEW d \in Deps(plan, s[i]) \ {Radio}
        PROVE  \E j \in 1 .. i - 1 : s[j] = d
    <3>1. CASE i = n + 1
      <4>1. PICK j \in 1 .. n : started[j] = d
        BY <1>3, <1>5, <2>3, <2>5, <3>1
      <4> QED BY <1>3, <2>3, <3>1, <4>1
    <3>2. CASE i # n + 1
      <4>1. i \in 1 .. n /\ d \in Deps(plan, started[i]) \ {Radio}
        BY <1>3, <2>3, <2>5, <3>2
      <4>2. PICK j \in 1 .. i - 1 : started[j] = d
        BY <1>2, <4>1 DEF StartChain
      <4> QED BY <1>3, <2>3, <4>1, <4>2
    <3> QED BY <3>1, <3>2
  <2>6. \A i \in 1 .. Len(s) : \A d \in Deps(plan', s[i]) \ {Radio} : \E j \in 1 .. i - 1 : s[j] = d
    BY <1>1, <2>5
  <2> QED BY <2>4, <2>6 DEF StartChain, Distinct, s
<1> QED BY <1>1, <1>6, <1>7, <1>8, <1>9, <1>10 DEF UpInv

(* A stop of a switch finds the engine at rest with nothing live.          *)
LEMMA SwitchStopUp ==
  ASSUME TidyState, jobs["switch"].op # "none", engine' = engine,
         jobs'["engine"] = jobs["engine"], up' \subseteq up,
         \A x \in Resources : state'[x] = "running" => state[x] = "running"
  PROVE  UpInv'
<1>1. engine = "idle" /\ Live = {} /\ Op = "none"
  BY TidyFacts
<1>2. Live' = {} /\ Op' = "none"
  BY <1>1 DEF Live, Op
<1> QED BY <1>1, <1>2, RestUp

(* A stop of the engine that goes on with the same list, and one that is   *)
(* done with its head: nothing that is up depends on that.                 *)
LEMMA SameStopUp ==
  ASSUME TidyState, Op \in {"rollback", "stop"}, UNCHANGED <<engine, plan, up>>,
         jobs'["engine"].op = Op, jobs'["engine"].todo = jobs["engine"].todo,
         Live' \subseteq Live, UpStates'
  PROVE  UpInv'
<1>1. Op' = Op /\ ToStop' = ToStop /\ Placed' = ToStop' /\ Placed = ToStop
  BY DEF Op, ToStop, Placed
<1>2. StopChain(jobs["engine"].todo)'
  BY TidyFacts DEF UpInv, StopChain, Distinct
<1> QED BY <1>1, <1>2, TidyFacts DEF UpInv

LEMMA HeadStoppedUp ==
  ASSUME TidyState, Op \in {"rollback", "stop"}, jobs["engine"].todo # <<>>,
         Advance("engine"), UNCHANGED <<engine, plan>>, up' = up \ {Current("engine")},
         Live' \subseteq Live \ {Current("engine")}, UpStates'
  PROVE  UpInv'
<1> DEFINE r == Current("engine")
           todo == jobs["engine"].todo
<1>1. Op' = Op /\ jobs'["engine"].todo = Tail(todo)
  BY TidyFacts, Advanced DEF Op
<1>2. /\ todo \in Seq(Resources) /\ StopChain(todo) /\ Live \subseteq ToSet(todo)
      /\ Live \subseteq Names(plan)
  BY TidyFacts DEF UpInv, Placed, ToStop
<1>3. StopChain(Tail(todo)) /\ ToSet(Tail(todo)) = ToSet(todo) \ {r}
  BY <1>2, TailStopChain, TailDistinct DEF StopChain, Current
<1>4. StopChain(jobs["engine"].todo)'
  <2> DEFINE q == jobs'["engine"].todo
  <2>1. StopChain(q)
    BY <1>1, <1>3
  <2> HIDE DEF q
  <2>2. /\ Distinct(q)
        /\ \A i \in 1 .. Len(q) :
             \A d \in Deps(plan', q[i]) \ {Radio} : \E j \in i + 1 .. Len(q) : q[j] = d
    BY <2>1 DEF StopChain
  <2> QED BY <2>2 DEF StopChain, Distinct, q
<1>5. Live' \subseteq Placed' \cap Names(plan)'
  BY <1>1, <1>2, <1>3 DEF Placed, ToStop
<1>6. ASSUME NEW x \in up' PROVE Deps(plan, x) \ {Radio} \subseteq up'
  <2>1. x \in up /\ Deps(plan, x) \ {Radio} \subseteq up
    BY <1>6, TidyFacts DEF UpInv
  <2>2. SUFFICES ASSUME r \in Deps(plan, x) \ {Radio} PROVE FALSE
    BY <2>1
  <2>3. /\ Len(todo) \in Nat \ {0} /\ r = todo[1]
        /\ ToSet(todo) = {todo[i] : i \in 1 .. Len(todo)}
    BY <1>2, SeqFacts DEF Current
  <2>4. PICK i \in 1 .. Len(todo) : todo[i] = x
    BY <1>2, <2>1, <2>3 DEF Live
  <2>5. PICK j \in i + 1 .. Len(todo) : todo[j] = r
    BY <1>2, <2>2, <2>4 DEF StopChain
  <2> QED BY <1>2, <2>3, <2>4, <2>5 DEF StopChain, Distinct
<1> QED BY <1>1, <1>4, <1>5, <1>6 DEF UpInv

LEMMA StopResourceUp == ASSUME TidyState, NEW p \in Procs, StopResource(p) PROVE UpInv'
<1> DEFINE r == Current(p)
<1>1. /\ Ready(p) /\ jobs[p].todo # <<>> /\ jobs[p].op \in {"rollback", "stop"}
      /\ UNCHANGED <<engine, plan, up>>
      /\ \/ Advance(p)
         \/ Call(r, p)
      /\ \/ UNCHANGED state
         \/ \E s \in {"stopped", "stopping"} : state' = [state EXCEPT ![r] = s]
  BY DEF StopResource, Ready
<1>2. \A q \in Procs : q # p => jobs'[q] = jobs[q]
  BY <1>1, TidyFacts, Advanced, Called
<1>3. \A x \in Resources : state'[x] = "running" => state[x] = "running"
  BY <1>1, TidyFacts
<1>4. CASE p = "switch"
  BY <1>1, <1>2, <1>3, <1>4, TidyFacts, SwitchStopUp
<1>5. CASE p = "engine"
  <2>1. Op \in {"rollback", "stop"} /\ Live' \subseteq Live
    BY <1>1, <1>3, <1>5 DEF Op, Live
  <2>2. CASE StopSkipped(r) /\ Advance(p) /\ UNCHANGED state
    <3>1. r \notin Live /\ UpStates' /\ Live' = Live
      BY <1>1, <2>2, TidyFacts DEF StopSkipped, Live, UpInv, UpStates
    <3>2. up' = up \ {r}
      BY <1>1, <3>1 DEF Live
    <3> QED BY <1>1, <1>5, <2>1, <2>2, <3>1, <3>2, HeadStoppedUp
  <2>3. CASE /\ Preserve(r) /\ Advance(p)
             /\ state' = [state EXCEPT ![r] = "stopped"]
    <3>1. r = Radio /\ r \notin up /\ UpStates'
      BY <1>1, <1>3, <2>3, TidyFacts DEF Preserve, UpInv, UpStates
    <3>2. r \notin Live' /\ up' = up \ {r}
      BY <1>1, <2>3, <3>1, TidyFacts DEF Live
    <3> QED BY <1>1, <1>5, <2>1, <2>3, <3>1, <3>2, HeadStoppedUp
  <2>4. CASE Call(r, p) /\ state' = [state EXCEPT ![r] = "stopping"]
    <3>1. jobs'["engine"].op = Op /\ jobs'["engine"].todo = jobs["engine"].todo
      BY <1>1, <1>5, <2>4, TidyFacts, Called DEF Op
    <3>2. UpStates'
      BY <1>1, <1>3, <2>4, TidyFacts DEF UpInv, UpStates
    <3> QED BY <1>1, <2>1, <3>1, <3>2, SameStopUp
  <2> QED BY <2>2, <2>3, <2>4 DEF StopResource
<1> QED BY <1>4, <1>5 DEF Procs

LEMMA ResourceStoppedUp == ASSUME TidyState, NEW p \in Procs, ResourceStopped(p) PROVE UpInv'
<1> DEFINE r == Current(p)
<1>1. /\ jobs[p].todo # <<>> /\ jobs[p].op \in {"rollback", "stop"} /\ Advance(p)
      /\ UNCHANGED <<engine, plan>>
      /\ state' = [state EXCEPT ![r] = "stopped"]
      /\ up' = up \ {r}
  BY TidyFacts DEF ResourceStopped, Down, Book, TypeInv, Awaited
<1>2. \A q \in Procs : q # p => jobs'[q] = jobs[q]
  BY <1>1, TidyFacts, Advanced
<1>3. \A x \in Resources : state'[x] = IF x = r THEN "stopped" ELSE state[x]
  BY <1>1, TidyFacts
<1>4. CASE p = "switch"
  BY <1>1, <1>2, <1>3, <1>4, TidyFacts, SwitchStopUp
<1>5. CASE p = "engine"
  <2>1. Op \in {"rollback", "stop"} /\ Live' \subseteq Live \ {r}
    BY <1>1, <1>3, <1>5 DEF Op, Live
  <2>2. UpStates'
    BY <1>1, <1>3, TidyFacts DEF UpInv, UpStates
  <2> QED BY <1>1, <1>5, <2>1, <2>2, HeadStoppedUp
<1> QED BY <1>4, <1>5 DEF Procs

LEMMA RebuiltUp == ASSUME TidyState, Rebuilt PROVE UpInv'
<1>1. engine = "idle" /\ Live = {} /\ Op = "none" /\ TypeInv
  BY TidyFacts, OpFacts DEF Rebuilt, TidyState
<1>2. /\ engine' = "idle" /\ up' = up /\ \A x \in Resources : state'[x] = "idle"
      /\ jobs'["engine"] = jobs["engine"]
  BY <1>1 DEF Rebuilt, TypeInv, TypeOK, Procs
<1>3. Op' = "none" /\ Live' = {}
  BY <1>1, <1>2 DEF Op, Live
<1> QED BY <1>2, <1>3, RestUp

LEMMA UpStep == ASSUME TidyState, Step PROVE UpInv'
<1>0. UpInv /\ TypeInv /\ switch.seen \in EngineStates
  BY TidyFacts DEF TypeInv, TypeOK
<1>1. CASE UserStart
  BY <1>1, BeginStartUp DEF UserStart
<1>2. CASE UserStop
  BY <1>2, DisconnectedUp DEF UserStop, RadioDisconnected
<1>3. CASE SidecarStopped
  <2>1. Op = "sidecar" /\ UNCHANGED <<plan, state, up>>
    BY <1>3 DEF SidecarStopped, Op
  <2>2. Live' = Live /\ UpStates'
    BY <1>0, <2>1 DEF Live, UpInv, UpStates
  <2> QED BY <1>3, <2>1, <2>2, StopAllUp DEF SidecarStopped
<1>4. CASE LinkLost \/ LinkOff
  BY <1>4, DisconnectedUp DEF LinkLost, LinkOff
<1>5. CASE LinkBack
  BY <1>0, <1>5, KeptUp DEF LinkBack
<1>6. CASE Restore \/ SwitchResumes
  <2>1. CASE engine = "idle" /\ BeginStart
    BY <1>6, <2>1, BeginStartUp DEF Restore, SwitchResumes
  <2>2. CASE UNCHANGED <<engine, jobs, started>>
    BY <1>0, <1>6, <2>2, KeptUp DEF Restore, SwitchResumes
  <2> QED BY <1>6, <2>1, <2>2 DEF Restore, Restart, SwitchResumes
<1>7. ASSUME RadioDisconnected \/ BeginRebuild \/ UNCHANGED <<engine, jobs>>,
             UNCHANGED <<plan, state, started, up>>
      PROVE  UpInv'
  BY <1>0, <1>7, DisconnectedUp, RebuildUp, KeptUp
<1>8. ASSUME NEW m \in Modes, SwitchBegin(m) PROVE UpInv'
  BY <1>0, <1>7, <1>8, BeginEffect DEF SwitchBegin
<1>9. CASE SwitchActs
  BY <1>0, <1>7, <1>9, ActEffect DEF SwitchActs
<1>10. CASE SwitchSettled \/ SwitchHalted
  BY <1>7, <1>10 DEF SwitchSettled, SwitchHalted, StopEngine
<1>11. CASE SwitchEnds \/ SwitchAborts
  BY <1>0, <1>11, KeptUp DEF SwitchEnds, SwitchAborts
<1>12. ASSUME NEW p \in Procs, StopFailed(p) PROVE FALSE
  BY <1>12, TidyFacts DEF StopFailed, TimesOut, NotHung
<1>13. ~ \E r \in Resources : LateStart(r) \/ LateStop(r)
  BY TidyFacts DEF LateStart, LateStop
<1> QED BY <1>1, <1>2, <1>3, <1>4, <1>5, <1>6, <1>8, <1>9, <1>10, <1>11, <1>12, <1>13,
           RebuiltUp, SettlesUp, StartResourceUp, ResourceStartedUp, ResourceFailedUp,
           StopResourceUp, ResourceStoppedUp
        DEF Step, Manager, Switching

(* For any modes, any plans of resources and any failing starts: where no  *)
(* stop fails and no function outlives its timeout, nothing is up when the *)
(* engine is at rest, and on the way a resource is never up without those  *)
(* it depends on, the radio apart.                                         *)
THEOREM UpAndDownInOrder == Spec => []UpInOrder
<1> DEFINE UInv == RInv /\ (Tidy => UpInv)
<1>1. Init => UInv
  <2> SUFFICES ASSUME Init PROVE UpInv
    BY RadioInit
  <2>1. engine = "idle" /\ up = {} /\ \A r \in Resources : state[r] = "idle"
    BY DEF Init
  <2>2. Op = "none"
    BY DEF Init, Op, NoJob, Procs
  <2> QED BY <2>1, <2>2 DEF UpInv, UpStates, Live
<1>2. UInv => (Tidy => TidyState)
  BY DEF TidyState, SteadyState, Tidy, Steady, RInv, Inv
<1>3. UInv /\ [Next]_vars => UInv'
  <2> SUFFICES ASSUME UInv, [Next]_vars PROVE UInv'
    OBVIOUS
  <2>1. RInv' /\ Tidy' = Tidy
    BY RadioInductive DEF Tidy, Next, vars
  <2>2. CASE Next
    BY <1>2, <2>1, <2>2, UpStep DEF Next
  <2>3. CASE UNCHANGED vars
    BY <2>1, <2>3, KeptUp DEF vars
  <2> QED BY <2>2, <2>3
<1>4. UInv => UpInOrder
  <2> SUFFICES ASSUME UInv, Tidy PROVE (engine = "idle" => up = {})
                                       /\ \A r \in up : Deps(plan, r) \ {Radio} \subseteq up
    BY DEF UpInOrder, Tidy
  <2> QED BY <1>2, TidyFacts DEF UpInv, Live
<1> QED BY <1>1, <1>3, <1>4, PTL DEF Spec
=============================================================================
