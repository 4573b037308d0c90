--------------------------- MODULE SchedulerProof ---------------------------
(***************************************************************************)
(* Theorems about the operators of Scheduler, for any number of tasks.     *)
(***************************************************************************)
EXTENDS Scheduler, FiniteSetTheorems, TLAPS

-----------------------------------------------------------------------------
(***************************************************************************)
(* Induction and iteration.                                                *)
(***************************************************************************)

\* Every set of numbers that is not empty has a least one.
LEMMA Least ==
    ASSUME NEW S, S \subseteq Nat, S # {}
    PROVE  \E x \in S : \A y \in S : x <= y
<1> DEFINE R == OpToRel(<, Nat)
<1>1. PICK x \in S : \A y \in S : ~(<<y, x>> \in R)
  <2>1. IsWellFoundedOn(R, Nat)
    BY NatLessThanWellFounded
  <2> HIDE DEF R
  <2> QED
    BY <2>1, WFMin
<1>2. ASSUME NEW y \in S PROVE x <= y
  <2>1. x \in Nat /\ y \in Nat
    OBVIOUS
  <2>2. ~(y < x)
    BY <1>1, <1>2, <2>1 DEF OpToRel
  <2> QED
    BY <2>1, <2>2
<1> QED
  BY <1>2

\* Induction: a set that contains 0 and, with a number, the next one up to N.
LEMMA UpTo ==
    ASSUME NEW N \in Nat, NEW S, 0 \in S, \A n \in 1 .. N : n - 1 \in S => n \in S
    PROVE  0 .. N \subseteq S
<1> DEFINE B == (0 .. N) \ S
<1> SUFFICES ASSUME B # {} PROVE FALSE
  OBVIOUS
<1>1. PICK x \in B : \A y \in B : x <= y
  <2>1. B \subseteq Nat
    OBVIOUS
  <2> QED
    BY <2>1, Least
<1>2. x \in 1 .. N /\ x - 1 \in 0 .. N
  BY <1>1
<1>3. x - 1 \in S
  BY <1>1, <1>2
<1> QED
  BY <1>1, <1>2, <1>3

\* Division with remainder, also of a negative number.
LEMMA DivMod ==
    ASSUME NEW x \in Int, NEW p \in Nat \ {0}
    PROVE  x = (x \div p) * p + (x % p) /\ x % p \in 0 .. p - 1 /\ x \div p \in Int
OBVIOUS

LEMMA DivUnique ==
    ASSUME NEW x \in Int, NEW p \in Nat \ {0}, NEW q \in Int, q * p <= x, x < (q + 1) * p
    PROVE  x \div p = q
OBVIOUS

\* The states of the two loops after 0, 1, 2... iterations.
WalkTrace(w, tasks, t, start) ==
    /\ w[0] = start
    /\ \A n \in 1 .. MaxTask + 2 : w[n] = WalkStep(tasks, t, start.queue[t], w[n - 1])
    /\ Walk(tasks, t, start) = w[MaxTask + 2].queue

UnlinkTrace(w, t, start) ==
    /\ w[0] = start
    /\ \A n \in 1 .. MaxTask + 2 : w[n] = UnlinkStep(t, w[n - 1])
    /\ Unlink(t, start) = w[MaxTask + 2].queue

\* The loop of RescheduleTaskImpl is the iteration of its step.
LEMMA WalkLoop ==
    ASSUME NEW tasks, NEW t, NEW start, MaxTask \in Nat
    PROVE  \E w : WalkTrace(w, tasks, t, start)
<1> DEFINE N == MaxTask + 2
           Go(v) == WalkStep(tasks, t, start.queue[t], v)
           P(n) == \E f : f = [i \in 0 .. n |-> IF i = 0 THEN start ELSE Go(f[i - 1])]
           S == {n \in 0 .. N : P(n)}
           loop[n \in 0 .. MaxTask + 2] ==
             IF n = 0 THEN start ELSE WalkStep(tasks, t, start.queue[t], loop[n - 1])
<1>1. Walk(tasks, t, start) = loop[MaxTask + 2].queue
  BY DEF Walk
<1> HIDE DEF Go
<1>2. P(0)
  <2> DEFINE f == [i \in 0 .. 0 |-> start]
  <2>1. f = [i \in 0 .. 0 |-> IF i = 0 THEN start ELSE Go(f[i - 1])]
    OBVIOUS
  <2> QED
    BY <2>1
<1>3. ASSUME NEW n \in 1 .. N, P(n - 1) PROVE P(n)
  <2>1. PICK f : f = [i \in 0 .. n - 1 |-> IF i = 0 THEN start ELSE Go(f[i - 1])]
    BY <1>3
  <2> DEFINE g == [i \in 0 .. n |-> IF i = n THEN Go(f[n - 1]) ELSE f[i]]
  <2>2. ASSUME NEW i \in 0 .. n PROVE g[i] = IF i = 0 THEN start ELSE Go(g[i - 1])
    <3>1. CASE i = n
      BY <3>1
    <3>2. CASE i \in 0 .. n - 1
      BY <2>1, <3>2
    <3> QED
      BY <3>1, <3>2
  <2>3. g = [i \in 0 .. n |-> IF i = 0 THEN start ELSE Go(g[i - 1])]
    BY <2>2
  <2> QED
    BY <2>3
<1>4. P(N)
  <2> HIDE DEF P
  <2>1. 0 \in S /\ \A n \in 1 .. N : n - 1 \in S => n \in S
    BY <1>2, <1>3
  <2>2. N \in Nat /\ N \in 0 .. N
    OBVIOUS
  <2> HIDE DEF N
  <2>3. 0 .. N \subseteq S
    BY <2>1, <2>2, UpTo
  <2> QED
    BY <2>2, <2>3
<1>5. loop = [n \in 0 .. N |-> IF n = 0 THEN start ELSE Go(loop[n - 1])]
  BY <1>4 DEF Go
<1>6. PICK w : w = loop
  OBVIOUS
<1>7. w = [n \in 0 .. N |-> IF n = 0 THEN start ELSE Go(w[n - 1])]
  BY <1>5, <1>6
<1> HIDE DEF loop
<1>8. w[0] = start
  BY <1>7
<1>9. ASSUME NEW n \in 1 .. N PROVE w[n] = Go(w[n - 1])
  BY <1>7
<1> QED
  BY <1>1, <1>6, <1>8, <1>9 DEF Go, WalkTrace

\* So is the loop of UnscheduleTask.
LEMMA UnlinkLoop ==
    ASSUME NEW t, NEW start, MaxTask \in Nat
    PROVE  \E w : UnlinkTrace(w, t, start)
<1> DEFINE N == MaxTask + 2
           Go(v) == UnlinkStep(t, v)
           P(n) == \E f : f = [i \in 0 .. n |-> IF i = 0 THEN start ELSE Go(f[i - 1])]
           S == {n \in 0 .. N : P(n)}
           loop[n \in 0 .. MaxTask + 2] ==
             IF n = 0 THEN start ELSE UnlinkStep(t, loop[n - 1])
<1>1. Unlink(t, start) = loop[MaxTask + 2].queue
  BY DEF Unlink
<1> HIDE DEF Go
<1>2. P(0)
  <2> DEFINE f == [i \in 0 .. 0 |-> start]
  <2>1. f = [i \in 0 .. 0 |-> IF i = 0 THEN start ELSE Go(f[i - 1])]
    OBVIOUS
  <2> QED
    BY <2>1
<1>3. ASSUME NEW n \in 1 .. N, P(n - 1) PROVE P(n)
  <2>1. PICK f : f = [i \in 0 .. n - 1 |-> IF i = 0 THEN start ELSE Go(f[i - 1])]
    BY <1>3
  <2> DEFINE g == [i \in 0 .. n |-> IF i = n THEN Go(f[n - 1]) ELSE f[i]]
  <2>2. ASSUME NEW i \in 0 .. n PROVE g[i] = IF i = 0 THEN start ELSE Go(g[i - 1])
    <3>1. CASE i = n
      BY <3>1
    <3>2. CASE i \in 0 .. n - 1
      BY <2>1, <3>2
    <3> QED
      BY <3>1, <3>2
  <2>3. g = [i \in 0 .. n |-> IF i = 0 THEN start ELSE Go(g[i - 1])]
    BY <2>2
  <2> QED
    BY <2>3
<1>4. P(N)
  <2> HIDE DEF P
  <2>1. 0 \in S /\ \A n \in 1 .. N : n - 1 \in S => n \in S
    BY <1>2, <1>3
  <2>2. N \in Nat /\ N \in 0 .. N
    OBVIOUS
  <2> HIDE DEF N
  <2>3. 0 .. N \subseteq S
    BY <2>1, <2>2, UpTo
  <2> QED
    BY <2>2, <2>3
<1>5. loop = [n \in 0 .. N |-> IF n = 0 THEN start ELSE Go(loop[n - 1])]
  BY <1>4 DEF Go
<1>6. PICK w : w = loop
  OBVIOUS
<1>7. w = [n \in 0 .. N |-> IF n = 0 THEN start ELSE Go(w[n - 1])]
  BY <1>5, <1>6
<1> HIDE DEF loop
<1>8. w[0] = start
  BY <1>7
<1>9. ASSUME NEW n \in 1 .. N PROVE w[n] = Go(w[n - 1])
  BY <1>7
<1> QED
  BY <1>1, <1>6, <1>8, <1>9 DEF Go, UnlinkTrace

-----------------------------------------------------------------------------
(***************************************************************************)
(* The list without one of the tasks.                                      *)
(***************************************************************************)
Links == [{Front} \cup TaskTypes -> TaskTypes \cup {NoTask}]

\* The m tasks of list are tasks other than t, in the order of their due times.
Others(tasks, t, list, m) ==
    /\ list \in [1 .. m -> TaskTypes \ {t}]
    /\ \A i, j \in 1 .. m : i < j =>
         list[i] # list[j] /\ tasks[list[i]].nextUpdate <= tasks[list[j]].nextUpdate

\* The links lead through list, with t linked in behind its d-th task; d = m + 1 if t is
\* not linked in at all.
LinkedAt(q, t, list, m, d) ==
    /\ \A i \in 0 .. m : q[Node(list, i)] = IF i = d THEN t ELSE After(list, m, i)
    /\ d <= m => q[t] = After(list, m, d)

\* The links are in order as far as the tasks other than t are concerned.
InOrderBut(sch, t) ==
    \E m \in 0 .. MaxTask : \E list : \E d \in 0 .. m + 1 :
        /\ Others(sch.tasks, t, list, m) /\ LinkedAt(sch.queue, t, list, m, d)
        /\ \A u \in TaskTypes \ {t} :
             sch.tasks[u].batchedTicks > 0 <=> \E i \in 1 .. m : list[i] = u

\* There are MaxTask tasks other than t.
LEMMA FewOthers ==
    ASSUME NEW t \in TaskTypes, NEW m \in Nat, NEW list \in [1 .. m -> TaskTypes \ {t}],
           \A i, j \in 1 .. m : i < j => list[i] # list[j]
    PROVE  m <= MaxTask
<1>1. IsFiniteSet(TaskTypes) /\ Cardinality(TaskTypes) = MaxTask + 1
  BY SchedulerAssumption, FS_Interval DEF TaskTypes
<1>2. IsFiniteSet(TaskTypes \ {t}) /\ Cardinality(TaskTypes \ {t}) = MaxTask
  BY <1>1, FS_RemoveElement, SchedulerAssumption
<1>3. list \in Injection(1 .. m, TaskTypes \ {t})
  <2>1. ASSUME NEW i \in 1 .. m, NEW j \in 1 .. m, list[i] = list[j] PROVE i = j
    BY <2>1
  <2> QED
    BY <2>1 DEF Injection, IsInjective
<1>4. Cardinality(1 .. m) <= Cardinality(TaskTypes \ {t})
  BY <1>2, <1>3, FS_Injection
<1>5. Cardinality(1 .. m) = m
  BY FS_Interval
<1> QED
  BY <1>2, <1>4, <1>5

LEMMA WithoutTask ==
    ASSUME NEW sch, InOrder(sch), NEW t \in TaskTypes
    PROVE  InOrderBut(sch, t)
<1>1. PICK n \in 0 .. MaxTask + 1 : \E list \in [1 .. n -> TaskTypes] :
        /\ Leads(sch.queue, list, n)
        /\ \A u \in TaskTypes : sch.tasks[u].batchedTicks > 0 <=> \E i \in 1 .. n : list[i] = u
        /\ \A i, j \in 1 .. n : i < j =>
             list[i] # list[j] /\ sch.tasks[list[i]].nextUpdate <= sch.tasks[list[j]].nextUpdate
  BY DEF InOrder
<1>2. PICK list \in [1 .. n -> TaskTypes] :
        /\ Leads(sch.queue, list, n)
        /\ \A u \in TaskTypes : sch.tasks[u].batchedTicks > 0 <=> \E i \in 1 .. n : list[i] = u
        /\ \A i, j \in 1 .. n : i < j =>
             list[i] # list[j] /\ sch.tasks[list[i]].nextUpdate <= sch.tasks[list[j]].nextUpdate
  BY <1>1
<1>n. n \in Nat /\ MaxTask \in Nat
  BY SchedulerAssumption
<1>3. CASE \A i \in 1 .. n : list[i] # t
  <2>1. list \in [1 .. n -> TaskTypes \ {t}]
    BY <1>3
  <2>2. n \in 0 .. MaxTask
    BY <1>2, <1>n, <2>1, FewOthers
  <2>3. Others(sch.tasks, t, list, n)
    BY <1>2, <2>1 DEF Others
  <2>4. LinkedAt(sch.queue, t, list, n, n + 1)
    BY <1>2, <1>n DEF LinkedAt, Leads
  <2>5. n + 1 \in 0 .. n + 1
    BY <1>n
  <2> QED
    BY <1>2, <2>2, <2>3, <2>4, <2>5 DEF InOrderBut
<1>4. CASE \E i \in 1 .. n : list[i] = t
  <2>1. PICK p \in 1 .. n : list[p] = t
    BY <1>4
  <2> DEFINE m == n - 1
             d == p - 1
             rest == [i \in 1 .. m |-> IF i < p THEN list[i] ELSE list[i + 1]]
  <2>2. m \in 0 .. MaxTask /\ d \in 0 .. m /\ d \in 0 .. m + 1
    BY <1>n
  <2>3. ASSUME NEW i \in 1 .. n, i # p PROVE list[i] # t
    BY <1>2, <2>1, <2>3
  <2>4. rest \in [1 .. m -> TaskTypes \ {t}]
    BY <2>3
  <2>5. Others(sch.tasks, t, rest, m)
    <3>1. ASSUME NEW i \in 1 .. m, NEW j \in 1 .. m, i < j
          PROVE  rest[i] # rest[j] /\ sch.tasks[rest[i]].nextUpdate <= sch.tasks[rest[j]].nextUpdate
      BY <1>2, <3>1
    <3> QED
      BY <2>4, <3>1 DEF Others
  <2>6. LinkedAt(sch.queue, t, rest, m, d)
    <3>1. ASSUME NEW i \in 0 .. m
          PROVE  sch.queue[Node(rest, i)] = IF i = d THEN t ELSE After(rest, m, i)
      <4>1. CASE i < d
        BY <1>2, <2>1, <4>1 DEF Leads, Node, After
      <4>2. CASE i = d
        BY <1>2, <2>1, <4>2 DEF Leads, Node, After
      <4>3. CASE i > d
        <5>1. Node(rest, i) = Node(list, i + 1)
          BY <4>3 DEF Node
        <5>2. After(rest, m, i) = After(list, n, i + 1)
          BY <4>3 DEF After
        <5>3. i + 1 \in 0 .. n
          OBVIOUS
        <5> QED
          BY <1>2, <4>3, <5>1, <5>2, <5>3 DEF Leads
      <4> QED
        BY <4>1, <4>2, <4>3
    <3>2. sch.queue[t] = After(rest, m, d)
      <4>1. Node(list, p) = t
        BY <2>1 DEF Node
      <4>2. After(list, n, p) = After(rest, m, d)
        BY DEF After
      <4> QED
        BY <1>2, <4>1, <4>2 DEF Leads
    <3> QED
      BY <3>1, <3>2 DEF LinkedAt
  <2>7. ASSUME NEW u \in TaskTypes \ {t}
        PROVE  sch.tasks[u].batchedTicks > 0 <=> \E i \in 1 .. m : rest[i] = u
    <3>1. ASSUME NEW i \in 1 .. m, rest[i] = u PROVE \E j \in 1 .. n : list[j] = u
      BY <3>1
    <3>2. ASSUME NEW j \in 1 .. n, list[j] = u PROVE \E i \in 1 .. m : rest[i] = u
      <4>1. CASE j < p
        <5>1. j \in 1 .. m /\ rest[j] = u
          BY <3>2, <4>1
        <5> QED
          BY <5>1
      <4>2. CASE j > p
        <5>1. j - 1 \in 1 .. m /\ rest[j - 1] = u
          BY <3>2, <4>2
        <5> QED
          BY <5>1
      <4> QED
        BY <2>1, <3>2, <4>1, <4>2
    <3> QED
      BY <1>2, <3>1, <3>2
  <2> HIDE DEF m, d, rest
  <2> QED
    BY <2>2, <2>5, <2>6, <2>7 DEF InOrderBut
<1> QED
  BY <1>3, <1>4
-----------------------------------------------------------------------------
(***************************************************************************)
(* The walk of RescheduleTaskImpl. It links t in behind the k-th of the    *)
(* other tasks; e is the task at which it ends.                            *)
(***************************************************************************)

\* The state of the loop after j iterations.
Walked(w, q, t, list, m, d, k, e, j) ==
    /\ w.queue \in Links
    /\ j <= e =>
         /\ w.idx = Node(list, j) /\ ~w.done
         /\ w.inserted \in BOOLEAN /\ (w.inserted <=> k < j)
         /\ w.deleted \in BOOLEAN /\ (w.deleted <=> d < j)
         /\ \A i \in 0 .. m : w.queue[Node(list, i)] =
              IF i < j THEN IF i = k THEN t ELSE After(list, m, i)
              ELSE IF i = d THEN t ELSE After(list, m, i)
         /\ w.queue[t] = IF k < j THEN After(list, m, k) ELSE q[t]
    /\ j > e =>
         /\ w.done
         /\ \A i \in 0 .. m : w.queue[Node(list, i)] = IF i = k THEN t ELSE After(list, m, i)
         /\ w.queue[t] = After(list, m, k)

\* The nodes of a list differ from each other and from t.
LEMMA NodesDiffer ==
    ASSUME NEW tasks, NEW t \in TaskTypes, NEW m \in 0 .. MaxTask, NEW list, Others(tasks, t, list, m)
    PROVE  /\ \A i \in 0 .. m : Node(list, i) \in ({Front} \cup TaskTypes) \ {t}
           /\ \A i, j \in 0 .. m : Node(list, i) = Node(list, j) => i = j
           /\ \A i \in 0 .. m : i < m => After(list, m, i) \in TaskTypes \ {t}
           /\ \A i \in 0 .. m : After(list, m, i) \in (TaskTypes \cup {NoTask}) \ {t}
           /\ \A i \in 0 .. m : (After(list, m, i) > MaxTask <=> i = m)
           /\ \A i \in 0 .. m - 1 : After(list, m, i) = Node(list, i + 1)
           /\ Front \in Int \ Nat /\ NoTask \in Nat /\ NoTask > MaxTask /\ TaskTypes \subseteq Nat
<1>1. MaxTask \in Nat /\ m \in Nat /\ m <= MaxTask
  BY SchedulerAssumption
<1>2. /\ Front \in Int \ Nat /\ NoTask \in Nat /\ NoTask > MaxTask /\ TaskTypes \subseteq Nat /\ TaskTypes = 0 .. MaxTask
      /\ NoTask \notin TaskTypes
  BY SchedulerAssumption DEF Front, NoTask, TaskTypes
<1> HIDE DEF Front, NoTask, TaskTypes
<1>3. list \in [1 .. m -> TaskTypes \ {t}]
  BY DEF Others
<1>4. \A i, j \in 1 .. m : list[i] = list[j] => i = j
  BY DEF Others
<1>5. \A i \in 0 .. m : Node(list, i) \in ({Front} \cup TaskTypes) \ {t}
  BY <1>2, <1>3 DEF Node
<1>6. \A i, j \in 0 .. m : Node(list, i) = Node(list, j) => i = j
  BY <1>2, <1>3, <1>4 DEF Node
<1>7. \A i \in 0 .. m : i < m => After(list, m, i) \in TaskTypes \ {t}
  BY <1>1, <1>3 DEF After
<1>8. \A i \in 0 .. m : After(list, m, i) \in (TaskTypes \cup {NoTask}) \ {t}
  BY <1>2, <1>7 DEF After
<1>9. \A i \in 0 .. m : (After(list, m, i) > MaxTask <=> i = m)
  BY <1>1, <1>2, <1>7 DEF After
<1>10. \A i \in 0 .. m - 1 : After(list, m, i) = Node(list, i + 1)
  BY <1>1 DEF Node, After
<1> QED
  BY <1>2, <1>5, <1>6, <1>7, <1>8, <1>9, <1>10

LEMMA WalkStepWalks ==
    ASSUME NEW tasks, NEW t \in TaskTypes, NEW m \in 0 .. MaxTask, NEW list, Others(tasks, t, list, m),
           NEW q \in Links, NEW d \in 0 .. m + 1, LinkedAt(q, t, list, m, d),
           NEW k \in 0 .. m,
           \A u \in TaskTypes : tasks[u].nextUpdate \in Int,
           \A i \in 0 .. k - 1 : tasks[After(list, m, i)].nextUpdate <= tasks[t].nextUpdate,
           k < m => tasks[After(list, m, k)].nextUpdate > tasks[t].nextUpdate,
           NEW e \in 0 .. m, e = IF d <= m THEN IF k < d THEN d ELSE k ELSE m,
           NEW j \in Nat, NEW w, Walked(w, q, t, list, m, d, k, e, j)
    PROVE  Walked(WalkStep(tasks, t, q[t], w), q, t, list, m, d, k, e, j + 1)
<1>v. PICK v : v = WalkStep(tasks, t, q[t], w)
  OBVIOUS
<1> SUFFICES Walked(v, q, t, list, m, d, k, e, j + 1)
  BY <1>v
<1>t. m \in Nat /\ MaxTask \in Nat
  BY SchedulerAssumption
<1>n. /\ \A i \in 0 .. m : Node(list, i) \in ({Front} \cup TaskTypes) \ {t}
      /\ \A i, h \in 0 .. m : Node(list, i) = Node(list, h) => i = h
      /\ \A i \in 0 .. m : i < m => After(list, m, i) \in TaskTypes \ {t}
      /\ \A i \in 0 .. m : After(list, m, i) \in (TaskTypes \cup {NoTask}) \ {t}
      /\ \A i \in 0 .. m : (After(list, m, i) > MaxTask <=> i = m)
      /\ \A i \in 0 .. m - 1 : After(list, m, i) = Node(list, i + 1)
  BY NodesDiffer
<1> HIDE DEF Front, NoTask, TaskTypes, Node, After
<1>1. CASE j > e
  <2>1. w.done
    BY <1>1 DEF Walked
  <2>2. v = w
    BY <1>v, <2>1 DEF WalkStep
  <2>3. ~(j + 1 <= e) /\ j + 1 > e
    BY <1>1
  <2> QED
    BY <1>1, <2>2, <2>3 DEF Walked
<1>2. CASE j <= e
  <2> DEFINE found == w.queue[w.idx] = t
             q1    == IF found THEN [w.queue EXCEPT ![w.idx] = q[t]] ELSE w.queue
             next  == q1[w.idx]
             here  == ~w.inserted /\ (next > MaxTask \/ tasks[next].nextUpdate > tasks[t].nextUpdate)
             q2    == IF here THEN [q1 EXCEPT ![w.idx] = t, ![t] = next] ELSE q1
             ends  == next > MaxTask \/ ((w.inserted \/ here) /\ (w.deleted \/ found))
  <2>j. j \in 0 .. m
    BY <1>2, <1>t
  <2>w. /\ w.queue \in Links /\ w.idx = Node(list, j)
        /\ w.inserted <=> k < j
        /\ w.deleted <=> d < j
        /\ ~w.done
        /\ \A i \in 0 .. m : w.queue[Node(list, i)] =
              IF i < j THEN IF i = k THEN t ELSE After(list, m, i)
              ELSE IF i = d THEN t ELSE After(list, m, i)
        /\ w.queue[t] = IF k < j THEN After(list, m, k) ELSE q[t]
    BY <1>2 DEF Walked
  <2>1. v = [queue |-> q2, idx |-> IF ends THEN w.idx ELSE next,
             inserted |-> w.inserted \/ here, deleted |-> w.deleted \/ found, done |-> ends]
    BY <1>v, <2>w DEF WalkStep
  <2>2. found <=> j = d
    BY <2>w, <2>j, <1>n
  <2>3. j = d => q[t] = After(list, m, j)
    BY <2>j, <1>t DEF LinkedAt
  <2>4. /\ q1 \in Links /\ q1[w.idx] = After(list, m, j)
        /\ \A i \in 0 .. m : i # j => q1[Node(list, i)] = w.queue[Node(list, i)]
        /\ q1[t] = w.queue[t]
    <3>1. CASE j = d
      BY <2>w, <2>2, <2>3, <2>j, <1>n, <3>1 DEF Links
    <3>2. CASE j # d
      BY <2>w, <2>2, <2>j, <1>n, <3>2
    <3> QED
      BY <3>1, <3>2
  <2>5. here <=> j = k
    <3> HIDE DEF q1
    <3> DEFINE later == next > MaxTask \/ tasks[next].nextUpdate > tasks[t].nextUpdate
    <3>1. k < j => ~here
      BY <2>w
    <3>2. j < k => ~later
      BY <2>4, <2>j, <1>n, <1>t
    <3>3. j = k => later
      BY <2>4, <2>j, <1>n, <1>t
    <3>4. j = k => ~w.inserted
      BY <2>w
    <3>5. k < j \/ j < k \/ j = k
      BY <2>j, <1>t
    <3> HIDE DEF later
    <3>6. here <=> ~w.inserted /\ later
      BY DEF later
    <3> HIDE DEF here
    <3>7. ~(k < j /\ j = k) /\ ~(j < k /\ j = k)
      BY <2>j, <1>t
    <3> QED
      BY <3>1, <3>2, <3>3, <3>4, <3>5, <3>6, <3>7, Zenon
  <2>6. /\ q2 \in Links /\ q2[Node(list, j)] = IF j = k THEN t ELSE After(list, m, j)
        /\ \A i \in 0 .. m : i # j => q2[Node(list, i)] = w.queue[Node(list, i)]
        /\ q2[t] = IF j = k THEN After(list, m, j) ELSE w.queue[t]
    <3> HIDE DEF q1, found
    <3>1. CASE j = k
      BY <2>w, <2>4, <2>5, <2>j, <1>n, <3>1 DEF Links
    <3>2. CASE j # k
      BY <2>w, <2>4, <2>5, <2>j, <1>n, <3>2
    <3> QED
      BY <3>1, <3>2
  <2>7. ends <=> j = e
    <3> HIDE DEF q1, q2, found, here
    <3>1. next > MaxTask <=> j = m
      BY <2>4, <2>j, <1>n
    <3>2. (w.inserted \/ here) <=> k < j \/ j = k
      BY <2>w, <2>5, Zenon
    <3>3. (w.deleted \/ found) <=> d < j \/ j = d
      BY <2>w, <2>2, Zenon
    <3>4. (j = m \/ ((k < j \/ j = k) /\ (d < j \/ j = d))) <=> j = e
      BY <1>2, <2>j, <1>t
    <3> HIDE DEF next
    <3>5. ends <=> next > MaxTask \/ ((w.inserted \/ here) /\ (w.deleted \/ found))
      OBVIOUS
    <3> HIDE DEF ends
    <3> QED
      BY <3>1, <3>2, <3>3, <3>4, <3>5, Zenon
  <2>8. v.queue = q2 /\ v.done = ends
    BY <2>1
  <2>9. CASE j = e
    <3>1. v.done
      BY <2>7, <2>8, <2>9
    <3>2. ASSUME NEW i \in 0 .. m PROVE v.queue[Node(list, i)] = IF i = k THEN t ELSE After(list, m, i)
      BY <2>6, <2>8, <2>9, <2>w, <2>j, <1>t
    <3>3. v.queue[t] = After(list, m, k)
      BY <2>6, <2>8, <2>9, <2>w, <2>j, <1>t
    <3>4. ~(j + 1 <= e) /\ j + 1 > e
      BY <2>9
    <3> QED
      BY <2>6, <2>8, <3>1, <3>2, <3>3, <3>4 DEF Walked
  <2>10. CASE j # e
    <3>1. j + 1 <= e /\ ~(j + 1 > e) /\ j < m
      BY <1>2, <2>10, <1>t
    <3>2. ~ends /\ next = Node(list, j + 1)
      BY <2>4, <2>7, <2>10, <2>j, <3>1, <1>n, <1>t
    <3>3. v.inserted \in BOOLEAN /\ (v.inserted <=> k < j + 1)
      <4>1. v.inserted = (w.inserted \/ here)
        BY <2>1
      <4>2. (k < j \/ j = k) <=> k < j + 1
        BY <2>j
      <4> HIDE DEF here
      <4>3. (w.inserted \/ here) <=> k < j \/ j = k
        BY <2>w, <2>5, Zenon
      <4> QED
        BY <4>1, <4>2, <4>3, Zenon
    <3>4. v.deleted \in BOOLEAN /\ (v.deleted <=> d < j + 1)
      <4>1. v.deleted = (w.deleted \/ found)
        BY <2>1
      <4>2. (d < j \/ j = d) <=> d < j + 1
        BY <2>j
      <4> HIDE DEF found
      <4>3. (w.deleted \/ found) <=> d < j \/ j = d
        BY <2>w, <2>2, Zenon
      <4> QED
        BY <4>1, <4>2, <4>3, Zenon
    <3>5. v.idx = Node(list, j + 1) /\ ~v.done
      <4> HIDE DEF found, here, q2, next, ends
      <4> QED
        BY <2>1, <3>2
    <3>6. ASSUME NEW i \in 0 .. m
          PROVE  v.queue[Node(list, i)] =
                   IF i < j + 1 THEN IF i = k THEN t ELSE After(list, m, i)
                   ELSE IF i = d THEN t ELSE After(list, m, i)
      BY <2>6, <2>8, <2>w, <2>j, <1>t
    <3>7. v.queue[t] = IF k < j + 1 THEN After(list, m, k) ELSE q[t]
      BY <2>6, <2>8, <2>w, <2>j, <1>t
    <3> QED
      BY <2>6, <2>8, <3>1, <3>3, <3>4, <3>5, <3>6, <3>7 DEF Walked
  <2> QED
    BY <2>9, <2>10
<1> QED
  BY <1>1, <1>2
\* The walk leaves a list in which t stands behind the k-th of the other tasks.
LEMMA WalkResult ==
    ASSUME NEW tasks, NEW t \in TaskTypes, NEW m \in 0 .. MaxTask, NEW list, Others(tasks, t, list, m),
           NEW q \in Links, NEW d \in 0 .. m + 1, LinkedAt(q, t, list, m, d),
           NEW k \in 0 .. m,
           \A u \in TaskTypes : tasks[u].nextUpdate \in Int,
           \A i \in 0 .. k - 1 : tasks[After(list, m, i)].nextUpdate <= tasks[t].nextUpdate,
           k < m => tasks[After(list, m, k)].nextUpdate > tasks[t].nextUpdate
    PROVE  /\ Walk(tasks, t, LoopStart(q)) \in Links
           /\ LinkedAt(Walk(tasks, t, LoopStart(q)), t, list, m, k)
<1>t. m \in Nat /\ MaxTask \in Nat
  BY SchedulerAssumption
<1>1. PICK e \in 0 .. m : e = IF d <= m THEN IF k < d THEN d ELSE k ELSE m
  BY <1>t
<1>2. PICK start : start = LoopStart(q)
  OBVIOUS
<1>3. start.queue = q
  BY <1>2 DEF LoopStart
<1>p. PICK w : WalkTrace(w, tasks, t, start)
  BY <1>t, WalkLoop
<1>4. /\ w[0] = start
      /\ \A n \in 1 .. MaxTask + 2 : w[n] = WalkStep(tasks, t, start.queue[t], w[n - 1])
      /\ Walk(tasks, t, start) = w[MaxTask + 2].queue
  BY <1>p DEF WalkTrace
<1> DEFINE S == {j \in 0 .. MaxTask + 2 : Walked(w[j], q, t, list, m, d, k, e, j)}
<1>5. 0 \in S
  <2>1. Walked(start, q, t, list, m, d, k, e, 0)
    <3>1. start.idx = Node(list, 0)
      BY <1>2 DEF LoopStart, Node
    <3>2. start.inserted = FALSE /\ start.deleted = FALSE /\ start.done = FALSE
      BY <1>2 DEF LoopStart
    <3>3. ~(k < 0) /\ ~(d < 0) /\ 0 <= e /\ ~(0 > e) /\ \A i \in 0 .. m : ~(i < 0)
      BY <1>t
    <3>4. \A i \in 0 .. m : q[Node(list, i)] = IF i = d THEN t ELSE After(list, m, i)
      BY DEF LinkedAt
    <3> QED
      BY <1>3, <3>1, <3>2, <3>3, <3>4 DEF Walked
  <2> QED
    BY <1>4, <1>t, <2>1
<1>6. ASSUME NEW n \in 1 .. MaxTask + 2, n - 1 \in S PROVE n \in S
  <2>1. n - 1 \in Nat /\ (n - 1) + 1 = n
    OBVIOUS
  <2>2. PICK v : v = w[n - 1]
    OBVIOUS
  <2>3. PICK j \in Nat : j = n - 1
    BY <2>1
  <2>4. Walked(v, q, t, list, m, d, k, e, j)
    BY <1>6, <2>2, <2>3
  <2>5. Walked(WalkStep(tasks, t, q[t], v), q, t, list, m, d, k, e, j + 1)
    BY <2>4, <1>1, WalkStepWalks
  <2> QED
    BY <1>3, <1>4, <2>1, <2>2, <2>3, <2>5
<1>7. MaxTask + 2 \in S
  <2>1. PICK N \in Nat : N = MaxTask + 2
    BY <1>t
  <2> HIDE DEF S
  <2>2. 0 .. N \subseteq S
    BY <1>5, <1>6, <2>1, UpTo
  <2> QED
    BY <2>1, <2>2
<1>8. MaxTask + 2 > e
  BY <1>t
<1>9. PICK v : v = w[MaxTask + 2]
  OBVIOUS
<1>10. v.queue \in Links /\ LinkedAt(v.queue, t, list, m, k)
  BY <1>7, <1>8, <1>9 DEF Walked, LinkedAt
<1> QED
  BY <1>2, <1>4, <1>9, <1>10

-----------------------------------------------------------------------------
(***************************************************************************)
(* The loop of UnscheduleTask.                                             *)
(***************************************************************************)
LoopStates ==
    [queue : Links, idx : {Front} \cup TaskTypes, inserted : BOOLEAN, deleted : BOOLEAN, done : BOOLEAN]

\* The state of the loop after j iterations; e is the task at which it ends.
Unlinking(w, q, t, list, m, e, j) ==
    /\ w \in LoopStates
    /\ j <= e => w.idx = Node(list, j) /\ w.queue = q /\ ~w.done
    /\ j > e => w.done /\ \A i \in 0 .. m : w.queue[Node(list, i)] = After(list, m, i)

LEMMA UnlinkStepUnlinks ==
    ASSUME NEW tasks, NEW t \in TaskTypes, NEW m \in 0 .. MaxTask, NEW list, Others(tasks, t, list, m),
           NEW q \in Links, NEW d \in 0 .. m + 1, LinkedAt(q, t, list, m, d),
           NEW e \in 0 .. m, e = IF d <= m THEN d ELSE m,
           NEW j \in Nat, NEW w, Unlinking(w, q, t, list, m, e, j)
    PROVE  Unlinking(UnlinkStep(t, w), q, t, list, m, e, j + 1)
<1>v. PICK v : v = UnlinkStep(t, w)
  OBVIOUS
<1> SUFFICES Unlinking(v, q, t, list, m, e, j + 1)
  BY <1>v
<1>t. m \in Nat /\ MaxTask \in Nat
  BY SchedulerAssumption
<1>n. /\ \A i \in 0 .. m : Node(list, i) \in ({Front} \cup TaskTypes) \ {t}
      /\ \A i, h \in 0 .. m : Node(list, i) = Node(list, h) => i = h
      /\ \A i \in 0 .. m : i < m => After(list, m, i) \in TaskTypes \ {t}
      /\ \A i \in 0 .. m : After(list, m, i) \in (TaskTypes \cup {NoTask}) \ {t}
      /\ \A i \in 0 .. m : (After(list, m, i) > MaxTask <=> i = m)
      /\ \A i \in 0 .. m - 1 : After(list, m, i) = Node(list, i + 1)
      /\ Front \in Int \ Nat /\ NoTask \in Nat /\ NoTask > MaxTask /\ TaskTypes \subseteq Nat
  BY NodesDiffer
<1>k. t <= MaxTask /\ t \in Nat
  BY <1>t DEF TaskTypes
<1>q. /\ \A i \in 0 .. m : q[Node(list, i)] = IF i = d THEN t ELSE After(list, m, i)
      /\ d <= m => q[t] = After(list, m, d)
  BY DEF LinkedAt
<1> HIDE DEF Front, NoTask, TaskTypes, Node, After
<1>1. CASE j > e
  <2>1. v = w
    BY <1>1, <1>v DEF UnlinkStep, Unlinking
  <2>2. ~(j + 1 <= e) /\ j + 1 > e
    BY <1>1
  <2> QED
    BY <1>1, <2>1, <2>2 DEF Unlinking
<1>2. CASE j <= e
  <2>j. j \in 0 .. m
    BY <1>2, <1>t
  <2>w. w \in LoopStates /\ w.idx = Node(list, j) /\ w.queue = q /\ ~w.done
    BY <1>2 DEF Unlinking
  <2>1. CASE j = d
    <3>1. j = e
      BY <2>j, <2>1, <1>t
    <3>2. v = [w EXCEPT !.queue[w.idx] = w.queue[t], !.done = TRUE]
      BY <1>v, <1>q, <2>w, <2>j, <2>1 DEF UnlinkStep
    <3>3. v \in LoopStates /\ v.done /\ v.queue = [q EXCEPT ![Node(list, j)] = q[t]]
      BY <3>2, <2>w, <2>j, <1>n DEF LoopStates, Links
    <3>4. ASSUME NEW i \in 0 .. m PROVE v.queue[Node(list, i)] = After(list, m, i)
      BY <3>3, <1>n, <1>q, <2>j, <2>1 DEF Links
    <3>5. ~(j + 1 <= e) /\ j + 1 > e
      BY <3>1
    <3> QED
      BY <3>3, <3>4, <3>5 DEF Unlinking
  <2>2. CASE j # d /\ j = m
    <3>1. j = e /\ d > m
      BY <1>2, <2>j, <2>2, <1>t
    <3>2. v = [w EXCEPT !.done = TRUE]
      BY <1>v, <1>q, <1>n, <1>k, <2>w, <2>j, <2>2 DEF UnlinkStep
    <3>3. v \in LoopStates /\ v.done /\ v.queue = q
      BY <3>2, <2>w DEF LoopStates
    <3>4. ASSUME NEW i \in 0 .. m PROVE v.queue[Node(list, i)] = After(list, m, i)
      BY <3>1, <3>3, <1>q
    <3>5. ~(j + 1 <= e) /\ j + 1 > e
      BY <3>1
    <3> QED
      BY <3>3, <3>4, <3>5 DEF Unlinking
  <2>3. CASE j # d /\ j # m
    <3>1. j + 1 <= e /\ ~(j + 1 > e) /\ j \in 0 .. m - 1
      BY <1>2, <2>j, <2>3, <1>t
    <3>2. q[Node(list, j)] = Node(list, j + 1) /\ Node(list, j + 1) # t /\ ~(Node(list, j + 1) > MaxTask)
          /\ Node(list, j + 1) \in TaskTypes
      BY <1>q, <1>n, <2>j, <2>3, <3>1, <1>t
    <3>3. v = [w EXCEPT !.idx = Node(list, j + 1)]
      BY <1>v, <3>2, <2>w DEF UnlinkStep
    <3>4. v \in LoopStates /\ ~v.done /\ v.queue = q /\ v.idx = Node(list, j + 1)
      BY <3>2, <3>3, <2>w DEF LoopStates
    <3> QED
      BY <3>1, <3>4 DEF Unlinking
  <2> QED
    BY <2>1, <2>2, <2>3
<1> QED
  BY <1>1, <1>2

\* The loop leaves a list of the other tasks.
LEMMA UnlinkResult ==
    ASSUME NEW tasks, NEW t \in TaskTypes, NEW m \in 0 .. MaxTask, NEW list, Others(tasks, t, list, m),
           NEW q \in Links, NEW d \in 0 .. m + 1, LinkedAt(q, t, list, m, d)
    PROVE  /\ Unlink(t, LoopStart(q)) \in Links
           /\ Leads(Unlink(t, LoopStart(q)), list, m)
<1>t. m \in Nat /\ MaxTask \in Nat
  BY SchedulerAssumption
<1>1. PICK e \in 0 .. m : e = IF d <= m THEN d ELSE m
  BY <1>t
<1>2. PICK start : start = LoopStart(q)
  OBVIOUS
<1>p. PICK w : UnlinkTrace(w, t, start)
  BY <1>t, UnlinkLoop
<1>4. /\ w[0] = start
      /\ \A n \in 1 .. MaxTask + 2 : w[n] = UnlinkStep(t, w[n - 1])
      /\ Unlink(t, start) = w[MaxTask + 2].queue
  BY <1>p DEF UnlinkTrace
<1> DEFINE S == {j \in 0 .. MaxTask + 2 : Unlinking(w[j], q, t, list, m, e, j)}
<1>5. 0 \in S
  <2>1. start.idx = Node(list, 0) /\ start.done = FALSE /\ start.queue = q
    BY <1>2 DEF LoopStart, Node
  <2>2. start \in LoopStates
    BY <1>2 DEF LoopStart, LoopStates
  <2>3. 0 <= e /\ ~(0 > e)
    BY <1>t
  <2> QED
    BY <1>4, <1>t, <2>1, <2>2, <2>3 DEF Unlinking
<1>6. ASSUME NEW n \in 1 .. MaxTask + 2, n - 1 \in S PROVE n \in S
  <2>1. n - 1 \in Nat /\ (n - 1) + 1 = n
    OBVIOUS
  <2>2. PICK v : v = w[n - 1]
    OBVIOUS
  <2>3. PICK j \in Nat : j = n - 1
    BY <2>1
  <2>4. Unlinking(v, q, t, list, m, e, j)
    BY <1>6, <2>2, <2>3
  <2>5. Unlinking(UnlinkStep(t, v), q, t, list, m, e, j + 1)
    BY <2>4, <1>1, UnlinkStepUnlinks
  <2> QED
    BY <1>4, <2>1, <2>2, <2>3, <2>5
<1>7. MaxTask + 2 \in S
  <2>1. PICK N \in Nat : N = MaxTask + 2
    BY <1>t
  <2> HIDE DEF S
  <2>2. 0 .. N \subseteq S
    BY <1>5, <1>6, <2>1, UpTo
  <2> QED
    BY <2>1, <2>2
<1>8. MaxTask + 2 > e
  BY <1>t
<1>9. PICK v : v = w[MaxTask + 2]
  OBVIOUS
<1>10. v.queue \in Links /\ Leads(v.queue, list, m)
  BY <1>7, <1>8, <1>9 DEF Unlinking, Leads, LoopStates
<1> QED
  BY <1>2, <1>4, <1>9, <1>10
-----------------------------------------------------------------------------
(***************************************************************************)
(* The methods of the scheduler.                                           *)
(***************************************************************************)
Clock == 0 .. Wrap - 1
Tasks == [period : Nat, lastUpdate : Clock, nextUpdate : Clock, batchedTicks : Nat]
Schedulers == [accTime : Nat, nextUpdate : Clock, tasks : [TaskTypes -> Tasks], queue : Links]

LEMMA ScheduleFields ==
    ASSUME NEW sch \in Schedulers
    PROVE  /\ sch.accTime \in Nat /\ sch.nextUpdate \in Clock /\ sch.queue \in Links
           /\ sch.tasks \in [TaskTypes -> Tasks]
           /\ \A t \in TaskTypes :
                /\ sch.tasks[t] \in Tasks
                /\ sch.tasks[t].period \in Nat /\ sch.tasks[t].lastUpdate \in Clock
                /\ sch.tasks[t].nextUpdate \in Clock /\ sch.tasks[t].batchedTicks \in Nat
                /\ sch.tasks[t].nextUpdate \in Nat /\ sch.tasks[t].lastUpdate \in Nat
<1> USE SchedulerAssumption
<1>1. sch.accTime \in Nat /\ sch.nextUpdate \in Clock /\ sch.queue \in Links /\ sch.tasks \in [TaskTypes -> Tasks]
  BY DEF Schedulers
<1>2. ASSUME NEW t \in TaskTypes
      PROVE  /\ sch.tasks[t] \in Tasks
             /\ sch.tasks[t].period \in Nat /\ sch.tasks[t].lastUpdate \in Clock
             /\ sch.tasks[t].nextUpdate \in Clock /\ sch.tasks[t].batchedTicks \in Nat
  BY <1>1 DEF Tasks
<1>3. Clock \subseteq Nat
  BY DEF Clock
<1> QED
  BY <1>1, <1>2, <1>3

\* InOrderBut does not look at t.
LEMMA ButForTask ==
    ASSUME NEW sch, NEW t \in TaskTypes, InOrderBut(sch, t),
           NEW r, r.queue = sch.queue, \A u \in TaskTypes \ {t} : r.tasks[u] = sch.tasks[u]
    PROVE  InOrderBut(r, t)
<1>1. PICK m \in 0 .. MaxTask : \E list : \E d \in 0 .. m + 1 :
        /\ Others(sch.tasks, t, list, m) /\ LinkedAt(sch.queue, t, list, m, d)
        /\ \A u \in TaskTypes \ {t} :
             sch.tasks[u].batchedTicks > 0 <=> \E i \in 1 .. m : list[i] = u
  BY DEF InOrderBut
<1>2. PICK list : \E d \in 0 .. m + 1 :
        /\ Others(sch.tasks, t, list, m) /\ LinkedAt(sch.queue, t, list, m, d)
        /\ \A u \in TaskTypes \ {t} :
             sch.tasks[u].batchedTicks > 0 <=> \E i \in 1 .. m : list[i] = u
  BY <1>1
<1>3. Others(r.tasks, t, list, m)
  BY <1>2 DEF Others
<1>4. \A u \in TaskTypes \ {t} : r.tasks[u].batchedTicks > 0 <=> \E i \in 1 .. m : list[i] = u
  BY <1>2
<1> QED
  BY <1>2, <1>3, <1>4 DEF InOrderBut

\* Where the task belongs among the others.
LEMMA Place ==
    ASSUME NEW sch \in Schedulers, NEW t \in TaskTypes, NEW m \in 0 .. MaxTask, NEW list,
           Others(sch.tasks, t, list, m)
    PROVE  \E k \in 0 .. m :
             /\ \A i \in 0 .. k - 1 : sch.tasks[After(list, m, i)].nextUpdate <= sch.tasks[t].nextUpdate
             /\ k < m => sch.tasks[After(list, m, k)].nextUpdate > sch.tasks[t].nextUpdate
<1>t. m \in Nat /\ MaxTask \in Nat
  BY SchedulerAssumption
<1> DEFINE S == {i \in 0 .. m : i = m \/ sch.tasks[After(list, m, i)].nextUpdate > sch.tasks[t].nextUpdate}
<1>1. m \in S /\ S \subseteq Nat
  BY <1>t
<1>2. PICK k \in S : \A i \in S : k <= i
  <2> HIDE DEF S
  <2> QED
    BY <1>1, Least
<1>3. ASSUME NEW i \in 0 .. k - 1
      PROVE  sch.tasks[After(list, m, i)].nextUpdate <= sch.tasks[t].nextUpdate
  <2>1. i \in 0 .. m /\ i # m /\ i \notin S
    BY <1>2, <1>t
  <2>2. After(list, m, i) \in TaskTypes
    <3>1. i + 1 \in 1 .. m
      BY <1>t, <2>1
    <3> QED
      BY <2>1, <3>1 DEF After, Others
  <2>3. sch.tasks[After(list, m, i)].nextUpdate \in Nat /\ sch.tasks[t].nextUpdate \in Nat
    BY <2>2, ScheduleFields
  <2> QED
    BY <2>1, <2>3
<1>4. k \in 0 .. m /\ (k < m => sch.tasks[After(list, m, k)].nextUpdate > sch.tasks[t].nextUpdate)
  BY <1>2, <1>t
<1> QED
  BY <1>3, <1>4

\* RescheduleTaskImpl links a task in so that the list is in order again.
LEMMA EnqueuedInOrder ==
    ASSUME NEW sch \in Schedulers, NEW t \in TaskTypes, InOrderBut(sch, t),
           sch.tasks[t].batchedTicks > 0
    PROVE  Enqueued(sch, t).queue \in Links /\ InOrder(Enqueued(sch, t))
<1>t. MaxTask \in Nat
  BY SchedulerAssumption
<1>1. PICK m \in 0 .. MaxTask : \E list : \E d \in 0 .. m + 1 :
        /\ Others(sch.tasks, t, list, m) /\ LinkedAt(sch.queue, t, list, m, d)
        /\ \A u \in TaskTypes \ {t} :
             sch.tasks[u].batchedTicks > 0 <=> \E i \in 1 .. m : list[i] = u
  BY DEF InOrderBut
<1>2. PICK list : \E d \in 0 .. m + 1 :
        /\ Others(sch.tasks, t, list, m) /\ LinkedAt(sch.queue, t, list, m, d)
        /\ \A u \in TaskTypes \ {t} :
             sch.tasks[u].batchedTicks > 0 <=> \E i \in 1 .. m : list[i] = u
  BY <1>1
<1>3. PICK d \in 0 .. m + 1 : LinkedAt(sch.queue, t, list, m, d)
  BY <1>2
<1>o. Others(sch.tasks, t, list, m)
  BY <1>2
<1>4. PICK k \in 0 .. m :
        /\ \A i \in 0 .. k - 1 : sch.tasks[After(list, m, i)].nextUpdate <= sch.tasks[t].nextUpdate
        /\ k < m => sch.tasks[After(list, m, k)].nextUpdate > sch.tasks[t].nextUpdate
  BY <1>o, Place
<1>5. PICK q : q = Walk(sch.tasks, t, LoopStart(sch.queue))
  OBVIOUS
<1>f. /\ sch.queue \in Links /\ sch.tasks \in [TaskTypes -> Tasks]
      /\ \A u \in TaskTypes : sch.tasks[u].nextUpdate \in Nat /\ sch.tasks[u].batchedTicks \in Nat
  BY ScheduleFields
<1>6. q \in Links /\ LinkedAt(q, t, list, m, k)
  <2>1. PICK tasks : tasks = sch.tasks
    OBVIOUS
  <2>2. PICK q0 : q0 = sch.queue
    OBVIOUS
  <2>3. \A u \in TaskTypes : tasks[u].nextUpdate \in Int
    BY <1>f, <2>1
  <2>4. q0 \in Links /\ LinkedAt(q0, t, list, m, d) /\ Others(tasks, t, list, m)
    BY <1>f, <1>3, <1>o, <2>1, <2>2
  <2>5. /\ \A i \in 0 .. k - 1 : tasks[After(list, m, i)].nextUpdate <= tasks[t].nextUpdate
        /\ k < m => tasks[After(list, m, k)].nextUpdate > tasks[t].nextUpdate
    BY <1>4, <2>1
  <2>6. Walk(tasks, t, LoopStart(q0)) \in Links /\ LinkedAt(Walk(tasks, t, LoopStart(q0)), t, list, m, k)
    BY <2>3, <2>4, <2>5, WalkResult
  <2> QED
    BY <1>5, <2>1, <2>2, <2>6
<1>7. PICK r : r = Enqueued(sch, t)
  OBVIOUS
<1>8. r.queue = q /\ r.tasks = sch.tasks
  BY <1>5, <1>7 DEF Enqueued, Schedulers
<1> DEFINE n == m + 1
           full == [i \in 1 .. n |-> IF i <= k THEN list[i] ELSE IF i = k + 1 THEN t ELSE list[i - 1]]
<1>n. n \in 0 .. MaxTask + 1 /\ m \in Nat /\ n \in Nat
  BY <1>t
<1>l. list \in [1 .. m -> TaskTypes \ {t}]
  BY <1>o DEF Others
<1>9. full \in [1 .. n -> TaskTypes]
  BY <1>l, <1>n
<1>10. ASSUME NEW i \in 0 .. n PROVE q[Node(full, i)] = After(full, n, i)
  <2>q. /\ \A h \in 0 .. m : q[Node(list, h)] = IF h = k THEN t ELSE After(list, m, h)
        /\ q[t] = After(list, m, k)
    BY <1>6, <1>n DEF LinkedAt
  <2>1. CASE i < k
    <3>1. Node(full, i) = Node(list, i) /\ After(full, n, i) = After(list, m, i)
      BY <2>1, <1>n DEF Node, After
    <3> QED
      BY <2>1, <2>q, <3>1, <1>n
  <2>2. CASE i = k
    <3>1. Node(full, i) = Node(list, i) /\ After(full, n, i) = t
      BY <2>2, <1>n DEF Node, After
    <3> QED
      BY <2>2, <2>q, <3>1, <1>n
  <2>3. CASE i = k + 1
    <3>1. Node(full, i) = t /\ After(full, n, i) = After(list, m, k)
      BY <2>3, <1>n DEF Node, After
    <3> QED
      BY <2>3, <2>q, <3>1, <1>n
  <2>4. CASE i > k + 1
    <3>1. Node(full, i) = Node(list, i - 1) /\ After(full, n, i) = After(list, m, i - 1)
      <4>1. i \in 1 .. n /\ ~(i <= k) /\ i # k + 1 /\ i # 0 /\ i - 1 # 0
        BY <2>4, <1>n
      <4>2. Node(full, i) = Node(list, i - 1)
        BY <4>1 DEF Node
      <4>3. CASE i = n
        BY <4>2, <4>3, <1>n DEF After
      <4>4. CASE i # n
        <5>1. i + 1 \in 1 .. n /\ ~(i + 1 <= k) /\ i + 1 # k + 1 /\ (i + 1) - 1 = i /\ (i - 1) + 1 = i /\ i - 1 # m
          BY <4>1, <4>4, <1>n
        <5>2. full[i + 1] = list[i]
          BY <5>1
        <5> QED
          BY <4>2, <4>4, <5>1, <5>2 DEF After
      <4> QED
        BY <4>2, <4>3, <4>4
    <3> QED
      BY <2>4, <2>q, <3>1, <1>n
  <2> QED
    BY <2>1, <2>2, <2>3, <2>4
<1>11. ASSUME NEW u \in TaskTypes
       PROVE  sch.tasks[u].batchedTicks > 0 <=> \E i \in 1 .. n : full[i] = u
  <2>1. CASE u = t
    <3>1. k + 1 \in 1 .. n /\ full[k + 1] = t
      BY <1>n
    <3> QED
      BY <2>1, <3>1
  <2>2. CASE u # t
    <3>1. ASSUME NEW i \in 1 .. m, list[i] = u PROVE \E h \in 1 .. n : full[h] = u
      <4>1. CASE i <= k
        <5>1. i \in 1 .. n /\ full[i] = u
          BY <1>n, <3>1, <4>1
        <5> QED
          BY <5>1
      <4>2. CASE i > k
        <5>1. i + 1 \in 1 .. n /\ full[i + 1] = u
          BY <1>n, <3>1, <4>2
        <5> QED
          BY <5>1
      <4> QED
        BY <4>1, <4>2
    <3>2. ASSUME NEW h \in 1 .. n, full[h] = u PROVE \E i \in 1 .. m : list[i] = u
      <4>1. CASE h <= k
        <5>1. h \in 1 .. m /\ list[h] = u
          BY <1>n, <3>2, <4>1
        <5> QED
          BY <5>1
      <4>2. CASE h > k
        <5>1. h - 1 \in 1 .. m /\ list[h - 1] = u
          BY <1>n, <2>2, <3>2, <4>2
        <5> QED
          BY <5>1
      <4> QED
        BY <4>1, <4>2
    <3> QED
      BY <1>2, <2>2, <3>1, <3>2
  <2> QED
    BY <2>1, <2>2
<1>12. ASSUME NEW i \in 1 .. n, NEW j \in 1 .. n, i < j
       PROVE  full[i] # full[j] /\ sch.tasks[full[i]].nextUpdate <= sch.tasks[full[j]].nextUpdate
  <2>1. \A h \in 1 .. m : h <= k => sch.tasks[list[h]].nextUpdate <= sch.tasks[t].nextUpdate
    <3>1. ASSUME NEW h \in 1 .. m, h <= k
          PROVE  sch.tasks[list[h]].nextUpdate <= sch.tasks[t].nextUpdate
      <4>1. h - 1 \in 0 .. k - 1 /\ After(list, m, h - 1) = list[h]
        BY <3>1, <1>n DEF After
      <4> QED
        BY <1>4, <4>1
    <3> QED
      BY <3>1
  <2>2. \A h, g \in 1 .. m : h < g =>
          list[h] # list[g] /\ sch.tasks[list[h]].nextUpdate <= sch.tasks[list[g]].nextUpdate
    BY <1>o DEF Others
  <2>3. \A h \in 1 .. m : h > k => sch.tasks[t].nextUpdate <= sch.tasks[list[h]].nextUpdate
    <3>1. ASSUME NEW h \in 1 .. m, h > k
          PROVE  sch.tasks[t].nextUpdate <= sch.tasks[list[h]].nextUpdate
      <4>1. After(list, m, k) = list[k + 1] /\ k + 1 \in 1 .. m /\ k < m
        BY <3>1, <1>n DEF After
      <4>2. list[k + 1] \in TaskTypes /\ list[h] \in TaskTypes
        BY <1>l, <4>1
      <4>3. sch.tasks[t].nextUpdate < sch.tasks[list[k + 1]].nextUpdate
        BY <1>4, <4>1
      <4>4. sch.tasks[list[k + 1]].nextUpdate <= sch.tasks[list[h]].nextUpdate
        <5>1. CASE h = k + 1
          BY <5>1, <4>2, <1>f
        <5>2. CASE h > k + 1
          BY <5>2, <4>1, <2>2, <1>n
        <5> QED
          BY <5>1, <5>2, <3>1, <1>n
      <4> QED
        BY <4>2, <4>3, <4>4, <1>f
    <3> QED
      BY <3>1
  <2>4. \A h \in 1 .. m : list[h] # t
    BY <1>l
  <2>5. CASE j <= k
    BY <1>12, <2>2, <2>5, <1>n
  <2>6. CASE j = k + 1
    BY <1>12, <2>1, <2>4, <2>6, <1>n
  <2>7. CASE j > k + 1 /\ i <= k
    BY <1>12, <2>2, <2>7, <1>n
  <2>8. CASE j > k + 1 /\ i = k + 1
    BY <1>12, <2>3, <2>4, <2>8, <1>n
  <2>9. CASE j > k + 1 /\ i > k + 1
    BY <1>12, <2>2, <2>9, <1>n
  <2> QED
    BY <2>5, <2>6, <2>7, <2>8, <2>9, <1>n
<1>13. Leads(q, full, n)
  BY <1>10 DEF Leads
<1>14. InOrder(r)
  <2> HIDE DEF full, n
  <2> QED
    BY <1>n, <1>8, <1>9, <1>11, <1>12, <1>13 DEF InOrder
<1> QED
  BY <1>6, <1>7, <1>8, <1>14

\* UnscheduleTask takes a task out of the list, which stays in order.
LEMMA UnlinkedInOrder ==
    ASSUME NEW sch \in Schedulers, NEW t \in TaskTypes, InOrderBut(sch, t),
           NEW r, r.queue = Unlink(t, LoopStart(sch.queue)), r.tasks[t].batchedTicks = 0,
           \A u \in TaskTypes \ {t} : r.tasks[u] = sch.tasks[u]
    PROVE  r.queue \in Links /\ InOrder(r)
<1>t. MaxTask \in Nat
  BY SchedulerAssumption
<1>1. PICK m \in 0 .. MaxTask : \E list : \E d \in 0 .. m + 1 :
        /\ Others(sch.tasks, t, list, m) /\ LinkedAt(sch.queue, t, list, m, d)
        /\ \A u \in TaskTypes \ {t} :
             sch.tasks[u].batchedTicks > 0 <=> \E i \in 1 .. m : list[i] = u
  BY DEF InOrderBut
<1>2. PICK list : \E d \in 0 .. m + 1 :
        /\ Others(sch.tasks, t, list, m) /\ LinkedAt(sch.queue, t, list, m, d)
        /\ \A u \in TaskTypes \ {t} :
             sch.tasks[u].batchedTicks > 0 <=> \E i \in 1 .. m : list[i] = u
  BY <1>1
<1>3. PICK d \in 0 .. m + 1 : LinkedAt(sch.queue, t, list, m, d)
  BY <1>2
<1>o. Others(sch.tasks, t, list, m)
  BY <1>2
<1>l. list \in [1 .. m -> TaskTypes \ {t}]
  BY <1>o DEF Others
<1>4. sch.queue \in Links
  BY ScheduleFields
<1>5. r.queue \in Links /\ Leads(r.queue, list, m)
  <2>1. PICK q : q = sch.queue
    OBVIOUS
  <2>2. PICK tasks : tasks = sch.tasks
    OBVIOUS
  <2>3. q \in Links /\ LinkedAt(q, t, list, m, d) /\ Others(tasks, t, list, m)
    BY <1>3, <1>4, <1>o, <2>1, <2>2
  <2>4. Unlink(t, LoopStart(q)) \in Links /\ Leads(Unlink(t, LoopStart(q)), list, m)
    BY <2>3, UnlinkResult
  <2> QED
    BY <2>1, <2>4
<1>6. ASSUME NEW u \in TaskTypes
      PROVE  r.tasks[u].batchedTicks > 0 <=> \E i \in 1 .. m : list[i] = u
  <2>1. CASE u = t
    BY <1>l, <2>1
  <2>2. CASE u # t
    BY <1>2, <2>2
  <2> QED
    BY <2>1, <2>2
<1>7. ASSUME NEW i \in 1 .. m, NEW j \in 1 .. m, i < j
      PROVE  list[i] # list[j] /\ r.tasks[list[i]].nextUpdate <= r.tasks[list[j]].nextUpdate
  <2>1. r.tasks[list[i]] = sch.tasks[list[i]] /\ r.tasks[list[j]] = sch.tasks[list[j]]
    BY <1>l
  <2> QED
    BY <1>o, <1>7, <2>1 DEF Others
<1>8. m \in 0 .. MaxTask + 1 /\ list \in [1 .. m -> TaskTypes]
  BY <1>t, <1>l
<1> QED
  BY <1>5, <1>6, <1>7, <1>8 DEF InOrder
\* What the arithmetic of times yields.
LEMMA ClockMod ==
    ASSUME NEW x \in Int
    PROVE  x % Wrap \in Clock /\ x % Wrap \in Nat
BY SchedulerAssumption, DivMod DEF Clock

LEMMA DivNat ==
    ASSUME NEW x \in Nat, NEW p \in Nat \ {0}
    PROVE  x \div p \in Nat
<1>1. x = (x \div p) * p + (x % p) /\ x % p \in 0 .. p - 1 /\ x \div p \in Int
  BY DivMod
<1> QED
  BY <1>1

LEMMA ClockSmall ==
    ASSUME NEW x \in Nat, x < Wrap
    PROVE  x % Wrap = x
BY SchedulerAssumption

LEMMA TickTypes ==
    ASSUME NEW sch \in Schedulers, NEW t \in TaskTypes, sch.tasks[t].period \in Nat \ {0}
    PROVE  LastTick(sch, t) \in Clock /\ LastTick(sch, t) \in Nat /\ Accumulated(sch, t) \in Nat
<1>f. /\ sch.accTime \in Nat /\ sch.tasks[t].lastUpdate \in Clock /\ sch.tasks[t].lastUpdate \in Nat
      /\ sch.tasks[t].nextUpdate \in Nat
  BY ScheduleFields
<1>1. PICK p \in Nat \ {0} : p = sch.tasks[t].period
  OBVIOUS
<1>2. PICK a \in Nat : a = (sch.accTime - sch.tasks[t].lastUpdate) % Wrap
  BY <1>f, ClockMod
<1>3. PICK b \in Nat : b = (sch.accTime - sch.tasks[t].nextUpdate) % Wrap
  BY <1>f, ClockMod
<1>4. PICK c \in Nat : c = b \div p
  BY DivNat
<1>5. PICK u \in Nat : u = sch.tasks[t].nextUpdate
  BY <1>f
<1>6. c * p + u \in Int
  OBVIOUS
<1>7. (c * p + u) % Wrap \in Clock /\ (c * p + u) % Wrap \in Nat
  BY <1>6, ClockMod
<1>8. LastTick(sch, t) \in Clock /\ LastTick(sch, t) \in Nat
  BY <1>1, <1>3, <1>4, <1>5, <1>7, <1>f DEF LastTick
<1>9. Accumulated(sch, t) \in Nat
  BY <1>1, <1>2, DivNat DEF Accumulated
<1> QED
  BY <1>8, <1>9

\* The field nextUpdate of the scheduler tells the due time of the first task.
HeadKnown(sch) ==
    sch.nextUpdate = IF sch.queue[Front] <= MaxTask THEN sch.tasks[sch.queue[Front]].nextUpdate
                     ELSE (sch.accTime + Second) % Wrap

LEMMA Updated ==
    ASSUME NEW sch \in Schedulers
    PROVE  /\ UpdateNextUpdate(sch) \in Schedulers /\ HeadKnown(UpdateNextUpdate(sch))
           /\ UpdateNextUpdate(sch).accTime = sch.accTime /\ UpdateNextUpdate(sch).tasks = sch.tasks
           /\ UpdateNextUpdate(sch).queue = sch.queue
<1>f. /\ sch.accTime \in Nat /\ sch.queue \in Links
      /\ \A t \in TaskTypes : sch.tasks[t].nextUpdate \in Clock
  BY ScheduleFields
<1>1. PICK x : x = IF sch.queue[Front] <= MaxTask THEN sch.tasks[sch.queue[Front]].nextUpdate
                   ELSE (sch.accTime + Second) % Wrap
  OBVIOUS
<1>2. x \in Clock
  <2>1. CASE sch.queue[Front] <= MaxTask
    <3>1. sch.queue[Front] \in TaskTypes
      BY <1>f, <2>1, SchedulerAssumption DEF Links, NoTask
    <3> QED
      BY <1>1, <1>f, <2>1, <3>1
  <2>2. CASE ~(sch.queue[Front] <= MaxTask)
    <3>1. sch.accTime + Second \in Int
      BY <1>f, SchedulerAssumption
    <3>2. (sch.accTime + Second) % Wrap \in Clock
      BY <3>1, ClockMod
    <3> QED
      BY <1>1, <2>2, <3>2
  <2> QED
    BY <2>1, <2>2
<1>3. PICK r : r = UpdateNextUpdate(sch)
  OBVIOUS
<1>4. r = [sch EXCEPT !.nextUpdate = x]
  BY <1>1, <1>3 DEF UpdateNextUpdate
<1>5. /\ r \in Schedulers /\ r.nextUpdate = x
      /\ r.accTime = sch.accTime /\ r.tasks = sch.tasks /\ r.queue = sch.queue
  BY <1>2, <1>4 DEF Schedulers
<1>6. HeadKnown(r)
  BY <1>1, <1>5 DEF HeadKnown
<1> QED
  BY <1>3, <1>5, <1>6

\* InOrder depends on tasks and links only.
LEMMA SameOrder ==
    ASSUME NEW sch, InOrder(sch), NEW r, r.tasks = sch.tasks, r.queue = sch.queue
    PROVE  InOrder(r)
BY DEF InOrder

\* The batch that RescheduleTaskImpl decides on.
Batch(sch, t, batchTicks, atLeast) ==
    IF atLeast /\ Accumulated(sch, t) > batchTicks THEN Accumulated(sch, t) ELSE batchTicks

\* Task t of r has been rescheduled from sch, with a batch that is not empty.
TaskRescheduled(r, sch, t, batch) ==
    /\ r.tasks[t].period = sch.tasks[t].period /\ r.tasks[t].batchedTicks = batch
    /\ r.tasks[t].lastUpdate = LastTick(sch, t)
    /\ r.tasks[t].nextUpdate = (LastTick(sch, t) + batch * sch.tasks[t].period) % Wrap

\* r is a scheduler in order that differs from sch in task t only.
Keeps(r, sch, t) ==
    /\ r \in Schedulers /\ InOrder(r) /\ HeadKnown(r) /\ r.accTime = sch.accTime
    /\ \A u \in TaskTypes \ {t} : r.tasks[u] = sch.tasks[u]

\* RescheduleTaskImpl, whatever t is and wherever it was linked: the list is in order
\* afterwards, and no other task is touched.
THEOREM Rescheduled ==
    ASSUME NEW sch \in Schedulers, NEW t \in TaskTypes, InOrderBut(sch, t),
           sch.tasks[t].period \in Nat \ {0},
           NEW batchTicks \in Nat \ {0}, NEW atLeast \in BOOLEAN
    PROVE  /\ Keeps(Reschedule(sch, t, batchTicks, atLeast), sch, t)
           /\ TaskRescheduled(Reschedule(sch, t, batchTicks, atLeast), sch, t, Batch(sch, t, batchTicks, atLeast))
<1>f. /\ sch.accTime \in Nat /\ sch.tasks \in [TaskTypes -> Tasks] /\ sch.tasks[t] \in Tasks
  BY ScheduleFields
<1>1. /\ LastTick(sch, t) \in Clock /\ LastTick(sch, t) \in Nat /\ Accumulated(sch, t) \in Nat
  BY TickTypes
<1>2. PICK last \in Nat : last = LastTick(sch, t)
  BY <1>1
<1>3. PICK batch \in Nat \ {0} : batch = Batch(sch, t, batchTicks, atLeast)
  BY <1>1 DEF Batch
<1>4. PICK p \in Nat : p = sch.tasks[t].period
  OBVIOUS
<1>5. PICK next \in Clock : next = (last + batch * p) % Wrap
  <2>1. last + batch * p \in Int
    OBVIOUS
  <2> QED
    BY <2>1, ClockMod
<1>6. PICK k : k = [sch.tasks[t] EXCEPT !.batchedTicks = batch, !.lastUpdate = last, !.nextUpdate = next]
  OBVIOUS
<1>7. k \in Tasks /\ k.period = p /\ k.batchedTicks = batch /\ k.lastUpdate = last /\ k.nextUpdate = next
  BY <1>f, <1>1, <1>2, <1>4, <1>6 DEF Tasks
<1>8. PICK s1 : s1 = [sch EXCEPT !.tasks[t] = k]
  OBVIOUS
<1>9. /\ s1 \in Schedulers /\ s1.tasks = [sch.tasks EXCEPT ![t] = k] /\ s1.queue = sch.queue
      /\ s1.accTime = sch.accTime /\ s1.tasks[t] = k
      /\ \A u \in TaskTypes \ {t} : s1.tasks[u] = sch.tasks[u]
  BY <1>f, <1>7, <1>8 DEF Schedulers
<1>10. InOrderBut(s1, t)
  BY <1>9, ButForTask
<1>11. PICK s2 : s2 = Enqueued(s1, t)
  OBVIOUS
<1>12. s2.queue \in Links /\ InOrder(s2)
  <2>1. s1.tasks[t].batchedTicks > 0
    BY <1>7, <1>9
  <2> QED
    BY <1>9, <1>10, <1>11, <2>1, EnqueuedInOrder
<1>13. s2 \in Schedulers /\ s2.tasks = s1.tasks /\ s2.accTime = s1.accTime
  BY <1>9, <1>11, <1>12 DEF Enqueued, Schedulers
<1>14. PICK r : r = UpdateNextUpdate(s2)
  OBVIOUS
<1>15. r \in Schedulers /\ HeadKnown(r) /\ r.accTime = s2.accTime /\ r.tasks = s2.tasks /\ r.queue = s2.queue
  BY <1>13, <1>14, Updated
<1>16. InOrder(r)
  BY <1>12, <1>15, SameOrder
<1>17. Reschedule(sch, t, batchTicks, atLeast) = r
  BY <1>2, <1>3, <1>4, <1>5, <1>6, <1>8, <1>11, <1>14 DEF Reschedule, Batch
<1>18. Keeps(r, sch, t)
  BY <1>9, <1>13, <1>15, <1>16 DEF Keeps
<1>19. TaskRescheduled(r, sch, t, batch)
  BY <1>2, <1>4, <1>5, <1>7, <1>9, <1>13, <1>15 DEF TaskRescheduled
<1> QED
  BY <1>3, <1>17, <1>18, <1>19

\* UnscheduleTask, whether t was scheduled or not: the list is in order afterwards, and no
\* other task is touched.
THEOREM Unscheduled ==
    ASSUME NEW sch \in Schedulers, NEW t \in TaskTypes, InOrderBut(sch, t)
    PROVE  /\ Keeps(UnscheduleTask(sch, t), sch, t)
           /\ UnscheduleTask(sch, t).tasks[t] = [sch.tasks[t] EXCEPT !.batchedTicks = 0]
           /\ UnscheduleTask(sch, t).tasks[t].period = sch.tasks[t].period
           /\ UnscheduleTask(sch, t).tasks[t].batchedTicks = 0
<1>f. sch.accTime \in Nat /\ sch.tasks \in [TaskTypes -> Tasks] /\ sch.tasks[t] \in Tasks /\ sch.queue \in Links
  BY ScheduleFields
<1>1. PICK q : q = Unlink(t, LoopStart(sch.queue))
  OBVIOUS
<1>2. PICK k : k = [sch.tasks[t] EXCEPT !.batchedTicks = 0]
  OBVIOUS
<1>3. k \in Tasks /\ k.batchedTicks = 0 /\ k.period = sch.tasks[t].period
  BY <1>f, <1>2 DEF Tasks
<1>4. PICK s1 : s1 = [sch EXCEPT !.tasks[t].batchedTicks = 0, !.queue = Unlink(t, LoopStart(@))]
  OBVIOUS
<1>5. /\ s1 = [accTime |-> sch.accTime, nextUpdate |-> sch.nextUpdate,
               tasks |-> [sch.tasks EXCEPT ![t] = k], queue |-> q]
  BY <1>1, <1>2, <1>4 DEF Schedulers
<1>6. /\ s1.accTime = sch.accTime /\ s1.nextUpdate = sch.nextUpdate /\ s1.queue = q
      /\ s1.tasks \in [TaskTypes -> Tasks] /\ s1.tasks[t] = k
      /\ \A u \in TaskTypes \ {t} : s1.tasks[u] = sch.tasks[u]
  BY <1>f, <1>3, <1>5
<1>7. q \in Links /\ InOrder(s1)
  <2>1. s1.queue = Unlink(t, LoopStart(sch.queue)) /\ s1.tasks[t].batchedTicks = 0
    BY <1>1, <1>3, <1>6
  <2>2. s1.queue \in Links /\ InOrder(s1)
    BY <1>6, <2>1, UnlinkedInOrder
  <2> QED
    BY <1>6, <2>2
<1>8. s1 \in Schedulers
  BY <1>5, <1>6, <1>7 DEF Schedulers
<1>9. PICK r : r = UpdateNextUpdate(s1)
  OBVIOUS
<1>10. r \in Schedulers /\ HeadKnown(r) /\ r.accTime = s1.accTime /\ r.tasks = s1.tasks /\ r.queue = s1.queue
  BY <1>8, <1>9, Updated
<1>11. InOrder(r)
  BY <1>7, <1>10, SameOrder
<1>12. UnscheduleTask(sch, t) = r
  BY <1>4, <1>9 DEF UnscheduleTask
<1>13. Keeps(r, sch, t)
  BY <1>6, <1>10, <1>11 DEF Keeps
<1> QED
  BY <1>2, <1>3, <1>6, <1>10, <1>12, <1>13
\* The first task of the list is the one that is due first.
LEMMA HeadFirst ==
    ASSUME NEW sch \in Schedulers, InOrder(sch), NEW t \in TaskTypes, sch.tasks[t].batchedTicks > 0
    PROVE  /\ sch.queue[Front] \in TaskTypes /\ sch.queue[Front] <= MaxTask
           /\ sch.tasks[sch.queue[Front]].batchedTicks > 0
           /\ \A u \in TaskTypes : sch.tasks[u].batchedTicks > 0 =>
                sch.tasks[sch.queue[Front]].nextUpdate <= sch.tasks[u].nextUpdate
<1>1. PICK n \in 0 .. MaxTask + 1 : \E list \in [1 .. n -> TaskTypes] :
        /\ Leads(sch.queue, list, n)
        /\ \A u \in TaskTypes : sch.tasks[u].batchedTicks > 0 <=> \E i \in 1 .. n : list[i] = u
        /\ \A i, j \in 1 .. n : i < j =>
             list[i] # list[j] /\ sch.tasks[list[i]].nextUpdate <= sch.tasks[list[j]].nextUpdate
  BY DEF InOrder
<1>2. PICK list \in [1 .. n -> TaskTypes] :
        /\ Leads(sch.queue, list, n)
        /\ \A u \in TaskTypes : sch.tasks[u].batchedTicks > 0 <=> \E i \in 1 .. n : list[i] = u
        /\ \A i, j \in 1 .. n : i < j =>
             list[i] # list[j] /\ sch.tasks[list[i]].nextUpdate <= sch.tasks[list[j]].nextUpdate
  BY <1>1
<1>3. n >= 1 /\ n \in Nat /\ 1 \in 1 .. n
  BY <1>2, SchedulerAssumption
<1>4. sch.queue[Front] = list[1]
  BY <1>2, <1>3 DEF Leads, Node, After
<1>5. list[1] \in TaskTypes /\ list[1] <= MaxTask /\ sch.tasks[list[1]].batchedTicks > 0
  BY <1>2, <1>3, SchedulerAssumption DEF TaskTypes
<1>6. ASSUME NEW u \in TaskTypes, sch.tasks[u].batchedTicks > 0
      PROVE  sch.tasks[list[1]].nextUpdate <= sch.tasks[u].nextUpdate
  <2>1. PICK i \in 1 .. n : list[i] = u
    BY <1>2, <1>6
  <2>2. CASE i = 1
    <3>1. sch.tasks[u].nextUpdate \in Nat
      BY ScheduleFields
    <3> QED
      BY <2>1, <2>2, <3>1
  <2>3. CASE i > 1
    BY <1>2, <1>3, <2>1, <2>3
  <2> QED
    BY <2>2, <2>3
<1> QED
  BY <1>4, <1>5, <1>6

LEMMA ClockOnce ==
    ASSUME NEW x \in Int
    PROVE  /\ 0 <= x /\ x < Wrap => x % Wrap = x
           /\ Wrap <= x /\ x < 2 * Wrap => x % Wrap = x - Wrap
           /\ -Wrap <= x /\ x < 0 => x % Wrap = x + Wrap
<1>1. PICK w \in Nat \ {0} : w = Wrap
  BY SchedulerAssumption
<1>2. x = (x \div w) * w + (x % w) /\ x % w \in 0 .. w - 1
  BY DivMod
<1>3. ASSUME 0 <= x, x < w PROVE x % w = x
  <2>1. x \div w = 0
    BY <1>3, DivUnique
  <2> QED
    BY <1>2, <2>1
<1>4. ASSUME w <= x, x < 2 * w PROVE x % w = x - w
  <2>1. x \div w = 1
    BY <1>4, DivUnique
  <2> QED
    BY <1>2, <2>1
<1>5. ASSUME -w <= x, x < 0 PROVE x % w = x + w
  <2>1. x \div w = -1
    BY <1>5, DivUnique
  <2> QED
    BY <1>2, <2>1
<1> QED
  BY <1>1, <1>3, <1>4, <1>5

\* A task that was not scheduled is due ahead when it is scheduled for one tick, also
\* where its last due time lies ahead and the unsigned difference has wrapped.
LEMMA TickAhead ==
    ASSUME NEW sch \in Schedulers, NEW t \in TaskTypes, sch.tasks[t].batchedTicks = 0,
           NEW p \in Nat \ {0}, sch.tasks[t].period = p, sch.accTime + p < Wrap
    PROVE  (LastTick(sch, t) + p) % Wrap \in sch.accTime + 1 .. sch.accTime + p
<1>w. Wrap \in Nat
  BY SchedulerAssumption
<1>1. PICK a \in Nat : a = sch.accTime
  BY ScheduleFields
<1>2. PICK u \in 0 .. Wrap - 1 : u = sch.tasks[t].nextUpdate
  BY ScheduleFields DEF Clock
<1>3. PICK diff \in Nat : diff = (a - u) % Wrap
  <2>1. a - u \in Int
    BY <1>w
  <2> QED
    BY <2>1, ClockMod
<1>4. PICK full \in Int : full = (diff \div p) * p /\ full <= diff /\ diff < full + p
  <2>i. diff \in Int
    OBVIOUS
  <2>1. diff = (diff \div p) * p + (diff % p) /\ diff % p \in 0 .. p - 1 /\ diff \div p \in Int
    BY <2>i, DivMod, Zenon
  <2>2. PICK c \in Int : c = diff \div p
    BY <2>1
  <2>3. c * p \in Int
    OBVIOUS
  <2> QED
    BY <2>1, <2>2, <2>3
<1>5. PICK last \in Int : last = (full + u) % Wrap
  <2>1. full + u \in Int
    BY <1>w
  <2> QED
    BY <2>1, ClockMod
<1>6. LastTick(sch, t) = last
  BY <1>1, <1>2, <1>3, <1>4, <1>5 DEF LastTick
<1>7. a + p < Wrap
  BY <1>1
<1>d. diff = IF u <= a THEN a - u ELSE a - u + Wrap
  <2>1. a - u \in Int
    BY <1>w
  <2> QED
    BY <1>3, <1>7, <1>w, <2>1, ClockOnce
<1>8. CASE u <= a
  <2>1. full + u <= a /\ a < full + u + p /\ full + p >= 0 /\ full + u > a - p
    BY <1>4, <1>d, <1>8, <1>w
  <2>2. full >= 0
    <3>1. diff \in Nat /\ diff \div p \in Nat
      BY DivNat
    <3>2. PICK c \in Nat : c = diff \div p
      BY <3>1
    <3>3. c * p >= 0
      OBVIOUS
    <3> QED
      BY <1>4, <3>2, <3>3
  <2>3. full + u \in Int /\ 0 <= full + u /\ full + u < Wrap
    BY <1>7, <1>w, <2>1, <2>2
  <2>4. last = full + u
    BY <1>5, <2>3, ClockOnce
  <2>5. last + p \in Int /\ 0 <= last + p /\ last + p < Wrap /\ a < last + p /\ last + p <= a + p
    BY <1>7, <1>w, <2>1, <2>3, <2>4
  <2>6. (last + p) % Wrap = last + p
    BY <2>5, ClockOnce
  <2> QED
    BY <1>1, <1>6, <2>5, <2>6
<1>9. CASE a < u
  <2>1. full + u <= a + Wrap /\ a + Wrap < full + u + p
    BY <1>4, <1>d, <1>9, <1>w
  <2>2. CASE full + u < Wrap
    <3>1. full + u \in Int /\ 0 <= full + u
      BY <1>7, <1>w, <2>1
    <3>2. last = full + u
      BY <1>5, <2>2, <3>1, ClockOnce
    <3>3. last + p \in Int /\ Wrap <= last + p /\ last + p < 2 * Wrap
      BY <1>7, <1>w, <2>1, <2>2, <3>2
    <3>4. (last + p) % Wrap = (last + p) - Wrap
      <4>1. PICK x \in Int : x = last + p
        BY <3>3
      <4>2. x % Wrap = x - Wrap
        BY <3>3, <4>1, ClockOnce
      <4> QED
        BY <4>1, <4>2, Zenon
    <3>5. (last + p) - Wrap > a /\ (last + p) - Wrap <= a + p
      BY <1>7, <1>w, <2>1, <2>2, <3>2
    <3> QED
      BY <1>1, <1>6, <1>w, <3>3, <3>4, <3>5
  <2>3. CASE Wrap <= full + u
    <3>1. full + u \in Int /\ full + u < 2 * Wrap
      BY <1>7, <1>w, <2>1
    <3>2. last = (full + u) - Wrap
      <4>1. PICK x \in Int : x = full + u
        BY <3>1
      <4>2. x % Wrap = x - Wrap
        BY <2>3, <3>1, <4>1, ClockOnce
      <4> QED
        BY <1>5, <4>1, <4>2, Zenon
    <3>3. last + p \in Int /\ 0 <= last + p /\ last + p < Wrap /\ a < last + p /\ last + p <= a + p
      BY <1>7, <1>w, <2>1, <2>3, <3>2
    <3>4. (last + p) % Wrap = last + p
      BY <3>3, ClockOnce
    <3> QED
      BY <1>1, <1>6, <3>3, <3>4
  <2> QED
    BY <1>w, <2>2, <2>3
<1> QED
  BY <1>w, <1>8, <1>9
-----------------------------------------------------------------------------
(***************************************************************************)
(* The three ways in which a task gets a new batch.                        *)
(***************************************************************************)

\* Task t of r has the given period and batch, and is due when the batch ends.
HasBatch(r, t, period, batch) ==
    /\ r.tasks[t].period = period /\ r.tasks[t].batchedTicks = batch
    /\ batch > 0 => r.tasks[t].nextUpdate = (r.tasks[t].lastUpdate + batch * period) % Wrap

LEMMA RescheduleKeeps ==
    ASSUME NEW sch \in Schedulers, NEW t \in TaskTypes, InOrderBut(sch, t),
           NEW p \in Nat \ {0}, sch.tasks[t].period = p,
           NEW batchTicks \in Nat, NEW atLeast \in BOOLEAN,
           NEW r, r = Reschedule(sch, t, batchTicks, atLeast),
           NEW batch, batch = IF batchTicks = 0 THEN 0 ELSE Batch(sch, t, batchTicks, atLeast)
    PROVE  /\ Keeps(r, sch, t) /\ HasBatch(r, t, p, batch)
           /\ batchTicks > 0 => r.tasks[t].lastUpdate = LastTick(sch, t)
<1>1. CASE batchTicks = 0
  <2>1. r = UnscheduleTask(sch, t)
    BY <1>1 DEF Reschedule
  <2>2. Keeps(r, sch, t) /\ r.tasks[t].period = p /\ r.tasks[t].batchedTicks = 0
    BY <2>1, Unscheduled
  <2> QED
    BY <1>1, <2>2 DEF HasBatch
<1>2. CASE batchTicks \in Nat \ {0}
  <2>1. /\ Keeps(r, sch, t)
        /\ TaskRescheduled(r, sch, t, Batch(sch, t, batchTicks, atLeast))
    BY <1>2, Rescheduled
  <2> QED
    BY <1>2, <2>1 DEF HasBatch, TaskRescheduled
<1> QED
  BY <1>1, <1>2

\* The reschedule at the end of a dispatch.
LEMMA DispatchedKeeps ==
    ASSUME NEW sch \in Schedulers, NEW t \in TaskTypes, InOrder(sch),
           NEW p \in Nat \ {0}, sch.tasks[t].period = p, NEW batchTicks \in Nat,
           NEW r, r = Dispatched(sch, t, batchTicks)
    PROVE  /\ Keeps(r, sch, t) /\ HasBatch(r, t, p, batchTicks)
           /\ batchTicks > 0 /\ sch.tasks[t].batchedTicks > 0 =>
                r.tasks[t].lastUpdate = (sch.tasks[t].lastUpdate + sch.tasks[t].batchedTicks * p) % Wrap
<1>f. /\ sch.tasks \in [TaskTypes -> Tasks] /\ sch.tasks[t] \in Tasks
      /\ sch.tasks[t].lastUpdate \in Nat /\ sch.tasks[t].batchedTicks \in Nat
  BY ScheduleFields
<1>1. PICK x : x = (sch.tasks[t].lastUpdate + sch.tasks[t].batchedTicks * sch.tasks[t].period) % Wrap
  OBVIOUS
<1>2. x \in Clock
  <2>1. PICK y \in Int : y = sch.tasks[t].lastUpdate + sch.tasks[t].batchedTicks * p
    BY <1>f
  <2> QED
    BY <1>1, <2>1, ClockMod
<1>3. PICK s1 : s1 = [sch EXCEPT !.tasks[t].lastUpdate =
                        (@ + sch.tasks[t].batchedTicks * sch.tasks[t].period) % Wrap]
  OBVIOUS
<1>4. PICK k : k = [sch.tasks[t] EXCEPT !.lastUpdate = x]
  OBVIOUS
<1>5. k \in Tasks /\ k.lastUpdate = x /\ k.period = p /\ k.batchedTicks = sch.tasks[t].batchedTicks
  BY <1>f, <1>2, <1>4 DEF Tasks
<1>6. s1 = [sch EXCEPT !.tasks = [sch.tasks EXCEPT ![t] = k]]
  BY <1>1, <1>3, <1>4 DEF Schedulers
<1>7. /\ s1 \in Schedulers /\ s1.tasks[t] = k /\ s1.queue = sch.queue /\ s1.accTime = sch.accTime
      /\ \A u \in TaskTypes \ {t} : s1.tasks[u] = sch.tasks[u]
  BY <1>f, <1>5, <1>6 DEF Schedulers
<1>8. InOrderBut(s1, t)
  BY <1>7, WithoutTask, ButForTask
<1>9. PICK no \in BOOLEAN : no = FALSE
  OBVIOUS
<1>10. /\ Keeps(r, s1, t) /\ HasBatch(r, t, p, batchTicks)
       /\ batchTicks > 0 => r.tasks[t].lastUpdate = LastTick(s1, t)
  <2>1. r = Reschedule(s1, t, batchTicks, no)
    BY <1>3, <1>9 DEF Dispatched, RescheduleTask
  <2>2. batchTicks = IF batchTicks = 0 THEN 0 ELSE Batch(s1, t, batchTicks, no)
    BY <1>9 DEF Batch
  <2>3. s1.tasks[t].period = p
    BY <1>5, <1>7
  <2> QED
    BY <1>7, <1>8, <2>1, <2>2, <2>3, RescheduleKeeps
<1>12. sch.tasks[t].batchedTicks > 0 => LastTick(s1, t) = x
  BY <1>5, <1>7 DEF LastTick
<1>13. Keeps(r, sch, t)
  BY <1>7, <1>10 DEF Keeps
<1> QED
  BY <1>1, <1>10, <1>12, <1>13

\* ScheduleTask, also for a task that is in the list: it is due ahead.
LEMMA ScheduleKeeps ==
    ASSUME NEW sch \in Schedulers, NEW t \in TaskTypes, InOrder(sch),
           NEW p \in Nat \ {0}, NEW batchTicks \in {0, 1}, sch.accTime + p < Wrap,
           NEW r, r = ScheduleTask(sch, t, p, batchTicks)
    PROVE  /\ Keeps(r, sch, t) /\ HasBatch(r, t, p, batchTicks)
           /\ batchTicks = 1 => r.tasks[t].nextUpdate \in sch.accTime + 1 .. sch.accTime + p
           /\ batchTicks = 1 => r.tasks[t].lastUpdate =
                ((((sch.accTime - sch.tasks[t].nextUpdate) % Wrap) \div p) * p + sch.tasks[t].nextUpdate) % Wrap
<1>f. sch.tasks \in [TaskTypes -> Tasks] /\ sch.tasks[t] \in Tasks /\ sch.accTime \in Nat
  BY ScheduleFields
<1>1. PICK k : k = [sch.tasks[t] EXCEPT !.period = p, !.lastUpdate = sch.accTime, !.batchedTicks = 0]
  OBVIOUS
<1>2. sch.accTime \in Clock
  BY <1>f, SchedulerAssumption DEF Clock
<1>3. k \in Tasks /\ k.period = p /\ k.batchedTicks = 0 /\ k.nextUpdate = sch.tasks[t].nextUpdate
  BY <1>f, <1>1, <1>2 DEF Tasks
<1>4. PICK s1 : s1 = [sch EXCEPT !.tasks[t].period = p, !.tasks[t].lastUpdate = sch.accTime,
                                 !.tasks[t].batchedTicks = 0]
  OBVIOUS
<1>5. s1 = [sch EXCEPT !.tasks = [sch.tasks EXCEPT ![t] = k]]
  BY <1>1, <1>4 DEF Schedulers
<1>6. /\ s1 \in Schedulers /\ s1.tasks[t] = k /\ s1.queue = sch.queue /\ s1.accTime = sch.accTime
      /\ \A u \in TaskTypes \ {t} : s1.tasks[u] = sch.tasks[u]
  BY <1>f, <1>3, <1>5 DEF Schedulers
<1>7. InOrderBut(s1, t)
  BY <1>6, WithoutTask, ButForTask
<1>8. PICK no \in BOOLEAN : no = FALSE
  OBVIOUS
<1>9. /\ Keeps(r, s1, t) /\ HasBatch(r, t, p, batchTicks)
      /\ batchTicks > 0 => r.tasks[t].lastUpdate = LastTick(s1, t)
  <2>1. r = Reschedule(s1, t, batchTicks, no)
    BY <1>4, <1>8 DEF ScheduleTask, RescheduleTask
  <2>2. batchTicks = IF batchTicks = 0 THEN 0 ELSE Batch(s1, t, batchTicks, no)
    BY <1>8 DEF Batch
  <2>3. batchTicks \in Nat /\ s1.tasks[t].period = p
    BY <1>3, <1>6
  <2> QED
    BY <1>6, <1>7, <2>1, <2>2, <2>3, RescheduleKeeps
<1>11. Keeps(r, sch, t) /\ HasBatch(r, t, p, batchTicks)
  BY <1>6, <1>9 DEF Keeps
<1>12. (LastTick(s1, t) + p) % Wrap \in sch.accTime + 1 .. sch.accTime + p
  <2>1. (LastTick(s1, t) + p) % Wrap \in s1.accTime + 1 .. s1.accTime + p
    BY <1>3, <1>6, TickAhead
  <2> QED
    BY <1>6, <2>1
<1>13. ASSUME batchTicks = 1 PROVE r.tasks[t].nextUpdate \in sch.accTime + 1 .. sch.accTime + p
  <2>1. 1 * p = p
    OBVIOUS
  <2>2. r.tasks[t].lastUpdate = LastTick(s1, t)
    BY <1>9, <1>13
  <2>3. r.tasks[t].nextUpdate = (r.tasks[t].lastUpdate + 1 * p) % Wrap
    BY <1>11, <1>13 DEF HasBatch
  <2> QED
    BY <1>12, <2>1, <2>2, <2>3
<1>14. LastTick(s1, t) =
         ((((sch.accTime - sch.tasks[t].nextUpdate) % Wrap) \div p) * p + sch.tasks[t].nextUpdate) % Wrap
  BY <1>3, <1>6 DEF LastTick
<1> QED
  BY <1>9, <1>11, <1>13, <1>14
=============================================================================
