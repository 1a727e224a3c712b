------------------------ MODULE RadioIoQueue_proofs ------------------------
(***************************************************************************)
(* Theorems about RadioIoQueue, for every set of callers, every            *)
(* concurrency and every setting of the options.                           *)
(***************************************************************************)
EXTENDS RadioIoQueue, SequenceTheorems, FiniteSetTheorems, TLAPS

USE CallerAssumption, OptionAssumption DEF MaxConcurrent

(* No task is queued twice, and none is both queued and active.            *)
NoDuplicate ==
  /\ \A i, j \in 1..Len(queue) : queue[i] = queue[j] => i = j
  /\ Queued \cap activeTasks = {}

(* A task is known by the caller that created it, which awaits it.         *)
OwnTask == \A t \in Outstanding : promise[t] = t

(* The dedupe map holds exactly the outstanding tasks that have an id.     *)
MapExact == dedupedTasks = {t \in Outstanding : Id[t] # NoId}

(* Sessions only grow; a caller shares tasks of its own session; a task is *)
(* kept off the radio only when its session was already over.              *)
SessionInv ==
  /\ \A c \in Caller : callSession[c] <= ioSession
  /\ \A c \in Caller : promise[c] # NoTask => callSession[promise[c]] = callSession[c]
  /\ \A t \in activeTasks \ onRadio : callSession[t] # ioSession
  /\ onRadio \subseteq activeTasks

ActiveFinite == IsFiniteSet(activeTasks)

(* The inductive invariant: the checked invariants with what they lean on. *)
IInv ==
  /\ TypeOK
  /\ NoDuplicate
  /\ OwnTask
  /\ MapExact
  /\ SessionInv
  /\ ActiveFinite
  /\ CountersAgree
  /\ NoLostWakeup
  /\ CriticalFirst
  /\ NoOrphan
  /\ OneTaskPerKey

-----------------------------------------------------------------------------
LEMMA LimitType == ASSUME options \in Options PROVE MaxConcurrent \in Nat \ {0}
  OBVIOUS

(* What the three updates of the queue do to its elements.                 *)
LEMMA InsertFacts ==
  ASSUME queue \in Seq(Caller), NEW c \in Caller, NEW k \in 1..(Len(queue) + 1)
  PROVE  /\ InsertAt(k, c) \in Seq(Caller)
         /\ Len(InsertAt(k, c)) = Len(queue) + 1
         /\ \A i \in 1..(Len(queue) + 1) :
              InsertAt(k, c)[i] = IF i < k THEN queue[i]
                                  ELSE IF i = k THEN c ELSE queue[i - 1]
<1> DEFINE n == Len(queue) + 1
           q == InsertAt(k, c)
<1>1. /\ Len(queue) \in Nat
      /\ \A i \in 1..Len(queue) : queue[i] \in Caller
  BY LenProperties, ElementOfSeq
<1>2. q \in [1..n -> Caller]
  BY <1>1 DEF InsertAt
<1>3. q \in Seq(Caller)
  BY <1>1, <1>2, SeqDef
<1>4. Len(q) = n
  <2>1. DOMAIN q = 1..n
    BY <1>2
  <2>2. Len(q) \in Nat /\ DOMAIN q = 1..Len(q)
    BY <1>3, LenProperties
  <2> QED
    BY <2>1, <2>2, <1>1
<1> QED
  BY <1>3, <1>4 DEF InsertAt

(* Where enqueue puts a task: a critical one in front of the first normal  *)
(* one, a normal one at the end.                                           *)
LEMMA Inserted ==
  ASSUME queue \in Seq(Caller), NEW c \in Caller, Enqueue(c)
  PROVE  \E k \in 1..(Len(queue) + 1) :
         /\ queue' \in Seq(Caller)
         /\ Len(queue') = Len(queue) + 1
         /\ \A i \in 1..(Len(queue) + 1) :
              queue'[i] = IF i < k THEN queue[i]
                          ELSE IF i = k THEN c ELSE queue[i - 1]
         /\ c \in Critical => FirstNormal(k)
         /\ c \notin Critical => k = Len(queue) + 1
<1>0. /\ Len(queue) \in Nat
      /\ \A i \in 1..Len(queue) : queue[i] \in Caller
  BY LenProperties, ElementOfSeq
<1>1. CASE c \in Critical
  <2>1. PICK k \in 1..(Len(queue) + 1) : FirstNormal(k) /\ queue' = InsertAt(k, c)
    BY <1>1 DEF Enqueue
  <2>2. /\ InsertAt(k, c) \in Seq(Caller)
        /\ Len(InsertAt(k, c)) = Len(queue) + 1
        /\ \A i \in 1..(Len(queue) + 1) :
             InsertAt(k, c)[i] = IF i < k THEN queue[i]
                                 ELSE IF i = k THEN c ELSE queue[i - 1]
    BY InsertFacts
  <2> QED
    BY <1>1, <2>1, <2>2
<1>2. CASE c \notin Critical
  <2>1. queue' = Append(queue, c)
    BY <1>2 DEF Enqueue
  <2>2. /\ queue' \in Seq(Caller)
        /\ Len(queue') = Len(queue) + 1
        /\ \A i \in 1..Len(queue) : queue'[i] = queue[i]
        /\ queue'[Len(queue) + 1] = c
    BY <2>1, AppendProperties
  <2>3. \A i \in 1..(Len(queue) + 1) :
            queue'[i] = IF i < Len(queue) + 1 THEN queue[i]
                        ELSE IF i = Len(queue) + 1 THEN c ELSE queue[i - 1]
    BY <2>2, <1>0
  <2> QED
    BY <1>2, <2>2, <2>3, <1>0
<1> QED
  BY <1>1, <1>2

(* Submitting a task: wherever enqueue puts it, the queue gains exactly    *)
(* that task, stays free of duplicates and keeps critical tasks in front.  *)
LEMMA EnqueueFacts ==
  ASSUME queue \in Seq(Caller), NEW c \in Caller, c \notin Queued,
         \A i, j \in 1..Len(queue) : queue[i] = queue[j] => i = j,
         CriticalFirst, Enqueue(c)
  PROVE  /\ queue' \in Seq(Caller)
         /\ Queued' = Queued \cup {c}
         /\ \A i, j \in 1..Len(queue') : queue'[i] = queue'[j] => i = j
         /\ CriticalFirst'
<1>0. /\ Len(queue) \in Nat
      /\ \A i \in 1..Len(queue) : queue[i] \in Caller
  BY LenProperties, ElementOfSeq
<1>1. PICK k \in 1..(Len(queue) + 1) :
         /\ queue' \in Seq(Caller)
         /\ Len(queue') = Len(queue) + 1
         /\ \A i \in 1..(Len(queue) + 1) :
              queue'[i] = IF i < k THEN queue[i]
                          ELSE IF i = k THEN c ELSE queue[i - 1]
         /\ c \in Critical => FirstNormal(k)
         /\ c \notin Critical => k = Len(queue) + 1
  BY Inserted
<1>2. \A i \in 1..Len(queue) : queue[i] # c
  BY DEF Queued
<1>3. Queued' = Queued \cup {c}
  <2>1. ASSUME NEW x \in Queued' PROVE x \in Queued \cup {c}
    <3>1. PICK i \in 1..(Len(queue) + 1) : x = queue'[i]
      BY <1>1 DEF Queued
    <3>2. CASE i < k
      BY <1>0, <1>1, <3>1, <3>2 DEF Queued
    <3>3. CASE i = k
      BY <1>1, <3>1, <3>3
    <3>4. CASE i > k
      <4>1. x = queue[i - 1] /\ i - 1 \in 1..Len(queue)
        BY <1>0, <1>1, <3>1, <3>4
      <4> QED
        BY <4>1 DEF Queued
    <3> QED
      BY <1>0, <3>2, <3>3, <3>4
  <2>2. c \in Queued'
    BY <1>0, <1>1 DEF Queued
  <2>3. ASSUME NEW i \in 1..Len(queue) PROVE queue[i] \in Queued'
    <3>1. CASE i < k
      BY <1>0, <1>1, <3>1 DEF Queued
    <3>2. CASE i >= k
      <4>1. i + 1 \in 1..(Len(queue) + 1) /\ ~(i + 1 < k) /\ i + 1 # k /\ (i + 1) - 1 = i
        BY <1>0, <3>2
      <4>2. queue'[i + 1] = queue[i]
        BY <1>1, <4>1
      <4> QED
        BY <1>1, <4>1, <4>2 DEF Queued
    <3> QED
      BY <1>0, <3>1, <3>2
  <2>4. Queued \subseteq Queued'
    BY <2>3 DEF Queued
  <2> QED
    BY <2>1, <2>2, <2>4, Zenon
<1>4. \A i, j \in 1..Len(queue') : queue'[i] = queue'[j] => i = j
  <2> SUFFICES ASSUME NEW i \in 1..(Len(queue) + 1), NEW j \in 1..(Len(queue) + 1),
                      queue'[i] = queue'[j]
               PROVE  i = j
    BY <1>1
  <2>0. \A m \in 1..(Len(queue) + 1) : m # k => queue'[m] # c
    <3> SUFFICES ASSUME NEW m \in 1..(Len(queue) + 1), m # k
                 PROVE  queue'[m] # c
      OBVIOUS
    <3>1. CASE m < k
      BY <1>0, <1>1, <1>2, <3>1
    <3>2. CASE m > k
      <4>1. queue'[m] = queue[m - 1] /\ m - 1 \in 1..Len(queue)
        BY <1>0, <1>1, <3>2
      <4> QED
        BY <1>2, <4>1
    <3> QED
      BY <1>0, <3>1, <3>2
  <2>1. CASE i = k \/ j = k
    <3>1. queue'[k] = c
      BY <1>1
    <3> QED
      BY <2>0, <2>1, <3>1
  <2>2. CASE i < k /\ j < k
    BY <1>0, <1>1, <2>2
  <2>3. CASE i > k /\ j > k
    <3>1. queue[i - 1] = queue[j - 1] /\ i - 1 \in 1..Len(queue) /\ j - 1 \in 1..Len(queue)
      BY <1>0, <1>1, <2>3
    <3> QED
      BY <3>1, <1>0
  <2>4. CASE i < k /\ j > k
    <3>1. queue[i] = queue[j - 1] /\ i \in 1..Len(queue) /\ j - 1 \in 1..Len(queue)
      BY <1>0, <1>1, <2>4
    <3> QED
      BY <3>1, <1>0, <2>4
  <2>5. CASE i > k /\ j < k
    <3>1. queue[i - 1] = queue[j] /\ i - 1 \in 1..Len(queue) /\ j \in 1..Len(queue)
      BY <1>0, <1>1, <2>5
    <3> QED
      BY <3>1, <1>0, <2>5
  <2> QED
    BY <1>0, <1>1, <2>1, <2>2, <2>3, <2>4, <2>5
<1>5. CriticalFirst'
  <2> SUFFICES ASSUME NEW i \in 1..(Len(queue) + 1), NEW j \in 1..(Len(queue) + 1),
                      i < j, queue'[j] \in Critical
               PROVE  queue'[i] \in Critical
    BY <1>1 DEF CriticalFirst
  <2>1. CASE c \notin Critical
    BY <1>0, <1>1, <2>1 DEF CriticalFirst
  <2>2. CASE c \in Critical
    <3>1. FirstNormal(k)
      BY <1>1, <2>2
    <3>2. CASE i < k
      BY <1>0, <1>1, <3>1, <3>2 DEF FirstNormal
    <3>3. CASE i = k
      BY <1>1, <2>2, <3>3
    <3>4. CASE i > k
      <4>1. /\ i - 1 \in 1..Len(queue) /\ j - 1 \in 1..Len(queue) /\ i - 1 < j - 1
            /\ queue'[i] = queue[i - 1] /\ queue'[j] = queue[j - 1]
        BY <1>0, <1>1, <3>4
      <4> QED
        BY <4>1 DEF CriticalFirst
    <3> QED
      BY <1>0, <3>2, <3>3, <3>4
  <2> QED
    BY <2>1, <2>2
<1> QED
  BY <1>1, <1>3, <1>4, <1>5

-----------------------------------------------------------------------------
(* The pump takes a prefix of the queue that fits in the free room.        *)
LEMMA RoomFacts ==
  ASSUME IInv
  PROVE  /\ Len(queue) \in Nat
         /\ \A i \in 1..Len(queue) : queue[i] \in Caller
         /\ activeCount \in Nat /\ activeCount <= MaxConcurrent
         /\ Room \in 0..Len(queue)
         /\ activeCount + Room <= MaxConcurrent
         /\ Room < Len(queue) => activeCount + Room = MaxConcurrent
<1>1. /\ Len(queue) \in Nat
      /\ \A i \in 1..Len(queue) : queue[i] \in Caller
  BY LenProperties, ElementOfSeq DEF IInv, TypeOK
<1>2. activeCount \in Nat /\ activeCount <= MaxConcurrent
  BY FS_CardinalityType DEF IInv, ActiveFinite, CountersAgree
<1>3. MaxConcurrent \in Nat
  BY LimitType DEF IInv, TypeOK
<1> QED
  BY <1>1, <1>2, <1>3 DEF Room, Smaller

LEMMA StartingFacts ==
  ASSUME IInv
  PROVE  /\ Starting \subseteq Queued
         /\ IsFiniteSet(Starting)
         /\ Cardinality(Starting) = Room
<1>1. /\ Len(queue) \in Nat /\ Room \in 0..Len(queue)
      /\ \A i, j \in 1..Len(queue) : queue[i] = queue[j] => i = j
  BY RoomFacts DEF IInv, NoDuplicate
<1>2. Starting \subseteq Queued
  BY <1>1 DEF Starting, Queued
<1> DEFINE f == [i \in 1..Room |-> queue[i]]
<1>3. f \in Bijection(1..Room, Starting)
  <2>1. f \in [1..Room -> Starting]
    BY DEF Starting
  <2>2. \A i, j \in 1..Room : f[i] = f[j] => i = j
    BY <1>1
  <2>3. \A t \in Starting : \E i \in 1..Room : f[i] = t
    BY DEF Starting
  <2> QED
    BY <2>1, <2>2, <2>3 DEF Bijection, Injection, Surjection, IsInjective
<1>4. IsFiniteSet(1..Room) /\ Cardinality(1..Room) = Room
  BY <1>1, FS_Interval
<1> QED
  BY <1>2, <1>3, <1>4, FS_Bijection DEF ExistsBijection

LEMMA PumpFacts ==
  ASSUME IInv, queue' = SubSeq(queue, Room + 1, Len(queue))
  PROVE  /\ queue' \in Seq(Caller)
         /\ Len(queue') = Len(queue) - Room
         /\ \A i \in 1..(Len(queue) - Room) : queue'[i] = queue[Room + i]
         /\ Queued' = Queued \ Starting
         /\ \A i, j \in 1..Len(queue') : queue'[i] = queue'[j] => i = j
         /\ CriticalFirst'
<1>1. /\ Len(queue) \in Nat /\ Room \in 0..Len(queue)
      /\ \A i \in 1..Len(queue) : queue[i] \in Caller
      /\ \A i, j \in 1..Len(queue) : queue[i] = queue[j] => i = j
      /\ CriticalFirst
  BY RoomFacts DEF IInv, NoDuplicate
<1> DEFINE m == Room + 1
           n == Len(queue)
<1>2. /\ queue' \in Seq(Caller)
      /\ Len(queue') = n - Room
      /\ \A i \in 1..(n - Room) : queue'[i] = queue[Room + i]
  <2>1. m \in Int /\ n \in Int /\ \A i \in m..n : queue[i] \in Caller
    BY <1>1
  <2>2. /\ SubSeq(queue, m, n) \in Seq(Caller)
        /\ Len(SubSeq(queue, m, n)) = IF m <= n THEN n - m + 1 ELSE 0
        /\ \A i \in 1..(n - m + 1) : SubSeq(queue, m, n)[i] = queue[m + i - 1]
    BY <2>1, SubSeqProperties
  <2>3. n - m + 1 = n - Room
    BY <1>1
  <2>4. queue' = SubSeq(queue, m, n)
    OBVIOUS
  <2>5. queue' \in Seq(Caller)
    BY <2>2, <2>4
  <2>6. Len(queue') = n - Room
    <3>1. CASE Room < n
      <4>1. m <= n
        BY <1>1, <3>1 DEF m, n
      <4>2. Len(SubSeq(queue, m, n)) = n - m + 1
        BY <2>2, <4>1
      <4> QED
        BY <2>3, <2>4, <4>2
    <3>2. CASE Room = n
      <4>1. ~(m <= n) /\ n - Room = 0
        BY <1>1, <3>2 DEF m, n
      <4> QED
        BY <2>2, <2>4, <4>1
    <3> QED
      BY <1>1, <3>1, <3>2 DEF n
  <2>7. ASSUME NEW i \in 1..(n - Room)
        PROVE  queue'[i] = queue[Room + i]
    <3>1. queue'[i] = queue[m + i - 1]
      BY <2>2, <2>3, <2>4
    <3>2. m + i - 1 = Room + i
      BY <1>1
    <3> QED
      BY <3>1, <3>2
  <2> QED
    BY <2>5, <2>6, <2>7
<1>3. \A t : t \in Queued' <=> t \in Queued \ Starting
  <2>1. ASSUME NEW i \in 1..(n - Room)
        PROVE  queue'[i] \in Queued \ Starting
    <3>1. queue'[i] = queue[Room + i] /\ Room + i \in 1..n /\ Room + i > Room
      BY <1>1, <1>2
    <3>2. \A j \in 1..Room : queue[j] # queue[Room + i]
      BY <1>1, <3>1
    <3> QED
      BY <3>1, <3>2 DEF Queued, Starting
  <2>2. ASSUME NEW j \in 1..n, queue[j] \notin Starting
        PROVE  queue[j] \in Queued'
    <3>1. j > Room
      BY <1>1, <2>2 DEF Starting
    <3>2. j - Room \in 1..(n - Room) /\ queue'[j - Room] = queue[j]
      BY <1>1, <1>2, <3>1
    <3> QED
      BY <1>2, <3>2 DEF Queued
  <2> QED
    BY <1>2, <2>1, <2>2 DEF Queued
<1>4. \A i, j \in 1..Len(queue') : queue'[i] = queue'[j] => i = j
  <2> SUFFICES ASSUME NEW i \in 1..(n - Room), NEW j \in 1..(n - Room),
                      queue'[i] = queue'[j]
               PROVE  i = j
    BY <1>2
  <2>1. queue[Room + i] = queue[Room + j] /\ Room + i \in 1..n /\ Room + j \in 1..n
    BY <1>1, <1>2
  <2> QED
    BY <1>1, <2>1
<1>5. CriticalFirst'
  <2> SUFFICES ASSUME NEW i \in 1..(n - Room), NEW j \in 1..(n - Room),
                      i < j, queue'[j] \in Critical
               PROVE  queue'[i] \in Critical
    BY <1>2 DEF CriticalFirst
  <2>1. /\ Room + i \in 1..n /\ Room + j \in 1..n /\ Room + i < Room + j
        /\ queue[Room + j] \in Critical /\ queue'[i] = queue[Room + i]
    BY <1>1, <1>2
  <2> QED
    BY <1>1, <2>1 DEF CriticalFirst
<1> QED
  BY <1>2, <1>3, <1>4, <1>5

-----------------------------------------------------------------------------
(* The invariant holds initially and is kept by every action.              *)
LEMMA InitIInv == Init => IInv
<1> SUFFICES ASSUME Init PROVE IInv
  OBVIOUS
<1>1. queue \in Seq(Caller) /\ Len(queue) = 0 /\ Queued = {} /\ Outstanding = {}
  BY EmptySeq DEF Init, Queued, Outstanding
<1>2. TypeOK
  <2>1. promise \in [Caller -> Caller \cup {NoTask}] /\ callSession \in [Caller -> Nat]
    BY DEF Init
  <2>2. outcome \in [Caller -> Outcome]
    BY DEF Init, Outcome
  <2>3. /\ activeCount \in Nat /\ criticalCount \in Nat /\ ioSession \in Nat
        /\ activeTasks \subseteq Caller /\ dedupedTasks \subseteq Caller /\ onRadio \subseteq Caller
    BY DEF Init
  <2>4. pumpScheduled \in BOOLEAN
    BY Zenon DEF Init
  <2>5. options \in Options
    BY Zenon DEF Init
  <2> QED
    BY <1>1, <2>1, <2>2, <2>3, <2>4, <2>5 DEF TypeOK
<1>3. ActiveFinite /\ CountersAgree
  <2>1. activeTasks \cap Critical = {} /\ activeTasks = {}
    BY DEF Init
  <2> QED
    BY <2>1, FS_EmptySet DEF Init, ActiveFinite, CountersAgree
<1>4. NoDuplicate /\ OwnTask /\ MapExact /\ CriticalFirst /\ NoLostWakeup /\ OneTaskPerKey
  BY <1>1 DEF Init, NoDuplicate, OwnTask, MapExact, CriticalFirst, NoLostWakeup, OneTaskPerKey
<1>5. SessionInv /\ NoOrphan
  BY DEF Init, SessionInv, NoOrphan
<1> QED
  BY <1>2, <1>3, <1>4, <1>5 DEF IInv

LEMMA SubmitStep ==
  ASSUME IInv, NEW c \in Caller, Run(c), Submit(c)
  PROVE  IInv'
<1>1. /\ queue \in Seq(Caller) /\ CriticalFirst /\ promise[c] = NoTask
      /\ \A i, j \in 1..Len(queue) : queue[i] = queue[j] => i = j
  BY DEF IInv, TypeOK, NoDuplicate, Run
<1>2. c \notin Outstanding /\ c \notin Queued /\ c \notin activeTasks
  BY <1>1 DEF IInv, OwnTask, Outstanding
<1>3. /\ queue' \in Seq(Caller)
      /\ Queued' = Queued \cup {c}
      /\ \A i, j \in 1..Len(queue') : queue'[i] = queue'[j] => i = j
      /\ CriticalFirst'
  BY <1>1, <1>2, EnqueueFacts DEF Submit
<1>4. Outstanding' = Outstanding \cup {c} /\ activeTasks' = activeTasks
  BY <1>3 DEF Submit, Outstanding
<1>5. TypeOK'
  BY <1>3 DEF IInv, TypeOK, Run, Submit, Register, SchedulePump, Outcome
<1>6. NoDuplicate'
  BY <1>2, <1>3 DEF IInv, NoDuplicate, Submit
<1>7. OwnTask'
  BY <1>4 DEF IInv, OwnTask, TypeOK, Submit
<1>8. MapExact'
  BY <1>4 DEF IInv, MapExact, Submit, Register
<1>9. SessionInv'
  BY <1>2 DEF IInv, SessionInv, TypeOK, NoOrphan, Outstanding, Run, Submit
<1>10. ActiveFinite' /\ CountersAgree'
  BY DEF IInv, ActiveFinite, CountersAgree, Run, Submit
<1>11. NoLostWakeup'
  BY DEF Submit, SchedulePump, NoLostWakeup
<1>12. NoOrphan'
  BY <1>4 DEF IInv, NoOrphan, TypeOK, Submit
<1>13. OneTaskPerKey'
  <2> SUFFICES ASSUME NEW t \in Outstanding', NEW u \in Outstanding',
                      Id[t] # NoId, Id[t] = Id[u], callSession'[t] = callSession'[u]
               PROVE  t = u
    BY DEF OneTaskPerKey
  <2>1. \A x \in Outstanding : callSession'[x] = callSession[x]
    BY <1>2 DEF IInv, TypeOK, Run, Outstanding, Queued
  <2>2. callSession'[c] = ioSession
    BY DEF IInv, TypeOK, Run
  <2>3. \A x \in Outstanding : Id[x] # NoId /\ Id[x] = Id[c] => callSession[x] # ioSession
    BY DEF IInv, MapExact, Submit, SameKey
  <2> QED
    BY <1>4, <2>1, <2>2, <2>3 DEF IInv, OneTaskPerKey
<1> QED
  BY <1>3, <1>5, <1>6, <1>7, <1>8, <1>9, <1>10, <1>11, <1>12, <1>13 DEF IInv

LEMMA JoinStep ==
  ASSUME IInv, NEW c \in Caller, NEW t \in Caller, Run(c), Join(c, t)
  PROVE  IInv'
<1>1. /\ promise[c] = NoTask /\ t \in Outstanding /\ callSession[t] = ioSession
      /\ c \notin Outstanding
  BY DEF IInv, OwnTask, MapExact, Outstanding, Run, Join, SameKey
<1>2. /\ queue' = queue /\ activeTasks' = activeTasks
      /\ Queued' = Queued /\ Outstanding' = Outstanding
  BY DEF Join, queueVars, Queued, Outstanding
<1>3. TypeOK'
  BY DEF IInv, TypeOK, Run, Join, queueVars, Outcome
<1>4. NoDuplicate' /\ MapExact' /\ ActiveFinite' /\ CountersAgree' /\ NoLostWakeup' /\ CriticalFirst'
  BY <1>2 DEF IInv, NoDuplicate, MapExact, ActiveFinite, CountersAgree, NoLostWakeup,
              CriticalFirst, Run, Join, queueVars
<1>5. OwnTask' /\ NoOrphan'
  BY <1>1, <1>2 DEF IInv, TypeOK, OwnTask, NoOrphan, Join
<1>6. SessionInv'
  BY <1>1 DEF IInv, SessionInv, TypeOK, OwnTask, NoOrphan, Outstanding, Run, Join, queueVars
<1>7. OneTaskPerKey'
  <2>1. \A x \in Outstanding : callSession'[x] = callSession[x]
    BY <1>1 DEF IInv, TypeOK, Run, Outstanding, Queued
  <2> QED
    BY <1>2, <2>1 DEF IInv, OneTaskPerKey
<1> QED
  BY <1>3, <1>4, <1>5, <1>6, <1>7 DEF IInv

LEMMA PumpStep ==
  ASSUME IInv, Pump
  PROVE  IInv'
<1>1. /\ queue' \in Seq(Caller)
      /\ Len(queue') = Len(queue) - Room
      /\ Queued' = Queued \ Starting
      /\ \A i, j \in 1..Len(queue') : queue'[i] = queue'[j] => i = j
      /\ CriticalFirst'
  BY PumpFacts DEF Pump
<1>2. /\ Starting \subseteq Queued /\ IsFiniteSet(Starting) /\ Cardinality(Starting) = Room
      /\ Starting \cap activeTasks = {}
  BY StartingFacts DEF IInv, NoDuplicate
<1>3. Queued \subseteq Caller
  BY RoomFacts DEF Queued
<1>4. Outstanding' = Outstanding /\ activeTasks' = activeTasks \cup Starting
  BY <1>1, <1>2 DEF Pump, Outstanding
<1>5. TypeOK'
  <2>1. Cardinality(Starting \cap Critical) \in Nat
    BY <1>2, FS_Intersection, FS_CardinalityType
  <2>2. Room \in Nat
    BY RoomFacts
  <2>3. activeTasks' \subseteq Caller /\ onRadio' \subseteq Caller
    BY <1>2, <1>3 DEF IInv, TypeOK, Pump
  <2>4. activeCount' \in Nat /\ criticalCount' \in Nat
    BY <2>1, <2>2 DEF IInv, TypeOK, Pump
  <2> QED
    BY <1>1, <2>3, <2>4 DEF IInv, TypeOK, Pump
<1>6. NoDuplicate'
  BY <1>1, <1>4 DEF IInv, NoDuplicate
<1>7. OwnTask' /\ MapExact' /\ NoOrphan' /\ OneTaskPerKey'
  BY <1>4 DEF IInv, OwnTask, MapExact, NoOrphan, OneTaskPerKey, Pump
<1>8. SessionInv'
  BY <1>4 DEF IInv, SessionInv, Pump
<1>9. ActiveFinite' /\ CountersAgree'
  <2>1. /\ IsFiniteSet(activeTasks \cup Starting)
        /\ Cardinality(activeTasks \cup Starting) =
             Cardinality(activeTasks) + Cardinality(Starting) - Cardinality(activeTasks \cap Starting)
    BY <1>2, FS_Union DEF IInv, ActiveFinite
  <2>2. activeTasks \cap Starting = {} /\ Cardinality({}) = 0
    BY <1>2, FS_EmptySet
  <2>3. /\ IsFiniteSet(activeTasks \cap Critical) /\ IsFiniteSet(Starting \cap Critical)
        /\ (activeTasks \cap Critical) \cap (Starting \cap Critical) = {}
        /\ (activeTasks \cup Starting) \cap Critical
             = (activeTasks \cap Critical) \cup (Starting \cap Critical)
    BY <1>2, FS_Intersection DEF IInv, ActiveFinite
  <2>4. Cardinality((activeTasks \cup Starting) \cap Critical) =
          Cardinality(activeTasks \cap Critical) + Cardinality(Starting \cap Critical)
            - Cardinality((activeTasks \cap Critical) \cap (Starting \cap Critical))
    BY <2>3, FS_Union
  <2>5. /\ Cardinality(activeTasks) \in Nat
        /\ Cardinality(activeTasks \cap Critical) \in Nat
        /\ Cardinality(Starting \cap Critical) \in Nat
    BY <2>3, FS_CardinalityType DEF IInv, ActiveFinite
  <2>6. activeCount' = Cardinality(activeTasks')
    <3>1. Cardinality(activeTasks \cup Starting) = Cardinality(activeTasks) + Room
      <4>1. Room \in Int /\ Cardinality(Starting) = Room
        BY <1>2, RoomFacts
      <4>2. Cardinality(activeTasks \cap Starting) = 0
        BY <2>2
      <4> QED
        BY <2>1, <2>5, <4>1, <4>2
    <3>2. activeCount' = Cardinality(activeTasks) + Room
      BY DEF IInv, CountersAgree, Pump
    <3> QED
      BY <1>4, <3>1, <3>2
  <2>7. criticalCount' = Cardinality(activeTasks' \cap Critical)
    <3>1. Cardinality((activeTasks \cup Starting) \cap Critical) =
            Cardinality(activeTasks \cap Critical) + Cardinality(Starting \cap Critical)
      <4>1. Cardinality((activeTasks \cap Critical) \cap (Starting \cap Critical)) = 0
        BY <2>2, <2>3, Zenon
      <4> QED
        BY <2>4, <2>5, <4>1
    <3>2. criticalCount' = Cardinality(activeTasks \cap Critical) + Cardinality(Starting \cap Critical)
      BY DEF IInv, CountersAgree, Pump
    <3> QED
      BY <1>4, <3>1, <3>2
  <2>8. activeCount' <= MaxConcurrent
    BY RoomFacts DEF Pump
  <2> QED
    BY <1>4, <2>1, <2>6, <2>7, <2>8 DEF ActiveFinite, CountersAgree, Pump
<1>10. NoLostWakeup'
  <2>1. queue' # <<>> => Len(queue') # 0
    BY <1>1, EmptySeq
  <2> QED
    BY <1>1, <2>1, RoomFacts DEF NoLostWakeup, Pump
<1> QED
  BY <1>1, <1>5, <1>6, <1>7, <1>8, <1>9, <1>10 DEF IInv

LEMMA SettleStep ==
  ASSUME IInv, NEW t \in Caller, Settle(t)
  PROVE  IInv'
<1>1. /\ queue' = queue /\ Queued' = Queued /\ activeTasks' = activeTasks \ {t}
      /\ t \in activeTasks /\ t \notin Queued
      /\ Outstanding' = Outstanding \ {t}
  BY DEF IInv, NoDuplicate, Settle, Queued, Outstanding
<1>3. NoDuplicate' /\ CriticalFirst' /\ NoLostWakeup'
  BY <1>1 DEF IInv, NoDuplicate, CriticalFirst, NoLostWakeup, Settle, SchedulePump
<1>4. OwnTask' /\ NoOrphan' /\ MapExact' /\ OneTaskPerKey'
  <2>1. Outstanding \subseteq Caller
    BY RoomFacts DEF IInv, TypeOK, Outstanding, Queued
  <2> QED
    BY <1>1, <2>1 DEF IInv, TypeOK, OwnTask, NoOrphan, MapExact, OneTaskPerKey, Settle, Unregister
<1>5. SessionInv'
  BY <1>1 DEF IInv, TypeOK, SessionInv, Settle
<1>6. ActiveFinite' /\ CountersAgree'
  <2>1. /\ IsFiniteSet(activeTasks \ {t})
        /\ Cardinality(activeTasks \ {t}) = Cardinality(activeTasks) - 1
    BY <1>1, FS_RemoveElement DEF IInv, ActiveFinite
  <2>2. IsFiniteSet(activeTasks \cap Critical)
    BY FS_Intersection DEF IInv, ActiveFinite
  <2>3. (activeTasks \ {t}) \cap Critical = (activeTasks \cap Critical) \ {t}
    OBVIOUS
  <2>4. Cardinality((activeTasks \ {t}) \cap Critical)
          = IF t \in Critical THEN Cardinality(activeTasks \cap Critical) - 1
                              ELSE Cardinality(activeTasks \cap Critical)
    BY <1>1, <2>2, <2>3, FS_RemoveElement
  <2> QED
    BY <1>1, <2>1, <2>4 DEF IInv, TypeOK, ActiveFinite, CountersAgree, Settle, CountDown
<1>2. TypeOK'
  <2>1. activeCount' \in Nat /\ criticalCount' \in Nat
    BY <1>6, FS_Intersection, FS_CardinalityType DEF ActiveFinite, CountersAgree
  <2> QED
    BY <2>1 DEF IInv, TypeOK, Settle, Unregister, SchedulePump, Ending, Outcome
<1> QED
  BY <1>2, <1>3, <1>4, <1>5, <1>6 DEF IInv

LEMMA StepIInv ==
  ASSUME IInv, [Next]_vars
  PROVE  IInv'
<1>1. ASSUME NEW c \in Caller, Run(c)
      PROVE  IInv'
  BY <1>1, SubmitStep, JoinStep DEF Run
<1>2. ASSUME NEW c \in Caller, RunSkipped(c)
      PROVE  IInv'
  <2>1. /\ UNCHANGED <<options, queue, activeTasks, activeCount, criticalCount, pumpScheduled,
                       dedupedTasks, promise, ioSession, callSession, onRadio>>
        /\ Queued' = Queued /\ Outstanding' = Outstanding
    BY <1>2 DEF RunSkipped, queueVars, Queued, Outstanding
  <2>2. TypeOK'
    BY <1>2, <2>1 DEF IInv, TypeOK, RunSkipped, Outcome
  <2> QED
    BY <2>1, <2>2 DEF IInv, NoDuplicate, OwnTask, MapExact, SessionInv, ActiveFinite,
       CountersAgree, NoLostWakeup, CriticalFirst, NoOrphan, OneTaskPerKey
<1>3. ASSUME NEW t \in Caller, Settle(t)
      PROVE  IInv'
  BY <1>3, SettleStep
<1>4. CASE Pump
  BY <1>4, PumpStep
<1>5. CASE NewSession
  <2>1. /\ UNCHANGED <<options, queue, activeTasks, activeCount, criticalCount, pumpScheduled,
                       dedupedTasks, promise, callSession, onRadio, outcome>>
        /\ Queued' = Queued /\ Outstanding' = Outstanding
        /\ ioSession' = ioSession + 1
    BY <1>5 DEF NewSession, queueVars, Queued, Outstanding
  <2>2. TypeOK'
    BY <2>1 DEF IInv, TypeOK
  <2>3. SessionInv'
    <3>1. \A c \in Caller : callSession[c] \in Nat /\ callSession[c] <= ioSession
      BY DEF IInv, TypeOK, SessionInv
    <3>2. ioSession \in Nat /\ activeTasks \subseteq Caller
      BY DEF IInv, TypeOK
    <3>3. \A c \in Caller : callSession[c] <= ioSession + 1 /\ callSession[c] # ioSession + 1
      BY <3>1, <3>2
    <3> QED
      BY <2>1, <3>2, <3>3 DEF IInv, SessionInv
  <2> QED
    BY <2>1, <2>2, <2>3 DEF IInv, NoDuplicate, OwnTask, MapExact, ActiveFinite,
       CountersAgree, NoLostWakeup, CriticalFirst, NoOrphan, OneTaskPerKey
<1>6. CASE UNCHANGED vars
  BY <1>6 DEF vars, IInv, TypeOK, NoDuplicate, OwnTask, MapExact, SessionInv, ActiveFinite,
     CountersAgree, NoLostWakeup, CriticalFirst, NoOrphan, OneTaskPerKey, Queued, Outstanding
<1> QED
  BY <1>1, <1>2, <1>3, <1>4, <1>5, <1>6 DEF Next

THEOREM Invariance == Spec => []IInv
<1>1. Init => IInv
  BY InitIInv
<1>2. IInv /\ [Next]_vars => IInv'
  BY StepIInv
<1> QED
  BY <1>1, <1>2, PTL DEF Spec

(* Type correctness (RadioIoQueue.ts, every field of the class).           *)
THEOREM TypeCorrect == Spec => []TypeOK
<1>1. IInv => TypeOK
  BY DEF IInv
<1> QED
  BY <1>1, Invariance, PTL

(* The counters the pump and the backpressure read are exact, nobody       *)
(* awaits a task that is gone, and the dedupe map never lets two tasks of  *)
(* one session and id coexist.                                             *)
THEOREM BooksExact == Spec => []Bookkeeping
<1>1. IInv => Bookkeeping
  BY DEF IInv, Bookkeeping
<1> QED
  BY <1>1, Invariance, PTL

(* schedulePump never loses a wakeup, whatever calls and endings interleave *)
(* with the pump microtask.                                                *)
THEOREM Wakeup == Spec => []NoLostWakeup
<1>1. IInv => NoLostWakeup
  BY DEF IInv
<1> QED
  BY <1>1, Invariance, PTL

(* enqueue keeps critical commands ahead of normal ones.                   *)
THEOREM QueueSound == Spec => []CriticalFirst
<1>1. IInv => CriticalFirst
  BY DEF IInv
<1> QED
  BY <1>1, Invariance, PTL

-----------------------------------------------------------------------------
(* A command is answered `ok' only in the session it was issued in, and    *)
(* `stale' only when that session is over, shared tasks included.          *)
THEOREM SessionSafety == Spec => SessionSound
<1>1. ASSUME IInv, Next, NEW c \in Caller
      PROVE  AnswersInSession(c)
  <2> SUFFICES ASSUME promise[c] # NoTask, promise'[c] = NoTask
               PROVE  /\ outcome'[c] = "ok" => callSession[c] = ioSession
                      /\ outcome'[c] = "stale" => callSession[c] # ioSession
    BY DEF AnswersInSession
  <2>1. PICK t \in Caller : Settle(t)
    <3>1. ASSUME NEW d \in Caller, Run(d)
          PROVE  FALSE
      <4>1. promise'[c] = promise[c] \/ promise'[c] \in Caller
        BY <1>1, <3>1 DEF IInv, TypeOK, Run, Submit, Join
      <4> QED
        BY <4>1
    <3> QED
      BY <1>1, <3>1 DEF Next, RunSkipped, Pump, NewSession
  <2>2. promise[c] = t /\ outcome'[c] \in Ending(t)
    BY <1>1, <2>1 DEF IInv, TypeOK, Settle
  <2>3. callSession[c] = callSession[t] /\ (t \notin onRadio => callSession[t] # ioSession)
    BY <1>1, <2>1, <2>2 DEF IInv, SessionInv, Settle
  <2> QED
    BY <2>2, <2>3 DEF Ending
<1>2. IInv /\ [Next]_vars => [\A c \in Caller : AnswersInSession(c)]_vars
  BY <1>1
<1> QED
  BY <1>2, Invariance, PTL DEF Spec, SessionSound

-----------------------------------------------------------------------------
(* A new task goes behind every task of its class that waits.              *)
LEMMA SubmitInOrder ==
  ASSUME IInv, NEW c \in Caller, c \notin Queued, Enqueue(c), UNCHANGED activeTasks
  PROVE  InOrder
<1>0. /\ queue \in Seq(Caller) /\ Len(queue) \in Nat /\ CriticalFirst
      /\ Queued \cap activeTasks = {}
  BY RoomFacts DEF IInv, TypeOK, NoDuplicate
<1>1. PICK k \in 1..(Len(queue) + 1) :
         /\ queue' \in Seq(Caller)
         /\ Len(queue') = Len(queue) + 1
         /\ \A i \in 1..(Len(queue) + 1) :
              queue'[i] = IF i < k THEN queue[i]
                          ELSE IF i = k THEN c ELSE queue[i - 1]
         /\ c \in Critical => FirstNormal(k)
         /\ c \notin Critical => k = Len(queue) + 1
  BY <1>0, Inserted
<1>2. ASSUME NEW t \in Queued, NEW u \in Caller, t \in Critical <=> u \in Critical,
             NEW i \in 1..Len(queue'), NEW j \in 1..Len(queue'),
             i < j, queue'[i] = u, queue'[j] = t
      PROVE  Before(queue, u, t)
  <2>1. j # k
    BY <1>1, <1>2
  <2>2. i # k
    <3> SUFFICES ASSUME i = k PROVE FALSE
      OBVIOUS
    <3>1. u = c /\ j - 1 \in 1..Len(queue) /\ queue[j - 1] = t /\ k <= j - 1
      BY <1>0, <1>1, <1>2
    <3>2. c \in Critical /\ t \in Critical
      BY <1>0, <1>1, <1>2, <3>1
    <3>3. k \in 1..Len(queue) /\ queue[k] \notin Critical
      BY <1>0, <1>1, <3>1, <3>2 DEF FirstNormal
    <3> QED  BY <1>0, <3>1, <3>2, <3>3 DEF CriticalFirst
  <2> DEFINE old(n) == IF n < k THEN n ELSE n - 1
  <2>3. /\ old(i) \in 1..Len(queue) /\ old(j) \in 1..Len(queue) /\ old(i) < old(j)
        /\ queue[old(i)] = u /\ queue[old(j)] = t
    BY <1>0, <1>1, <1>2, <2>1, <2>2
  <2> QED  BY <2>3 DEF Before
<1>3. ASSUME NEW u \in activeTasks', NEW t, Before(queue, t, u) PROVE FALSE
  BY <1>0, <1>3 DEF Before, Queued
<1> QED  BY <1>2, <1>3 DEF InOrder, Before

(* The pump takes tasks from the front.                                    *)
LEMMA PumpInOrder == ASSUME IInv, Pump PROVE InOrder
<1>0. /\ Len(queue) \in Nat /\ Room \in 0..Len(queue)
      /\ \A i, j \in 1..Len(queue) : queue[i] = queue[j] => i = j
      /\ Queued \cap activeTasks = {}
  BY RoomFacts DEF IInv, NoDuplicate
<1>1. /\ Len(queue') = Len(queue) - Room
      /\ \A i \in 1..(Len(queue) - Room) : queue'[i] = queue[Room + i]
      /\ activeTasks' = activeTasks \cup Starting
  BY PumpFacts DEF Pump
<1>2. ASSUME NEW t, NEW u, NEW i \in 1..Len(queue'), NEW j \in 1..Len(queue'),
             i < j, queue'[i] = u, queue'[j] = t
      PROVE  Before(queue, u, t)
  <2>1. /\ Room + i \in 1..Len(queue) /\ Room + j \in 1..Len(queue) /\ Room + i < Room + j
        /\ queue[Room + i] = u /\ queue[Room + j] = t
    BY <1>0, <1>1, <1>2
  <2> QED  BY <2>1 DEF Before
<1>3. ASSUME NEW t, NEW u \in activeTasks',
             NEW i \in 1..Len(queue), NEW j \in 1..Len(queue),
             i < j, queue[i] = t, queue[j] = u
      PROVE  t \in activeTasks'
  <2>1. u \in Starting
    BY <1>0, <1>1, <1>3 DEF Queued
  <2>2. PICK n \in 1..Room : queue[n] = u
    BY <2>1 DEF Starting
  <2>3. n = j
    BY <1>0, <1>3, <2>2
  <2>4. i \in 1..Room
    BY <1>0, <1>3, <2>3
  <2> QED  BY <1>1, <1>3, <2>4 DEF Starting
<1> QED  BY <1>2, <1>3 DEF InOrder, Before

(* Tasks of one class are started in the order of their submission: no     *)
(* call, ending, session or pump lets one overtake another.                *)
THEOREM NobodyOvertakes == Spec => FifoPerClass
<1>1. ASSUME IInv, Next PROVE InOrder
  <2>1. ASSUME queue' = queue, activeTasks' \subseteq activeTasks PROVE InOrder
    <3>1. ASSUME NEW u \in activeTasks', NEW t, Before(queue, t, u) PROVE FALSE
      BY <1>1, <2>1, <3>1 DEF IInv, NoDuplicate, Before, Queued
    <3> QED  BY <2>1, <3>1 DEF InOrder
  <2>2. ASSUME NEW c \in Caller, Run(c) PROVE InOrder
    <3>1. CASE Submit(c)
      <4>1. c \notin Queued
        BY <1>1, <2>2 DEF Run, IInv, OwnTask, Outstanding
      <4> QED  BY <1>1, <3>1, <4>1, SubmitInOrder DEF Submit
    <3>2. ASSUME NEW t \in Caller, Join(c, t) PROVE InOrder
      BY <2>1, <3>2 DEF Join, queueVars
    <3> QED  BY <2>2, <3>1, <3>2 DEF Run
  <2>3. ASSUME NEW c \in Caller, RunSkipped(c) \/ Settle(c) PROVE InOrder
    BY <2>1, <2>3 DEF RunSkipped, Settle, queueVars
  <2>4. CASE Pump
    BY <1>1, <2>4, PumpInOrder
  <2>5. CASE NewSession
    BY <2>1, <2>5 DEF NewSession, queueVars
  <2> QED  BY <1>1, <2>2, <2>3, <2>4, <2>5 DEF Next
<1>2. IInv /\ [Next]_vars => [InOrder]_vars
  BY <1>1
<1> QED  BY <1>2, Invariance, PTL DEF Spec, FifoPerClass

(* The queue implements RadioCalls: seen from the callers it is a pool of  *)
(* at most MaxConcurrent running tasks that prefers critical ones and      *)
(* answers every caller of a task at once.                                 *)
THEOREM Implements == Spec => ImplementsCalls
<1>1. Init => Calls!Init
  BY EmptySeq, LimitType DEF Init, Calls!Init, Queued
<1>2. ASSUME IInv, [Next]_vars
      PROVE  [Calls!Next]_(Calls!vars)
  <2>1. ASSUME NEW c \in Caller, Run(c), Submit(c)
        PROVE  Calls!Create(c)
    <3>1. c \notin Outstanding /\ promise[c] = NoTask
      BY <1>2, <2>1 DEF IInv, OwnTask, Outstanding, Run
    <3>2. Queued' = Queued \cup {c}
      <4>1. /\ queue \in Seq(Caller) /\ CriticalFirst /\ Enqueue(c) /\ c \notin Queued
            /\ \A i, j \in 1..Len(queue) : queue[i] = queue[j] => i = j
        BY <1>2, <2>1, <3>1 DEF IInv, TypeOK, NoDuplicate, Submit, Outstanding
      <4> QED
        BY <4>1, EnqueueFacts
    <3> QED
      BY <2>1, <3>1, <3>2 DEF Calls!Create, Run, Submit, Outstanding
  <2>2. ASSUME NEW c \in Caller, NEW t \in Caller, Run(c), Join(c, t)
        PROVE  Calls!Share(c, t)
    <3>1. t \in Outstanding /\ promise[c] = NoTask
      BY <1>2, <2>2 DEF IInv, MapExact, Run, Join
    <3>2. Queued' = Queued /\ activeTasks' = activeTasks
      BY <2>2 DEF Join, queueVars, Queued
    <3> QED
      BY <2>2, <3>1, <3>2 DEF Calls!Share, Run, Join, Outstanding
  <2>3. ASSUME NEW t \in Caller, Settle(t)
        PROVE  Calls!End(t)
    BY <2>3 DEF Calls!End, Settle, Queued
  <2>4. CASE Pump
    <3>1. /\ Queued' = Queued \ Starting
          /\ Starting \subseteq Queued /\ Starting \subseteq Caller
      <4>1. Queued \subseteq Caller
        BY <1>2, RoomFacts DEF Queued
      <4> QED
        BY <1>2, <2>4, <4>1, PumpFacts, StartingFacts DEF Pump
    <3>2. Cardinality(activeTasks \cup Starting) <= MaxConcurrent
      BY <1>2, <2>4, PumpStep DEF IInv, CountersAgree, Pump
    <3>3. Starting \subseteq Critical \/ Queued \cap Critical \subseteq Starting
      <4> SUFFICES ASSUME NEW i \in 1..Room, queue[i] \notin Critical,
                          NEW j \in 1..Len(queue), queue[j] \in Critical
                   PROVE  queue[j] \in Starting
        BY DEF Starting, Queued
      <4>1. Len(queue) \in Nat /\ Room \in 0..Len(queue)
        BY <1>2, RoomFacts
      <4>2. ~ (i < j) /\ i # j
        BY <1>2, <4>1 DEF IInv, CriticalFirst
      <4>3. j \in 1..Room
        BY <4>1, <4>2
      <4> QED
        BY <4>3 DEF Starting
    <3>4. Calls!Start(Starting)
      <4>1. activeTasks' = activeTasks \cup Starting /\ UNCHANGED <<promise, options>>
        BY <2>4 DEF Pump
      <4>2. Calls!Cardinality(activeTasks \cup Starting) = Cardinality(activeTasks \cup Starting)
        BY DEF Calls!Cardinality, Cardinality
      <4> QED
        BY <3>1, <3>2, <3>3, <4>1, <4>2 DEF Calls!Start
    <3> QED
      BY <3>1, <3>4 DEF Calls!Next
  <2>5. ASSUME NEW c \in Caller, RunSkipped(c)
        PROVE  UNCHANGED Calls!vars
    BY <2>5 DEF RunSkipped, queueVars, Calls!vars, Queued
  <2>6. CASE NewSession
    BY <2>6 DEF NewSession, queueVars, Calls!vars, Queued
  <2>7. CASE UNCHANGED vars
    BY <2>7 DEF vars, Calls!vars, Queued
  <2> QED
    BY <1>2, <2>1, <2>2, <2>3, <2>4, <2>5, <2>6, <2>7 DEF Next, Run, Calls!Next
<1> QED
  BY <1>1, <1>2, Invariance, PTL DEF Spec, ImplementsCalls, Calls!Spec
=============================================================================
