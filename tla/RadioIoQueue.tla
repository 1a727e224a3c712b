---------------------------- MODULE RadioIoQueue ----------------------------
(***************************************************************************)
(* The I/O queue that serialises the commands of one radio connection      *)
(* (radio/connections/RadioIoQueue.ts) together with the session check     *)
(* its two users put around every command (runSerializedTask in            *)
(* HamlibConnection.ts and IcomWlanConnection.ts).                         *)
(*                                                                         *)
(* A caller is one place of the server that issues commands: a poller, the *)
(* PTT path, a route.  It awaits its call, so it has at most one call in   *)
(* flight, and a queued task is named by the caller that created it.       *)
(* JavaScript runs each handler to its first await, so every action below  *)
(* is one such run: a call, the queued pump microtask, or the settling of  *)
(* one task's promise followed by finishTask.                              *)
(***************************************************************************)
EXTENDS Integers, Sequences, FiniteSets

CONSTANTS
  Caller,                \* the places that issue commands
  Critical,              \* callers whose commands are `critical' (setPTT, setFrequency)
  LowPriority,           \* callers that use runLowPriority (pollMeters, getPTT)
  Ids,                   \* the dedupe ids
  Id,                    \* the id a caller gives its command, or NoId
  NoId,
  NoTask,
  Options,               \* the options a queue may be created with
  MaxSession             \* bound on the number of reconnects (model only)

ASSUME CallerAssumption ==
  /\ Critical \subseteq Caller
  /\ LowPriority \subseteq Caller \ Critical
  /\ NoTask \notin Caller
  /\ NoId \notin Ids
  /\ Id \in [Caller -> Ids \cup {NoId}]

(* maxConcurrent is what Math.max(1, trunc) makes of the option.           *)
ASSUME OptionAssumption ==
  /\ MaxSession \in Nat
  /\ Options \subseteq
       [maxConcurrent : Nat \ {0}, lowPrioritySkipsWhenBusy : BOOLEAN,
        criticalBackpressure : BOOLEAN, busyBackpressure : BOOLEAN]

VARIABLES
  options,        \* the queue's options; they never change
  queue,          \* the pending tasks, in dispatch order
  activeTasks,    \* the tasks that were started and have not settled
  activeCount,    \* the counter the pump compares with maxConcurrent
  criticalCount,  \* the counter behind isCriticalActive
  pumpScheduled,  \* a pump microtask is queued
  dedupedTasks,   \* the tasks registered in the dedupe map
  promise,        \* promise[c]: the task whose promise caller c awaits
  ioSession,      \* ioSessionId of the connection
  callSession,    \* callSession[c]: ioSessionId when c issued its call
  onRadio,        \* active tasks that passed the first session check
  outcome         \* outcome[c]: how the last call of c ended

queueVars == <<queue, activeTasks, activeCount, criticalCount, pumpScheduled, dedupedTasks>>
vars == <<options, queue, activeTasks, activeCount, criticalCount, pumpScheduled,
          dedupedTasks, promise, ioSession, callSession, onRadio, outcome>>

Outcome == {"none", "skipped", "ok", "error", "stale"}

MaxConcurrent == options.maxConcurrent

Queued == {queue[i] : i \in 1..Len(queue)}
Outstanding == Queued \cup activeTasks

(* A task's sessionId is the session its creator called in; the dedupe key *)
(* of a command is that session together with its id.  (Mutants, here and  *)
(* below, are the definitions whose name ends in a defect: this one        *)
(* forgets the session.)                                                   *)
SameKey_IdOnly(t, c) == Id[t] = Id[c] /\ Id[c] # NoId
SameKey(t, c) == Id[t] = Id[c] /\ Id[c] # NoId /\ callSession[t] = ioSession

IsBusy == activeCount > 0 \/ queue # <<>>
HasBackpressure ==
  \/ options.busyBackpressure /\ IsBusy
  \/ options.criticalBackpressure /\ criticalCount > 0

Init ==
  /\ options \in Options
  /\ queue = <<>>
  /\ activeTasks = {}
  /\ activeCount = 0
  /\ criticalCount = 0
  /\ pumpScheduled = FALSE
  /\ dedupedTasks = {}
  /\ promise = [c \in Caller |-> NoTask]
  /\ ioSession = 0
  /\ callSession = [c \in Caller |-> 0]
  /\ onRadio = {}
  /\ outcome = [c \in Caller |-> "none"]

-----------------------------------------------------------------------------
(* enqueue: a critical task goes in front of the first normal one, behind  *)
(* the critical tasks that already wait; a normal task goes to the end.    *)
FirstNormal_Front(k) == k = 1
FirstNormal(k) ==
  /\ \A i \in 1..(k - 1) : queue[i] \in Critical
  /\ k <= Len(queue) => queue[k] \notin Critical

InsertAt(k, c) ==
  [i \in 1..(Len(queue) + 1) |->
     IF i < k THEN queue[i] ELSE IF i = k THEN c ELSE queue[i - 1]]

Enqueue_Fifo(c) == queue' = Append(queue, c)
Enqueue(c) ==
  \/ /\ c \in Critical
     /\ \E k \in 1..(Len(queue) + 1) : FirstNormal(k) /\ queue' = InsertAt(k, c)
  \/ /\ c \notin Critical
     /\ queue' = Append(queue, c)

(* schedulePump: a pump microtask is queued unless one already is.         *)
SchedulePump_WhenIdle == pumpScheduled' = (activeCount = 0)
SchedulePump_Dropped == UNCHANGED pumpScheduled
SchedulePump == pumpScheduled' = TRUE

(* The dedupe map: run registers a task that has a key, finishTask removes *)
(* the entry if it still is this task's.                                   *)
Register_Nothing(c) == UNCHANGED dedupedTasks
Register(c) == dedupedTasks' = IF Id[c] = NoId THEN dedupedTasks ELSE dedupedTasks \cup {c}
Unregister(t) == dedupedTasks' = dedupedTasks \ {t}

(* run: a call whose key is registered shares the promise of that task.    *)
Join(c, t) ==
  /\ t \in dedupedTasks
  /\ SameKey(t, c)
  /\ promise' = [promise EXCEPT ![c] = t]
  /\ UNCHANGED queueVars

Submit(c) ==
  /\ ~ \E t \in dedupedTasks : SameKey(t, c)
  /\ promise' = [promise EXCEPT ![c] = c]
  /\ Register(c)
  /\ Enqueue(c)
  /\ SchedulePump
  /\ UNCHANGED <<activeTasks, activeCount, criticalCount>>

Skips(c) == c \in LowPriority /\ options.lowPrioritySkipsWhenBusy /\ HasBackpressure

Run(c) ==
  /\ promise[c] = NoTask
  /\ ~ Skips(c)
  /\ callSession' = [callSession EXCEPT ![c] = ioSession]
  /\ outcome' = [outcome EXCEPT ![c] = "none"]
  /\ Submit(c) \/ \E t \in Caller : Join(c, t)
  /\ UNCHANGED <<options, ioSession, onRadio>>

RunSkipped(c) ==
  /\ promise[c] = NoTask
  /\ Skips(c)
  /\ outcome' = [outcome EXCEPT ![c] = "skipped"]
  /\ UNCHANGED <<options, queueVars, promise, ioSession, callSession, onRadio>>

-----------------------------------------------------------------------------
(* The pump microtask: pumpNext shifts tasks off the queue while there is  *)
(* room; startTask counts each and runs its body to the first await, where *)
(* ensureSession lets only tasks of the current session reach the radio.   *)
Smaller(a, b) == IF a < b THEN a ELSE b
Room == Smaller(MaxConcurrent - activeCount, Len(queue))
Starting == {queue[i] : i \in 1..Room}

Pump ==
  /\ pumpScheduled
  /\ pumpScheduled' = FALSE
  /\ queue' = SubSeq(queue, Room + 1, Len(queue))
  /\ activeTasks' = activeTasks \cup Starting
  /\ activeCount' = activeCount + Room
  /\ criticalCount' = criticalCount + Cardinality(Starting \cap Critical)
  /\ onRadio' = onRadio \cup {t \in Starting : callSession[t] = ioSession}
  /\ UNCHANGED <<options, dedupedTasks, promise, ioSession, callSession, outcome>>

(* The body of a started task ends: it throws, or it returns and the       *)
(* second ensureSession decides whether its result is still wanted.        *)
Ending(t) ==
  IF t \notin onRadio THEN {"stale"}
  ELSE {"error", IF callSession[t] = ioSession THEN "ok" ELSE "stale"}

(* resolve or reject, then finishTask: the promise settles for every       *)
(* caller that shares it, the task leaves the map and the counters, and    *)
(* the pump is scheduled again.                                            *)
CountDown_AlwaysCritical(t) == criticalCount' = criticalCount - 1 /\ activeCount' = activeCount - 1
CountDown(t) ==
  /\ criticalCount' = IF t \in Critical THEN criticalCount - 1 ELSE criticalCount
  /\ activeCount' = activeCount - 1

Settle(t) ==
  /\ t \in activeTasks
  /\ \E end \in Ending(t) :
       outcome' = [c \in Caller |-> IF promise[c] = t THEN end ELSE outcome[c]]
  /\ promise' = [c \in Caller |-> IF promise[c] = t THEN NoTask ELSE promise[c]]
  /\ CountDown(t)
  /\ Unregister(t)
  /\ activeTasks' = activeTasks \ {t}
  /\ onRadio' = onRadio \ {t}
  /\ SchedulePump
  /\ UNCHANGED <<options, queue, ioSession, callSession>>

(* connect and disconnect of the connection start a new session; nothing   *)
(* is removed from the queue.                                              *)
NewSession ==
  /\ ioSession < MaxSession
  /\ ioSession' = ioSession + 1
  /\ UNCHANGED <<options, queueVars, promise, callSession, onRadio, outcome>>

Next ==
  \/ \E c \in Caller : Run(c) \/ RunSkipped(c) \/ Settle(c)
  \/ Pump
  \/ NewSession

Spec == Init /\ [][Next]_vars

(* Microtasks always run, and every command of the radio libraries ends    *)
(* (the connections race them against timers).                             *)
Fairness == WF_vars(Pump) /\ \A t \in Caller : WF_vars(Settle(t))
FairSpec == Spec /\ Fairness

-----------------------------------------------------------------------------
TypeOK ==
  /\ options \in Options
  /\ queue \in Seq(Caller)
  /\ activeTasks \subseteq Caller
  /\ activeCount \in Nat
  /\ criticalCount \in Nat
  /\ pumpScheduled \in BOOLEAN
  /\ dedupedTasks \subseteq Caller
  /\ promise \in [Caller -> Caller \cup {NoTask}]
  /\ ioSession \in Nat
  /\ callSession \in [Caller -> Nat]
  /\ onRadio \subseteq Caller
  /\ outcome \in [Caller -> Outcome]

(* The two counters agree with the tasks they count and never exceed the   *)
(* configured concurrency: startTask and finishTask balance on every path. *)
CountersAgree ==
  /\ activeCount = Cardinality(activeTasks)
  /\ criticalCount = Cardinality(activeTasks \cap Critical)
  /\ activeCount <= MaxConcurrent

(* No lost wakeup: whenever a task waits and there is room for it, a pump  *)
(* microtask is on its way (schedulePump's flag is never left behind).     *)
NoLostWakeup == queue # <<>> /\ activeCount < MaxConcurrent => pumpScheduled

(* A critical command never waits behind a normal one.                     *)
CriticalFirst ==
  \A i, j \in 1..Len(queue) : i < j /\ queue[j] \in Critical => queue[i] \in Critical

(* The promise a caller awaits belongs to a task that is still queued or   *)
(* active: no call is left awaiting a task that already ended.             *)
NoOrphan == \A c \in Caller : promise[c] # NoTask => promise[c] \in Outstanding

(* Two outstanding commands never have the same session and id.            *)
OneTaskPerKey ==
  \A t, u \in Outstanding :
    Id[t] # NoId /\ Id[t] = Id[u] /\ callSession[t] = callSession[u] => t = u

(* The books of the queue: exact counters, no call left awaiting a task    *)
(* that already ended, and at most one outstanding task of a session and   *)
(* id, whatever endings, sessions and shared promises come between.        *)
Bookkeeping == CountersAgree /\ NoOrphan /\ OneTaskPerKey

(* A call ends `ok' only in the session it was made in, and ends `stale'   *)
(* only when its own session is over, also when it shared another call's   *)
(* task (runSerializedTask's ensureSession, run's dedupe key).             *)
AnswersInSession(c) ==
  promise[c] # NoTask /\ promise'[c] = NoTask =>
    /\ outcome'[c] = "ok" => callSession[c] = ioSession
    /\ outcome'[c] = "stale" => callSession[c] # ioSession
SessionSound == [][\A c \in Caller : AnswersInSession(c)]_vars

(* Tasks of one class are started in the order they were submitted: nobody *)
(* gets ahead of a task that already waits, and no task starts while one   *)
(* of its class is ahead of it.                                            *)
Before(q, t, u) == \E i, j \in 1..Len(q) : i < j /\ q[i] = t /\ q[j] = u
InOrder ==
  \A t \in Queued, u \in Caller : (t \in Critical <=> u \in Critical) =>
    /\ Before(queue', u, t) => Before(queue, u, t)
    /\ Before(queue, t, u) /\ u \in activeTasks' => t \in activeTasks'
FifoPerClass == [][InOrder]_vars

(* On the serial queue, where one command can hold up all others, every    *)
(* critical call ends, however many normal commands keep arriving; every   *)
(* call ends once critical ones stop arriving, so that only they can       *)
(* starve a normal one.                                                    *)
Serial == options.maxConcurrent = 1
Served ==
  Serial =>
    /\ \A c \in Critical : []<>(promise[c] = NoTask)
    /\ <>[](\A c \in Critical : promise[c] = NoTask) =>
         \A c \in Caller : []<>(promise[c] = NoTask)

(* The queue implements RadioCalls: its order, counters, microtask and     *)
(* dedupe map are invisible to the callers.                                *)
Calls == INSTANCE RadioCalls WITH pending <- Queued, running <- activeTasks,
                                  await <- promise, limit <- MaxConcurrent
ImplementsCalls == Calls!Spec
=============================================================================
