----------------------------- MODULE RadioCalls -----------------------------
(***************************************************************************)
(* What the I/O queue of a radio connection promises its callers, without  *)
(* queues, counters or microtasks: a call creates one task or shares one   *)
(* that is still outstanding; at most limit tasks run at a time;           *)
(* no normal task is started while a critical one is left waiting; every   *)
(* caller of a task is answered by the one ending of that task.            *)
(***************************************************************************)
EXTENDS Integers, FiniteSets

CONSTANTS Caller, Critical, NoTask

VARIABLES
  pending,   \* the tasks not yet started
  running,   \* the tasks that run
  await,     \* await[c]: the task caller c waits for
  limit      \* how many tasks may run at a time; it never changes

vars == <<pending, running, await, limit>>

Init ==
  /\ limit \in Nat \ {0}
  /\ pending = {}
  /\ running = {}
  /\ await = [c \in Caller |-> NoTask]

Create(c) ==
  /\ await[c] = NoTask
  /\ c \notin pending \cup running
  /\ pending' = pending \cup {c}
  /\ await' = [await EXCEPT ![c] = c]
  /\ UNCHANGED <<running, limit>>

Share(c, t) ==
  /\ await[c] = NoTask
  /\ t \in pending \cup running
  /\ await' = [await EXCEPT ![c] = t]
  /\ UNCHANGED <<pending, running, limit>>

Start(T) ==
  /\ T \subseteq pending
  /\ Cardinality(running \cup T) <= limit
  /\ T \subseteq Critical \/ pending \cap Critical \subseteq T
  /\ pending' = pending \ T
  /\ running' = running \cup T
  /\ UNCHANGED <<await, limit>>

End(t) ==
  /\ t \in running
  /\ running' = running \ {t}
  /\ await' = [c \in Caller |-> IF await[c] = t THEN NoTask ELSE await[c]]
  /\ UNCHANGED <<pending, limit>>

Next ==
  \/ \E c \in Caller : Create(c) \/ End(c)
  \/ \E c, t \in Caller : Share(c, t)
  \/ \E T \in SUBSET Caller : Start(T)

Spec == Init /\ [][Next]_vars
=============================================================================
