--------------------------- MODULE EngineLifecycle ---------------------------
(***************************************************************************)
(* Starting and stopping the station: the engine state machine, the        *)
(* ResourceManager that starts the resources of the current mode in        *)
(* dependency order and stops them in reverse, the switch between engine   *)
(* modes, and RadioBridge, which stops the engine when the radio is lost   *)
(* and starts it again when the radio is back.                             *)
(*                                                                         *)
(* A resource is a pair of asynchronous functions.  The manager awaits     *)
(* one at a time and gives up on it after a timeout, but the function goes *)
(* on: what the manager believes ("state") and what is really up ("up")    *)
(* are separate variables.  The station is not transmitting meanwhile;     *)
(* TransmissionPipeline models what a stop does to a transmission.         *)
(***************************************************************************)
EXTENDS Integers, FiniteSets, Sequences, SequencesExt

CONSTANTS
  Modes,      \* the engine modes
  Plan,       \* for each mode its registrations, in registration order
  Radio,      \* the resource that is the connection to the radio
  Cw,         \* the mode that leaves the radio connected on the way in
  Keyed,      \* the modes with a keyer that is stopped when they are left
  Scenarios,  \* the surroundings to choose from
  MaxFaults   \* bound for each of them: resource functions that throw or hang

(***************************************************************************)
(* "fail"     starting a resource throws                                   *)
(* "jam"      stopping a resource throws                                   *)
(* "hang"     a resource takes longer than its timeout                     *)
(* "loss"     the radio is lost, and comes back or does not                *)
(* "early"    that, also while the engine is starting                      *)
(* "hasty"    the radio comes back before the engine has stopped           *)
(* "stop"     the operator stops the engine                                *)
(* "switch"   the operator switches the mode                               *)
(* "overlap"  the engine is started during a switch                        *)
(***************************************************************************)
Surroundings ==
  {"fail", "jam", "hang", "loss", "early", "hasty", "stop", "switch", "overlap"}

(* The registrations of a mode, by the name of the resource.               *)
Names(m) == {Plan[m][i].name : i \in DOMAIN Plan[m]}
Resources == UNION {Names(m) : m \in Modes}
Entry(m, r) == CHOOSE e \in ToSet(Plan[m]) : e.name = r
Deps(m, r) == ToSet(Entry(m, r).deps)
Optional(m, r) == Entry(m, r).optional

(* The stable sort by priority; a priority of 0 counts as 100.             *)
Rank(e) == IF e.priority = 0 THEN 100 ELSE e.priority
Before(m, i, j) ==
  \/ Rank(Plan[m][i]) < Rank(Plan[m][j])
  \/ Rank(Plan[m][i]) = Rank(Plan[m][j]) /\ i < j
ByPriority(m) ==
  [k \in DOMAIN Plan[m] |->
     LET at == CHOOSE i \in DOMAIN Plan[m] :
                 Cardinality({j \in DOMAIN Plan[m] : Before(m, j, i)}) = k - 1
     IN  Plan[m][at].name]

(* visit of topologicalSort: what it makes of the names sorted so far, for *)
(* each resource; for some, one after the other; and for a mode, where     *)
(* dependencies go first, at most as deep as there are registrations.      *)
VisitAll(visit, names, sorted) ==
  LET after[n \in 0..Len(names)] ==
        IF n = 0 THEN sorted ELSE visit[names[n]][after[n - 1]]
  IN  after[Len(names)]
Visit(m) ==
  LET v[depth \in 0..Len(Plan[m])] ==
        [r \in Names(m) |-> [sorted \in Seq(Names(m)) |->
           IF depth = 0 \/ r \in ToSet(sorted) THEN sorted
           ELSE Append(VisitAll(v[depth - 1], Entry(m, r).deps, sorted), r)]]
  IN  v[Len(Plan[m])]
StartOrder == [m \in Modes |-> VisitAll(Visit(m), ByPriority(m), <<>>)]

(* Every resource is started once, and behind those it depends on.         *)
OrderSound ==
  \A m \in Modes :
    /\ StartOrder[m] \in Seq(Names(m)) /\ ToSet(StartOrder[m]) = Names(m)
    /\ IsInjective(StartOrder[m])
    /\ \A i \in 1..Len(StartOrder[m]) : \A d \in Deps(m, StartOrder[m][i]) :
         \E j \in 1..(i - 1) : StartOrder[m][j] = d

ASSUME PlanAssumption ==
  /\ Plan \in [Modes -> Seq([name : STRING, priority : Nat, deps : Seq(STRING), optional : BOOLEAN])]
  /\ \A m \in Modes : Radio \in Names(m)
  /\ Cw \in Modes
  /\ Keyed \subseteq Modes
  /\ Scenarios \subseteq SUBSET Surroundings
  /\ MaxFaults \in [Scenarios -> Nat]

(* A start throws unless all dependencies are registered and none is       *)
(* circular (detectCircularDependencies): every resource has a level above *)
(* those of its dependencies.                                              *)
ASSUME DependencyAssumption ==
  \A m \in Modes :
    /\ \A r \in Names(m) : Deps(m, r) \subseteq Names(m)
    /\ \E level \in [Names(m) -> 1..Len(Plan[m])] :
         \A r \in Names(m) : \A d \in Deps(m, r) : level[d] < level[r]

VARIABLES
  env,        \* what the surroundings do; it never changes
  engine,     \* the state of the engine state machine
  plan,       \* the mode whose resources are registered
  state,      \* the state of each resource in the manager's books
  started,    \* ResourceManager.startedResources
  up,         \* the resources that are really up, Radio apart
  link,       \* the connection to the radio
  late,       \* resource functions the manager gave up on
  faults,     \* how many have thrown or hung
  jobs,       \* the startAll, rollback or stopAll of the engine and of a switch
  stale,      \* the plan was rebuilt since the engine's job awaits a resource
  switch,     \* the mode switch
  restoring,  \* a "connected" event is being handled
  wasRunning  \* RadioBridge._wasRunningBeforeDisconnect

vars == <<env, engine, plan, state, started, up, link, late, faults, jobs,
          stale, switch, restoring, wasRunning>>

EngineStates == {"idle", "starting", "running", "stopping"}
ResourceStates == {"idle", "starting", "running", "stopping", "stopped", "error"}
Procs == {"engine", "switch"}  \* the state machine and the mode switch
Jobs == [op : {"none", "sidecar", "start", "rollback", "stop"},
         todo : Seq(Resources), waits : {"no", "yes", "hung"}]
NoJob == [op |-> "none", todo |-> <<>>, waits |-> "no"]
Job(op, todo) == [op |-> op, todo |-> todo, waits |-> "no"]

(* switchEngineMode: where it is, its target, the engine state it has read *)
(* and shouldResumeAfterSwitch.                                            *)
NoSwitch == [at |-> "none", to |-> Cw, seen |-> "idle", resume |-> FALSE]

-----------------------------------------------------------------------------
Init ==
  /\ env \in Scenarios
  /\ engine = "idle"
  /\ plan \in Modes
  /\ state = [r \in Resources |-> "idle"]
  /\ started = <<>>
  /\ up = {}
  /\ link = "off"
  /\ late = {}
  /\ faults = 0
  /\ jobs = [p \in Procs |-> NoJob]
  /\ stale = FALSE
  /\ switch = NoSwitch
  /\ restoring = FALSE
  /\ wasRunning = FALSE

(* EngineLifecycle.isRunning.                                              *)
IsRunning == engine \in {"running", "stopping"}

(* Mutant: resources are stopped in the order they were started.           *)
StopOrder_AsStarted == started
StopOrder == Reverse(started)

(* START: doStart calls startAll.  STOP and RADIO_DISCONNECTED: doStop     *)
(* stops the audio first.                                                  *)
BeginStart ==
  /\ engine' = "starting"
  /\ jobs' = [jobs EXCEPT !.engine = Job("start", StartOrder[plan])]
  /\ started' = <<>>
BeginStop ==
  /\ engine' = "stopping"
  /\ jobs' = [jobs EXCEPT !.engine = Job("sidecar", <<>>)]

(* Mutant: a lost radio does not stop the engine.                          *)
RadioDisconnected_Ignored == UNCHANGED <<engine, jobs>>
(* sendRadioDisconnected reaches a running engine only.                    *)
RadioDisconnected ==
  IF engine = "running" THEN BeginStop ELSE UNCHANGED <<engine, jobs>>

-----------------------------------------------------------------------------
(* START and STOP are ignored in the other states.  During a switch START   *)
(* can only come while the switch waits for something else.                *)
MayStart ==
  \/ switch.at = "none"
  \/ /\ "overlap" \in env
     /\ \/ switch.at \in {"quiesce", "save", "resume"}
        \/ switch.at = "rebuild" /\ jobs.switch.todo # <<>>

UserStart ==
  /\ engine = "idle"
  /\ MayStart
  /\ BeginStart
  /\ UNCHANGED <<plan, state, up, link, late, faults, stale, switch, restoring, wasRunning>>

UserStop ==
  /\ "stop" \in env
  /\ engine = "running"
  /\ BeginStop
  /\ UNCHANGED <<plan, state, started, up, link, late, faults, stale, switch, restoring, wasRunning>>

SidecarStopped ==
  /\ jobs.engine.op = "sidecar"
  /\ jobs' = [jobs EXCEPT !.engine = Job("stop", StopOrder)]
  /\ UNCHANGED <<engine, plan, state, started, up, link, late, faults, stale, switch, restoring, wasRunning>>

-----------------------------------------------------------------------------
(* ResourceManager.  The next resource of a job is the head of "todo".     *)
Ready(p) == jobs[p].todo # <<>> /\ jobs[p].waits = "no"
Current(p) == Head(jobs[p].todo)
Advance(p) == jobs' = [jobs EXCEPT ![p].todo = Tail(@), ![p].waits = "no"]

(* A resource function is called and awaited, or hangs; those of the radio *)
(* return at once when there is nothing to do.                             *)
MayHang(r, p) ==
  /\ "hang" \in env
  /\ faults < MaxFaults[env]
  /\ r = Radio => (jobs[p].op = "start" <=> link # "up")
Call(r, p) ==
  \E how \in {"yes"} \cup (IF MayHang(r, p) THEN {"hung"} ELSE {}) :
    jobs' = [jobs EXCEPT ![p].waits = how]

Startable(r) == r \in Names(plan) /\ \A d \in Deps(plan, r) : state[d] = "running"

(* Mutant: what was started stays up.                                      *)
(* startAll stops what it has started, in reverse.                         *)
Rollback == Job("rollback", StopOrder)

(* The radio's start tears down a connection that is not established.      *)
StartResource ==
  /\ jobs.engine.op = "start" /\ Ready("engine")
  /\ LET r == Current("engine")
     IN  \/ /\ ~Startable(r)
            /\ jobs' = [jobs EXCEPT !.engine = Rollback]
            /\ UNCHANGED <<state, link, stale>>
         \/ /\ Startable(r) /\ state[r] = "running"
            /\ Advance("engine")
            /\ UNCHANGED <<state, link, stale>>
         \/ /\ Startable(r) /\ state[r] # "running"
            /\ Call(r, "engine")
            /\ state' = [state EXCEPT ![r] = "starting"]
            /\ link' = IF r = Radio /\ link # "up" THEN "off" ELSE link
            /\ stale' = FALSE
  /\ UNCHANGED <<engine, plan, started, up, late, faults, switch, restoring, wasRunning>>

(* What the books say about a resource whose registration may be gone.     *)
Book(p, r, s) ==
  state' = IF p = "engine" /\ stale THEN state ELSE [state EXCEPT ![r] = s]

ResourceStarted ==
  /\ jobs.engine.op = "start" /\ jobs.engine.waits = "yes"
  /\ LET r == Current("engine")
     IN  /\ Book("engine", r, "running")
         /\ started' = Append(started, r)
         /\ up' = up \cup ({r} \ {Radio})
         /\ link' = IF r = Radio THEN "up" ELSE link
         /\ restoring' = (restoring \/ (r = Radio /\ link # "up"))
  /\ Advance("engine")
  /\ UNCHANGED <<engine, plan, late, faults, stale, switch, wasRunning>>

(* Mutant: no timeout.                                                     *)
TimesOut_Never(p) == FALSE
TimesOut(p) == jobs[p].waits = "hung"

(* start() throws, or takes too long and goes on alone.  A radio that      *)
(* cannot be connected sends "disconnected"; a connected one is left as it *)
(* is.  An optional resource may fail.                                     *)
ResourceFailed ==
  /\ jobs.engine.op = "start"
  /\ faults' = faults + 1
  /\ LET r == Current("engine")
     IN  /\ \/ /\ "fail" \in env /\ jobs.engine.waits = "yes"
               /\ faults < MaxFaults[env]
               /\ r # Radio \/ link # "up"
               /\ wasRunning' = (wasRunning /\ r # Radio)
               /\ UNCHANGED late
            \/ /\ TimesOut("engine")
               /\ late' = late \cup {<<r, "start">>}
               /\ UNCHANGED wasRunning
         /\ Book("engine", r, "error")
         /\ IF r \in Names(plan) /\ Optional(plan, r)
              THEN Advance("engine")
              ELSE jobs' = [jobs EXCEPT !.engine = Rollback]
  /\ UNCHANGED <<engine, plan, started, up, link, stale, switch, restoring>>

(* Stopping: what is not registered or was stopped before is skipped.      *)
StopSkipped(r) == r \notin Names(plan) \/ state[r] \in {"idle", "stopped"}

(* On the way to CW the radio stays connected, and its stop() returns at   *)
(* once.                                                                   *)
Preserve(r) ==
  r = Radio /\ switch.at = "halt" /\ switch.to = Cw /\ switch.seen = "running"

StopResource(p) ==
  /\ jobs[p].op \in {"rollback", "stop"} /\ Ready(p)
  /\ LET r == Current(p)
     IN  \/ /\ StopSkipped(r)
            /\ Advance(p)
            /\ UNCHANGED <<state, stale>>
         \/ /\ ~StopSkipped(r)
            /\ IF Preserve(r) THEN Advance(p) ELSE Call(r, p)
            /\ state' = [state EXCEPT ![r] = IF Preserve(r) THEN "stopped" ELSE "stopping"]
            /\ stale' = (stale /\ p # "engine")
  /\ UNCHANGED <<engine, plan, started, up, link, late, faults, switch, restoring, wasRunning>>

(* The effect of a resource's stop(): a connection is only closed when it  *)
(* is established, and the "disconnected" event forgets the running state. *)
Closes(r) == r = Radio /\ link = "up"
Down(r) ==
  /\ up' = up \ {r}
  /\ link' = IF Closes(r) THEN "off" ELSE link
  /\ wasRunning' = (wasRunning /\ ~Closes(r))

ResourceStopped(p) ==
  /\ jobs[p].op \in {"rollback", "stop"} /\ jobs[p].waits = "yes"
  /\ Book(p, Current(p), "stopped")
  /\ Down(Current(p))
  /\ Advance(p)
  /\ UNCHANGED <<engine, plan, started, late, faults, stale, switch, restoring>>

StopFailed(p) ==
  /\ jobs[p].op \in {"rollback", "stop"}
  /\ faults' = faults + 1
  /\ \/ /\ "jam" \in env /\ jobs[p].waits = "yes"
        /\ faults < MaxFaults[env]
        /\ Current(p) # Radio
        /\ UNCHANGED late
     \/ TimesOut(p) /\ late' = late \cup {<<Current(p), "stop">>}
  /\ Book(p, Current(p), "error")
  /\ Advance(p)
  /\ UNCHANGED <<engine, plan, started, up, link, stale, switch, restoring, wasRunning>>

(* A function the manager gave up on completes after all.                  *)
LateStart(r) ==
  /\ <<r, "start">> \in late
  /\ late' = late \ {<<r, "start">>}
  /\ up' = up \cup ({r} \ {Radio})
  /\ link' = IF r = Radio THEN "up" ELSE link
  /\ restoring' = (restoring \/ (r = Radio /\ link # "up"))
  /\ UNCHANGED <<engine, plan, state, started, faults, jobs, stale, switch, wasRunning>>

LateStop(r) ==
  /\ <<r, "stop">> \in late
  /\ late' = late \ {<<r, "stop">>}
  /\ Down(r)
  /\ IF Closes(r) THEN RadioDisconnected ELSE UNCHANGED <<engine, jobs>>
  /\ UNCHANGED <<plan, state, started, faults, stale, switch, restoring>>

Done(p) == jobs[p].op \in {"start", "rollback", "stop"} /\ jobs[p].todo = <<>>

(* Mutant: a failed start leads to a state of its own.                     *)
Outcome_Error ==
  CASE jobs.engine.op = "start" -> "running"
    [] jobs.engine.op = "rollback" -> "error"
    [] OTHER -> "idle"
Outcome == IF jobs.engine.op = "start" THEN "running" ELSE "idle"

(* The state machine leaves STARTING or STOPPING.                          *)
EngineSettles ==
  /\ Done("engine")
  /\ engine' = Outcome
  /\ started' = IF jobs.engine.op = "start" THEN started ELSE <<>>
  /\ jobs' = [jobs EXCEPT !.engine = NoJob]
  /\ UNCHANGED <<plan, state, up, link, late, faults, stale, switch, restoring, wasRunning>>

-----------------------------------------------------------------------------
(* The radio and RadioBridge.                                              *)
May == "loss" \in env /\ (engine # "starting" \/ "early" \in env)

(* handleRadioReconnecting, at the first attempt.                          *)
LinkLost ==
  /\ May
  /\ link = "up" /\ link' = "retry"
  /\ wasRunning' = (wasRunning \/ IsRunning)
  /\ RadioDisconnected
  /\ UNCHANGED <<plan, state, started, up, late, faults, stale, switch, restoring>>

(* The radio is given up, or disconnected by the operator.                 *)
LinkOff ==
  /\ May
  /\ link # "off" /\ link' = "off"
  /\ wasRunning' = FALSE
  /\ RadioDisconnected
  /\ UNCHANGED <<plan, state, started, up, late, faults, stale, switch, restoring>>

LinkBack ==
  /\ link = "retry" /\ link' = "up"
  /\ engine # "stopping" \/ "hasty" \in env
  /\ restoring' = TRUE
  /\ UNCHANGED <<engine, plan, state, started, up, late, faults, jobs, stale, switch, wasRunning>>

(* Mutant: only the flag is consumed.                                      *)
Restart_Never == UNCHANGED <<engine, jobs, started>>
(* restoreRunningStateIfNeeded.                                            *)
Restart ==
  IF wasRunning /\ engine = "idle" THEN BeginStart ELSE UNCHANGED <<engine, jobs, started>>

Restore ==
  /\ restoring
  /\ MayStart
  /\ restoring' = FALSE
  /\ wasRunning' = FALSE
  /\ Restart
  /\ UNCHANGED <<plan, state, up, link, late, faults, stale, switch>>

-----------------------------------------------------------------------------
(* switchEngineMode.  It reads the engine state, waits for the keyer of     *)
(* the mode it leaves, and acts on what it has read.                       *)

(* Engine.stop() sends STOP, which only a running engine obeys.            *)
StopEngine == RadioDisconnected

(* rebuildResourcePlan begins with a stopAll of its own.                   *)
BeginRebuild ==
  /\ jobs' = [jobs EXCEPT !.switch = Job("stop", StopOrder)]
  /\ UNCHANGED engine

(* Mutant: a switch does not wait for a start.                             *)
Acts_AtOnce(seen) == IF seen \in {"running", "stopping"} THEN "halt" ELSE "rebuild"
(* What the switch does about the engine state it has seen.                *)
Acts(seen) ==
  CASE seen = "starting" -> "settle"
    [] seen \in {"running", "stopping"} -> "halt"
    [] seen = "idle" -> "rebuild"

Act(s) ==
  /\ switch' = [s EXCEPT !.at = Acts(s.seen)]
  /\ wasRunning' = (wasRunning /\ s.seen # "running")
  /\ CASE Acts(s.seen) = "halt" -> StopEngine
       [] Acts(s.seen) = "rebuild" -> BeginRebuild
       [] Acts(s.seen) = "settle" -> UNCHANGED <<engine, jobs>>

SwitchBegin(m) ==
  /\ "switch" \in env
  /\ switch.at = "none"
  /\ ~restoring \/ "overlap" \in env
  /\ m # plan
  /\ LET s == [at |-> "quiesce", to |-> m, seen |-> engine,
               resume |-> engine \in {"running", "starting"}]
     IN  IF plan \in Keyed
           THEN switch' = s /\ UNCHANGED <<engine, jobs, wasRunning>>
           ELSE Act(s)
  /\ UNCHANGED <<plan, state, started, up, link, late, faults, stale, restoring>>

SwitchActs ==
  /\ switch.at = "quiesce"
  /\ Act(switch)
  /\ UNCHANGED <<plan, state, started, up, link, late, faults, stale, restoring>>

(* waitForStartupToSettle returns what it waited for.                      *)
SwitchSettled ==
  /\ switch.at = "settle"
  /\ engine \in {"running", "idle"}
  /\ switch' = [switch EXCEPT !.seen = engine, !.resume = (engine = "running"),
                              !.at = IF engine = "running" THEN "halt" ELSE "rebuild"]
  /\ wasRunning' = (wasRunning /\ engine # "running")
  /\ IF engine = "running" THEN StopEngine ELSE BeginRebuild
  /\ UNCHANGED <<plan, state, started, up, link, late, faults, stale, restoring>>

SwitchHalted ==
  /\ switch.at = "halt"
  /\ engine = "idle"
  /\ switch' = [switch EXCEPT !.at = "rebuild", !.resume = @ /\ switch.seen # "stopping"]
  /\ BeginRebuild
  /\ UNCHANGED <<plan, state, started, up, link, late, faults, stale, restoring, wasRunning>>

(* clear() and the registrations of the new mode; the configuration is     *)
(* saved afterwards.                                                       *)
Rebuilt ==
  /\ switch.at = "rebuild" /\ Done("switch")
  /\ plan' = switch.to
  /\ state' = [r \in Resources |-> "idle"]
  /\ started' = <<>>
  /\ stale' = (jobs.engine.waits # "no")
  /\ jobs' = [jobs EXCEPT !.switch = NoJob]
  /\ switch' = [switch EXCEPT !.at = "save"]
  /\ UNCHANGED <<engine, up, link, late, faults, restoring, wasRunning>>

(* startAndWaitForRunning, when the engine is to run again.                *)
SwitchResumes ==
  /\ switch.at = "save"
  /\ switch' = IF switch.resume THEN [switch EXCEPT !.at = "resume"] ELSE NoSwitch
  /\ IF switch.resume /\ engine = "idle" THEN BeginStart ELSE UNCHANGED <<engine, jobs, started>>
  /\ UNCHANGED <<plan, state, up, link, late, faults, stale, restoring, wasRunning>>

SwitchEnds ==
  /\ switch.at = "resume"
  /\ engine = "running"
  /\ switch' = NoSwitch
  /\ UNCHANGED <<engine, plan, state, started, up, link, late, faults, jobs, stale, restoring, wasRunning>>

(* Mutant: the waits of a switch never give up.                            *)
(* The engine states the switch waits for; the wait times out elsewhere.   *)
Target == CASE switch.at = "settle" -> {"running", "idle"}
            [] switch.at = "halt" -> {"idle"}
            [] switch.at = "resume" -> {"running"}
            [] OTHER -> EngineStates
SwitchAborts ==
  /\ engine \notin Target
  /\ engine \in {"running", "idle"} \/ "hang" \in env
  /\ switch' = NoSwitch
  /\ UNCHANGED <<engine, plan, state, started, up, link, late, faults, jobs, stale, restoring, wasRunning>>

-----------------------------------------------------------------------------
Manager ==
  \/ SidecarStopped \/ EngineSettles
  \/ StartResource \/ ResourceStarted \/ ResourceFailed
  \/ \E p \in Procs : StopResource(p) \/ ResourceStopped(p) \/ StopFailed(p)

Switching ==
  \/ SwitchActs \/ SwitchSettled \/ SwitchHalted \/ Rebuilt
  \/ SwitchResumes \/ SwitchEnds \/ SwitchAborts

Step ==
  \/ UserStart \/ UserStop
  \/ Manager
  \/ \E r \in Resources : LateStart(r) \/ LateStop(r)
  \/ LinkLost \/ LinkOff \/ LinkBack \/ Restore
  \/ \E m \in Modes : SwitchBegin(m)
  \/ Switching

Next == Step /\ UNCHANGED env

Spec == Init /\ [][Next]_vars

(* Every resource function ends or times out, event handlers go on, and    *)
(* the waits of a switch time out.  Nothing obliges the operator or the    *)
(* radio to do anything.                                                   *)
Fairness ==
  /\ WF_vars(Manager /\ UNCHANGED env)
  /\ WF_vars(Switching /\ UNCHANGED env)
  /\ WF_vars(Restore /\ UNCHANGED env)
FairSpec == Spec /\ Fairness

-----------------------------------------------------------------------------
TypeOK ==
  /\ env \in SUBSET Surroundings
  /\ engine \in EngineStates
  /\ plan \in Modes
  /\ state \in [Resources -> ResourceStates]
  /\ started \in Seq(Resources)
  /\ up \in SUBSET Resources
  /\ link \in {"off", "up", "retry"}
  /\ late \in SUBSET (Resources \X {"start", "stop"})
  /\ faults \in Nat
  /\ jobs \in [Procs -> Jobs]
  /\ stale \in BOOLEAN
  /\ switch \in [at : {"none", "quiesce", "settle", "halt", "rebuild", "save", "resume"},
                 to : Modes, seen : EngineStates, resume : BOOLEAN]
  /\ restoring \in BOOLEAN
  /\ wasRunning \in BOOLEAN

Required == {r \in Names(plan) : ~Optional(plan, r)}

(* Unless it is started during a switch, a running engine has every        *)
(* required resource of its mode running, through failed starts, failed    *)
(* stops, timeouts and late completions.                                   *)
RunningComplete ==
  "overlap" \notin env =>
    (engine = "running" => \A r \in Required : state[r] = "running")

(* Unless the radio is lost before the engine runs, an engine whose mode   *)
(* needs the radio does not run without it.                                *)
RunningHasRadio ==
  env \cap {"overlap", "early", "hang"} = {} =>
    (engine = "running" /\ Radio \in Required => link = "up")

(* Unless a stop fails or a function outlives its timeout, nothing is left *)
(* up by an engine at rest, after a stop, a rollback or a switch.          *)
(* On the way a resource is never up without those it depends on, but for  *)
(* the radio, which comes and goes.                                        *)
UpInOrder ==
  env \cap {"overlap", "jam", "hang"} = {} =>
    /\ engine = "idle" => up = {}
    /\ \A r \in up : Deps(plan, r) \ {Radio} \subseteq up

(* Starts, stops and mode switches end, whatever fails.                    *)
Settles == []<>(engine \in {"idle", "running"}) /\ []<>(switch.at = "none")

(* The engine that ran when the radio was lost is started when the radio   *)
(* is back, unless that is before it has stopped.                          *)
Resumes ==
  (env \cap {"hasty", "hang", "stop"} = {} /\ wasRunning /\ link = "up")
    ~> (engine \in {"starting", "running"} \/ link # "up")

(* The resources are never re-registered while the engine is starting.     *)
RebuildAtRest == [][plan' # plan => engine # "starting"]_vars
=============================================================================
