----------------------------- MODULE StandardQso -----------------------------
(* The standard-qso strategy: the six transmissions of an FT8 contact as a  *)
(* state machine of each operator, and several stations that run it across  *)
(* a channel that loses messages and on which other stations say what they  *)
(* like. A station decides once per slot on what it has decoded, and again  *)
(* when decodes come late. How a decision becomes audio is in DecisionFlow. *)
EXTENDS Naturals, FiniteSets

CONSTANTS
    Calls,        \* the stations that run this program, one operator each
    Others,       \* the other stations on the band
    Order,        \* the turns of Calls within a slot, which do not interact
    None,
    MaxTimeouts,  \* maxQSOTimeoutCycles
    MaxAttempts,  \* maxCallAttempts
    Settings,     \* the settings a station may have, see env
    Scenarios     \* the surroundings a behaviour may have, see env

Everyone == Calls \cup Others
Kinds == {"CQ", "CALL", "REPORT", "ROGER", "RRR", "73"}

(* A report is told by whom and on whose signal; that is enough to tell     *)
(* whether a log has it right.                                              *)
Reports == [by : Everyone, of : Everyone \cup {None}]
Contexts == [sent : Everyone \cup {None}, rcvd : Reports \cup {None}]

ASSUME QsoAssumption ==
    /\ MaxTimeouts \in Nat \ {0} /\ MaxAttempts \in Nat \ {0}
    /\ None \notin Everyone \cup Contexts /\ Calls \cap Others = {}
    /\ IsFiniteSet(Calls) /\ Calls # {}
    /\ Order \in [1..Cardinality(Calls) -> Calls]
    /\ \A i, j \in DOMAIN Order : i # j => Order[i] # Order[j]
    /\ Settings \subseteq [reply : BOOLEAN, again : BOOLEAN, afterFail : BOOLEAN,
                           afterSuccess : BOOLEAN, skip : BOOLEAN]
    /\ Scenarios \subseteq [settings : [Calls -> Settings], cycle : [Everyone -> {0, 1}],
                            on : SUBSET Calls, clear : BOOLEAN, kinds : SUBSET Kinds,
                            events : Nat]

VARIABLES
    env,       \* what does not change: the settings and the cycle of each
               \* station, which are switched on, whether every message is
               \* decoded sooner or later, what the other stations may send,
               \* and how often users act
    parity,    \* the cycle of the current slot
    turn,      \* whose turn it is in this slot, and how far: [at, phase]
    air,       \* [Calls -> what the station sent in the previous slot, or None]
    heard,     \* what the station whose turn it is has decoded of that slot
    station,   \* [Calls -> the operator's switch, its gate for directed calls,
               \* its log and its StandardQSOPluginRuntime, see NewStation]
    events,    \* actions of users so far
    mixed      \* history: the stations whose user took hold of a contact

vars == <<env, parity, turn, air, heard, station, events, mixed>>

-----------------------------------------------------------------------------
(* A frame has kind, sender, addressee and what its report is of.           *)

Blank == [sent |-> None, rcvd |-> None]

NewStation(on) ==
    [on |-> on,            \* isTransmitting
     gate |-> None,        \* silentDirectedCallGates: [not, left], in slots
     log |-> [t \in Everyone |-> None],
     state |-> "TX6", target |-> None,
     sent |-> None,        \* reportSent: on whose signal
     rcvd |-> None,        \* reportReceived
     timeouts |-> 0, attempts |-> 0,
     queued |-> FALSE,     \* tx5TransmissionQueued
     retry |-> None,       \* post73RetryContext: [target, sent, rcvd, left]
     cache |-> [t \in Everyone |-> None],  \* qsoContextHistory
     assured |-> {},       \* history: with whom a contact was logged in TX5
     aired |-> FALSE]      \* history: the 73 has been on the air since TX5 began

Init ==
    /\ env \in Scenarios
    /\ parity \in {0, 1}
    /\ turn = [at |-> 1, phase |-> "start"]
    /\ air = [s \in Calls |-> None]
    /\ heard = {}
    /\ station = [s \in Calls |-> NewStation(s \in env.on)]
    /\ events = 0 /\ mixed = {}

-----------------------------------------------------------------------------
(* What a station sends and hears *)

Frame(kind, from, to, of) == [kind |-> kind, from |-> from, to |-> to, of |-> of]

(* The slot text of the current state. *)
Text(s, q) ==
    IF q.state = "TX6" THEN Frame("CQ", s, None, None)
    ELSE LET kind == CASE q.state = "TX1" -> "CALL"  [] q.state = "TX2" -> "REPORT"
                       [] q.state = "TX3" -> "ROGER" [] q.state = "TX4" -> "RRR"
                       [] q.state = "TX5" -> "73"
         IN Frame(kind, s, q.target, IF kind \in {"REPORT", "ROGER"} THEN q.sent ELSE None)

(* It transmits in this slot; without a target the slots are empty.         *)
Sends(s, q) == q.on /\ env.cycle[s] = parity /\ (q.state = "TX6" \/ q.target # None)

(* The frames of the previous slot that s could have decoded: of stations   *)
(* of the other cycle, if it did not transmit itself. At most one of the    *)
(* other stations is on the air.                                            *)
OnAir(s) ==
    IF air[s] # None THEN {}
    ELSE {air[t] : t \in {t \in Calls : env.cycle[t] # env.cycle[s] /\ air[t] # None}}

Stray(s) ==
    IF air[s] # None \/ env.cycle[s] # parity \/ \E m \in heard : m.from \in Others THEN {}
    ELSE {Frame(k, t, IF k = "CQ" THEN None ELSE s,
                IF k \in {"REPORT", "ROGER"} THEN s ELSE None) :
             k \in env.kinds, t \in {t \in Others : env.cycle[t] # env.cycle[s]}}

-----------------------------------------------------------------------------
(* The record after changes of the strategy *)

(* recordQSOLog, and the merge with the last record of that station, which  *)
(* is at most five minutes old here.                                        *)
Logged(q) ==
    LET old == IF q.log[q.target] = None THEN Blank ELSE q.log[q.target]
        Newer(x, y) == IF x # None THEN x ELSE y
    IN [q.log EXCEPT ![q.target] = [sent |-> Newer(q.sent, old.sent),
                                    rcvd |-> Newer(q.rcvd, old.rcvd)]]

(* changeState, with what entering the state does. *)
ChangeState(q, st) ==
    [q EXCEPT !.state = st, !.timeouts = 0, !.queued = FALSE,
              !.attempts = IF "TX1" \in {q.state, st} THEN 0 ELSE @,
              !.retry = IF st \in {"TX5", "TX6"} THEN @ ELSE None,
              !.log = IF st \in {"TX4", "TX5"} THEN Logged(q) ELSE @,
              !.assured = IF st = "TX5" THEN @ \cup {q.target} ELSE @,
              !.aired = FALSE]

(* clearQSOContext: the context goes into the cache of its station.         *)
(* (Mutants, here and below, are what a slip in the code would make of the  *)
(* definition that follows.)                                                *)
ClearContext_KeepReport(q) ==
    [q EXCEPT !.cache = IF q.target = None THEN @
                        ELSE [@ EXCEPT ![q.target] = [sent |-> q.sent, rcvd |-> q.rcvd]],
              !.target = None, !.sent = None]
ClearContext(q) ==
    [q EXCEPT !.cache = IF q.target = None THEN @
                        ELSE [@ EXCEPT ![q.target] = [sent |-> q.sent, rcvd |-> q.rcvd]],
              !.target = None, !.sent = None, !.rcvd = None]

(* A new target, with its cached context or else with what is known now.    *)
Retarget(q, t, now) ==
    LET known == IF q.cache[t] = None THEN now ELSE q.cache[t]
    IN [q EXCEPT !.target = t, !.sent = known.sent, !.rcvd = known.rcvd]

Report(m) == [by |-> m.from, of |-> m.of]

(* The end of a contact that failed, and of one that succeeded.             *)
Failed(s, q) ==
    [ChangeState(ClearContext(q), "TX6") EXCEPT !.on = @ /\ env.settings[s].afterFail]

Completed(s, q) ==
    LET clear == ChangeState(ClearContext(q), "TX6")
    IN IF env.settings[s].afterSuccess THEN clear
       ELSE [clear EXCEPT !.on = FALSE, !.gate = [not |-> q.target, left |-> 2]]

(* After the only 73; a repeated RRR is answered for two more slots.        *)
SignedOff(s, q) ==
    Completed(s, [q EXCEPT !.retry =
        IF env.settings[s].afterSuccess
        THEN [target |-> q.target, sent |-> q.sent, rcvd |-> q.rcvd, left |-> 2]
        ELSE None])

-----------------------------------------------------------------------------
(* handleReceivedAndDicideNext: the outcomes of a decision on frames H.     *)
(* Signal strengths and scores order the candidates; the order is left open.*)

(* The frame of kinds ks that the target sent to s, if any.                 *)
FromTarget(s, q, H, ks) == {m \in H : m.from = q.target /\ m.to = s /\ m.kind \in ks}

Direct_CallsOnly(s, H) == {m \in H : m.to = s /\ m.kind = "CALL"}
Direct(s, H) == {m \in H : m.to = s /\ m.kind \in {"CALL", "REPORT"}}

(* hasWorkedCallsign and replyToWorkedStations *)
Welcome(s, q, t) == q.log[t] = None \/ env.settings[s].again

(* Answer a direct call, for which the current contact is dropped.          *)
Answer(q, m) ==
    LET now == [sent |-> m.from, rcvd |-> IF m.kind = "REPORT" THEN Report(m) ELSE None]
    IN ChangeState(Retarget(ClearContext(q), m.from, now),
                   IF m.kind = "CALL" THEN "TX2" ELSE "TX3")

(* trySwitchToDirectedCall, except to the station not; else the outcome is  *)
(* otherwise.                                                               *)
SwitchOr(s, q, H, not, otherwise) ==
    LET callers == {m \in Direct(s, H) : m.from # not /\ Welcome(s, q, m.from)}
    IN IF callers = {} THEN {otherwise} ELSE {Answer(q, m) : m \in callers}

(* TX1, calling: a reply of the target comes first; else the first of the   *)
(* direct calls of others is answered, or none.                             *)
Calling(s, q, H) ==
    LET reply == FromTarget(s, q, H, {"REPORT", "ROGER"})
        calls == {m \in Direct(s, H) : m.from # q.target}
    IN IF reply # {}
       THEN {ChangeState([q EXCEPT !.rcvd = Report(m), !.sent = m.from],
                         IF m.kind = "REPORT" THEN "TX3" ELSE "TX4") : m \in reply}
       ELSE IF calls = {} THEN {q}
       ELSE {IF Welcome(s, q, m.from) THEN Answer(q, m) ELSE q : m \in calls}

(* What a report changes when an earlier one is kept.                       *)
Noted(q, m) == [q EXCEPT !.rcvd = IF @ = None THEN Report(m) ELSE @, !.sent = m.from]

(* TX2, having sent a report: the answer is one with or without a roger.    *)
Reporting(s, q, H) ==
    LET reply == FromTarget(s, q, H, {"ROGER", "REPORT"})
    IN IF reply = {} THEN {q} ELSE {ChangeState(Noted(q, m), "TX4") : m \in reply}

(* TX3, having sent a report with a roger: the answer is an acknowledgement;*)
(* a repeated report is noted.                                              *)
Rogering_AnyReply(s, q, H) ==
    IF FromTarget(s, q, H, {"RRR", "73", "REPORT", "ROGER"}) # {} THEN {ChangeState(q, "TX5")}
    ELSE {q}
Rogering(s, q, H) ==
    LET repeated == FromTarget(s, q, H, {"REPORT"})
    IN IF FromTarget(s, q, H, {"RRR", "73"}) # {} THEN {ChangeState(q, "TX5")}
       ELSE IF repeated # {} THEN {Noted(q, m) : m \in repeated}
       ELSE {q}

(* TX4, having acknowledged: on a 73 the contact is over.                   *)
Acknowledging(s, q, H) ==
    IF FromTarget(s, q, H, {"73"}) # {} THEN SwitchOr(s, q, H, q.target, Completed(s, q))
    ELSE IF FromTarget(s, q, H, {"RRR"}) # {} THEN {ChangeState(q, "TX5")}
    ELSE {q}

(* TX5, with a 73 to send: an acknowledgement heard again has it sent again.*)
SigningOff_NotQueued(s, q, H) ==
    IF FromTarget(s, q, H, {"RRR"}) # {} THEN {q}
    ELSE SwitchOr(s, q, H, q.target, SignedOff(s, q))
SigningOff(s, q, H) ==
    IF FromTarget(s, q, H, {"RRR"}) # {} \/ ~q.queued THEN {q}
    ELSE SwitchOr(s, q, H, q.target, SignedOff(s, q))

(* The retry context lasts two slots, to the millisecond.                   *)
Retries(s, q, H) ==
    /\ q.retry # None
    /\ \E m \in H : m.kind = "RRR" /\ m.from = q.retry.target /\ m.to = s

Resumed(q) ==
    ChangeState([q EXCEPT !.target = q.retry.target, !.sent = q.retry.sent,
                          !.rcvd = q.retry.rcvd, !.retry = None], "TX5")

(* TX6, calling CQ: a direct call, then a CQ of a station not yet worked.   *)
Idling(s, q, H) ==
    LET cqs == {m \in H : m.kind = "CQ" /\ env.settings[s].reply /\ q.log[m.from] = None}
        Reply(m) == ChangeState(Retarget(q, m.from, [sent |-> m.from, rcvd |-> q.rcvd]),
                                IF env.settings[s].skip THEN "TX2" ELSE "TX1")
        replies == IF cqs = {} THEN {q} ELSE {Reply(m) : m \in cqs}
        plain == UNION {SwitchOr(s, q, H, None, r) : r \in replies}
    IN IF Retries(s, q, H)
       THEN {Resumed(q)} \cup (IF q.retry.left = 0 THEN plain ELSE {})
       ELSE plain

Handle(s, q, H) ==
    CASE q.state = "TX1" -> Calling(s, q, H)
      [] q.state = "TX2" -> Reporting(s, q, H)
      [] q.state = "TX3" -> Rogering(s, q, H)
      [] q.state = "TX4" -> Acknowledging(s, q, H)
      [] q.state = "TX5" -> SigningOff(s, q, H)
      [] q.state = "TX6" -> Idling(s, q, H)

(* onTimeout *)
TimedOut_NoCount(s, q) ==
    CASE q.state = "TX1" /\ q.attempts + 1 < MaxAttempts -> q
      [] q.state = "TX5" -> IF q.queued THEN SignedOff(s, q) ELSE q
      [] q.state = "TX6" -> q
      [] OTHER -> Failed(s, q)
TimedOut_OneMore(s, q) ==
    CASE q.state = "TX1" /\ q.attempts < MaxAttempts -> [q EXCEPT !.attempts = @ + 1]
      [] q.state = "TX5" -> IF q.queued THEN SignedOff(s, q) ELSE q
      [] q.state = "TX6" -> q
      [] OTHER -> Failed(s, q)
TimedOut(s, q) ==
    CASE q.state = "TX1" /\ q.attempts + 1 < MaxAttempts -> [q EXCEPT !.attempts = @ + 1]
      [] q.state = "TX5" -> IF q.queued THEN SignedOff(s, q) ELSE q
      [] q.state = "TX6" -> q
      [] OTHER -> Failed(s, q)

(* A slot without a change of state counts; from MaxTimeouts on the count   *)
(* is only compared with it.                                                *)
Aged(s, q) ==
    LET late == [q EXCEPT !.timeouts = IF @ < MaxTimeouts THEN @ + 1 ELSE @]
    IN IF late.timeouts = MaxTimeouts THEN TimedOut(s, late) ELSE late

(* The decision of a slot, and one on late decodes; unless it stops the     *)
(* operator a decision closes the gate.                                     *)
Ungated(q) == IF q.on THEN [q EXCEPT !.gate = None] ELSE q

Decisions(s, q, H) ==
    {Ungated(IF r.state = q.state THEN Aged(s, r) ELSE r) : r \in Handle(s, q, H)}

Redecisions(s, q, H) == {Ungated(r) : r \in Handle(s, q, H)}

(* tryWakeFromSilentDirectedCallGate: a stopped operator with an open gate  *)
(* has the strategy look at the direct calls, and is started if it takes    *)
(* one up.                                                                  *)
Wakings(s, q, H) ==
    LET calls == {m \in Direct(s, H) : m.from # q.gate.not}
        Takes(r) == r.target # None /\ (r.state # q.state \/ r.target # q.target)
    IN IF calls = {} THEN {q}
       ELSE {IF Takes(r) THEN [r EXCEPT !.on = TRUE, !.gate = None] ELSE r :
                r \in Handle(s, q, calls)}

-----------------------------------------------------------------------------
(* A slot, station by station *)

Turn(s, phases) == Order[turn.at] = s /\ turn.phase \in phases
Phase(p) == turn' = [turn EXCEPT !.phase = p]

Update(s, outcomes) == \E q \in outcomes : station' = [station EXCEPT ![s] = q]

(* onTransmissionQueued, for the text of this slot *)
Queued(s, q) == IF Sends(s, q) /\ q.state = "TX5" THEN [q EXCEPT !.queued = TRUE] ELSE q

(* At most one frame of another station. *)
OneStray(s) == {{}} \cup {{m} : m \in Stray(s)}

(* handleSlotStart, on what has been decoded by then.                       *)
SlotStart(s) ==
    /\ Turn(s, {"start"}) /\ Phase("decided")
    /\ \E H \in SUBSET OnAir(s), F \in OneStray(s) :
         /\ heard' = H \cup F
         /\ LET q == station[s]
            IN Update(s, IF q.on THEN Decisions(s, q, heard')
                         ELSE IF q.gate # None THEN Wakings(s, q, heard') ELSE {q})
    /\ UNCHANGED <<env, parity, air, events, mixed>>

(* handleEncodeStart *)
EncodeStart(s) ==
    /\ Turn(s, {"decided"}) /\ Phase("encoded")
    /\ Update(s, {Queued(s, station[s])})
    /\ UNCHANGED <<env, parity, air, heard, events, mixed>>

(* reDecideOperator, on more frames of the same slot. A text that has been  *)
(* asked for is replaced by another one.                                    *)
Redecide(s) ==
    /\ Turn(s, {"decided", "encoded"})
    /\ \E L \in SUBSET (OnAir(s) \ heard), F \in OneStray(s) :
         /\ L \cup F # {}
         /\ heard' = heard \cup L \cup F
         /\ LET q == station[s]
                Replaced(r) == IF turn.phase = "encoded" /\ Text(s, r) # Text(s, q)
                               THEN Queued(s, r) ELSE r
            IN \/ /\ q.on /\ env.cycle[s] = parity
                  /\ Update(s, {Replaced(r) : r \in Redecisions(s, q, heard')})
               \/ /\ ~q.on /\ q.gate # None
                  /\ Update(s, {Replaced(r) : r \in Wakings(s, q, heard')})
    /\ UNCHANGED <<env, parity, turn, air, events, mixed>>

(* On a clear channel everything is decoded in time for a late decision.    *)
Over(s) ==
    Turn(s, {"encoded"}) /\ (env.clear /\ station[s].on => OnAir(s) \subseteq heard)

NextTurn(s) ==
    /\ Over(s) /\ turn.at < Cardinality(Calls)
    /\ turn' = [at |-> turn.at + 1, phase |-> "start"]
    /\ heard' = {}
    /\ UNCHANGED <<env, parity, air, station, events, mixed>>

Counted(x) == IF x = None \/ x.left = 0 THEN None ELSE [x EXCEPT !.left = @ - 1]

(* The slot is over: what was sent is on the air for the others to decode.  *)
Tick(s) ==
    /\ Over(s) /\ turn.at = Cardinality(Calls)
    /\ turn' = [at |-> 1, phase |-> "start"]
    /\ heard' = {}
    /\ parity' = 1 - parity
    /\ air' = [t \in Calls |-> IF Sends(t, station[t]) THEN Text(t, station[t]) ELSE None]
    /\ station' = [t \in Calls |->
                     LET q == station[t]
                     IN [q EXCEPT !.gate = Counted(@), !.retry = Counted(@),
                           !.aired = @ \/ (Sends(t, q) /\ q.state = "TX5")]]
    /\ UNCHANGED <<env, events, mixed>>

-----------------------------------------------------------------------------
(* Users *)

User(s, hold) ==
    /\ Turn(s, {"start", "decided", "encoded"}) /\ events < env.events
    /\ events' = events + 1
    /\ mixed' = IF hold THEN mixed \cup {s} ELSE mixed
    /\ UNCHANGED <<env, parity, turn, air, heard>>

(* requestCall, without a frame or in answer to one just decoded. The       *)
(* context is that of the contact before, except for what is set here.      *)
Called(s, q, t, m) ==
    LET start == [q EXCEPT !.on = TRUE, !.retry = None, !.target = t]
        r == IF m = None THEN start ELSE [start EXCEPT !.sent = t]
        call == ChangeState(r, IF env.settings[s].skip THEN "TX2" ELSE "TX1")
    IN IF m = None \/ m.to # s THEN call
       ELSE CASE m.kind = "CALL" -> ChangeState(r, "TX2")
              [] m.kind = "REPORT" -> ChangeState([r EXCEPT !.rcvd = Report(m)], "TX3")
              [] m.kind = "ROGER" -> ChangeState(Noted(r, m), "TX4")
              [] m.kind = "RRR" -> ChangeState(r, "TX5")
              [] m.kind = "73" -> ChangeState(r, "TX6")
              [] OTHER -> call

RequestCall(s) ==
    LET q == station[s]
        Callable == {t \in Everyone : env.cycle[t] # env.cycle[s]}
    IN \E t \in Callable, m \in heard \cup {None} :
         /\ m # None => m.from = t
         /\ User(s, q.target # None \/ q.rcvd # None \/ (m # None /\ m.kind = "73"))
         /\ LET r == Called(s, q, t, m)
            IN Update(s, {IF turn.phase = "encoded" /\ m # None THEN Queued(s, r) ELSE r})

(* setState *)
SetState(s) ==
    /\ User(s, TRUE)
    /\ \E st \in {"TX1", "TX2", "TX3", "TX4", "TX5", "TX6"} :
         Update(s, {[station[s] EXCEPT !.state = st, !.queued = FALSE,
                        !.retry = IF st = "TX6" THEN @ ELSE None, !.aired = FALSE]})

(* startOperator, stopOperator *)
Switch(s) ==
    /\ User(s, TRUE)
    /\ Update(s, {[station[s] EXCEPT !.on = ~@]})

(* resetRuntime *)
Reset(s) ==
    /\ User(s, station[s].target # None)
    /\ Update(s, {ChangeState([ClearContext(station[s]) EXCEPT !.retry = None, !.attempts = 0], "TX6")})

-----------------------------------------------------------------------------
Slot(s) == SlotStart(s) \/ EncodeStart(s) \/ Redecide(s) \/ NextTurn(s) \/ Tick(s)

Acts(s) == RequestCall(s) \/ SetState(s) \/ Switch(s) \/ Reset(s)

Next == \E s \in Calls : Slot(s) \/ Acts(s)

Spec == Init /\ [][Next]_vars

(* The clock keeps the slots coming, whatever happens in one.               *)
FairSpec == Spec /\ WF_vars(\E s \in Calls : Slot(s))

-----------------------------------------------------------------------------
(* The types of the stations' records and of the frames.                    *)
Frames == [kind : Kinds, from : Everyone, to : Everyone \cup {None},
           of : Everyone \cup {None}]

TypeOK ==
    /\ env \in Scenarios /\ parity \in {0, 1} /\ events \in 0..env.events
    /\ turn \in [at : 1..Cardinality(Calls), phase : {"start", "decided", "encoded"}]
    /\ air \in [Calls -> Frames \cup {None}] /\ heard \in SUBSET Frames
    /\ mixed \subseteq Calls
    /\ \A s \in Calls : LET q == station[s] IN
         /\ {q.on, q.queued, q.aired} \subseteq BOOLEAN
         /\ q.gate \in [not : Everyone, left : 0..2] \cup {None}
         /\ q.state \in {"TX1", "TX2", "TX3", "TX4", "TX5", "TX6"}
         /\ q.target \in Everyone \cup {None}
         /\ [sent |-> q.sent, rcvd |-> q.rcvd] \in Contexts
         /\ q.timeouts \in 0..MaxTimeouts /\ q.attempts \in 0..(MaxAttempts - 1)
         /\ q.retry \in [target : Everyone, sent : Everyone \cup {None},
                         rcvd : Reports \cup {None}, left : 0..2] \cup {None}
         /\ {q.log, q.cache} \subseteq [Everyone -> Contexts \cup {None}]
         /\ q.assured \subseteq Everyone

(* A contact logged on an acknowledgement or a 73 is in the other station's *)
(* log as well, whatever was lost, late, retried or taken from the cache.   *)
Confirmed ==
    \A s, t \in Calls \ mixed : t \in station[s].assured => station[t].log[s] # None

(* The reports of the contact under way, of the contexts that are kept and  *)
(* of the log are those exchanged with that very station.                   *)
Own(s, t, c) ==
    /\ c.sent \in {t, None}
    /\ c.rcvd # None => c.rcvd.by = t /\ (t \in mixed \/ c.rcvd.of \in {s, None})
ReportsTheirs ==
    \A s \in Calls \ mixed : LET q == station[s] IN
        /\ q.target # None => Own(s, q.target, q)
        /\ q.target = None => q.sent = None /\ q.rcvd = None
        /\ q.retry # None => Own(s, q.retry.target, q.retry)
        /\ \A t \in Everyone : \A c \in {q.log[t], q.cache[t]} \ {None} : Own(s, t, c)

(* A station leaves TX5 only when its 73 has been on the air, or at least   *)
(* its encode has been asked for and a late decode changes the decision.    *)
Leaves(s) == station[s].state = "TX5" /\ station'[s].state # "TX5"
GoodbyeQueued ==
    [][\A s \in Calls \ mixed' :
          Leaves(s) => station[s].aired \/ turn.phase = "encoded"]_vars

(* A contact ends: whatever the target and the others send, the station     *)
(* does not stay with one target for ever. Users let it be.                 *)
QsoEnds ==
    env.events = 0 => \A s \in Calls :
        \/ <>[](station[s].target = None \/ ~station[s].on)
        \/ []<><<station'[s].target # station[s].target>>_vars

(* On a clear channel, if one of two stations answers CQs, they get each    *)
(* other into their logs.                                                   *)
Completes ==
    env.clear /\ env.kinds = {} => <>(\A s, t \in env.on :
        env.cycle[s] # env.cycle[t] => station[s].log[t] # None)
=============================================================================
