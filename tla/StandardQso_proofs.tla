--------------------------- MODULE StandardQso_proofs ---------------------------
(* Proofs about StandardQso, for any stations, settings and surroundings.       *)
EXTENDS StandardQso, FiniteSetTheorems, TLAPS

-----------------------------------------------------------------------------
(* Types. A 73 is only asked for when there is somebody to send it to.        *)
States == {"TX1", "TX2", "TX3", "TX4", "TX5", "TX6"}
Known == Contexts \cup {None}
Gates == [not : Everyone, left : 0..2] \cup {None}
Resumptions == [target : Everyone, sent : Everyone \cup {None},
                rcvd : Reports \cup {None}, left : 0..2] \cup {None}
Stations ==
    [on : BOOLEAN, gate : Gates, log : [Everyone -> Known], state : States,
     target : Everyone \cup {None}, sent : Everyone \cup {None},
     rcvd : Reports \cup {None}, timeouts : 0..MaxTimeouts,
     attempts : 0..(MaxAttempts - 1), queued : BOOLEAN, retry : Resumptions,
     cache : [Everyone -> Known], assured : SUBSET Everyone, aired : BOOLEAN]

LEMMA ClearType ==
  ASSUME NEW q \in Stations
  PROVE  /\ ClearContext(q) \in Stations
         /\ ClearContext(q) = [q EXCEPT !.cache = ClearContext(q).cache,
                                 !.target = None, !.sent = None, !.rcvd = None]
         /\ \A t \in Everyone :
              ClearContext(q).cache[t] = IF t = q.target THEN [sent |-> q.sent, rcvd |-> q.rcvd]
                                         ELSE q.cache[t]
<1>1. [sent |-> q.sent, rcvd |-> q.rcvd] \in Known
  BY DEF Stations, Known, Contexts
<1>2. CASE q.target = None
  BY <1>2, QsoAssumption DEF ClearContext, Stations
<1>3. CASE q.target # None
  BY <1>1, <1>3, QsoAssumption DEF ClearContext, Stations
<1> QED BY <1>2, <1>3

LEMMA LoggedType ==
  ASSUME NEW q \in Stations
  PROVE  /\ Logged(q) \in [Everyone -> Known]
         /\ \A t \in Everyone : t # q.target => Logged(q)[t] = q.log[t]
         /\ q.target # None => Logged(q)[q.target] # None
<1> DEFINE old == IF q.log[q.target] = None THEN Blank ELSE q.log[q.target]
           new == [sent |-> IF q.sent # None THEN q.sent ELSE old.sent,
                   rcvd |-> IF q.rcvd # None THEN q.rcvd ELSE old.rcvd]
<1>1. Logged(q) = [q.log EXCEPT ![q.target] = new]
  BY DEF Logged
<1>2. CASE q.target = None
  <2>1. q.log \in [Everyone -> Known] /\ q.target \notin Everyone
    BY <1>2, QsoAssumption DEF Stations
  <2> HIDE DEF new
  <2> QED BY <1>1, <1>2, <2>1
<1>3. CASE q.target # None
  <2>1. old \in Contexts
    BY <1>3 DEF Stations, Known, Contexts, Blank
  <2> HIDE DEF old
  <2>2. new \in Contexts
    BY <2>1 DEF Stations, Contexts
  <2> HIDE DEF new
  <2>3. q.target \in Everyone
    BY <1>3 DEF Stations
  <2>4. Logged(q)[q.target] = new
    BY <1>1, <2>3 DEF Stations
  <2>5. new # None /\ new \in Known
    BY <2>2, QsoAssumption DEF Known
  <2>6. q.log \in [Everyone -> Known]
    BY DEF Stations
  <2> QED BY <1>1, <2>3, <2>4, <2>5, <2>6
<1> QED BY <1>2, <1>3

LEMMA ChangeType ==
  ASSUME NEW q \in Stations, NEW st \in States, st = "TX5" => q.target # None
  PROVE  LET r == ChangeState(q, st) IN
         /\ r \in Stations
         /\ r.on = q.on /\ r.gate = q.gate /\ r.state = st /\ r.cache = q.cache
         /\ r.target = q.target /\ r.sent = q.sent /\ r.rcvd = q.rcvd
         /\ ~r.queued /\ ~r.aired
         /\ r.log = IF st \in {"TX4", "TX5"} THEN Logged(q) ELSE q.log
         /\ r.retry = IF st \in {"TX5", "TX6"} THEN q.retry ELSE None
         /\ r.assured = IF st = "TX5" THEN q.assured \cup {q.target} ELSE q.assured
<1> DEFINE att == IF "TX1" \in {q.state, st} THEN 0 ELSE q.attempts
           ret == IF st \in {"TX5", "TX6"} THEN q.retry ELSE None
           log == IF st \in {"TX4", "TX5"} THEN Logged(q) ELSE q.log
           ass == IF st = "TX5" THEN q.assured \cup {q.target} ELSE q.assured
           r == [q EXCEPT !.state = st, !.timeouts = 0, !.queued = FALSE,
                   !.attempts = att, !.retry = ret, !.log = log, !.assured = ass,
                   !.aired = FALSE]
<1>1. ChangeState(q, st) = r
  BY DEF ChangeState, Stations
<1>2. att \in 0..(MaxAttempts - 1)
  BY QsoAssumption DEF Stations
<1>3. ret \in Resumptions
  BY DEF Stations, Resumptions
<1>4. log \in [Everyone -> Known]
  BY LoggedType DEF Stations
<1>5. ass \in SUBSET Everyone
  BY DEF Stations
<1> HIDE DEF att, ret, log, ass
<1>6. 0 \in 0..MaxTimeouts
  BY QsoAssumption
<1>7. /\ r \in Stations
      /\ r.on = q.on /\ r.gate = q.gate /\ r.state = st /\ r.cache = q.cache
      /\ r.target = q.target /\ r.sent = q.sent /\ r.rcvd = q.rcvd
      /\ ~r.queued /\ ~r.aired
      /\ r.log = log /\ r.retry = ret /\ r.assured = ass
  BY <1>2, <1>3, <1>4, <1>5, <1>6 DEF Stations
<1> QED BY <1>1, <1>7 DEF log, ret, ass

LEMMA RetargetType ==
  ASSUME NEW q \in Stations, NEW t \in Everyone, NEW now \in Contexts
  PROVE  LET r == Retarget(q, t, now) IN
         /\ r \in Stations
         /\ r.target = t /\ r.log = q.log /\ r.cache = q.cache /\ r.state = q.state
         /\ r.assured = q.assured /\ r.retry = q.retry
         /\ \/ r.sent = now.sent /\ r.rcvd = now.rcvd
            \/ /\ q.cache[t] # None
               /\ r.sent = q.cache[t].sent /\ r.rcvd = q.cache[t].rcvd
<1> DEFINE known == IF q.cache[t] = None THEN now ELSE q.cache[t]
           r == [q EXCEPT !.target = t, !.sent = known.sent, !.rcvd = known.rcvd]
<1>1. Retarget(q, t, now) = r
  BY DEF Retarget
<1>2. known \in Contexts
  BY DEF Stations, Known
<1>3. known = now \/ (q.cache[t] # None /\ known = q.cache[t])
  OBVIOUS
<1> HIDE DEF known
<1>4. /\ r \in Stations /\ r.sent = known.sent /\ r.rcvd = known.rcvd
      /\ r.target = t /\ r.log = q.log /\ r.cache = q.cache /\ r.state = q.state
      /\ r.assured = q.assured /\ r.retry = q.retry
  BY <1>2 DEF Stations, Contexts
<1> HIDE DEF r
<1> QED BY <1>1, <1>3, <1>4

Typed(q) == q \in Stations /\ (q.queued => q.target # None)

LEMMA AnswerType ==
  ASSUME NEW q \in Stations, NEW m \in Frames
  PROVE  Typed(Answer(q, m))
<1> DEFINE now == [sent |-> m.from, rcvd |-> IF m.kind = "REPORT" THEN Report(m) ELSE None]
           r == Retarget(ClearContext(q), m.from, now)
<1>1. now \in Contexts /\ m.from \in Everyone
  BY DEF Contexts, Frames, Report, Reports
<1>2. r \in Stations
  BY <1>1, ClearType, RetargetType
<1>3. Answer(q, m) = ChangeState(r, IF m.kind = "CALL" THEN "TX2" ELSE "TX3")
  BY DEF Answer
<1> HIDE DEF r
<1>4. CASE m.kind = "CALL"
  BY <1>2, <1>3, <1>4, ChangeType DEF Typed, States
<1>5. CASE m.kind # "CALL"
  BY <1>2, <1>3, <1>5, ChangeType DEF Typed, States
<1> QED BY <1>4, <1>5

LEMMA FailedType ==
  ASSUME NEW s \in Calls, NEW q \in Stations, env \in Scenarios
  PROVE  Typed(Failed(s, q))
<1> DEFINE r == ChangeState(ClearContext(q), "TX6")
           on == r.on /\ env.settings[s].afterFail
<1>1. r \in Stations /\ ~r.queued
  BY ClearType, ChangeType DEF States
<1>2. Failed(s, q) = [r EXCEPT !.on = on]
  BY <1>1 DEF Failed, Stations
<1>3. on \in BOOLEAN
  OBVIOUS
<1> HIDE DEF r, on
<1> QED BY <1>1, <1>2, <1>3 DEF Typed, Stations

LEMMA CompletedType ==
  ASSUME NEW s \in Calls, NEW q \in Stations, q.target # None
  PROVE  Typed(Completed(s, q))
<1> DEFINE r == ChangeState(ClearContext(q), "TX6")
           gate == [not |-> q.target, left |-> 2]
<1>1. r \in Stations /\ ~r.queued
  BY ClearType, ChangeType DEF States
<1>2. Completed(s, q) = IF env.settings[s].afterSuccess THEN r
                        ELSE [r EXCEPT !.on = FALSE, !.gate = gate]
  BY DEF Completed
<1>3. gate \in Gates
  BY DEF Gates, Stations
<1> HIDE DEF r, gate
<1>4. [r EXCEPT !.on = FALSE, !.gate = gate] \in Stations
  BY <1>1, <1>3 DEF Stations
<1>5. ~[r EXCEPT !.on = FALSE, !.gate = gate].queued
  BY <1>1 DEF Stations
<1>6. CASE env.settings[s].afterSuccess
  BY <1>1, <1>2, <1>6 DEF Typed
<1>7. CASE ~env.settings[s].afterSuccess
  BY <1>2, <1>4, <1>5, <1>7 DEF Typed
<1> QED BY <1>6, <1>7

LEMMA SignedOffType ==
  ASSUME NEW s \in Calls, NEW q \in Stations, q.target # None
  PROVE  Typed(SignedOff(s, q))
<1> DEFINE ret == IF env.settings[s].afterSuccess
                  THEN [target |-> q.target, sent |-> q.sent, rcvd |-> q.rcvd, left |-> 2]
                  ELSE None
           r == [q EXCEPT !.retry = ret]
<1>1. ret \in Resumptions
  BY DEF Resumptions, Stations
<1> HIDE DEF ret
<1>2. r \in Stations /\ r.target = q.target
  BY <1>1 DEF Stations
<1>3. SignedOff(s, q) = Completed(s, r)
  BY DEF SignedOff, ret
<1> HIDE DEF r
<1> QED BY <1>2, <1>3, CompletedType

(* The handlers of the states.                                               *)
LEMMA DirectFacts ==
  ASSUME NEW s \in Calls, NEW H \in SUBSET Frames
  PROVE  \A m \in Direct(s, H) : /\ m \in H /\ m \in Frames /\ m.to = s
                                 /\ m.kind \in {"CALL", "REPORT"}
BY DEF Direct

LEMMA FromTargetFacts ==
  ASSUME NEW s \in Calls, NEW q \in Stations, NEW H \in SUBSET Frames, NEW ks
  PROVE  \A m \in FromTarget(s, q, H, ks) :
           /\ m \in H /\ m \in Frames /\ m.to = s /\ m.kind \in ks
           /\ m.from = q.target /\ q.target \in Everyone
BY DEF FromTarget, Frames

LEMMA SwitchType ==
  ASSUME NEW s \in Calls, NEW q \in Stations, NEW H \in SUBSET Frames, NEW not,
         NEW other, Typed(other), NEW r \in SwitchOr(s, q, H, not, other)
  PROVE  Typed(r)
<1>1. r = other \/ \E m \in Direct(s, H) : r = Answer(q, m)
  BY DEF SwitchOr
<1> QED BY <1>1, DirectFacts, AnswerType

LEMMA NotedType ==
  ASSUME NEW q \in Stations, NEW m \in Frames
  PROVE  /\ Noted(q, m) \in Stations
         /\ Noted(q, m).rcvd = IF q.rcvd = None THEN Report(m) ELSE q.rcvd
         /\ Noted(q, m).queued = q.queued /\ Noted(q, m).target = q.target
         /\ Noted(q, m).sent = m.from /\ Noted(q, m).state = q.state
         /\ Noted(q, m).log = q.log /\ Noted(q, m).cache = q.cache
         /\ Noted(q, m).assured = q.assured /\ Noted(q, m).retry = q.retry
         /\ Noted(q, m).aired = q.aired /\ Noted(q, m).on = q.on
<1> DEFINE rcvd == IF q.rcvd = None THEN Report(m) ELSE q.rcvd
<1>1. rcvd \in Reports \cup {None} /\ m.from \in Everyone
  BY DEF Stations, Frames, Reports, Report
<1>2. Noted(q, m) = [q EXCEPT !.rcvd = rcvd, !.sent = m.from]
  BY DEF Noted, Stations
<1> HIDE DEF rcvd
<1>3. /\ Noted(q, m) \in Stations /\ Noted(q, m).rcvd = rcvd
      /\ Noted(q, m).queued = q.queued /\ Noted(q, m).target = q.target
      /\ Noted(q, m).sent = m.from /\ Noted(q, m).state = q.state
      /\ Noted(q, m).log = q.log /\ Noted(q, m).cache = q.cache
      /\ Noted(q, m).assured = q.assured /\ Noted(q, m).retry = q.retry
      /\ Noted(q, m).aired = q.aired /\ Noted(q, m).on = q.on
  BY <1>1, <1>2 DEF Stations
<1> QED BY <1>2, <1>3 DEF rcvd

LEMMA CallingType ==
  ASSUME NEW s \in Calls, NEW q, Typed(q), NEW H \in SUBSET Frames, NEW r \in Calling(s, q, H)
  PROVE  Typed(r)
<1> DEFINE Replied(m) == [q EXCEPT !.rcvd = Report(m), !.sent = m.from]
<1>1. \/ r = q \/ \E m \in Direct(s, H) : r = Answer(q, m)
      \/ \E m \in FromTarget(s, q, H, {"REPORT", "ROGER"}) :
            r = ChangeState(Replied(m), IF m.kind = "REPORT" THEN "TX3" ELSE "TX4")
  BY DEF Calling
<1>2. ASSUME NEW m \in Frames PROVE Replied(m) \in Stations
  <2>1. Report(m) \in Reports /\ m.from \in Everyone
    BY DEF Report, Reports, Frames
  <2> QED BY <2>1 DEF Typed, Stations
<1>3. ASSUME NEW m \in Frames, r = ChangeState(Replied(m), IF m.kind = "REPORT" THEN "TX3" ELSE "TX4")
      PROVE  Typed(r)
  <2>1. PICK st \in {"TX3", "TX4"} : r = ChangeState(Replied(m), st)
    BY <1>3
  <2> QED BY <1>2, <2>1, ChangeType DEF Typed, States
<1>4. q \in Stations
  BY DEF Typed
<1> HIDE DEF Replied
<1> QED BY <1>1, <1>3, <1>4, DirectFacts, FromTargetFacts, AnswerType

LEMMA ReportingType ==
  ASSUME NEW s \in Calls, NEW q, Typed(q), NEW H \in SUBSET Frames, NEW r \in Reporting(s, q, H)
  PROVE  Typed(r)
<1>1. \/ r = q
      \/ \E m \in FromTarget(s, q, H, {"ROGER", "REPORT"}) : r = ChangeState(Noted(q, m), "TX4")
  BY DEF Reporting
<1>2. q \in Stations
  BY DEF Typed
<1>3. ASSUME NEW m \in Frames, r = ChangeState(Noted(q, m), "TX4") PROVE Typed(r)
  BY <1>2, <1>3, NotedType, ChangeType DEF Typed, States
<1> QED BY <1>1, <1>2, <1>3, FromTargetFacts

LEMMA RogeringType ==
  ASSUME NEW s \in Calls, NEW q, Typed(q), NEW H \in SUBSET Frames, NEW r \in Rogering(s, q, H)
  PROVE  Typed(r)
<1> DEFINE over == FromTarget(s, q, H, {"RRR", "73"})
<1>1. q \in Stations
  BY DEF Typed
<1>2. \/ r = q
      \/ over # {} /\ r = ChangeState(q, "TX5")
      \/ \E m \in FromTarget(s, q, H, {"REPORT"}) : r = Noted(q, m)
  BY DEF Rogering
<1>3. CASE over # {} /\ r = ChangeState(q, "TX5")
  <2>1. q.target # None
    BY <1>1, <1>3, FromTargetFacts, QsoAssumption
  <2> QED BY <1>1, <1>3, <2>1, ChangeType DEF Typed, States
<1>4. ASSUME NEW m \in FromTarget(s, q, H, {"REPORT"}), r = Noted(q, m) PROVE Typed(r)
  <2>1. r \in Stations /\ r.queued = q.queued /\ r.target = q.target
    BY <1>1, <1>4, FromTargetFacts, NotedType
  <2> QED BY <2>1 DEF Typed
<1> QED BY <1>2, <1>3, <1>4

LEMMA AcknowledgingType ==
  ASSUME NEW s \in Calls, NEW q, Typed(q), NEW H \in SUBSET Frames,
         NEW r \in Acknowledging(s, q, H)
  PROVE  Typed(r)
<1>1. q \in Stations
  BY DEF Typed
<1>2. \/ r = q
      \/ /\ FromTarget(s, q, H, {"73"}) # {}
         /\ r \in SwitchOr(s, q, H, q.target, Completed(s, q))
      \/ FromTarget(s, q, H, {"RRR"}) # {} /\ r = ChangeState(q, "TX5")
  BY DEF Acknowledging
<1>3. \A ks : FromTarget(s, q, H, ks) # {} => q.target # None
  BY <1>1, FromTargetFacts, QsoAssumption
<1>4. CASE FromTarget(s, q, H, {"73"}) # {} /\ r \in SwitchOr(s, q, H, q.target, Completed(s, q))
  BY <1>1, <1>3, <1>4, CompletedType, SwitchType
<1>5. CASE FromTarget(s, q, H, {"RRR"}) # {} /\ r = ChangeState(q, "TX5")
  BY <1>1, <1>3, <1>5, ChangeType DEF Typed, States
<1> QED BY <1>2, <1>4, <1>5

LEMMA SigningOffType ==
  ASSUME NEW s \in Calls, NEW q, Typed(q), NEW H \in SUBSET Frames,
         NEW r \in SigningOff(s, q, H)
  PROVE  Typed(r)
<1>1. r = q \/ (q.queued /\ r \in SwitchOr(s, q, H, q.target, SignedOff(s, q)))
  BY DEF SigningOff
<1>2. q \in Stations
  BY DEF Typed
<1>3. CASE q.queued /\ r \in SwitchOr(s, q, H, q.target, SignedOff(s, q))
  <2>1. q.target # None
    BY <1>3 DEF Typed
  <2> QED BY <1>2, <1>3, <2>1, SignedOffType, SwitchType
<1> QED BY <1>1, <1>3

LEMMA ResumedType ==
  ASSUME NEW q \in Stations, q.retry # None
  PROVE  /\ Typed(Resumed(q))
         /\ Resumed(q).target = q.retry.target
<1> DEFINE r == [q EXCEPT !.target = q.retry.target, !.sent = q.retry.sent,
                   !.rcvd = q.retry.rcvd, !.retry = None]
<1>1. r \in Stations /\ r.target = q.retry.target /\ r.target \in Everyone
  <2>1. q.retry \in Resumptions /\ q.retry # None
    BY DEF Stations
  <2>2. /\ q.retry.target \in Everyone /\ q.retry.sent \in Everyone \cup {None}
        /\ q.retry.rcvd \in Reports \cup {None} /\ None \in Resumptions
    BY <2>1 DEF Resumptions
  <2> QED BY <2>2 DEF Stations
<1>2. Resumed(q) = ChangeState(r, "TX5")
  BY DEF Resumed
<1> HIDE DEF r
<1> QED BY <1>1, <1>2, ChangeType, QsoAssumption DEF Typed, States

Replying(s, q, m) ==
    ChangeState(Retarget(q, m.from, [sent |-> m.from, rcvd |-> q.rcvd]),
                IF env.settings[s].skip THEN "TX2" ELSE "TX1")

LEMMA IdlingCases ==
  ASSUME NEW s, NEW q, NEW H, NEW r \in Idling(s, q, H)
  PROVE  \/ Retries(s, q, H) /\ r = Resumed(q)
         \/ \E other : /\ \/ other = q
                          \/ \E m \in H : m.kind = "CQ" /\ other = Replying(s, q, m)
                       /\ r \in SwitchOr(s, q, H, None, other)
BY DEF Idling, Replying

LEMMA ReplyingType ==
  ASSUME NEW s \in Calls, NEW q \in Stations, NEW m \in Frames
  PROVE  Typed(Replying(s, q, m))
<1> DEFINE now == [sent |-> m.from, rcvd |-> q.rcvd]
           r == Retarget(q, m.from, now)
<1>1. now \in Contexts /\ m.from \in Everyone
  BY DEF Contexts, Stations, Frames
<1>2. r \in Stations
  BY <1>1, RetargetType
<1>3. \E st \in {"TX1", "TX2"} : Replying(s, q, m) = ChangeState(r, st)
  BY DEF Replying
<1> HIDE DEF r
<1> QED BY <1>2, <1>3, ChangeType DEF Typed, States

LEMMA IdlingType ==
  ASSUME NEW s \in Calls, NEW q, Typed(q), NEW H \in SUBSET Frames, NEW r \in Idling(s, q, H)
  PROVE  Typed(r)
<1>1. q \in Stations
  BY DEF Typed
<1>2. CASE Retries(s, q, H) /\ r = Resumed(q)
  BY <1>1, <1>2, ResumedType DEF Retries
<1>3. ASSUME NEW other,
             other = q \/ \E m \in H : m.kind = "CQ" /\ other = Replying(s, q, m),
             r \in SwitchOr(s, q, H, None, other)
      PROVE  Typed(r)
  <2>1. Typed(other)
    BY <1>1, <1>3, ReplyingType
  <2> QED BY <1>1, <1>3, <2>1, SwitchType
<1> QED BY <1>2, <1>3, IdlingCases

LEMMA HandleType ==
  ASSUME NEW s \in Calls, NEW q, Typed(q), NEW H \in SUBSET Frames, NEW r \in Handle(s, q, H)
  PROVE  Typed(r)
<1>1. q.state \in States
  BY DEF Typed, Stations
<1>2. CASE q.state = "TX1"
  BY <1>2, CallingType DEF Handle
<1>3. CASE q.state = "TX2"
  BY <1>3, ReportingType DEF Handle
<1>4. CASE q.state = "TX3"
  BY <1>4, RogeringType DEF Handle
<1>5. CASE q.state = "TX4"
  BY <1>5, AcknowledgingType DEF Handle
<1>6. CASE q.state = "TX5"
  BY <1>6, SigningOffType DEF Handle
<1>7. CASE q.state = "TX6"
  BY <1>7, IdlingType DEF Handle
<1> QED BY <1>1, <1>2, <1>3, <1>4, <1>5, <1>6, <1>7 DEF States

LEMMA TimedOutType ==
  ASSUME NEW s \in Calls, NEW q, Typed(q), env \in Scenarios
  PROVE  Typed(TimedOut(s, q))
<1>1. q \in Stations
  BY DEF Typed
<1>2. CASE q.state = "TX1" /\ q.attempts + 1 < MaxAttempts
  <2>1. TimedOut(s, q) = [q EXCEPT !.attempts = q.attempts + 1]
    BY <1>1, <1>2 DEF TimedOut, Stations
  <2>2. q.attempts + 1 \in 0..(MaxAttempts - 1)
    BY <1>1, <1>2, QsoAssumption DEF Stations
  <2> QED BY <1>1, <2>1, <2>2 DEF Typed, Stations
<1>3. CASE ~(q.state = "TX1" /\ q.attempts + 1 < MaxAttempts)
  <2>1. \/ TimedOut(s, q) = q \/ TimedOut(s, q) = Failed(s, q)
        \/ q.queued /\ TimedOut(s, q) = SignedOff(s, q)
    BY <1>3 DEF TimedOut
  <2>2. q.queued => q.target # None
    BY DEF Typed
  <2> QED BY <1>1, <2>1, <2>2, FailedType, SignedOffType
<1> QED BY <1>2, <1>3

Late(q) == [q EXCEPT !.timeouts = IF q.timeouts < MaxTimeouts THEN q.timeouts + 1 ELSE q.timeouts]

LEMMA AgedCases ==
  ASSUME NEW s, NEW q \in Stations
  PROVE  Aged(s, q) \in {Late(q), TimedOut(s, Late(q))}
BY DEF Aged, Late, Stations

LEMMA LateType ==
  ASSUME NEW q \in Stations
  PROVE  Late(q) \in Stations /\ Late(q).queued = q.queued /\ Late(q).target = q.target
<1> DEFINE n == IF q.timeouts < MaxTimeouts THEN q.timeouts + 1 ELSE q.timeouts
<1>1. n \in 0..MaxTimeouts
  BY QsoAssumption DEF Stations
<1>2. Late(q) = [q EXCEPT !.timeouts = n]
  BY DEF Late
<1> HIDE DEF n
<1> QED BY <1>1, <1>2 DEF Stations

LEMMA AgedType ==
  ASSUME NEW s \in Calls, NEW q, Typed(q), env \in Scenarios
  PROVE  Typed(Aged(s, q))
<1>1. Typed(Late(q))
  BY LateType DEF Typed
<1> QED BY <1>1, AgedCases, TimedOutType DEF Typed

LEMMA UngatedType ==
  ASSUME NEW q, Typed(q)
  PROVE  Typed(Ungated(q))
<1>1. None \in Gates /\ q \in Stations
  BY DEF Gates, Typed
<1>2. CASE q.on
  BY <1>1, <1>2 DEF Ungated, Typed, Stations
<1>3. CASE ~q.on
  BY <1>3 DEF Ungated
<1> QED BY <1>2, <1>3

LEMMA DecisionsType ==
  ASSUME NEW s \in Calls, NEW q, Typed(q), NEW H \in SUBSET Frames, env \in Scenarios,
         NEW r \in Decisions(s, q, H) \cup Redecisions(s, q, H)
  PROVE  Typed(r)
<1>1. PICK h \in Handle(s, q, H) : r = Ungated(h) \/ r = Ungated(Aged(s, h))
  BY DEF Decisions, Redecisions
<1>2. Typed(h) /\ Typed(Aged(s, h))
  BY <1>1, HandleType, AgedType
<1> QED BY <1>1, <1>2, UngatedType

LEMMA WakingsType ==
  ASSUME NEW s \in Calls, NEW q, Typed(q), NEW H \in SUBSET Frames, NEW r \in Wakings(s, q, H)
  PROVE  Typed(r)
<1> DEFINE heeded == {m \in Direct(s, H) : m.from # q.gate.not}
<1>1. heeded \in SUBSET Frames
  BY DirectFacts
<1>2. \/ r = q
      \/ \E h \in Handle(s, q, heeded) : r = h \/ r = [h EXCEPT !.on = TRUE, !.gate = None]
  BY DEF Wakings
<1>3. ASSUME NEW h \in Handle(s, q, heeded)
      PROVE  Typed(h) /\ Typed([h EXCEPT !.on = TRUE, !.gate = None])
  <2>1. Typed(h)
    BY <1>1, HandleType
  <2>2. None \in Gates
    BY DEF Gates
  <2> QED BY <2>1, <2>2 DEF Typed, Stations
<1> QED BY <1>2, <1>3

LEMMA QueuedType ==
  ASSUME NEW s \in Calls, NEW q, Typed(q)
  PROVE  Typed(Queued(s, q))
<1>1. CASE Sends(s, q) /\ q.state = "TX5"
  <2>1. q.target # None
    BY <1>1 DEF Sends
  <2>2. Queued(s, q) = [q EXCEPT !.queued = TRUE]
    BY <1>1 DEF Queued
  <2> QED BY <2>1, <2>2 DEF Typed, Stations
<1>2. CASE ~(Sends(s, q) /\ q.state = "TX5")
  BY <1>2 DEF Queued
<1> QED BY <1>1, <1>2

-----------------------------------------------------------------------------
(* Frames on the air are well-formed.                                        *)
LEMMA TextType ==
  ASSUME NEW s \in Calls, NEW q \in Stations
  PROVE  /\ Text(s, q) \in Frames /\ Text(s, q).from = s
         /\ Text(s, q).of # None =>
              Text(s, q).of = q.sent /\ Text(s, q).to = q.target
         /\ Text(s, q).kind = "RRR" <=> q.state = "TX4"
         /\ Text(s, q).kind = "73" <=> q.state = "TX5"
         /\ q.state # "TX6" => Text(s, q).to = q.target
<1> USE DEF Text, Frame, Frames, Kinds, Everyone
<1>1. CASE q.state = "TX6"
  BY <1>1
<1>2. CASE q.state = "TX1"
  BY <1>2 DEF Stations
<1>3. CASE q.state = "TX2"
  BY <1>3 DEF Stations
<1>4. CASE q.state = "TX3"
  BY <1>4 DEF Stations
<1>5. CASE q.state = "TX4"
  BY <1>5 DEF Stations
<1>6. CASE q.state = "TX5"
  BY <1>6 DEF Stations
<1> QED BY <1>1, <1>2, <1>3, <1>4, <1>5, <1>6 DEF Stations, States

TypeInv ==
    /\ env \in Scenarios /\ parity \in {0, 1} /\ events \in 0..env.events
    /\ turn \in [at : 1..Cardinality(Calls), phase : {"start", "decided", "encoded"}]
    /\ air \in [Calls -> Frames \cup {None}] /\ heard \in SUBSET Frames
    /\ mixed \subseteq Calls
    /\ station \in [Calls -> Stations] /\ \A s \in Calls : Typed(station[s])

LEMMA ScenarioFacts ==
  ASSUME env \in Scenarios
  PROVE  /\ env.kinds \subseteq Kinds /\ env.on \subseteq Calls /\ env.events \in Nat
         /\ env.cycle \in [Everyone -> {0, 1}]
<1>1. env \in [settings : [Calls -> Settings], cycle : [Everyone -> {0, 1}],
               on : SUBSET Calls, clear : BOOLEAN, kinds : SUBSET Kinds, events : Nat]
  BY QsoAssumption
<1> QED BY <1>1

LEMMA CallsFacts == Cardinality(Calls) \in Nat /\ 1 \in 1..Cardinality(Calls)
<1>1. Cardinality(Calls) \in Nat /\ Cardinality(Calls) # 0
  BY QsoAssumption, FS_CardinalityType, FS_EmptySet
<1> QED BY <1>1

LEMMA NewType ==
  ASSUME NEW on \in BOOLEAN
  PROVE  NewStation(on) \in Stations /\ ~NewStation(on).queued
<1>1. [t \in Everyone |-> None] \in [Everyone -> Known]
  BY DEF Known
<1>2. 0 \in 0..MaxTimeouts /\ 0 \in 0..(MaxAttempts - 1) /\ None \in Gates /\ None \in Resumptions
  BY QsoAssumption DEF Gates, Resumptions
<1> QED BY <1>1, <1>2 DEF NewStation, Stations, States

LEMMA TypeInit == Init => TypeInv
<1> SUFFICES ASSUME Init PROVE TypeInv
  OBVIOUS
<1>1. env \in Scenarios /\ env.events \in Nat
  BY ScenarioFacts DEF Init
<1>2. ASSUME NEW s \in Calls PROVE station[s] \in Stations /\ Typed(station[s])
  <2>1. (s \in env.on) \in BOOLEAN
    OBVIOUS
  <2>2. station[s] = NewStation(s \in env.on)
    BY DEF Init
  <2> QED BY <2>1, <2>2, NewType DEF Typed
<1>3. station \in [Calls -> Stations]
  <2>1. station = [s \in Calls |-> NewStation(s \in env.on)]
    BY DEF Init
  <2>2. DOMAIN station = Calls /\ station = [s \in DOMAIN station |-> station[s]]
    BY <2>1
  <2> QED BY <1>2, <2>2
<1>4. air \in [Calls -> Frames \cup {None}]
  BY DEF Init
<1>5. turn \in [at : 1..Cardinality(Calls), phase : {"start", "decided", "encoded"}]
  BY CallsFacts DEF Init
<1> QED BY <1>1, <1>2, <1>3, <1>4, <1>5 DEF Init, TypeInv

(* What a station may hear.                                                  *)
LEMMA HearType ==
  ASSUME TypeInv, NEW s \in Calls
  PROVE  /\ OnAir(s) \subseteq Frames
         /\ \A m \in OnAir(s) : \E t \in Calls : air[t] = m /\ m # None
         /\ Stray(s) \subseteq Frames
         /\ \A m \in Stray(s) : m.from \in Others /\ m.to \in {s, None} /\ m.of \in {s, None}
                                /\ (m.of # None => m.to = s)
<1>1. \A m \in OnAir(s) : \E t \in Calls : air[t] = m /\ m # None
  BY DEF OnAir
<1>2. \A t \in Calls : air[t] # None => air[t] \in Frames
  BY DEF TypeInv
<1>3. OnAir(s) \subseteq Frames
  BY <1>1, <1>2
<1>4. ASSUME NEW m \in Stray(s)
      PROVE  /\ m \in Frames /\ m.from \in Others /\ m.to \in {s, None} /\ m.of \in {s, None}
             /\ (m.of # None => m.to = s)
  <2>1. PICK k \in env.kinds, t \in Others :
          m = Frame(k, t, IF k = "CQ" THEN None ELSE s,
                    IF k \in {"REPORT", "ROGER"} THEN s ELSE None)
    BY DEF Stray
  <2>2. k \in Kinds /\ t \in Everyone /\ s \in Everyone
    BY ScenarioFacts DEF TypeInv, Everyone
  <2> QED BY <2>1, <2>2 DEF Frame, Frames
<1> QED BY <1>1, <1>3, <1>4

LEMMA OneStrayFacts ==
  ASSUME NEW s, NEW F \in OneStray(s)
  PROVE  F \subseteq Stray(s)
BY DEF OneStray

LEMMA UpdateType ==
  ASSUME TypeInv, NEW s \in Calls, NEW outcomes, \A r \in outcomes : Typed(r),
         Update(s, outcomes)
  PROVE  /\ station' \in [Calls -> Stations] /\ \A t \in Calls : Typed(station'[t])
         /\ \A t \in Calls \ {s} : station'[t] = station[t]
         /\ station'[s] \in outcomes
<1>1. PICK r \in outcomes : station' = [station EXCEPT ![s] = r]
  BY DEF Update
<1>2. Typed(r) /\ r \in Stations /\ station \in [Calls -> Stations]
  BY DEF Typed, TypeInv
<1>3. \A t \in Calls : station'[t] = IF t = s THEN r ELSE station[t]
  BY <1>1, <1>2
<1>4. station' \in [Calls -> Stations]
  BY <1>1, <1>2
<1>5. \A t \in Calls : Typed(station'[t])
  BY <1>2, <1>3 DEF TypeInv
<1> QED BY <1>3, <1>4, <1>5

LEMMA PhaseType ==
  ASSUME TypeInv, NEW p \in {"start", "decided", "encoded"}, Phase(p)
  PROVE  /\ turn' \in [at : 1..Cardinality(Calls), phase : {"start", "decided", "encoded"}]
         /\ turn'.at = turn.at /\ turn'.phase = p
BY DEF TypeInv, Phase

(* The outcomes of the actions that one station takes.                       *)
StartOutcomes(s, H) ==
    IF station[s].on THEN Decisions(s, station[s], H)
    ELSE IF station[s].gate # None THEN Wakings(s, station[s], H) ELSE {station[s]}
RedecideOutcomes(s, H) ==
    IF station[s].on THEN Redecisions(s, station[s], H) ELSE Wakings(s, station[s], H)
SetOutcomes(s) ==
    {[station[s] EXCEPT !.state = st, !.queued = FALSE,
         !.retry = IF st = "TX6" THEN @ ELSE None, !.aired = FALSE] : st \in States}
ResetOutcome(s) ==
    ChangeState([ClearContext(station[s]) EXCEPT !.retry = None, !.attempts = 0], "TX6")

LEMMA StartOutcomesType ==
  ASSUME TypeInv, NEW s \in Calls, NEW H \in SUBSET Frames, NEW r \in StartOutcomes(s, H)
  PROVE  Typed(r)
BY DecisionsType, WakingsType DEF StartOutcomes, TypeInv

LEMMA RedecideOutcomesType ==
  ASSUME TypeInv, NEW s \in Calls, NEW H \in SUBSET Frames, NEW r \in RedecideOutcomes(s, H)
  PROVE  Typed(r) /\ Typed(Queued(s, r))
BY DecisionsType, WakingsType, QueuedType DEF RedecideOutcomes, TypeInv

LEMMA CalledType ==
  ASSUME NEW s \in Calls, NEW q \in Stations, NEW t \in Everyone, NEW m \in Frames \cup {None}
  PROVE  Typed(Called(s, q, t, m))
<1> DEFINE start == [q EXCEPT !.on = TRUE, !.retry = None, !.target = t]
           meant == [start EXCEPT !.sent = t]
           reported == [meant EXCEPT !.rcvd = Report(m)]
<1>1. start \in Stations /\ meant \in Stations /\ start.target # None /\ meant.target # None
  BY QsoAssumption DEF Stations, Resumptions
<1>2. m \in Frames => /\ reported \in Stations /\ reported.target # None
                      /\ Noted(meant, m) \in Stations
  <2>1. m \in Frames => Report(m) \in Reports
    BY DEF Report, Reports, Frames
  <2>2. m \in Frames => reported \in Stations /\ reported.target # None
    BY <1>1, <2>1 DEF Stations
  <2> QED BY <1>1, <2>2, NotedType
<1> HIDE DEF start, meant, reported
<1>3. \A x \in {start, meant} : \A st \in States : Typed(ChangeState(x, st))
  BY <1>1, ChangeType DEF Typed
<1>4. m \in Frames => /\ Typed(ChangeState(reported, "TX3"))
                      /\ Typed(ChangeState(Noted(meant, m), "TX4"))
  BY <1>2, ChangeType DEF Typed, States
<1>5. \/ \E x \in {start, meant} : \E st \in States : Called(s, q, t, m) = ChangeState(x, st)
      \/ m # None /\ Called(s, q, t, m) \in {ChangeState(reported, "TX3"),
                                            ChangeState(Noted(meant, m), "TX4")}
  <2> DEFINE x == IF m = None THEN start ELSE meant
             plain == ChangeState(x, IF env.settings[s].skip THEN "TX2" ELSE "TX1")
  <2>1. CASE m = None \/ m.to # s
    <3>1. Called(s, q, t, m) = plain
      BY <2>1 DEF Called, start, meant
    <3> QED BY <3>1 DEF States
  <2>2. CASE ~(m = None \/ m.to # s)
    <3>1. m.kind \in Kinds
      BY <2>2 DEF Frames
    <3>2. /\ m.kind = "CQ" => Called(s, q, t, m) = plain
          /\ m.kind = "CALL" => Called(s, q, t, m) = ChangeState(meant, "TX2")
          /\ m.kind = "REPORT" => Called(s, q, t, m) = ChangeState(reported, "TX3")
          /\ m.kind = "ROGER" => Called(s, q, t, m) = ChangeState(Noted(meant, m), "TX4")
          /\ m.kind = "RRR" => Called(s, q, t, m) = ChangeState(meant, "TX5")
          /\ m.kind = "73" => Called(s, q, t, m) = ChangeState(meant, "TX6")
      BY <2>2 DEF Called, start, meant, reported
    <3> QED BY <2>2, <3>1, <3>2 DEF Kinds, States
  <2> QED BY <2>1, <2>2
<1> QED BY <1>3, <1>4, <1>5

(* What each action does to the station that takes it.                       *)
LEMMA SlotStartFacts ==
  ASSUME TypeInv, NEW s \in Calls, SlotStart(s)
  PROVE  /\ heard' \subseteq OnAir(s) \cup Stray(s) /\ heard' \in SUBSET Frames
         /\ Update(s, StartOutcomes(s, heard'))
<1>1. PICK H \in SUBSET OnAir(s), F \in OneStray(s) :
        heard' = H \cup F /\ Update(s, StartOutcomes(s, heard'))
  BY DEF SlotStart, StartOutcomes
<1> QED BY <1>1, HearType, OneStrayFacts

LEMMA RedecideFacts ==
  ASSUME TypeInv, NEW s \in Calls, Redecide(s)
  PROVE  /\ heard' \subseteq OnAir(s) \cup Stray(s) \cup heard /\ heard' \in SUBSET Frames
         /\ Update(s, IF turn.phase = "encoded"
                      THEN RedecideOutcomes(s, heard') \cup {Queued(s, r) : r \in RedecideOutcomes(s, heard')}
                      ELSE RedecideOutcomes(s, heard'))
         /\ \A r \in RedecideOutcomes(s, heard') : Typed(r) /\ Typed(Queued(s, r))
<1>1. PICK L \in SUBSET (OnAir(s) \ heard), F \in OneStray(s) :
        /\ heard' = heard \cup L \cup F
        /\ LET q == station[s]
               Replaced(r) == IF turn.phase = "encoded" /\ Text(s, r) # Text(s, q)
                              THEN Queued(s, r) ELSE r
           IN \/ q.on /\ Update(s, {Replaced(r) : r \in Redecisions(s, q, heard')})
              \/ ~q.on /\ Update(s, {Replaced(r) : r \in Wakings(s, q, heard')})
  BY DEF Redecide
<1>2. heard' \subseteq OnAir(s) \cup Stray(s) \cup heard /\ heard' \in SUBSET Frames
  BY <1>1, HearType, OneStrayFacts DEF TypeInv
<1> DEFINE Replaced(r) == IF turn.phase = "encoded" /\ Text(s, r) # Text(s, station[s])
                          THEN Queued(s, r) ELSE r
<1>3. Update(s, {Replaced(r) : r \in RedecideOutcomes(s, heard')})
  BY <1>1 DEF RedecideOutcomes
<1>4. PICK r \in RedecideOutcomes(s, heard') : station' = [station EXCEPT ![s] = Replaced(r)]
  BY <1>3 DEF Update
<1>5. Replaced(r) \in IF turn.phase = "encoded"
                      THEN RedecideOutcomes(s, heard') \cup {Queued(s, x) : x \in RedecideOutcomes(s, heard')}
                      ELSE RedecideOutcomes(s, heard')
  OBVIOUS
<1>6. Update(s, IF turn.phase = "encoded"
                THEN RedecideOutcomes(s, heard') \cup {Queued(s, x) : x \in RedecideOutcomes(s, heard')}
                ELSE RedecideOutcomes(s, heard'))
  BY <1>4, <1>5 DEF Update
<1> QED BY <1>2, <1>6, RedecideOutcomesType

LEMMA RequestFacts ==
  ASSUME TypeInv, NEW s \in Calls, RequestCall(s)
  PROVE  \E t \in Everyone, m \in heard \cup {None} :
           /\ m # None => m.from = t
           /\ User(s, \/ station[s].target # None \/ station[s].rcvd # None
                      \/ (m # None /\ m.kind = "73"))
           /\ \/ station'[s] = Called(s, station[s], t, m)
              \/ /\ turn.phase = "encoded"
                 /\ station'[s] = Queued(s, Called(s, station[s], t, m))
           /\ Update(s, {Called(s, station[s], t, m), Queued(s, Called(s, station[s], t, m))})
           /\ Typed(Called(s, station[s], t, m)) /\ Typed(Queued(s, Called(s, station[s], t, m)))
<1>1. PICK t \in Everyone, m \in heard \cup {None} :
        /\ m # None => m.from = t
        /\ User(s, \/ station[s].target # None \/ station[s].rcvd # None
                   \/ (m # None /\ m.kind = "73"))
        /\ Update(s, {IF turn.phase = "encoded" /\ m # None
                      THEN Queued(s, Called(s, station[s], t, m)) ELSE Called(s, station[s], t, m)})
  BY DEF RequestCall
<1> DEFINE r == Called(s, station[s], t, m)
<1>2. Typed(r) /\ Typed(Queued(s, r))
  BY CalledType, QueuedType DEF TypeInv
<1>3. station[s] \in Stations /\ station \in [Calls -> Stations]
  BY DEF TypeInv
<1> HIDE DEF r
<1>4. PICK x : x = (IF turn.phase = "encoded" /\ m # None THEN Queued(s, r) ELSE r)
  OBVIOUS
<1>5. station' = [station EXCEPT ![s] = x]
  BY <1>1, <1>4 DEF Update, r
<1>6. station'[s] = x
  BY <1>3, <1>5
<1>7. Update(s, {r, Queued(s, r)})
  BY <1>4, <1>5 DEF Update
<1>8. station'[s] = r \/ (turn.phase = "encoded" /\ station'[s] = Queued(s, r))
  BY <1>4, <1>6
<1> QED BY <1>1, <1>2, <1>7, <1>8 DEF r

LEMMA SetType ==
  ASSUME NEW s \in Calls, NEW q \in Stations, NEW st \in States
  PROVE  Typed([q EXCEPT !.state = st, !.queued = FALSE,
                  !.retry = IF st = "TX6" THEN @ ELSE None, !.aired = FALSE])
<1> DEFINE ret == IF st = "TX6" THEN q.retry ELSE None
           r == [q EXCEPT !.state = st, !.queued = FALSE, !.retry = ret, !.aired = FALSE]
<1>1. ret \in Resumptions
  BY DEF Stations, Resumptions
<1> HIDE DEF ret
<1>2. r \in Stations /\ ~r.queued
  BY <1>1 DEF Stations
<1>3. r = [q EXCEPT !.state = st, !.queued = FALSE,
             !.retry = IF st = "TX6" THEN @ ELSE None, !.aired = FALSE]
  BY DEF ret
<1> QED BY <1>2, <1>3 DEF Typed

LEMMA ResetType ==
  ASSUME NEW q \in Stations
  PROVE  Typed(ChangeState([ClearContext(q) EXCEPT !.retry = None, !.attempts = 0], "TX6"))
<1> DEFINE r == [ClearContext(q) EXCEPT !.retry = None, !.attempts = 0]
<1>1. ClearContext(q) \in Stations
  BY ClearType
<1>2. None \in Resumptions /\ 0 \in 0..(MaxAttempts - 1)
  BY QsoAssumption DEF Resumptions
<1> HIDE DEF ClearContext
<1>3. r \in Stations
  BY <1>1, <1>2 DEF Stations
<1> QED BY <1>3, ChangeType DEF Typed, States

LEMMA SwitchedType ==
  ASSUME NEW q, Typed(q)
  PROVE  Typed([q EXCEPT !.on = ~@])
<1>1. CASE q.on
  BY <1>1 DEF Typed, Stations
<1>2. CASE ~q.on
  BY <1>2 DEF Typed, Stations
<1> QED BY <1>1, <1>2

LEMMA CountedType ==
  ASSUME NEW q \in Stations
  PROVE  Counted(q.gate) \in Gates /\ Counted(q.retry) \in Resumptions
<1>1. ASSUME NEW x, NEW y \in 0..2, x.left = y, y # 0
      PROVE  Counted(x) \in {None, [x EXCEPT !.left = y - 1]} /\ y - 1 \in 0..2
  BY <1>1 DEF Counted
<1>2. ASSUME NEW x, x = None \/ x.left = 0 PROVE Counted(x) = None
  BY <1>2 DEF Counted
<1>3. None \in Gates /\ None \in Resumptions
  BY DEF Gates, Resumptions
<1>4. ASSUME NEW g \in [not : Everyone, left : 0..2] PROVE Counted(g) \in Gates
  <2>1. CASE g.left = 0
    BY <1>2, <1>3, <2>1
  <2>2. CASE g.left # 0
    <3>1. g.left \in 0..2
      OBVIOUS
    <3>2. Counted(g) \in {None, [g EXCEPT !.left = g.left - 1]} /\ g.left - 1 \in 0..2
      BY <1>1, <2>2, <3>1
    <3> QED BY <1>3, <3>2 DEF Gates
  <2> QED BY <2>1, <2>2
<1>5. ASSUME NEW r \in [target : Everyone, sent : Everyone \cup {None},
                       rcvd : Reports \cup {None}, left : 0..2]
      PROVE  Counted(r) \in Resumptions
  <2>1. CASE r.left = 0
    BY <1>2, <1>3, <2>1
  <2>2. CASE r.left # 0
    <3>1. r.left \in 0..2
      OBVIOUS
    <3>2. Counted(r) \in {None, [r EXCEPT !.left = r.left - 1]} /\ r.left - 1 \in 0..2
      BY <1>1, <2>2, <3>1
    <3> QED BY <1>3, <3>2 DEF Resumptions
  <2> QED BY <2>1, <2>2
<1>6. Counted(None) = None
  BY <1>2
<1>7. q.gate \in [not : Everyone, left : 0..2] \cup {None}
  BY DEF Stations, Gates
<1>8. q.retry \in Resumptions
  BY DEF Stations
<1>9. Counted(q.gate) \in Gates
  BY <1>3, <1>4, <1>6, <1>7
<1>10. Counted(q.retry) \in Resumptions
  BY <1>3, <1>5, <1>6, <1>8 DEF Resumptions
<1> QED BY <1>9, <1>10

(* What a slot's end leaves of a station's record.                           *)
Ended(t, q) ==
    [q EXCEPT !.gate = Counted(@), !.retry = Counted(@),
              !.aired = @ \/ (Sends(t, q) /\ q.state = "TX5")]

LEMMA EndedType ==
  ASSUME NEW t \in Calls, NEW q, Typed(q)
  PROVE  Typed(Ended(t, q))
<1> DEFINE aired == q.aired \/ (Sends(t, q) /\ q.state = "TX5")
<1>1. Ended(t, q) = [q EXCEPT !.gate = Counted(q.gate), !.retry = Counted(q.retry), !.aired = aired]
  BY DEF Ended
<1>2. aired \in BOOLEAN /\ q \in Stations
  BY DEF Typed
<1> HIDE DEF aired
<1>3. Ended(t, q) \in Stations /\ Ended(t, q).queued = q.queued /\ Ended(t, q).target = q.target
  BY <1>1, <1>2, CountedType DEF Stations
<1> QED BY <1>3 DEF Typed

LEMMA TickFacts ==
  ASSUME TypeInv, NEW s \in Calls, Tick(s)
  PROVE  /\ station' = [t \in Calls |-> Ended(t, station[t])]
         /\ station' \in [Calls -> Stations] /\ \A t \in Calls : Typed(station'[t])
         /\ air' \in [Calls -> Frames \cup {None}]
         /\ \A t \in Calls : air'[t] # None =>
              Sends(t, station[t]) /\ air'[t] = Text(t, station[t])
<1>1. station' = [t \in Calls |-> Ended(t, station[t])]
  BY DEF Tick, Ended
<1>2. \A t \in Calls : Typed(station'[t])
  BY <1>1, EndedType DEF TypeInv
<1>3. station' \in [Calls -> Stations]
  BY <1>1, <1>2 DEF Typed
<1>4. air' = [t \in Calls |-> IF Sends(t, station[t]) THEN Text(t, station[t]) ELSE None]
  BY DEF Tick
<1>5. \A t \in Calls : Text(t, station[t]) \in Frames
  BY TextType DEF TypeInv
<1> QED BY <1>1, <1>2, <1>3, <1>4, <1>5

LEMMA TypeNext == TypeInv /\ [Next]_vars => TypeInv'
<1> SUFFICES ASSUME TypeInv, [Next]_vars PROVE TypeInv'
  OBVIOUS
<1>1. ASSUME NEW s \in Calls, SlotStart(s) PROVE TypeInv'
  <2>1. station' \in [Calls -> Stations] /\ \A t \in Calls : Typed(station'[t])
    BY <1>1, SlotStartFacts, StartOutcomesType, UpdateType
  <2> QED BY <1>1, <2>1, SlotStartFacts, PhaseType DEF SlotStart, TypeInv
<1>2. ASSUME NEW s \in Calls, EncodeStart(s) PROVE TypeInv'
  <2>1. station' \in [Calls -> Stations] /\ \A t \in Calls : Typed(station'[t])
    <3>1. Typed(Queued(s, station[s]))
      BY QueuedType DEF TypeInv
    <3> QED BY <1>2, <3>1, UpdateType DEF EncodeStart
  <2> QED BY <1>2, <2>1, PhaseType DEF EncodeStart, TypeInv
<1>3. ASSUME NEW s \in Calls, Redecide(s) PROVE TypeInv'
  <2>1. station' \in [Calls -> Stations] /\ \A t \in Calls : Typed(station'[t])
    <3> DEFINE O == IF turn.phase = "encoded"
                    THEN RedecideOutcomes(s, heard') \cup {Queued(s, r) : r \in RedecideOutcomes(s, heard')}
                    ELSE RedecideOutcomes(s, heard')
    <3>1. Update(s, O) /\ \A r \in O : Typed(r)
      BY <1>3, RedecideFacts
    <3> HIDE DEF O
    <3> QED BY <3>1, UpdateType
  <2> QED BY <1>3, <2>1, RedecideFacts DEF Redecide, TypeInv
<1>4. ASSUME NEW s \in Calls, NextTurn(s) PROVE TypeInv'
  <2>1. turn' \in [at : 1..Cardinality(Calls), phase : {"start", "decided", "encoded"}]
    BY <1>4, CallsFacts DEF NextTurn, TypeInv
  <2> QED BY <1>4, <2>1 DEF NextTurn, TypeInv
<1>5. ASSUME NEW s \in Calls, Tick(s) PROVE TypeInv'
  <2>1. turn' \in [at : 1..Cardinality(Calls), phase : {"start", "decided", "encoded"}]
    BY <1>5, CallsFacts DEF Tick
  <2>2. parity' \in {0, 1}
    <3>1. parity' = 1 - parity /\ parity \in {0, 1}
      BY <1>5 DEF Tick, TypeInv
    <3> QED BY <3>1
  <2> QED BY <1>5, <2>1, <2>2, TickFacts DEF Tick, TypeInv
<1>6. ASSUME NEW s \in Calls, Acts(s) PROVE TypeInv'
  <2>1. station' \in [Calls -> Stations] /\ \A t \in Calls : Typed(station'[t])
    <3>1. station[s] \in Stations /\ Typed(station[s])
      BY DEF TypeInv
    <3>2. CASE RequestCall(s)
      BY <3>2, RequestFacts, UpdateType
    <3>3. CASE SetState(s)
      <4>1. PICK st \in States :
              Update(s, {[station[s] EXCEPT !.state = st, !.queued = FALSE,
                            !.retry = IF st = "TX6" THEN @ ELSE None, !.aired = FALSE]})
        BY <3>3 DEF SetState, States
      <4>2. Typed([station[s] EXCEPT !.state = st, !.queued = FALSE,
                     !.retry = IF st = "TX6" THEN @ ELSE None, !.aired = FALSE])
        BY <3>1, SetType
      <4> QED BY <4>1, <4>2, UpdateType
    <3>4. CASE Switch(s)
      BY <3>1, <3>4, SwitchedType, UpdateType DEF Switch
    <3>5. CASE Reset(s)
      BY <3>1, <3>5, ResetType, UpdateType DEF Reset
    <3> QED BY <1>6, <3>2, <3>3, <3>4, <3>5 DEF Acts
  <2>2. \E hold : User(s, hold)
    BY <1>6 DEF Acts, RequestCall, SetState, Switch, Reset
  <2>3. events' \in 0..env.events
    BY <2>2, ScenarioFacts DEF User, TypeInv
  <2> QED BY <2>1, <2>2, <2>3 DEF User, TypeInv
<1>7. CASE UNCHANGED vars
  BY <1>7 DEF vars, TypeInv
<1> QED BY <1>1, <1>2, <1>3, <1>4, <1>5, <1>6, <1>7 DEF Next, Slot

(* Types are as they are said to be.                                         *)
THEOREM TypeCorrect == Spec => []TypeOK
<1>1. TypeInv => TypeOK
  <2> SUFFICES ASSUME TypeInv PROVE TypeOK
    OBVIOUS
  <2>1. ASSUME NEW s \in Calls
        PROVE  LET q == station[s] IN
               /\ {q.on, q.queued, q.aired} \subseteq BOOLEAN
               /\ q.gate \in [not : Everyone, left : 0..2] \cup {None}
               /\ q.state \in {"TX1", "TX2", "TX3", "TX4", "TX5", "TX6"}
               /\ q.target \in Everyone \cup {None}
               /\ [sent |-> q.sent, rcvd |-> q.rcvd] \in Contexts
               /\ q.timeouts \in 0..MaxTimeouts /\ q.attempts \in 0..(MaxAttempts - 1)
               /\ q.retry \in [target : Everyone, sent : Everyone \cup {None},
                               rcvd : Reports \cup {None}, left : 0..2] \cup {None}
               /\ {q.log, q.cache} \subseteq [Everyone -> Contexts \cup {None}]
               /\ q.assured \subseteq Everyone
    <3>1. station[s] \in Stations
      BY DEF TypeInv
    <3> QED BY <3>1 DEF Stations, States, Gates, Resumptions, Known, Contexts
  <2> QED BY <2>1 DEF TypeInv, TypeOK
<1> QED BY TypeInit, TypeNext, <1>1, PTL DEF Spec

-----------------------------------------------------------------------------
(* Records that are in order, if users in M only took hold of contacts.      *)
OwnIn(M, s, t, c) ==
    /\ c.sent \in {t, None}
    /\ c.rcvd # None => c.rcvd.by = t /\ (t \in M \/ c.rcvd.of \in {s, None})
Holds(M, s, q) ==
    /\ q.target # None => OwnIn(M, s, q.target, q)
    /\ q.target = None => q.sent = None /\ q.rcvd = None
    /\ q.retry # None => OwnIn(M, s, q.retry.target, q.retry) /\ q.retry.target \in q.assured
    /\ \A t \in Everyone : /\ q.log[t] # None => OwnIn(M, s, t, q.log[t])
                           /\ q.cache[t] # None => OwnIn(M, s, t, q.cache[t])
Sane(M, s, q) ==
    /\ Holds(M, s, q)
    /\ q.state = "TX6" <=> q.target = None
    /\ q.state \in {"TX4", "TX5"} => q.log[q.target] # None
    /\ q.state = "TX5" => q.target \in q.assured

(* A log only grows, and only an acknowledgement assures of a contact.       *)
Assurance(s, t, m) == m.from = t /\ m.to = s /\ m.kind \in {"RRR", "73"}
Grows(s, q, r, H) ==
    /\ \A t \in Everyone : q.log[t] # None => r.log[t] # None
    /\ \A t \in r.assured \ q.assured : \E m \in H : Assurance(s, t, m)

(* A 73 that is asked for is not forgotten.                                  *)
Parts(q, r) ==
    /\ q.state = "TX5" /\ r.state # "TX5" => q.queued
    /\ r.state = "TX5" /\ r.queued =>
         q.state = "TX5" /\ q.queued /\ (q.aired => r.aired) /\ (q.on => r.on)

Same(q, r) ==
    /\ r.state = q.state /\ r.target = q.target /\ r.sent = q.sent /\ r.rcvd = q.rcvd
    /\ r.retry = q.retry /\ r.log = q.log /\ r.cache = q.cache /\ r.assured = q.assured

LEMMA SaneSame ==
  ASSUME NEW M, NEW s, NEW q, NEW r, Sane(M, s, q), Same(q, r)
  PROVE  Sane(M, s, r)
BY DEF Sane, Holds, OwnIn, Same

LEMMA LoggedOwn ==
  ASSUME NEW M, NEW s, NEW q \in Stations, Holds(M, s, q), NEW t \in Everyone,
         Logged(q)[t] # None
  PROVE  OwnIn(M, s, t, Logged(q)[t])
<1>1. CASE t # q.target
  BY <1>1, LoggedType DEF Holds
<1>2. CASE t = q.target
  <2> DEFINE old == IF q.log[t] = None THEN Blank ELSE q.log[t]
             new == [sent |-> IF q.sent # None THEN q.sent ELSE old.sent,
                     rcvd |-> IF q.rcvd # None THEN q.rcvd ELSE old.rcvd]
  <2>1. Logged(q) = [q.log EXCEPT ![t] = new]
    BY <1>2 DEF Logged
  <2>2. Logged(q)[t] = new
    BY <2>1 DEF Stations
  <2>3. OwnIn(M, s, t, old)
    BY DEF Holds, OwnIn, Blank
  <2>4. OwnIn(M, s, t, q)
    BY <1>2, QsoAssumption DEF Holds
  <2> HIDE DEF old
  <2>5. OwnIn(M, s, t, new)
    BY <2>3, <2>4 DEF OwnIn
  <2> QED BY <2>2, <2>5
<1> QED BY <1>1, <1>2

LEMMA ChangeSane ==
  ASSUME NEW M, NEW s, NEW q \in Stations, NEW st \in States, Holds(M, s, q),
         st = "TX6" <=> q.target = None
  PROVE  LET r == ChangeState(q, st) IN
         /\ Sane(M, s, r)
         /\ \A t \in Everyone : q.log[t] # None => r.log[t] # None
         /\ r.assured = IF st = "TX5" THEN q.assured \cup {q.target} ELSE q.assured
         /\ r.state = st /\ ~r.queued
<1> DEFINE r == ChangeState(q, st)
<1>1. st = "TX5" => q.target # None
  OBVIOUS
<1>2. /\ r \in Stations
      /\ r.state = st /\ r.cache = q.cache
      /\ r.target = q.target /\ r.sent = q.sent /\ r.rcvd = q.rcvd
      /\ ~r.queued /\ ~r.aired
      /\ r.log = IF st \in {"TX4", "TX5"} THEN Logged(q) ELSE q.log
      /\ r.retry = IF st \in {"TX5", "TX6"} THEN q.retry ELSE None
      /\ r.assured = IF st = "TX5" THEN q.assured \cup {q.target} ELSE q.assured
  BY <1>1, ChangeType
<1> HIDE DEF r
<1>3. \A t \in Everyone : r.log[t] # None => OwnIn(M, s, t, r.log[t])
  <2>1. CASE st \in {"TX4", "TX5"}
    BY <1>2, <2>1, LoggedOwn
  <2>2. CASE st \notin {"TX4", "TX5"}
    BY <1>2, <2>2 DEF Holds
  <2> QED BY <2>1, <2>2
<1>4. \A t \in Everyone : q.log[t] # None => r.log[t] # None
  <2>1. CASE st \in {"TX4", "TX5"}
    BY <1>2, <2>1, LoggedType
  <2>2. CASE st \notin {"TX4", "TX5"}
    BY <1>2, <2>2
  <2> QED BY <2>1, <2>2
<1>5. st \in {"TX4", "TX5"} => r.log[r.target] # None
  BY <1>2, LoggedType
<1>6. /\ r.target # None => OwnIn(M, s, r.target, r)
      /\ r.target = None => r.sent = None /\ r.rcvd = None
  BY <1>2 DEF Holds, OwnIn
<1>7. r.retry # None => OwnIn(M, s, r.retry.target, r.retry) /\ r.retry.target \in r.assured
  BY <1>2 DEF Holds
<1>8. \A t \in Everyone : r.cache[t] # None => OwnIn(M, s, t, r.cache[t])
  BY <1>2 DEF Holds
<1>9. Holds(M, s, r)
  BY <1>3, <1>6, <1>7, <1>8 DEF Holds
<1>10. Sane(M, s, r)
  BY <1>2, <1>5, <1>9 DEF Sane
<1> QED BY <1>2, <1>4, <1>10 DEF r

LEMMA ClearHolds ==
  ASSUME NEW M, NEW s, NEW q \in Stations, Holds(M, s, q)
  PROVE  LET r == ClearContext(q) IN
         /\ r \in Stations /\ Holds(M, s, r) /\ r.target = None
         /\ r.log = q.log /\ r.assured = q.assured /\ r.state = q.state
<1> DEFINE r == ClearContext(q)
<1>1. /\ r \in Stations
      /\ r = [q EXCEPT !.cache = r.cache, !.target = None, !.sent = None, !.rcvd = None]
      /\ \A t \in Everyone : r.cache[t] = IF t = q.target THEN [sent |-> q.sent, rcvd |-> q.rcvd]
                                          ELSE q.cache[t]
  BY ClearType
<1> HIDE DEF r
<1>2. /\ r.target = None /\ r.sent = None /\ r.rcvd = None /\ r.log = q.log
      /\ r.assured = q.assured /\ r.retry = q.retry /\ r.state = q.state
  BY <1>1 DEF Stations
<1>3. ASSUME NEW t \in Everyone, r.cache[t] # None PROVE OwnIn(M, s, t, r.cache[t])
  <2>1. CASE t = q.target
    <3>1. r.cache[t] = [sent |-> q.sent, rcvd |-> q.rcvd] /\ OwnIn(M, s, t, q)
      BY <1>1, <2>1, QsoAssumption DEF Holds
    <3> QED BY <3>1 DEF OwnIn
  <2>2. CASE t # q.target
    BY <1>1, <1>3, <2>2 DEF Holds
  <2> QED BY <2>1, <2>2
<1>4. Holds(M, s, r)
  BY <1>2, <1>3 DEF Holds
<1> QED BY <1>1, <1>2, <1>4 DEF r

LEMMA RetargetHolds ==
  ASSUME NEW M, NEW s, NEW q \in Stations, Holds(M, s, q), NEW t \in Everyone,
         NEW now \in Contexts, OwnIn(M, s, t, now)
  PROVE  LET r == Retarget(q, t, now) IN
         /\ r \in Stations /\ Holds(M, s, r) /\ r.target = t /\ r.target # None
         /\ r.log = q.log /\ r.assured = q.assured /\ r.state = q.state
<1> DEFINE r == Retarget(q, t, now)
<1>1. /\ r \in Stations
      /\ r.target = t /\ r.log = q.log /\ r.cache = q.cache /\ r.state = q.state
      /\ r.assured = q.assured /\ r.retry = q.retry
      /\ \/ r.sent = now.sent /\ r.rcvd = now.rcvd
         \/ /\ q.cache[t] # None
            /\ r.sent = q.cache[t].sent /\ r.rcvd = q.cache[t].rcvd
  BY RetargetType
<1> HIDE DEF r
<1>3. OwnIn(M, s, t, r)
  BY <1>1 DEF Holds, OwnIn
<1>4. t # None
  BY QsoAssumption
<1>5. Holds(M, s, r)
  BY <1>1, <1>3, <1>4 DEF Holds
<1> QED BY <1>1, <1>4, <1>5 DEF r

(* Outcomes that are in order, and those that in addition end or begin a     *)
(* state of their own.                                                       *)
Fine(M, s, q, r, H) == Sane(M, s, r) /\ Grows(s, q, r, H) /\ Parts(q, r)
Fresh(M, s, q, r) ==
    /\ Sane(M, s, r)
    /\ \A t \in Everyone : q.log[t] # None => r.log[t] # None
    /\ r.assured = q.assured /\ ~r.queued

LEMMA FreshFine ==
  ASSUME NEW M, NEW s, NEW q, NEW r, NEW H, Fresh(M, s, q, r), q.state = "TX5" => q.queued
  PROVE  Fine(M, s, q, r, H)
BY DEF Fresh, Fine, Grows, Parts

LEMMA SelfFine ==
  ASSUME NEW M, NEW s, NEW q, NEW H, Sane(M, s, q)
  PROVE  Fine(M, s, q, q, H)
BY DEF Fine, Grows, Parts

FrameOk(M, m) == m.from \in M \/ m.of \in {m.to, None}

LEMMA ReportOwn ==
  ASSUME NEW M, NEW s, NEW m, m.to = s, FrameOk(M, m)
  PROVE  /\ Report(m).by = m.from
         /\ m.from \in M \/ Report(m).of \in {s, None}
BY DEF Report, FrameOk

LEMMA AnswerFresh ==
  ASSUME NEW M, NEW s \in Calls, NEW q \in Stations, Holds(M, s, q),
         NEW m \in Frames, m.to = s, FrameOk(M, m)
  PROVE  Fresh(M, s, q, Answer(q, m))
<1> DEFINE now == [sent |-> m.from, rcvd |-> IF m.kind = "REPORT" THEN Report(m) ELSE None]
           c == ClearContext(q)
           r == Retarget(c, m.from, now)
<1>1. now \in Contexts /\ m.from \in Everyone
  BY DEF Contexts, Frames, Report, Reports
<1>2. OwnIn(M, s, m.from, now)
  BY ReportOwn DEF OwnIn
<1> HIDE DEF now
<1>3. c \in Stations /\ Holds(M, s, c) /\ c.log = q.log /\ c.assured = q.assured
  BY ClearHolds
<1> HIDE DEF c
<1>4. /\ r \in Stations /\ Holds(M, s, r) /\ r.target # None
      /\ r.log = q.log /\ r.assured = q.assured
  BY <1>1, <1>2, <1>3, RetargetHolds
<1>5. \E st \in {"TX2", "TX3"} : Answer(q, m) = ChangeState(r, st)
  BY DEF Answer, c, now
<1> HIDE DEF r
<1> QED BY <1>4, <1>5, ChangeSane DEF Fresh, States

LEMMA FailedFresh ==
  ASSUME NEW M, NEW s \in Calls, NEW q \in Stations, Holds(M, s, q)
  PROVE  Fresh(M, s, q, Failed(s, q)) /\ Failed(s, q).state = "TX6"
<1> DEFINE c == ClearContext(q)
           r == ChangeState(c, "TX6")
<1>1. /\ c \in Stations /\ Holds(M, s, c) /\ c.target = None
      /\ c.log = q.log /\ c.assured = q.assured
  BY ClearHolds
<1> HIDE DEF c
<1>2. Fresh(M, s, q, r) /\ r \in Stations /\ r.state = "TX6"
  BY <1>1, ChangeSane, ChangeType DEF Fresh, States
<1>3. Failed(s, q) = [r EXCEPT !.on = r.on /\ env.settings[s].afterFail]
  BY DEF Failed, c
<1> HIDE DEF r
<1> DEFINE f == [r EXCEPT !.on = r.on /\ env.settings[s].afterFail]
<1>4. Same(r, f) /\ f.queued = r.queued
  BY <1>2 DEF Same, Stations
<1> HIDE DEF f
<1>5. Fresh(M, s, q, f) /\ f.state = "TX6"
  BY <1>2, <1>4, SaneSame DEF Fresh, Same
<1> QED BY <1>3, <1>5 DEF f

LEMMA CompletedFresh ==
  ASSUME NEW M, NEW s \in Calls, NEW q \in Stations, Holds(M, s, q)
  PROVE  Fresh(M, s, q, Completed(s, q)) /\ Completed(s, q).state = "TX6"
<1> DEFINE c == ClearContext(q)
           r == ChangeState(c, "TX6")
           gate == [not |-> q.target, left |-> 2]
           f == [r EXCEPT !.on = FALSE, !.gate = gate]
<1>1. /\ c \in Stations /\ Holds(M, s, c) /\ c.target = None
      /\ c.log = q.log /\ c.assured = q.assured
  BY ClearHolds
<1> HIDE DEF c
<1>2. Fresh(M, s, q, r) /\ r \in Stations /\ r.state = "TX6"
  BY <1>1, ChangeSane, ChangeType DEF Fresh, States
<1>3. Completed(s, q) = IF env.settings[s].afterSuccess THEN r ELSE f
  BY DEF Completed, c
<1> HIDE DEF r, gate
<1>4. Same(r, f) /\ f.queued = r.queued
  BY <1>2 DEF Same, Stations
<1> HIDE DEF f
<1>5. Fresh(M, s, q, f) /\ f.state = "TX6"
  BY <1>2, <1>4, SaneSame DEF Fresh, Same
<1> QED BY <1>2, <1>3, <1>5

LEMMA SignedOffFresh ==
  ASSUME NEW M, NEW s \in Calls, NEW q \in Stations, Holds(M, s, q), q.target \in q.assured
  PROVE  Fresh(M, s, q, SignedOff(s, q)) /\ SignedOff(s, q).state = "TX6"
<1> DEFINE ret == IF env.settings[s].afterSuccess
                  THEN [target |-> q.target, sent |-> q.sent, rcvd |-> q.rcvd, left |-> 2]
                  ELSE None
           r == [q EXCEPT !.retry = ret]
<1>1. q.target \in Everyone /\ q.target # None
  BY QsoAssumption DEF Stations
<1>2. ret \in Resumptions
  BY <1>1 DEF Resumptions, Stations
<1>3. ret # None => OwnIn(M, s, ret.target, ret) /\ ret.target \in q.assured
  BY <1>1 DEF Holds, OwnIn
<1> HIDE DEF ret
<1>4. /\ r \in Stations /\ r.retry = ret /\ r.target = q.target /\ r.sent = q.sent
      /\ r.rcvd = q.rcvd /\ r.log = q.log /\ r.cache = q.cache /\ r.assured = q.assured
  BY <1>2 DEF Stations
<1>5. SignedOff(s, q) = Completed(s, r)
  BY DEF SignedOff, ret
<1> HIDE DEF r
<1>6. Holds(M, s, r)
  BY <1>3, <1>4 DEF Holds, OwnIn
<1> QED BY <1>4, <1>5, <1>6, CompletedFresh DEF Fresh

LEMMA SwitchFine ==
  ASSUME NEW M, NEW s \in Calls, NEW q \in Stations, Holds(M, s, q), q.state = "TX5" => q.queued,
         NEW H \in SUBSET Frames, \A m \in H : FrameOk(M, m),
         NEW not, NEW other, Fine(M, s, q, other, H),
         NEW r \in SwitchOr(s, q, H, not, other)
  PROVE  Fine(M, s, q, r, H)
<1>1. r = other \/ \E m \in Direct(s, H) : r = Answer(q, m)
  BY DEF SwitchOr
<1>2. ASSUME NEW m \in Direct(s, H) PROVE Fine(M, s, q, Answer(q, m), H)
  BY DirectFacts, AnswerFresh, FreshFine
<1> QED BY <1>1, <1>2

LEMMA CallingFine ==
  ASSUME NEW M, NEW s \in Calls, NEW q, Typed(q), Sane(M, s, q), q.state = "TX1",
         NEW H \in SUBSET Frames, \A m \in H : FrameOk(M, m), NEW r \in Calling(s, q, H)
  PROVE  Fine(M, s, q, r, H)
<1> DEFINE Replied(m) == [q EXCEPT !.rcvd = Report(m), !.sent = m.from]
<1>1. \/ r = q \/ \E m \in Direct(s, H) : r = Answer(q, m)
      \/ \E m \in FromTarget(s, q, H, {"REPORT", "ROGER"}) :
            \E st \in {"TX3", "TX4"} : r = ChangeState(Replied(m), st)
  BY DEF Calling
<1>2. q \in Stations /\ Holds(M, s, q)
  BY DEF Typed, Sane
<1>3. ASSUME NEW m \in Direct(s, H), r = Answer(q, m) PROVE Fine(M, s, q, r, H)
  BY <1>2, <1>3, DirectFacts, AnswerFresh, FreshFine
<1>4. ASSUME NEW m \in FromTarget(s, q, H, {"REPORT", "ROGER"}), NEW st \in {"TX3", "TX4"},
             r = ChangeState(Replied(m), st)
      PROVE  Fine(M, s, q, r, H)
  <2>1. /\ m \in Frames /\ m.to = s /\ FrameOk(M, m) /\ m.from = q.target
        /\ q.target \in Everyone /\ q.target # None
    BY <1>2, <1>4, FromTargetFacts, QsoAssumption
  <2> DEFINE x == Replied(m)
  <2>2. Report(m) \in Reports
    BY <2>1 DEF Report, Reports, Frames
  <2>3. /\ x \in Stations /\ x.target = q.target /\ x.sent = q.target /\ x.rcvd = Report(m)
        /\ x.log = q.log /\ x.cache = q.cache /\ x.assured = q.assured /\ x.retry = q.retry
    BY <1>2, <2>1, <2>2 DEF Stations
  <2> HIDE DEF x
  <2>4. OwnIn(M, s, x.target, x)
    BY <2>1, <2>3, ReportOwn DEF OwnIn
  <2>5. Holds(M, s, x)
    BY <1>2, <2>1, <2>3, <2>4 DEF Holds
  <2>6. Fresh(M, s, q, ChangeState(x, st))
    BY <2>1, <2>3, <2>5, ChangeSane DEF Fresh, States
  <2> QED BY <1>4, <2>6, FreshFine DEF x
<1> QED BY <1>1, <1>3, <1>4, SelfFine

LEMMA NotedHolds ==
  ASSUME NEW M, NEW s \in Calls, NEW q \in Stations, Holds(M, s, q),
         NEW m \in Frames, m.to = s, FrameOk(M, m), m.from = q.target
  PROVE  Holds(M, s, Noted(q, m)) /\ q.target # None
<1>1. q.target # None
  BY QsoAssumption DEF Frames
<1>2. OwnIn(M, s, q.target, Noted(q, m))
  BY <1>1, NotedType, ReportOwn DEF OwnIn, Holds
<1> QED BY <1>1, <1>2, NotedType DEF Holds

LEMMA ReportingFine ==
  ASSUME NEW M, NEW s \in Calls, NEW q, Typed(q), Sane(M, s, q), q.state = "TX2",
         NEW H \in SUBSET Frames, \A m \in H : FrameOk(M, m), NEW r \in Reporting(s, q, H)
  PROVE  Fine(M, s, q, r, H)
<1>1. \/ r = q
      \/ \E m \in FromTarget(s, q, H, {"ROGER", "REPORT"}) : r = ChangeState(Noted(q, m), "TX4")
  BY DEF Reporting
<1>2. q \in Stations /\ Holds(M, s, q)
  BY DEF Typed, Sane
<1>3. ASSUME NEW m \in FromTarget(s, q, H, {"ROGER", "REPORT"}),
             r = ChangeState(Noted(q, m), "TX4")
      PROVE  Fine(M, s, q, r, H)
  <2>1. m \in Frames /\ m.to = s /\ FrameOk(M, m) /\ m.from = q.target
    BY <1>2, <1>3, FromTargetFacts
  <2>2. /\ Noted(q, m) \in Stations /\ Holds(M, s, Noted(q, m))
        /\ Noted(q, m).target # None
        /\ Noted(q, m).log = q.log /\ Noted(q, m).assured = q.assured
    BY <1>2, <2>1, NotedHolds, NotedType
  <2>3. Fresh(M, s, q, r)
    BY <1>3, <2>2, ChangeSane DEF Fresh, States
  <2> QED BY <2>3, FreshFine
<1> QED BY <1>1, <1>3, SelfFine

(* An acknowledgement ends what is due of the contact but the 73.            *)
LEMMA AssuredFine ==
  ASSUME NEW M, NEW s \in Calls, NEW q, Typed(q), Sane(M, s, q), q.state \in {"TX3", "TX4"},
         NEW H \in SUBSET Frames, FromTarget(s, q, H, {"RRR", "73"}) # {}
  PROVE  Fine(M, s, q, ChangeState(q, "TX5"), H)
<1> DEFINE r == ChangeState(q, "TX5")
<1>1. q \in Stations /\ Holds(M, s, q)
  BY DEF Typed, Sane
<1>2. PICK m \in H : Assurance(s, q.target, m)
  BY <1>1, FromTargetFacts DEF Assurance
<1>3. q.target # None
  BY <1>1, FromTargetFacts, QsoAssumption
<1>4. /\ Sane(M, s, r) /\ ~r.queued
      /\ \A t \in Everyone : q.log[t] # None => r.log[t] # None
      /\ r.assured = q.assured \cup {q.target}
  BY <1>1, <1>3, ChangeSane DEF States
<1> HIDE DEF r
<1>5. Grows(s, q, r, H)
  BY <1>2, <1>4 DEF Grows
<1>6. Fine(M, s, q, r, H)
  BY <1>4, <1>5 DEF Fine, Parts
<1> QED BY <1>6 DEF r

LEMMA RogeringFine ==
  ASSUME NEW M, NEW s \in Calls, NEW q, Typed(q), Sane(M, s, q), q.state = "TX3",
         NEW H \in SUBSET Frames, \A m \in H : FrameOk(M, m), NEW r \in Rogering(s, q, H)
  PROVE  Fine(M, s, q, r, H)
<1>1. q \in Stations /\ Holds(M, s, q)
  BY DEF Typed, Sane
<1>2. \/ r = q
      \/ FromTarget(s, q, H, {"RRR", "73"}) # {} /\ r = ChangeState(q, "TX5")
      \/ \E m \in FromTarget(s, q, H, {"REPORT"}) : r = Noted(q, m)
  BY DEF Rogering
<1>3. ASSUME NEW m \in FromTarget(s, q, H, {"REPORT"}), r = Noted(q, m)
      PROVE  Fine(M, s, q, r, H)
  <2>1. m \in Frames /\ m.to = s /\ FrameOk(M, m) /\ m.from = q.target
    BY <1>1, <1>3, FromTargetFacts
  <2>2. Holds(M, s, r) /\ q.target # None
    BY <1>1, <1>3, <2>1, NotedHolds
  <2>3. /\ r.state = q.state /\ r.target = q.target /\ r.log = q.log
        /\ r.assured = q.assured /\ r.queued = q.queued /\ r.aired = q.aired /\ r.on = q.on
    BY <1>1, <1>3, <2>1, NotedType
  <2>4. Sane(M, s, r)
    BY <2>2, <2>3 DEF Sane
  <2> QED BY <2>3, <2>4 DEF Fine, Grows, Parts
<1> QED BY <1>2, <1>3, SelfFine, AssuredFine

LEMMA AcknowledgingFine ==
  ASSUME NEW M, NEW s \in Calls, NEW q, Typed(q), Sane(M, s, q), q.state = "TX4",
         NEW H \in SUBSET Frames, \A m \in H : FrameOk(M, m), NEW r \in Acknowledging(s, q, H)
  PROVE  Fine(M, s, q, r, H)
<1>1. q \in Stations /\ Holds(M, s, q)
  BY DEF Typed, Sane
<1>2. \/ r = q
      \/ r \in SwitchOr(s, q, H, q.target, Completed(s, q))
      \/ FromTarget(s, q, H, {"RRR"}) # {} /\ r = ChangeState(q, "TX5")
  BY DEF Acknowledging
<1>3. CASE r \in SwitchOr(s, q, H, q.target, Completed(s, q))
  <2>1. Fine(M, s, q, Completed(s, q), H)
    BY <1>1, CompletedFresh, FreshFine
  <2> QED BY <1>1, <1>3, <2>1, SwitchFine
<1>4. CASE FromTarget(s, q, H, {"RRR"}) # {} /\ r = ChangeState(q, "TX5")
  <2>1. FromTarget(s, q, H, {"RRR", "73"}) # {}
    BY <1>4 DEF FromTarget
  <2> QED BY <1>4, <2>1, AssuredFine
<1> QED BY <1>2, <1>3, <1>4, SelfFine

LEMMA SigningOffFine ==
  ASSUME NEW M, NEW s \in Calls, NEW q, Typed(q), Sane(M, s, q), q.state = "TX5",
         NEW H \in SUBSET Frames, \A m \in H : FrameOk(M, m), NEW r \in SigningOff(s, q, H)
  PROVE  Fine(M, s, q, r, H)
<1>1. q \in Stations /\ Holds(M, s, q) /\ q.target \in q.assured
  BY DEF Typed, Sane
<1>2. r = q \/ (q.queued /\ r \in SwitchOr(s, q, H, q.target, SignedOff(s, q)))
  BY DEF SigningOff
<1>3. CASE q.queued /\ r \in SwitchOr(s, q, H, q.target, SignedOff(s, q))
  <2>1. Fine(M, s, q, SignedOff(s, q), H)
    BY <1>1, <1>3, SignedOffFresh, FreshFine
  <2> QED BY <1>1, <1>3, <2>1, SwitchFine
<1> QED BY <1>2, <1>3, SelfFine

LEMMA ResumedFine ==
  ASSUME NEW M, NEW s \in Calls, NEW q, Typed(q), Sane(M, s, q), q.state = "TX6",
         q.retry # None, NEW H
  PROVE  Fine(M, s, q, Resumed(q), H)
<1> DEFINE x == [q EXCEPT !.target = q.retry.target, !.sent = q.retry.sent,
                   !.rcvd = q.retry.rcvd, !.retry = None]
<1>1. q \in Stations /\ Holds(M, s, q)
  BY DEF Typed, Sane
<1>2. q.retry \in [target : Everyone, sent : Everyone \cup {None},
                   rcvd : Reports \cup {None}, left : 0..2] /\ None \in Resumptions
  BY <1>1 DEF Stations, Resumptions
<1>3. /\ x \in Stations /\ x.target = q.retry.target /\ x.sent = q.retry.sent
      /\ x.rcvd = q.retry.rcvd /\ x.retry = None
      /\ x.log = q.log /\ x.cache = q.cache /\ x.assured = q.assured
  BY <1>1, <1>2 DEF Stations
<1>4. x.target # None /\ x.target \in q.assured
  BY <1>1, <1>2, <1>3, QsoAssumption DEF Holds
<1>5. Resumed(q) = ChangeState(x, "TX5")
  BY DEF Resumed
<1> HIDE DEF x
<1>6. Holds(M, s, x)
  BY <1>1, <1>3, <1>4 DEF Holds, OwnIn
<1>7. Fresh(M, s, q, ChangeState(x, "TX5"))
  <2> DEFINE r == ChangeState(x, "TX5")
  <2>1. /\ Sane(M, s, r) /\ ~r.queued
        /\ \A t \in Everyone : x.log[t] # None => r.log[t] # None
        /\ r.assured = x.assured \cup {x.target}
    BY <1>3, <1>4, <1>6, ChangeSane DEF States
  <2> HIDE DEF r
  <2>2. r.assured = q.assured
    BY <1>3, <1>4, <2>1
  <2>3. Fresh(M, s, q, r)
    BY <1>3, <2>1, <2>2 DEF Fresh
  <2> QED BY <2>3 DEF r
<1> QED BY <1>5, <1>7, FreshFine

LEMMA ReplyingFine ==
  ASSUME NEW M, NEW s \in Calls, NEW q, Typed(q), Sane(M, s, q), q.state = "TX6",
         NEW H, NEW m \in Frames
  PROVE  Fine(M, s, q, Replying(s, q, m), H)
<1> DEFINE now == [sent |-> m.from, rcvd |-> q.rcvd]
           x == Retarget(q, m.from, now)
<1>1. q \in Stations /\ Holds(M, s, q)
  BY DEF Typed, Sane
<1>2. now \in Contexts /\ m.from \in Everyone
  BY <1>1 DEF Contexts, Stations, Frames
<1>3. OwnIn(M, s, m.from, now)
  BY DEF OwnIn, Sane, Holds
<1> HIDE DEF now
<1>4. /\ x \in Stations /\ Holds(M, s, x) /\ x.target # None
      /\ x.log = q.log /\ x.assured = q.assured
  BY <1>1, <1>2, <1>3, RetargetHolds
<1>5. \E st \in {"TX1", "TX2"} : Replying(s, q, m) = ChangeState(x, st)
  BY DEF Replying, now
<1> HIDE DEF x
<1>6. Fresh(M, s, q, Replying(s, q, m))
  BY <1>4, <1>5, ChangeSane DEF Fresh, States
<1> QED BY <1>6, FreshFine

LEMMA IdlingFine ==
  ASSUME NEW M, NEW s \in Calls, NEW q, Typed(q), Sane(M, s, q), q.state = "TX6",
         NEW H \in SUBSET Frames, \A m \in H : FrameOk(M, m), NEW r \in Idling(s, q, H)
  PROVE  Fine(M, s, q, r, H)
<1>1. q \in Stations /\ Holds(M, s, q)
  BY DEF Typed, Sane
<1>2. CASE Retries(s, q, H) /\ r = Resumed(q)
  BY <1>2, ResumedFine DEF Retries
<1>3. ASSUME NEW other,
             other = q \/ \E m \in H : m.kind = "CQ" /\ other = Replying(s, q, m),
             r \in SwitchOr(s, q, H, None, other)
      PROVE  Fine(M, s, q, r, H)
  <2>1. Fine(M, s, q, other, H)
    BY <1>3, ReplyingFine, SelfFine
  <2> QED BY <1>1, <1>3, <2>1, SwitchFine
<1> QED BY <1>2, <1>3, IdlingCases

LEMMA HandleFine ==
  ASSUME NEW M, NEW s \in Calls, NEW q, Typed(q), Sane(M, s, q),
         NEW H \in SUBSET Frames, \A m \in H : FrameOk(M, m), NEW r \in Handle(s, q, H)
  PROVE  Fine(M, s, q, r, H)
<1>1. q.state \in States
  BY DEF Typed, Stations
<1>2. CASE q.state = "TX1"
  BY <1>2, CallingFine DEF Handle
<1>3. CASE q.state = "TX2"
  BY <1>3, ReportingFine DEF Handle
<1>4. CASE q.state = "TX3"
  BY <1>4, RogeringFine DEF Handle
<1>5. CASE q.state = "TX4"
  BY <1>5, AcknowledgingFine DEF Handle
<1>6. CASE q.state = "TX5"
  BY <1>6, SigningOffFine DEF Handle
<1>7. CASE q.state = "TX6"
  BY <1>7, IdlingFine DEF Handle
<1> QED BY <1>1, <1>2, <1>3, <1>4, <1>5, <1>6, <1>7 DEF States

(* Changes that make no difference here, and what is made of an outcome.     *)
Still(q, r) ==
    Same(q, r) /\ r.queued = q.queued /\ r.aired = q.aired /\ (q.on => r.on)

LEMMA StillFine ==
  ASSUME NEW M, NEW s, NEW q, NEW r, NEW h, NEW H, Still(h, r), Fine(M, s, q, h, H)
  PROVE  Fine(M, s, q, r, H)
<1>1. Sane(M, s, r)
  BY SaneSame DEF Still, Fine
<1> QED BY <1>1 DEF Still, Same, Fine, Grows, Parts

LEMMA FreshAfter ==
  ASSUME NEW M, NEW s, NEW q, NEW h, NEW r, NEW H, Fine(M, s, q, h, H), Fresh(M, s, h, r),
         h.state = "TX5" => h.queued
  PROVE  Fine(M, s, q, r, H)
BY DEF Fine, Fresh, Grows, Parts

LEMMA TimedOutFine ==
  ASSUME NEW M, NEW s \in Calls, NEW q, NEW h, Typed(h), NEW H, Fine(M, s, q, h, H)
  PROVE  Fine(M, s, q, TimedOut(s, h), H)
<1>1. h \in Stations /\ Holds(M, s, h) /\ (h.state = "TX5" => h.target \in h.assured)
  BY DEF Typed, Fine, Sane
<1>2. CASE h.state = "TX1" /\ h.attempts + 1 < MaxAttempts
  <2> DEFINE r == [h EXCEPT !.attempts = h.attempts + 1]
  <2>1. TimedOut(s, h) = r
    BY <1>1, <1>2 DEF TimedOut, Stations
  <2>2. Still(h, r)
    BY <1>1 DEF Still, Same, Stations
  <2> HIDE DEF r
  <2> QED BY <2>1, <2>2, StillFine
<1>3. CASE ~(h.state = "TX1" /\ h.attempts + 1 < MaxAttempts)
  <2>1. \/ TimedOut(s, h) = h
        \/ h.state # "TX5" /\ TimedOut(s, h) = Failed(s, h)
        \/ h.state = "TX5" /\ h.queued /\ TimedOut(s, h) = SignedOff(s, h)
    BY <1>3 DEF TimedOut
  <2>2. CASE h.state # "TX5" /\ TimedOut(s, h) = Failed(s, h)
    BY <1>1, <2>2, FailedFresh, FreshAfter
  <2>3. CASE h.state = "TX5" /\ h.queued /\ TimedOut(s, h) = SignedOff(s, h)
    BY <1>1, <2>3, SignedOffFresh, FreshAfter
  <2> QED BY <2>1, <2>2, <2>3
<1> QED BY <1>2, <1>3

LEMMA AgedFine ==
  ASSUME NEW M, NEW s \in Calls, NEW q, NEW h, Typed(h), NEW H, Fine(M, s, q, h, H)
  PROVE  Fine(M, s, q, Aged(s, h), H)
<1>1. h \in Stations
  BY DEF Typed
<1> DEFINE n == IF h.timeouts < MaxTimeouts THEN h.timeouts + 1 ELSE h.timeouts
<1>2. Late(h) = [h EXCEPT !.timeouts = n]
  BY DEF Late
<1> HIDE DEF n
<1>3. Still(h, Late(h))
  BY <1>1, <1>2 DEF Still, Same, Stations
<1>4. Typed(Late(h)) /\ Fine(M, s, q, Late(h), H)
  BY <1>1, <1>3, LateType, StillFine DEF Typed
<1> QED BY <1>1, <1>4, AgedCases, TimedOutFine

LEMMA UngatedStill ==
  ASSUME NEW q \in Stations
  PROVE  Still(q, Ungated(q))
<1>1. CASE q.on
  BY <1>1 DEF Ungated, Still, Same, Stations
<1>2. CASE ~q.on
  BY <1>2 DEF Ungated, Still, Same
<1> QED BY <1>1, <1>2

LEMMA DecisionsFine ==
  ASSUME NEW M, NEW s \in Calls, NEW q, Typed(q), Sane(M, s, q), env \in Scenarios,
         NEW H \in SUBSET Frames, \A m \in H : FrameOk(M, m),
         NEW r \in Decisions(s, q, H) \cup Redecisions(s, q, H)
  PROVE  Fine(M, s, q, r, H)
<1>1. PICK h \in Handle(s, q, H) : r = Ungated(h) \/ r = Ungated(Aged(s, h))
  BY DEF Decisions, Redecisions
<1>2. Typed(h) /\ Fine(M, s, q, h, H)
  BY HandleType, HandleFine
<1>3. Typed(Aged(s, h)) /\ Fine(M, s, q, Aged(s, h), H)
  BY <1>2, AgedType, AgedFine
<1> QED BY <1>1, <1>2, <1>3, UngatedStill, StillFine DEF Typed

LEMMA WakingsFine ==
  ASSUME NEW M, NEW s \in Calls, NEW q, Typed(q), Sane(M, s, q),
         NEW H \in SUBSET Frames, \A m \in H : FrameOk(M, m), NEW r \in Wakings(s, q, H)
  PROVE  Fine(M, s, q, r, H)
<1> DEFINE heeded == {m \in Direct(s, H) : m.from # q.gate.not}
<1>1. heeded \in SUBSET Frames /\ heeded \subseteq H
  BY DirectFacts
<1>2. \/ r = q
      \/ \E h \in Handle(s, q, heeded) : r = h \/ r = [h EXCEPT !.on = TRUE, !.gate = None]
  BY DEF Wakings
<1>3. ASSUME NEW h \in Handle(s, q, heeded)
      PROVE  Fine(M, s, q, h, H) /\ Fine(M, s, q, [h EXCEPT !.on = TRUE, !.gate = None], H)
  <2>1. Typed(h) /\ Fine(M, s, q, h, heeded)
    BY <1>1, HandleType, HandleFine
  <2>2. Fine(M, s, q, h, H)
    BY <1>1, <2>1 DEF Fine, Grows
  <2> DEFINE w == [h EXCEPT !.on = TRUE, !.gate = None]
  <2>3. Still(h, w)
    BY <2>1 DEF Still, Same, Typed, Stations
  <2> HIDE DEF w
  <2>4. Fine(M, s, q, w, H)
    BY <2>2, <2>3, StillFine
  <2> QED BY <2>2, <2>4 DEF w
<1> QED BY <1>2, <1>3, SelfFine

LEMMA CalledFine ==
  ASSUME NEW M, NEW s \in Calls, NEW q, Typed(q), Sane(M, s, q), q.target = None,
         NEW t \in Everyone, NEW H \in SUBSET Frames, \A m \in H : FrameOk(M, m),
         NEW m \in H \cup {None}, m # None => m.from = t /\ m.kind # "73"
  PROVE  Fine(M, s, q, Called(s, q, t, m), H)
<1> DEFINE start == [q EXCEPT !.on = TRUE, !.retry = None, !.target = t]
           meant == [start EXCEPT !.sent = t]
           reported == [meant EXCEPT !.rcvd = Report(m)]
<1>1. /\ q \in Stations /\ Holds(M, s, q) /\ q.state = "TX6" /\ q.sent = None /\ q.rcvd = None
      /\ t # None
  BY QsoAssumption DEF Typed, Sane, Holds
<1> DEFINE Ready(x) == /\ x \in Stations /\ Holds(M, s, x) /\ x.target = t
                       /\ x.log = q.log /\ x.assured = q.assured
<1>2. Ready(start) /\ start.sent = None /\ start.rcvd = None
  <2>1. /\ start \in Stations /\ start.sent = None /\ start.rcvd = None /\ start.target = t
        /\ start.retry = None /\ start.log = q.log /\ start.cache = q.cache
        /\ start.assured = q.assured
    BY <1>1 DEF Stations, Resumptions
  <2> HIDE DEF start
  <2> QED BY <1>1, <2>1 DEF Holds, OwnIn
<1>3. Ready(meant) /\ meant.sent = t /\ meant.rcvd = None
  <2> HIDE DEF start
  <2>1. /\ meant \in Stations /\ meant.sent = t /\ meant.rcvd = None /\ meant.target = t
        /\ meant.retry = start.retry /\ meant.log = q.log /\ meant.cache = start.cache
        /\ meant.assured = q.assured
    BY <1>2 DEF Stations
  <2> HIDE DEF meant
  <2> QED BY <1>1, <1>2, <2>1 DEF Holds, OwnIn
<1> HIDE DEF start, meant
<1>4. m # None /\ m.to = s => Ready(reported) /\ Ready(Noted(meant, m))
  <2> SUFFICES ASSUME m # None, m.to = s PROVE Ready(reported) /\ Ready(Noted(meant, m))
    OBVIOUS
  <2>1. Report(m) \in Reports /\ m \in Frames /\ m.from = t /\ FrameOk(M, m)
    BY DEF Report, Reports, Frames
  <2>2. /\ reported \in Stations /\ reported.sent = t /\ reported.rcvd = Report(m)
        /\ reported.target = t /\ reported.retry = meant.retry /\ reported.log = q.log
        /\ reported.cache = meant.cache /\ reported.assured = q.assured
    BY <1>3, <2>1 DEF Stations
  <2> HIDE DEF reported
  <2>3. OwnIn(M, s, t, reported)
    BY <2>1, <2>2, ReportOwn DEF OwnIn
  <2>4. Ready(reported)
    BY <1>1, <1>3, <2>2, <2>3 DEF Holds
  <2>5. Ready(Noted(meant, m))
    BY <1>3, <2>1, NotedHolds, NotedType
  <2> QED BY <2>4, <2>5
<1> HIDE DEF reported
<1>5. ASSUME NEW x, Ready(x), NEW st \in States \ {"TX5", "TX6"}
      PROVE  Fine(M, s, q, ChangeState(x, st), H)
  <2> DEFINE r == ChangeState(x, st)
  <2>1. st \in States /\ st # "TX5" /\ (st = "TX6" <=> x.target = None)
    BY <1>1, <1>5 DEF States
  <2>2. x \in Stations /\ Holds(M, s, x)
    BY <1>5
  <2> HIDE DEF Ready
  <2>3. /\ Sane(M, s, r) /\ ~r.queued
        /\ \A y \in Everyone : x.log[y] # None => r.log[y] # None
        /\ r.assured = IF st = "TX5" THEN x.assured \cup {x.target} ELSE x.assured
    <3> HIDE DEF r
    <3>1. st \in States /\ x \in Stations /\ Holds(M, s, x)
      BY <2>1, <2>2
    <3>2. st = "TX6" <=> x.target = None
      BY <2>1
    <3> QED BY <3>1, <3>2, ChangeSane DEF r, States
  <2> HIDE DEF r
  <2>4. r.assured = x.assured
    BY <2>1, <2>3
  <2>5. Fresh(M, s, q, r)
    BY <1>5, <2>3, <2>4 DEF Fresh, Ready
  <2>6. Fine(M, s, q, r, H)
    BY <1>1, <2>5, FreshFine
  <2> QED BY <2>6 DEF r
<1>6. ASSUME NEW x, Ready(x), m # None, m.to = s, m.kind = "RRR"
      PROVE  Fine(M, s, q, ChangeState(x, "TX5"), H)
  <2> DEFINE r == ChangeState(x, "TX5")
  <2>1. /\ Sane(M, s, r) /\ ~r.queued
        /\ \A y \in Everyone : x.log[y] # None => r.log[y] # None
        /\ r.assured = x.assured \cup {x.target}
    BY <1>1, <1>6, ChangeSane DEF States
  <2> HIDE DEF r
  <2>2. Assurance(s, t, m) /\ m \in H
    BY <1>6 DEF Assurance
  <2>3. Grows(s, q, r, H)
    BY <1>6, <2>1, <2>2 DEF Grows
  <2>4. Fine(M, s, q, r, H)
    BY <1>1, <2>1, <2>3 DEF Fine, Parts
  <2> QED BY <2>4 DEF r
<1> HIDE DEF Ready
<1> DEFINE plain == ChangeState(IF m = None THEN start ELSE meant,
                                IF env.settings[s].skip THEN "TX2" ELSE "TX1")
<1>7. Fine(M, s, q, plain, H)
  BY <1>2, <1>3, <1>5 DEF States
<1>8. CASE m = None \/ m.to # s
  <2>1. Called(s, q, t, m) = plain
    BY <1>8 DEF Called, start, meant
  <2> QED BY <1>7, <2>1
<1>9. CASE ~(m = None \/ m.to # s)
  <2>1. m.kind \in Kinds \ {"73"}
    BY <1>9 DEF Frames
  <2>2. /\ m.kind = "CQ" => Called(s, q, t, m) = plain
        /\ m.kind = "CALL" => Called(s, q, t, m) = ChangeState(meant, "TX2")
        /\ m.kind = "REPORT" => Called(s, q, t, m) = ChangeState(reported, "TX3")
        /\ m.kind = "ROGER" => Called(s, q, t, m) = ChangeState(Noted(meant, m), "TX4")
        /\ m.kind = "RRR" => Called(s, q, t, m) = ChangeState(meant, "TX5")
    BY <1>9 DEF Called, start, meant, reported
  <2> HIDE DEF plain
  <2>3. "TX2" \in States \ {"TX5", "TX6"} /\ "TX3" \in States \ {"TX5", "TX6"}
        /\ "TX4" \in States \ {"TX5", "TX6"}
    BY DEF States
  <2>4. Ready(meant) /\ Ready(reported) /\ Ready(Noted(meant, m))
    BY <1>3, <1>4, <1>9
  <2> QED BY <1>5, <1>6, <1>7, <1>9, <2>1, <2>2, <2>3, <2>4 DEF Kinds
<1> QED BY <1>8, <1>9

LEMMA StartOutcomesFine ==
  ASSUME TypeInv, NEW s \in Calls, Sane(mixed, s, station[s]),
         NEW H \in SUBSET Frames, \A m \in H : FrameOk(mixed, m), NEW r \in StartOutcomes(s, H)
  PROVE  Fine(mixed, s, station[s], r, H)
BY DecisionsFine, WakingsFine, SelfFine DEF StartOutcomes, TypeInv

LEMMA RedecideOutcomesFine ==
  ASSUME TypeInv, NEW s \in Calls, Sane(mixed, s, station[s]),
         NEW H \in SUBSET Frames, \A m \in H : FrameOk(mixed, m), NEW r \in RedecideOutcomes(s, H)
  PROVE  Fine(mixed, s, station[s], r, H)
BY DecisionsFine, WakingsFine DEF RedecideOutcomes, TypeInv

-----------------------------------------------------------------------------
(* The stations together. An acknowledgement on the air, or decoded, is      *)
(* backed by its sender's log; and a 73 that was asked for in this slot will *)
(* be on the air.                                                            *)
Backed(m) ==
    m.kind \in {"RRR", "73"} /\ m.from \in Calls \ mixed /\ m.to # None
      => station[m.from].log[m.to] # None
OnTheAir == {air[t] : t \in {t \in Calls : air[t] # None}}
Past(s) ==
    \E i \in 1..turn.at : Order[i] = s /\ (i < turn.at \/ turn.phase = "encoded")
Asked(s) ==
    station[s].state = "TX5" /\ station[s].queued /\ ~station[s].aired =>
      station[s].on /\ env.cycle[s] = parity /\ Past(s)

SaneInv == \A s \in Calls \ mixed : Sane(mixed, s, station[s])
FramesInv == \A m \in heard \cup OnTheAir : FrameOk(mixed, m) /\ Backed(m)
AskedInv == \A s \in Calls \ mixed : Asked(s)
QsoInv == SaneInv /\ FramesInv /\ Confirmed /\ AskedInv

LEMMA NewSane ==
  ASSUME NEW on \in BOOLEAN, NEW M, NEW s
  PROVE  /\ Sane(M, s, NewStation(on))
         /\ NewStation(on).assured = {} /\ ~NewStation(on).queued
<1> DEFINE q == NewStation(on)
<1>1. /\ q.target = None /\ q.sent = None /\ q.rcvd = None /\ q.retry = None
      /\ q.state = "TX6" /\ q.assured = {} /\ q.queued = FALSE
      /\ q.log = [t \in Everyone |-> None] /\ q.cache = [t \in Everyone |-> None]
  BY DEF NewStation
<1> HIDE DEF q
<1>2. \A t \in Everyone : q.log[t] = None /\ q.cache[t] = None
  BY <1>1
<1>3. Holds(M, s, q)
  BY <1>1, <1>2 DEF Holds
<1>4. Sane(M, s, q) /\ q.assured = {} /\ ~q.queued
  BY <1>1, <1>3 DEF Sane
<1> QED BY <1>4 DEF q

LEMMA QsoInit == Init => QsoInv
<1> SUFFICES ASSUME Init PROVE QsoInv
  OBVIOUS
<1>1. heard \cup OnTheAir = {}
  BY DEF Init, OnTheAir
<1>2. ASSUME NEW s \in Calls
      PROVE  Sane(mixed, s, station[s]) /\ station[s].assured = {} /\ ~station[s].queued
  <2>1. station[s] = NewStation(s \in env.on) /\ (s \in env.on) \in BOOLEAN
    BY DEF Init
  <2> QED BY <2>1, NewSane
<1>3. SaneInv /\ FramesInv
  BY <1>1, <1>2 DEF SaneInv, FramesInv
<1>4. Confirmed /\ AskedInv
  BY <1>2 DEF Confirmed, AskedInv, Asked
<1> QED BY <1>3, <1>4 DEF QsoInv

LEMMA SaneMore ==
  ASSUME NEW M, NEW N, M \subseteq N, NEW s, NEW q, Sane(M, s, q)
  PROVE  Sane(N, s, q)
BY DEF Sane, Holds, OwnIn

(* What a station hears is well-formed and backed.                           *)
LEMMA HeardOk ==
  ASSUME TypeInv, QsoInv, NEW s \in Calls, heard' \subseteq heard \cup OnAir(s) \cup Stray(s)
  PROVE  \A m \in heard' \cup heard \cup OnTheAir : FrameOk(mixed, m) /\ Backed(m)
<1>1. \A m \in OnAir(s) : m \in OnTheAir
  BY HearType DEF OnTheAir
<1>2. \A m \in Stray(s) : FrameOk(mixed, m) /\ Backed(m)
  BY HearType, QsoAssumption DEF FrameOk, Backed
<1> QED BY <1>1, <1>2 DEF QsoInv, FramesInv

(* One station's record changes, and it may hear more.                       *)
LEMMA Moved ==
  ASSUME TypeInv, TypeInv', QsoInv, NEW s \in Calls, mixed \subseteq mixed', air' = air,
         heard' \subseteq heard \cup OnAir(s) \cup Stray(s),
         \A t \in Calls \ {s} : station'[t] = station[t],
         s \notin mixed' => Sane(mixed', s, station'[s])
                            /\ Grows(s, station[s], station'[s], heard \cup heard')
  PROVE  SaneInv' /\ FramesInv' /\ Confirmed'
<1>1. \A m \in heard' \cup heard \cup OnTheAir : FrameOk(mixed, m) /\ Backed(m)
  BY HeardOk
<1>2. \A t \in Calls \ mixed', x \in Everyone : station[t].log[x] # None => station'[t].log[x] # None
  BY DEF Grows
<1>3. SaneInv'
  <2>1. \A t \in Calls \ mixed' : Sane(mixed', t, station'[t])
    BY SaneMore DEF QsoInv, SaneInv
  <2> QED BY <2>1 DEF SaneInv
<1>4. FramesInv'
  <2>1. ASSUME NEW m \in heard' \cup OnTheAir PROVE FrameOk(mixed', m) /\ Backed(m)'
    <3>1. FrameOk(mixed', m)
      BY <1>1 DEF FrameOk
    <3>2. m \in Frames
      BY DEF TypeInv, OnTheAir
    <3>3. Backed(m)'
      BY <1>1, <1>2, <3>2 DEF Backed, Frames
    <3> QED BY <3>1, <3>3
  <2>2. OnTheAir' = OnTheAir
    BY DEF OnTheAir
  <2> QED BY <2>1, <2>2 DEF FramesInv
<1>5. Confirmed'
  <2>1. ASSUME NEW x \in Calls \ mixed', NEW y \in Calls \ mixed', y \in station'[x].assured
        PROVE  station'[y].log[x] # None
    <3>1. x \in Everyone /\ x # None /\ y \notin mixed /\ x \notin mixed
      BY QsoAssumption DEF Everyone
    <3>2. CASE y \in station[x].assured
      BY <1>2, <3>1, <3>2 DEF QsoInv, Confirmed
    <3>3. CASE y \notin station[x].assured
      <4>1. x = s
        BY <2>1, <3>3
      <4>2. PICK m \in heard \cup heard' : Assurance(s, y, m)
        BY <2>1, <3>3, <4>1 DEF Grows
      <4>3. station[y].log[x] # None
        BY <1>1, <3>1, <4>1, <4>2 DEF Assurance, Backed
      <4> QED BY <1>2, <3>1, <4>3
    <3> QED BY <3>2, <3>3
  <2> QED BY <2>1 DEF Confirmed
<1> QED BY <1>3, <1>4, <1>5

(* What was asked for stays so in the slot, and is asked for by now if its   *)
(* station's turn is over.                                                   *)
LEMMA AskedKept ==
  ASSUME TypeInv, NEW s \in Calls, Asked(s), env' = env, parity' = parity, Past(s) => Past(s)',
         \/ station'[s] = station[s] \/ Parts(station[s], station'[s])
  PROVE  Asked(s)'
BY DEF Asked, Parts

LEMMA PastKept ==
  ASSUME TypeInv, NEW s \in Calls, turn'.at = turn.at,
         turn.phase = "encoded" => turn'.phase = "encoded"
  PROVE  Past(s) => Past(s)'
BY DEF Past

LEMMA PastNow ==
  ASSUME TypeInv, NEW s \in Calls, Order[turn.at] = s, turn.phase = "encoded"
  PROVE  Past(s)
BY DEF Past, TypeInv

LEMMA NotPast ==
  ASSUME TypeInv, NEW s \in Calls, Order[turn.at] = s, turn.phase # "encoded"
  PROVE  ~Past(s)
<1>1. turn.at \in 1..Cardinality(Calls) /\ Cardinality(Calls) \in Nat
  BY CallsFacts DEF TypeInv
<1>2. \A i \in 1..turn.at : i \in DOMAIN Order /\ turn.at \in DOMAIN Order
  BY <1>1, QsoAssumption
<1>3. \A i \in 1..turn.at : Order[i] = s => i = turn.at
  BY <1>2, QsoAssumption
<1> QED BY <1>1, <1>3 DEF Past

LEMMA QueuedFacts ==
  ASSUME NEW s \in Calls, NEW q \in Stations
  PROVE  \/ Queued(s, q) = q
         \/ /\ Same(q, Queued(s, q)) /\ Queued(s, q).on /\ env.cycle[s] = parity
            /\ q.state = "TX5"
<1>1. CASE Sends(s, q) /\ q.state = "TX5"
  <2>1. Queued(s, q) = [q EXCEPT !.queued = TRUE]
    BY <1>1 DEF Queued
  <2>2. Same(q, [q EXCEPT !.queued = TRUE]) /\ [q EXCEPT !.queued = TRUE].on = q.on
    BY DEF Same, Stations
  <2> QED BY <1>1, <2>1, <2>2 DEF Sends
<1>2. CASE ~(Sends(s, q) /\ q.state = "TX5")
  BY <1>2 DEF Queued
<1> QED BY <1>1, <1>2

LEMMA EndedSane ==
  ASSUME NEW M, NEW t \in Calls, NEW q, Typed(q)
  PROVE  LET r == Ended(t, q) IN
         /\ r.state = q.state /\ r.on = q.on /\ r.queued = q.queued
         /\ r.log = q.log /\ r.assured = q.assured /\ r.target = q.target
         /\ r.aired = (q.aired \/ (Sends(t, q) /\ q.state = "TX5"))
         /\ Sane(M, t, q) => Sane(M, t, r)
<1> DEFINE aired == q.aired \/ (Sends(t, q) /\ q.state = "TX5")
           retry == Counted(q.retry)
           r == [q EXCEPT !.gate = Counted(q.gate), !.retry = retry, !.aired = aired]
<1>1. q \in Stations
  BY DEF Typed
<1>2. \/ retry = None
      \/ /\ retry.target = q.retry.target /\ retry.sent = q.retry.sent
         /\ retry.rcvd = q.retry.rcvd /\ q.retry # None
  BY <1>1 DEF Counted, Stations, Resumptions
<1> HIDE DEF aired, retry
<1>3. /\ r.state = q.state /\ r.on = q.on /\ r.queued = q.queued /\ r.target = q.target
      /\ r.sent = q.sent /\ r.rcvd = q.rcvd /\ r.log = q.log /\ r.cache = q.cache
      /\ r.assured = q.assured /\ r.retry = retry /\ r.aired = aired
  BY <1>1 DEF Stations
<1>4. Ended(t, q) = r
  BY DEF Ended, aired, retry
<1> HIDE DEF r
<1>5. ASSUME Sane(M, t, q) PROVE Sane(M, t, r)
  <2>1. Holds(M, t, q)
    BY <1>5 DEF Sane
  <2>2. r.retry # None => OwnIn(M, t, r.retry.target, r.retry) /\ r.retry.target \in r.assured
    BY <1>2, <1>3, <2>1 DEF Holds, OwnIn
  <2>3. /\ r.target # None => OwnIn(M, t, r.target, r)
        /\ r.target = None => r.sent = None /\ r.rcvd = None
    BY <1>3, <2>1 DEF Holds, OwnIn
  <2>4. Holds(M, t, r)
    BY <1>3, <2>1, <2>2, <2>3 DEF Holds
  <2> QED BY <1>3, <1>5, <2>4 DEF Sane
<1>6. r.aired = (q.aired \/ (Sends(t, q) /\ q.state = "TX5"))
  BY <1>3 DEF aired
<1> QED BY <1>3, <1>4, <1>5, <1>6

(* What others were asked for is not touched.                                *)
LEMMA AskedMoved ==
  ASSUME TypeInv, QsoInv, NEW s \in Calls, env' = env, parity' = parity, mixed \subseteq mixed',
         turn'.at = turn.at, turn.phase = "encoded" => turn'.phase = "encoded",
         \A t \in Calls \ {s} : station'[t] = station[t],
         s \notin mixed' => Asked(s)'
  PROVE  AskedInv'
<1>1. ASSUME NEW t \in Calls \ mixed', t # s PROVE Asked(t)'
  <2>1. Asked(t) /\ station'[t] = station[t]
    BY <1>1 DEF QsoInv, AskedInv
  <2> QED BY <1>1, <2>1, AskedKept, PastKept
<1> QED BY <1>1 DEF AskedInv

LEMMA AskedFine ==
  ASSUME TypeInv, QsoInv, NEW s \in Calls \ mixed, NEW H,
         Fine(mixed, s, station[s], station'[s], H),
         env' = env, parity' = parity, turn'.at = turn.at,
         turn.phase = "encoded" => turn'.phase = "encoded"
  PROVE  Asked(s)'
<1>1. Asked(s) /\ Parts(station[s], station'[s])
  BY DEF QsoInv, AskedInv, Fine
<1> QED BY <1>1, AskedKept, PastKept

(* The same of a decision for which a text is asked for at once.             *)
LEMMA QueuedFine ==
  ASSUME NEW s \in Calls, NEW q, NEW r \in Stations, NEW H,
         Fine(mixed, s, q, r, H)
  PROVE  Sane(mixed, s, Queued(s, r)) /\ Grows(s, q, Queued(s, r), H)
<1>1. Same(r, Queued(s, r))
  BY QueuedFacts DEF Same
<1> QED BY <1>1, SaneSame DEF Fine, Grows, Same

LEMMA AskedQueued ==
  ASSUME TypeInv, QsoInv, NEW s \in Calls \ mixed, NEW r \in Stations, NEW H,
         Fine(mixed, s, station[s], r, H), station'[s] = Queued(s, r),
         env' = env, parity' = parity, turn' = turn,
         Order[turn.at] = s, turn.phase = "encoded"
  PROVE  Asked(s)'
<1>1. CASE Queued(s, r) = r
  BY <1>1, AskedFine
<1>2. CASE Queued(s, r) # r
  <2>1. Queued(s, r).on /\ env.cycle[s] = parity
    BY <1>2, QueuedFacts
  <2>2. Past(s)'
    BY PastNow, PastKept
  <2> QED BY <2>1, <2>2 DEF Asked
<1> QED BY <1>1, <1>2

(* What each action preserves.                                               *)
LEMMA StartKeeps ==
  ASSUME TypeInv, TypeInv', QsoInv, NEW s \in Calls, SlotStart(s)
  PROVE  /\ QsoInv'
         /\ s \notin mixed => Parts(station[s], station'[s])
         /\ \A t \in Calls \ {s} : station'[t] = station[t]
<1>1. /\ heard' \subseteq OnAir(s) \cup Stray(s) /\ heard' \in SUBSET Frames
      /\ Update(s, StartOutcomes(s, heard'))
  BY SlotStartFacts
<1>2. /\ \A t \in Calls \ {s} : station'[t] = station[t]
      /\ station'[s] \in StartOutcomes(s, heard')
  BY <1>1, StartOutcomesType, UpdateType
<1>3. /\ env' = env /\ parity' = parity /\ air' = air /\ mixed' = mixed
      /\ turn.phase # "encoded" /\ turn'.at = turn.at
  BY PhaseType DEF SlotStart, Turn
<1>4. \A m \in heard' : FrameOk(mixed, m)
  BY <1>1, HeardOk
<1>5. ASSUME s \notin mixed PROVE Fine(mixed, s, station[s], station'[s], heard')
  <2>1. Sane(mixed, s, station[s])
    BY <1>5 DEF QsoInv, SaneInv
  <2> QED BY <1>1, <1>2, <1>4, <2>1, StartOutcomesFine
<1>6. SaneInv' /\ FramesInv' /\ Confirmed'
  <2>1. s \notin mixed' => /\ Sane(mixed', s, station'[s])
                          /\ Grows(s, station[s], station'[s], heard \cup heard')
    BY <1>3, <1>5 DEF Fine, Grows
  <2> QED BY <1>1, <1>2, <1>3, <2>1, Moved
<1>7. s \notin mixed' => Asked(s)'
  BY <1>3, <1>5, AskedFine
<1>8. AskedInv'
  BY <1>2, <1>3, <1>7, AskedMoved
<1> QED BY <1>2, <1>5, <1>6, <1>8 DEF QsoInv, Fine

LEMMA EncodeKeeps ==
  ASSUME TypeInv, TypeInv', QsoInv, NEW s \in Calls, EncodeStart(s)
  PROVE  /\ QsoInv' /\ station'[s].state = station[s].state
         /\ \A t \in Calls \ {s} : station'[t] = station[t]
<1> DEFINE q == station[s]
<1>1. Typed(q) /\ q \in Stations /\ Typed(Queued(s, q))
  BY QueuedType DEF TypeInv
<1>2. /\ \A t \in Calls \ {s} : station'[t] = station[t]
      /\ station'[s] = Queued(s, q)
  BY <1>1, UpdateType DEF EncodeStart
<1>3. /\ env' = env /\ parity' = parity /\ air' = air /\ mixed' = mixed /\ heard' = heard
      /\ turn'.phase = "encoded" /\ turn'.at = turn.at /\ Order[turn'.at] = s
  BY PhaseType DEF EncodeStart, Turn
<1>4. Same(q, station'[s])
  BY <1>1, <1>2, QueuedFacts DEF Same
<1>5. SaneInv' /\ FramesInv' /\ Confirmed'
  <2>1. s \notin mixed' => /\ Sane(mixed', s, station'[s])
                          /\ Grows(s, station[s], station'[s], heard \cup heard')
    BY <1>3, <1>4, SaneSame DEF QsoInv, SaneInv, Grows, Same
  <2> QED BY <1>2, <1>3, <2>1, Moved
<1>6. ASSUME s \notin mixed' PROVE Asked(s)'
  <2>1. Asked(s)
    BY <1>3, <1>6 DEF QsoInv, AskedInv
  <2>2. CASE Queued(s, q) = q
    <3>1. station'[s] = station[s]
      BY <1>2, <2>2
    <3> QED BY <1>3, <2>1, <3>1, AskedKept, PastKept
  <2>3. CASE Queued(s, q) # q
    <3>1. station'[s].on /\ env.cycle[s] = parity
      BY <1>1, <1>2, <2>3, QueuedFacts
    <3>2. Past(s)'
      <4>1. turn'.at \in 1..turn'.at
        BY <1>3, CallsFacts DEF TypeInv
      <4> QED BY <1>3, <4>1 DEF Past
    <3> QED BY <1>3, <3>1, <3>2 DEF Asked
  <2> QED BY <2>2, <2>3
<1>7. AskedInv'
  BY <1>2, <1>3, <1>6, AskedMoved
<1> QED BY <1>2, <1>4, <1>5, <1>7 DEF QsoInv, Same

LEMMA RedecideKeeps ==
  ASSUME TypeInv, TypeInv', QsoInv, NEW s \in Calls, Redecide(s)
  PROVE  /\ QsoInv'
         /\ s \notin mixed /\ turn.phase # "encoded" => Parts(station[s], station'[s])
         /\ \A t \in Calls \ {s} : station'[t] = station[t]
<1> DEFINE O == RedecideOutcomes(s, heard')
           P == IF turn.phase = "encoded" THEN O \cup {Queued(s, r) : r \in O} ELSE O
<1>1. /\ heard' \subseteq OnAir(s) \cup Stray(s) \cup heard /\ heard' \in SUBSET Frames
      /\ Update(s, P) /\ \A r \in O : Typed(r) /\ Typed(Queued(s, r))
  BY RedecideFacts
<1>2. \A r \in P : Typed(r)
  BY <1>1
<1>3. \A m \in heard' : FrameOk(mixed, m)
  BY <1>1, HeardOk
<1>4. ASSUME s \notin mixed, NEW r \in O PROVE Fine(mixed, s, station[s], r, heard')
  <2>1. Sane(mixed, s, station[s])
    BY <1>4 DEF QsoInv, SaneInv
  <2> QED BY <1>1, <1>3, <1>4, <2>1, RedecideOutcomesFine
<1>5. /\ \A t \in Calls \ {s} : station'[t] = station[t]
      /\ station'[s] \in P
  <2> HIDE DEF P
  <2> QED BY <1>1, <1>2, UpdateType
<1>6. /\ env' = env /\ parity' = parity /\ air' = air /\ mixed' = mixed /\ turn' = turn
      /\ Order[turn.at] = s
  BY DEF Redecide, Turn
<1>7. PICK r \in O : \/ station'[s] = r
                     \/ turn.phase = "encoded" /\ station'[s] = Queued(s, r)
  BY <1>5
<1>8. r \in Stations
  BY <1>1, <1>7 DEF Typed
<1> HIDE DEF O, P
<1>9. ASSUME s \notin mixed
      PROVE  /\ Sane(mixed, s, station'[s]) /\ Grows(s, station[s], station'[s], heard')
             /\ Asked(s)'
             /\ turn.phase # "encoded" => Parts(station[s], station'[s])
  <2>1. Fine(mixed, s, station[s], r, heard')
    BY <1>4, <1>7, <1>9
  <2>2. CASE station'[s] = r
    BY <1>6, <1>9, <2>1, <2>2, AskedFine DEF Fine
  <2>3. CASE turn.phase = "encoded" /\ station'[s] = Queued(s, r)
    BY <1>6, <1>8, <1>9, <2>1, <2>3, QueuedFine, AskedQueued
  <2> QED BY <1>7, <2>2, <2>3
<1>10. SaneInv' /\ FramesInv' /\ Confirmed'
  <2>1. s \notin mixed' => /\ Sane(mixed', s, station'[s])
                          /\ Grows(s, station[s], station'[s], heard \cup heard')
    BY <1>6, <1>9 DEF Grows
  <2> QED BY <1>1, <1>5, <1>6, <2>1, Moved
<1>11. AskedInv'
  BY <1>5, <1>6, <1>9, AskedMoved
<1> QED BY <1>5, <1>9, <1>10, <1>11 DEF QsoInv

(* A user either takes hold of the contact or finds none under way.          *)
LEMMA UserFacts ==
  ASSUME NEW s, NEW hold, User(s, hold), mixed \subseteq Calls
  PROVE  /\ env' = env /\ parity' = parity /\ turn' = turn /\ air' = air /\ heard' = heard
         /\ mixed \subseteq mixed' /\ (s \notin mixed' => ~hold /\ mixed' = mixed)
         /\ (hold => s \in mixed') /\ Order[turn.at] = s
BY DEF User, Turn

LEMMA RequestKeeps ==
  ASSUME TypeInv, TypeInv', QsoInv, NEW s \in Calls, RequestCall(s)
  PROVE  /\ QsoInv'
         /\ s \notin mixed' => station[s].state = "TX6"
         /\ \A t \in Calls \ {s} : station'[t] = station[t]
<1>1. PICK t \in Everyone, m \in heard \cup {None} :
        /\ m # None => m.from = t
        /\ User(s, \/ station[s].target # None \/ station[s].rcvd # None
                   \/ (m # None /\ m.kind = "73"))
        /\ \/ station'[s] = Called(s, station[s], t, m)
           \/ /\ turn.phase = "encoded"
              /\ station'[s] = Queued(s, Called(s, station[s], t, m))
        /\ Update(s, {Called(s, station[s], t, m), Queued(s, Called(s, station[s], t, m))})
        /\ Typed(Called(s, station[s], t, m)) /\ Typed(Queued(s, Called(s, station[s], t, m)))
  BY RequestFacts
<1> DEFINE r == Called(s, station[s], t, m)
<1>2. \A x \in Calls \ {s} : station'[x] = station[x]
  BY <1>1, UpdateType
<1>3. /\ env' = env /\ parity' = parity /\ turn' = turn /\ air' = air /\ heard' = heard
      /\ mixed \subseteq mixed' /\ Order[turn.at] = s
      /\ s \notin mixed' => /\ mixed' = mixed /\ station[s].target = None
                            /\ ~(m # None /\ m.kind = "73")
  BY <1>1, UserFacts DEF TypeInv
<1>4. \A x \in heard : FrameOk(mixed, x)
  BY DEF QsoInv, FramesInv
<1>5. ASSUME s \notin mixed'
      PROVE  /\ Fine(mixed, s, station[s], r, heard) /\ station[s].state = "TX6"
             /\ r \in Stations
  <2>1. Sane(mixed, s, station[s]) /\ Typed(station[s])
    BY <1>3, <1>5 DEF QsoInv, SaneInv, TypeInv
  <2>2. heard \in SUBSET Frames /\ (m # None => m.from = t /\ m.kind # "73")
    BY <1>1, <1>3, <1>5 DEF TypeInv
  <2>3. Fine(mixed, s, station[s], r, heard)
    BY <1>3, <1>4, <1>5, <2>1, <2>2, CalledFine
  <2> QED BY <1>1, <1>3, <1>5, <2>1, <2>3 DEF Sane, Typed
<1> HIDE DEF r
<1>6. ASSUME s \notin mixed'
      PROVE  /\ Sane(mixed, s, station'[s]) /\ Grows(s, station[s], station'[s], heard)
             /\ Asked(s)'
  <2>1. CASE station'[s] = r
    BY <1>3, <1>5, <1>6, <2>1, AskedFine DEF Fine
  <2>2. CASE turn.phase = "encoded" /\ station'[s] = Queued(s, r)
    BY <1>3, <1>5, <1>6, <2>2, QueuedFine, AskedQueued
  <2> QED BY <1>1, <2>1, <2>2 DEF r
<1>7. SaneInv' /\ FramesInv' /\ Confirmed'
  BY <1>2, <1>3, <1>6, Moved
<1>8. AskedInv'
  BY <1>2, <1>3, <1>6, AskedMoved
<1> QED BY <1>2, <1>5, <1>7, <1>8 DEF QsoInv

LEMMA HandledKeeps ==
  ASSUME TypeInv, TypeInv', QsoInv, NEW s \in Calls, SetState(s) \/ Switch(s)
  PROVE  /\ QsoInv' /\ s \in mixed'
         /\ \A t \in Calls \ {s} : station'[t] = station[t]
<1>1. User(s, TRUE) /\ mixed \subseteq Calls
  BY DEF SetState, Switch, TypeInv
<1>2. PICK x : station' = [station EXCEPT ![s] = x]
  BY DEF SetState, Switch, Update
<1>3. \A t \in Calls \ {s} : station'[t] = station[t]
  BY <1>2 DEF TypeInv
<1>4. /\ env' = env /\ parity' = parity /\ turn' = turn /\ air' = air /\ heard' = heard
      /\ mixed \subseteq mixed' /\ s \in mixed'
  BY <1>1, UserFacts
<1>5. SaneInv' /\ FramesInv' /\ Confirmed'
  BY <1>3, <1>4, Moved
<1>6. AskedInv'
  BY <1>3, <1>4, AskedMoved
<1> QED BY <1>3, <1>4, <1>5, <1>6 DEF QsoInv

LEMMA ResetKeeps ==
  ASSUME TypeInv, TypeInv', QsoInv, NEW s \in Calls, Reset(s)
  PROVE  /\ QsoInv'
         /\ s \notin mixed' => station[s].state = "TX6"
         /\ \A t \in Calls \ {s} : station'[t] = station[t]
<1> DEFINE q == station[s]
           c == ClearContext(q)
           x == [c EXCEPT !.retry = None, !.attempts = 0]
           r == ChangeState(x, "TX6")
<1>1. q \in Stations /\ Typed(q) /\ Typed(r)
  BY ResetType DEF TypeInv
<1>2. /\ \A t \in Calls \ {s} : station'[t] = station[t]
      /\ station'[s] = r
  BY <1>1, UpdateType DEF Reset
<1>3. /\ env' = env /\ parity' = parity /\ turn' = turn /\ air' = air /\ heard' = heard
      /\ mixed \subseteq mixed' /\ (s \notin mixed' => mixed' = mixed /\ q.target = None)
  BY UserFacts DEF Reset, TypeInv
<1>4. ASSUME s \notin mixed' PROVE Fresh(mixed, s, q, r) /\ q.state = "TX6"
  <2>1. Sane(mixed, s, q)
    BY <1>3, <1>4 DEF QsoInv, SaneInv
  <2>2. Holds(mixed, s, q) /\ q.state = "TX6"
    BY <1>3, <1>4, <2>1 DEF Sane
  <2> HIDE DEF q
  <2>3. /\ c \in Stations /\ Holds(mixed, s, c) /\ c.target = None
        /\ c.log = q.log /\ c.assured = q.assured
    BY <1>1, <2>2, ClearHolds
  <2> HIDE DEF c
  <2>4. None \in Resumptions /\ 0 \in 0..(MaxAttempts - 1)
    BY QsoAssumption DEF Resumptions
  <2>5. /\ x \in Stations /\ x.target = c.target /\ x.sent = c.sent /\ x.rcvd = c.rcvd
        /\ x.retry = None /\ x.log = c.log /\ x.cache = c.cache /\ x.assured = c.assured
    BY <2>3, <2>4 DEF Stations
  <2> HIDE DEF x
  <2>6. Holds(mixed, s, x)
    BY <2>3, <2>5 DEF Holds
  <2>7. /\ Sane(mixed, s, r) /\ ~r.queued
        /\ \A t \in Everyone : x.log[t] # None => r.log[t] # None
        /\ r.assured = x.assured
    BY <2>3, <2>5, <2>6, ChangeSane DEF States
  <2> HIDE DEF r
  <2> QED BY <2>2, <2>3, <2>5, <2>7 DEF Fresh
<1> HIDE DEF r
<1>5. ASSUME s \notin mixed'
      PROVE  /\ Sane(mixed', s, station'[s]) /\ Grows(s, q, station'[s], heard \cup heard')
             /\ Asked(s)'
  BY <1>2, <1>3, <1>4, <1>5 DEF Fresh, Grows, Asked
<1>6. SaneInv' /\ FramesInv' /\ Confirmed'
  BY <1>2, <1>3, <1>5, Moved
<1>7. AskedInv'
  BY <1>2, <1>3, <1>5, AskedMoved
<1> QED BY <1>2, <1>4, <1>6, <1>7 DEF QsoInv

LEMMA TurnKeeps ==
  ASSUME TypeInv, QsoInv, NEW s \in Calls, NextTurn(s)
  PROVE  QsoInv'
<1>1. /\ env' = env /\ parity' = parity /\ air' = air /\ mixed' = mixed /\ station' = station
      /\ turn'.at = turn.at + 1 /\ heard' = {}
  BY DEF NextTurn
<1>2. SaneInv' /\ Confirmed'
  BY <1>1 DEF QsoInv, SaneInv, Confirmed
<1>3. FramesInv'
  BY <1>1 DEF QsoInv, FramesInv, OnTheAir, Backed
<1>4. ASSUME NEW t \in Calls \ mixed PROVE Asked(t)'
  <2>1. Past(t) => Past(t)'
    <3>1. turn.at \in Nat
      BY CallsFacts DEF TypeInv
    <3>2. \A i \in 1..turn.at : i \in 1..turn'.at /\ i < turn'.at
      BY <1>1, <3>1
    <3> QED BY <3>2 DEF Past
  <2> QED BY <1>1, <2>1 DEF QsoInv, AskedInv, Asked
<1>5. AskedInv'
  BY <1>1, <1>4 DEF AskedInv
<1> QED BY <1>2, <1>3, <1>5 DEF QsoInv

LEMMA TickKeeps ==
  ASSUME TypeInv, QsoInv, NEW s \in Calls, Tick(s)
  PROVE  QsoInv' /\ \A t \in Calls : station'[t].state = station[t].state
<1>1. /\ mixed' = mixed /\ env' = env /\ heard' = {}
      /\ \A t \in Calls : air'[t] # None =>
           Sends(t, station[t]) /\ air'[t] = Text(t, station[t])
  BY TickFacts DEF Tick
<1>2. ASSUME NEW t \in Calls
      PROVE  LET q == station[t]
                 r == station'[t]
             IN /\ r.state = q.state /\ r.on = q.on /\ r.queued = q.queued
                /\ r.log = q.log /\ r.assured = q.assured /\ r.target = q.target
                /\ r.aired = (q.aired \/ (Sends(t, q) /\ q.state = "TX5"))
                /\ Sane(mixed, t, q) => Sane(mixed, t, r)
  <2>1. station'[t] = Ended(t, station[t]) /\ Typed(station[t])
    BY TickFacts DEF TypeInv
  <2> QED BY <2>1, EndedSane
<1>3. SaneInv'
  BY <1>1, <1>2 DEF QsoInv, SaneInv
<1>4. Confirmed'
  BY <1>1, <1>2 DEF QsoInv, Confirmed
<1>5. FramesInv'
  <2>1. ASSUME NEW m \in heard' \cup OnTheAir'
        PROVE  FrameOk(mixed', m) /\ Backed(m)'
    <3>1. PICK t \in Calls : m = air'[t] /\ air'[t] # None
      BY <1>1 DEF OnTheAir
    <3> DEFINE q == station[t]
    <3>2. q \in Stations /\ m = Text(t, q)
      BY <1>1, <3>1 DEF TypeInv
    <3>3. /\ m.from = t
          /\ m.of # None => m.of = q.sent /\ m.to = q.target
          /\ m.kind = "RRR" <=> q.state = "TX4"
          /\ m.kind = "73" <=> q.state = "TX5"
          /\ q.state # "TX6" => m.to = q.target
      BY <3>2, TextType
    <3>4. ASSUME t \notin mixed PROVE Sane(mixed, t, q)
      BY <3>4 DEF QsoInv, SaneInv
    <3>5. FrameOk(mixed', m)
      BY <1>1, <3>3, <3>4 DEF FrameOk, Sane, Holds, OwnIn
    <3>6. m.from \in Calls \ mixed /\ m.kind \in {"RRR", "73"} => q.log[m.to] # None
      BY <3>3, <3>4 DEF Sane
    <3>7. station'[t].log = q.log
      BY <1>2
    <3>8. Backed(m)'
      BY <1>1, <3>3, <3>6, <3>7 DEF Backed
    <3> QED BY <3>5, <3>8
  <2> QED BY <2>1 DEF FramesInv
<1>6. ASSUME NEW t \in Calls \ mixed PROVE Asked(t)'
  <2>1. Asked(t) /\ Typed(station[t])
    BY DEF QsoInv, AskedInv, TypeInv
  <2>2. station[t].state = "TX5" /\ station[t].queued /\ ~station[t].aired
          => Sends(t, station[t])
    BY <2>1 DEF Asked, Typed, Sends
  <2>3. ~(station'[t].state = "TX5" /\ station'[t].queued /\ ~station'[t].aired)
    BY <1>2, <2>2
  <2> QED BY <2>3 DEF Asked
<1>7. AskedInv'
  BY <1>1, <1>6 DEF AskedInv
<1> QED BY <1>2, <1>3, <1>4, <1>5, <1>7 DEF QsoInv

LEMMA QsoNext == TypeInv /\ TypeInv' /\ QsoInv /\ [Next]_vars => QsoInv'
<1> SUFFICES ASSUME TypeInv, TypeInv', QsoInv, [Next]_vars PROVE QsoInv'
  OBVIOUS
<1>1. ASSUME NEW s \in Calls, Slot(s) PROVE QsoInv'
  BY <1>1, StartKeeps, EncodeKeeps, RedecideKeeps, TurnKeeps, TickKeeps DEF Slot
<1>2. ASSUME NEW s \in Calls, Acts(s) PROVE QsoInv'
  BY <1>2, RequestKeeps, HandledKeeps, ResetKeeps DEF Acts
<1>3. CASE UNCHANGED vars
  <2>1. SaneInv' /\ Confirmed'
    BY <1>3 DEF vars, QsoInv, SaneInv, Confirmed
  <2>2. FramesInv'
    BY <1>3 DEF vars, QsoInv, FramesInv, OnTheAir, Backed
  <2>3. AskedInv'
    BY <1>3 DEF vars, QsoInv, AskedInv, Asked, Past
  <2> QED BY <2>1, <2>2, <2>3 DEF QsoInv
<1> QED BY <1>1, <1>2, <1>3 DEF Next

LEMMA QsoAlways == Spec => [](TypeInv /\ QsoInv)
BY TypeInit, TypeNext, QsoInit, QsoNext, PTL DEF Spec

-----------------------------------------------------------------------------
(* A contact that is logged on an RRR or a 73 is in the other station's log  *)
(* too: whoever sends these has logged it before, and logs only grow.        *)
THEOREM ContactsConfirmed == Spec => []Confirmed
<1>1. QsoInv => Confirmed
  BY DEF QsoInv
<1> QED BY QsoAlways, <1>1, PTL

(* Reports in use, cached, kept for retries and logged are those of the      *)
(* station they are filed under, as every copy is cleared with its target.   *)
THEOREM ReportsRight == Spec => []ReportsTheirs
<1>1. QsoInv => ReportsTheirs
  <2> SUFFICES ASSUME QsoInv PROVE ReportsTheirs
    OBVIOUS
  <2>1. \A s, t, c : OwnIn(mixed, s, t, c) <=> Own(s, t, c)
    BY DEF OwnIn, Own
  <2>2. ASSUME NEW s \in Calls \ mixed
        PROVE  LET q == station[s] IN
               /\ q.target # None => Own(s, q.target, q)
               /\ q.target = None => q.sent = None /\ q.rcvd = None
               /\ q.retry # None => Own(s, q.retry.target, q.retry)
               /\ \A t \in Everyone : \A c \in {q.log[t], q.cache[t]} \ {None} : Own(s, t, c)
    <3>1. Holds(mixed, s, station[s])
      BY DEF QsoInv, SaneInv, Sane
    <3> QED BY <2>1, <3>1 DEF Holds
  <2> QED BY <2>2 DEF ReportsTheirs
<1> QED BY QsoAlways, <1>1, PTL

(* TX5 is only left when the 73 was asked for, and what was asked for goes   *)
(* on the air unless it is replaced within the very slot.                    *)
THEOREM GoodbyeKept == Spec => GoodbyeQueued
<1> DEFINE Step == \A s \in Calls \ mixed' : Leaves(s) => station[s].aired \/ turn.phase = "encoded"
<1>1. TypeInv /\ TypeInv' /\ QsoInv /\ [Next]_vars => [Step]_vars
  <2> SUFFICES ASSUME TypeInv, TypeInv', QsoInv, Next PROVE Step
    OBVIOUS
  <2> SUFFICES ASSUME NEW s \in Calls \ mixed', Leaves(s), ~station[s].aired,
                      turn.phase # "encoded"
               PROVE  FALSE
    OBVIOUS
  <2>1. PICK t \in Calls : Slot(t) \/ Acts(t)
    BY DEF Next
  <2>2. CASE Acts(t)
    <3>1. s = t => station[s].state = "TX6"
      BY <2>2, RequestKeeps, HandledKeeps, ResetKeeps DEF Acts
    <3>2. s # t => station'[s] = station[s]
      BY <2>2, RequestKeeps, HandledKeeps, ResetKeeps DEF Acts
    <3> QED BY <3>1, <3>2 DEF Leaves
  <2>3. CASE EncodeStart(t) \/ NextTurn(t) \/ Tick(t)
    <3>1. station'[s].state = station[s].state
      BY <2>3, EncodeKeeps, TickKeeps DEF NextTurn
    <3> QED BY <3>1 DEF Leaves
  <2>4. CASE SlotStart(t) \/ Redecide(t)
    <3>1. s = t
      BY <2>4, StartKeeps, RedecideKeeps DEF Leaves
    <3>2. s \notin mixed /\ Order[turn.at] = s
      BY <2>4, <3>1 DEF SlotStart, Redecide, Turn
    <3>3. Parts(station[s], station'[s])
      BY <2>4, <3>1, <3>2, StartKeeps, RedecideKeeps
    <3>4. Past(s)
      BY <3>2, <3>3 DEF Leaves, Parts, QsoInv, AskedInv, Asked
    <3> QED BY <3>2, <3>4, NotPast
  <2> QED BY <2>1, <2>2, <2>3, <2>4 DEF Slot
<1> HIDE DEF Step
<1>2. Spec => [][Step]_vars
  BY QsoAlways, <1>1, PTL DEF Spec
<1> QED BY <1>2 DEF GoodbyeQueued, Step
=============================================================================
