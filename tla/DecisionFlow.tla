---------------------------- MODULE DecisionFlow ----------------------------
(* From a decision to the audio of a slot: DecisionOrchestrator decides for *)
(* the operators one after another when a slot starts and again when late   *)
(* decodes arrive, RadioOperatorManager turns the current text into encode  *)
(* requests, the encode queue answers them in order, and TransmissionPipe-  *)
(* line keeps the newest answer of each operator in the mixer.              *)
(* A text is a model value, and there may be none; what the strategy decides *)
(* from which messages is left open (module StandardQso has that). PTT,     *)
(* playback and remixing are in module TransmissionPipeline. The handler of *)
(* a changed frequency is left out: nothing emits its event.                *)
EXTENDS Integers, Sequences

CONSTANTS
    Ops,        \* the operators there may be
    Texts,      \* the texts a strategy may choose to send
    None,       \* no text, no message set, no request
    Redos,      \* runs of executeReDecision that may be under way at once
    MaxSame,    \* maxSameTransmissionCount
    Bounds      \* the operators a behaviour has and how much may happen, see bound

Id == [slot : Nat, ms : Nat]
Answer == [text : Texts, id : Id, at : Nat]

ASSUME FlowAssumption ==
    /\ MaxSame \in Nat \ {0}
    /\ None \notin Texts \cup Id \cup Answer \cup [text : Texts, count : Nat, slot : Nat]
    /\ \A bd \in Bounds :
         /\ bd.order \in Seq(Ops) /\ bd.order # <<>>
         /\ \A i, j \in DOMAIN bd.order : bd.order[i] = bd.order[j] => i = j
         /\ {bd.slots, bd.decodes, bd.calls, bd.events} \subseteq Nat

VARIABLES
    bound,     \* what this behaviour has: the operators, in the order of the
               \* manager's map, and at most so many slots, late decodes of a
               \* slot, calls that the gate and the auto-call plugins make for
               \* stopped operators, actions of users and plugins and encode
               \* errors
    clock,     \* the slot and how far its events are: [slot, ready, encoded]
    loop,      \* handleSlotStart: where it is and for which operator
    redo,      \* [Redos -> where that re-decision is, and for which decodes]
    decodes,   \* how often the pack of the previous slot has been updated
    station,   \* [Present -> [on, cycle, text]]: RadioOperator and its strategy
    session,   \* [Present -> OperatorDecisionState]
    pending,   \* pendingTransmissions
    work,      \* the requests processPendingTransmissions has yet to look at
    queue,     \* the encode queue, oldest first
    latest,    \* latestEncodeRequestIds
    guard,     \* sameTransmissionGuardStates
    stamp,     \* [Present -> Date.now() as the ids of its requests in this slot tell
               \* it: how often it has moved between two of them]
    air,       \* [Present -> what the mixer holds for this slot, or None]
    calls,     \* calls made for stopped operators so far
    events,    \* actions of users and plugins, and encode errors, so far
    disturbed  \* history: the operators whose slot did not take its plain
               \* course, see Disturb

deciding == <<loop, redo, decodes, session>>
encoding == <<queue, latest, guard, stamp, air>>
count == <<calls, events>>
vars == <<bound, clock, deciding, station, pending, work, encoding, count, disturbed>>

-----------------------------------------------------------------------------
Order == bound.order
Present == {Order[i] : i \in DOMAIN Order}

IdleLoop == [pc |-> "idle", i |-> 1, stop |-> FALSE]
IdleRedo == [pc |-> "idle", i |-> 1, stop |-> FALSE, ver |-> 0]
NewSession == [busy |-> FALSE, seen |-> None, last |-> None, pre |-> None]

(* CycleUtils.isOperatorTransmitCycleFromMs at the current slot *)
InTxCycle(o) == clock.slot % 2 = station[o].cycle

(* Which operators' slots a reader should not expect to take their plain    *)
(* course: see the uses. A behaviour says so with this, and nothing reads   *)
(* it but the properties.                                                   *)
Disturb(S) == disturbed' = disturbed \cup S

(* Nothing is in the middle of a synchronous stretch of code. *)
Quiet ==
    /\ work = <<>>
    /\ loop.pc # "stop"
    /\ \A r \in Redos : redo[r].pc # "next"

Happens == events < bound.events /\ events' = events + 1 /\ UNCHANGED calls
Calls == calls < bound.calls /\ calls' = calls + 1 /\ UNCHANGED events

Init ==
    /\ bound \in Bounds
    /\ clock = [slot |-> 1, ready |-> FALSE, encoded |-> FALSE]
    /\ loop = IdleLoop
    /\ redo = [r \in Redos |-> IdleRedo]
    /\ decodes = 0
    /\ station \in [Present -> [on : BOOLEAN, cycle : {0, 1}, text : Texts \cup {None}]]
    /\ session = [o \in Present |-> NewSession]
    /\ pending = <<>> /\ work = <<>> /\ queue = <<>>
    /\ latest = [o \in Present |-> None]
    /\ guard = [o \in Present |-> None]
    /\ stamp = [o \in Present |-> 0]
    /\ air = [o \in Present |-> None]
    /\ calls = 0 /\ events = 0
    /\ disturbed = {}

-----------------------------------------------------------------------------
(* Requests: RadioOperatorManager and the encode queue *)

(* A filter: what s has at the places in I, in that order. (SelectSeq would *)
(* do, if there were proof rules for it.)                                   *)
Kept(s, I) ==
    LET upto[n \in 0..Len(s)] ==
            IF n = 0 THEN <<>>
            ELSE IF n \in I THEN Append(upto[n - 1], s[n]) ELSE upto[n - 1]
    IN upto[Len(s)]

(* The same operator and text once: the filter keeps the first.             *)
Unique(reqs) == Kept(reqs, {i \in DOMAIN reqs : \A j \in 1..(i - 1) : reqs[j] # reqs[i]})

(* processPendingTransmissions takes the queue of requests, and these.      *)
TakeRequests(reqs) ==
    /\ pending' = <<>>
    /\ work' = Unique(pending \o reqs)

Wanted(o, text) == [op |-> o, text |-> text]

(* The operator is on, this is a slot of its cycle, and it has a text.      *)
Speaks(st) == st.on /\ clock.slot % 2 = st.cycle /\ st.text # None

(* What checkAndTriggerTransmission sends for an operator as it is in st.   *)
Triggered(o, st) == IF Speaks(st) THEN <<Wanted(o, st.text)>> ELSE <<>>

(* Else it returns early, without touching the queue of requests.           *)
CheckAndTrigger(o, st) ==
    IF Triggered(o, st) = <<>>
    THEN UNCHANGED <<pending, work>>
    ELSE TakeRequests(Triggered(o, st))

(* sameTransmissionGuardStates after one more request of this text *)
Counted(g, text) ==
    IF g = None \/ g.text # text THEN [text |-> text, count |-> 1, slot |-> clock.slot]
    ELSE IF g.slot = clock.slot THEN g
    ELSE [text |-> text, count |-> g.count + 1, slot |-> clock.slot]

(* The loop of processPendingTransmissions: an operator that is off is      *)
(* skipped, one that repeats itself too often is stopped, else the request  *)
(* gets an id from the slot and the clock and is pushed. The clock may not  *)
(* have moved since the previous request.                                   *)
Request ==
    /\ work # <<>>
    /\ work' = Tail(work)
    /\ LET o == Head(work).op
           g == Counted(guard[o], Head(work).text)
       IN \/ /\ ~station[o].on
             /\ UNCHANGED <<station, pending, queue, latest, guard, stamp, disturbed>>
          \/ /\ station[o].on /\ g.count > MaxSame
             /\ station' = [station EXCEPT ![o].on = FALSE]
             /\ pending' = Kept(pending, {i \in DOMAIN pending : pending[i].op # o})
             /\ latest' = [latest EXCEPT ![o] = None]
             /\ guard' = [guard EXCEPT ![o] = None]
             /\ UNCHANGED <<queue, stamp, disturbed>>
          \/ /\ station[o].on /\ g.count <= MaxSame
             /\ \E ms \in {stamp[o], stamp[o] + 1} :
                  LET id == [slot |-> clock.slot, ms |-> ms]
                  IN /\ stamp' = [stamp EXCEPT ![o] = ms]
                     /\ latest' = [latest EXCEPT ![o] = id]
                     /\ queue' = Append(queue, [op |-> o, text |-> Head(work).text, id |-> id])
                     /\ Disturb(IF latest[o] = id THEN {o} ELSE {})
             /\ guard' = [guard EXCEPT ![o] = g]
             /\ UNCHANGED <<station, pending>>
    /\ UNCHANGED <<clock, deciding, air, count>>

(* A newer request of the operator is known. (Mutants, here and below, are  *)
(* what a slip in the code would make of the definition that follows.)      *)
Stale_NotChecked(q) == FALSE
Stale(q) == latest[q.op] # None /\ latest[q.op] # q.id

(* handleEncodeComplete: a result that is not the latest of its operator is *)
(* dropped, unless the latest is unknown; so is one that the mixer holds.   *)
(* It goes into the slot of the moment, and evicts audio of an older slot.  *)
EncodeComplete ==
    /\ Quiet /\ queue # <<>>
    /\ queue' = Tail(queue)
    /\ LET q == Head(queue)
           known == air[q.op] # None /\ air[q.op].id = q.id
           fresh == [o \in Present |-> IF air[o] # None /\ air[o].at = clock.slot
                                   THEN air[o] ELSE None]
       IN air' = IF Stale(q) \/ known THEN air
                 ELSE [fresh EXCEPT ![q.op] =
                          [text |-> q.text, id |-> q.id, at |-> clock.slot]]
    /\ UNCHANGED <<clock, deciding, station, pending, work, latest, guard, stamp,
                   count, disturbed>>

(* encodeError: the encoder refuses the text, or fails.                     *)
EncodeError ==
    /\ Quiet /\ queue # <<>>
    /\ Happens
    /\ queue' = Tail(queue)
    /\ Disturb({Head(queue).op})
    /\ UNCHANGED <<clock, deciding, station, pending, work, latest, guard, stamp, air>>

-----------------------------------------------------------------------------
(* A slot begins and its encodeStart comes: SlotClock, ClockCoordinator     *)

(* An engine that keeps up: the handlers of a slot end within the slot, and *)
(* an encode that was asked for late in a slot ends in the next.            *)
SlotTick ==
    /\ Quiet /\ clock.slot < bound.slots
    /\ clock.ready /\ clock.encoded /\ loop = IdleLoop
    /\ \A r \in Redos : redo[r] = IdleRedo
    /\ \A i \in DOMAIN queue : queue[i].id.slot = clock.slot
    /\ clock' = [slot |-> clock.slot + 1, ready |-> FALSE, encoded |-> FALSE]
    /\ decodes' = 0 /\ stamp' = [o \in Present |-> 0]
    /\ disturbed' = {queue[i].op : i \in DOMAIN queue}
    /\ UNCHANGED <<loop, redo, session, station, pending, work, queue, latest, guard,
                   air, count>>

(* The rest of the slotStart handler, once the radio has answered the PTT   *)
(* release: the mixer's cache and the request ids are cleared and           *)
(* handleSlotStart runs to its first await.                                 *)
SlotStart ==
    /\ Quiet /\ ~clock.ready
    /\ clock' = [clock EXCEPT !.ready = TRUE]
    /\ air' = [o \in Present |-> None]
    /\ latest' = [o \in Present |-> None]
    /\ loop' = [IdleLoop EXCEPT !.pc = "hooks"]
    /\ UNCHANGED <<redo, decodes, session, station, pending, work, queue, guard, stamp,
                   count, disturbed>>

(* The place of an operator in the loop: not yet reached, or before the     *)
(* decision state of the previous slot has been reset.                      *)
Unreached(o) ==
    \/ ~clock.ready
    \/ \E i \in DOMAIN Order :
         /\ Order[i] = o
         /\ loop.pc # "idle"
         /\ i > loop.i \/ (i = loop.i /\ loop.pc = "hooks")

Sends_AnyCycle(o) == station[o].on
Sends(o) == station[o].on /\ InTxCycle(o)

(* A late decision whose failed QSO the plugins are still hearing of has    *)
(* changed the text, and not yet the last decision's text.                  *)
Unannounced(o) == \E r \in Redos : redo[r].pc = "notifying" /\ Order[redo[r].i] = o

(* An operator without a text whose decision is under way: encodeStart      *)
(* notes nothing that the decision could be compared with.                  *)
Unnoted(o) == /\ Sends(o) /\ station[o].text = None
              /\ loop.pc \in {"scoring", "deciding"} /\ Order[loop.i] = o

(* handleEncodeStart notes the current text of every operator that sends in *)
(* this slot and has one, and asks for it; onEncodeStart then takes the     *)
(* requests. An operator whose decision state is reset only later loses the *)
(* note.                                                                    *)
EncodeStart ==
    /\ Quiet /\ ~clock.encoded
    /\ clock' = [clock EXCEPT !.encoded = TRUE]
    /\ LET sending == Kept(Order, {i \in DOMAIN Order :
                                      Sends(Order[i]) /\ station[Order[i]].text # None})
       IN TakeRequests([i \in DOMAIN sending |-> Wanted(sending[i], station[sending[i]].text)])
    /\ session' = [o \in Present |->
                     IF Sends(o) /\ station[o].text # None
                     THEN [session[o] EXCEPT !.pre = station[o].text] ELSE session[o]]
    /\ Disturb({o \in Present : Unreached(o) \/ Unannounced(o) \/ Unnoted(o)}
               \cup {pending[i].op : i \in DOMAIN pending})
    /\ UNCHANGED <<loop, redo, decodes, station, encoding, count>>

-----------------------------------------------------------------------------
(* handleSlotStart, for one operator after another                          *)

Following(l) == IF l.i = Len(Order) THEN IdleLoop
                ELSE [IdleLoop EXCEPT !.pc = "hooks", !.i = l.i + 1]

(* Hooks, then the reset of the decision state, with no await between the   *)
(* last hook and the reset.                                                 *)
LoopHooks ==
    /\ Quiet /\ loop.pc = "hooks"
    /\ LET o == Order[loop.i]
       IN IF station[o].on
          THEN /\ loop' = [loop EXCEPT !.pc = "scoring"]
               /\ session' = [session EXCEPT ![o].seen = None, ![o].last = None,
                                                    ![o].pre = None]
          ELSE loop' = Following(loop) /\ UNCHANGED session
    /\ UNCHANGED <<clock, redo, decodes, station, pending, work, encoding, count, disturbed>>

(* A silent directed-call gate or an auto call has the strategy turn to a   *)
(* station, for which it has a text, switches the operator on and moves it  *)
(* to the cycle of this slot, which asks for the text at once.              *)
Called(o, text) == [on |-> TRUE, cycle |-> clock.slot % 2, text |-> text]

(* tryWakeFromSilentDirectedCallGate: the loop goes on without deciding.    *)
LoopWake ==
    /\ Quiet /\ Calls /\ loop.pc = "hooks"
    /\ \E text \in Texts :
         LET o == Order[loop.i]
         IN /\ ~station[o].on
            /\ station' = [station EXCEPT ![o] = Called(o, text)]
            /\ session' = [session EXCEPT ![o].seen = None]
            /\ CheckAndTrigger(o, Called(o, text))
            /\ Disturb({o} \cup {pending[i].op : i \in DOMAIN pending})
    /\ loop' = Following(loop)
    /\ UNCHANGED <<clock, redo, decodes, encoding>>

(* applyAutoCallProposal, and on to the decision with no further await.     *)
LoopAutoCall ==
    /\ Quiet /\ Calls /\ loop.pc = "hooks"
    /\ \E text \in Texts :
         LET o == Order[loop.i]
         IN /\ ~station[o].on
            /\ station' = [station EXCEPT ![o] = Called(o, text)]
            /\ session' = [session EXCEPT ![o] = [NewSession EXCEPT !.busy = TRUE]]
            /\ CheckAndTrigger(o, Called(o, text))
            /\ Disturb({pending[i].op : i \in DOMAIN pending})
    /\ loop' = [loop EXCEPT !.pc = "deciding"]
    /\ UNCHANGED <<clock, redo, decodes, encoding>>

LoopScored ==
    /\ Quiet /\ loop.pc = "scoring"
    /\ loop' = [loop EXCEPT !.pc = "deciding"]
    /\ session' = [session EXCEPT ![Order[loop.i]].busy = TRUE]
    /\ UNCHANGED <<clock, redo, decodes, station, pending, work, encoding, count, disturbed>>

(* The strategy has decided, on the pack as it was when the slot began, if  *)
(* there was one; only then the set of its messages is noted.               *)
LoopDecided ==
    /\ Quiet /\ loop.pc = "deciding"
    /\ LET o == Order[loop.i]
       IN \E text \in Texts \cup {None}, stop \in BOOLEAN,
             seen \in {[slot |-> clock.slot, ver |-> 0], session[o].seen} :
            /\ station' = [station EXCEPT ![o].text = text]
            /\ session' = [session EXCEPT ![o].busy = FALSE, ![o].seen = seen, ![o].last = text]
            /\ loop' = [loop EXCEPT !.pc = "notifying", !.stop = stop]
    /\ UNCHANGED <<clock, redo, decodes, pending, work, encoding, count, disturbed>>

Outdated_NotCompared(o) == FALSE
Outdated(o) == /\ session[o].pre # None /\ session[o].last # None
               /\ session[o].last # session[o].pre

(* After the plugins have heard of a failed QSO: an encode of another text  *)
(* that was asked for in the meantime is replaced.                          *)
LoopNotified ==
    /\ Quiet /\ loop.pc = "notifying"
    /\ LET o == Order[loop.i]
       IN /\ IF Outdated(o) THEN CheckAndTrigger(o, station[o]) ELSE UNCHANGED <<pending, work>>
          /\ session' = [session EXCEPT ![o].pre = None]
          /\ Disturb(IF Outdated(o) THEN {pending[i].op : i \in DOMAIN pending} ELSE {})
    /\ loop' = IF loop.stop THEN [loop EXCEPT !.pc = "stop"] ELSE Following(loop)
    /\ UNCHANGED <<clock, redo, decodes, station, encoding, count>>

(* applyStrategyStop: what has been asked for is not taken back.            *)
LoopStop ==
    /\ work = <<>> /\ loop.pc = "stop"
    /\ station' = [station EXCEPT ![Order[loop.i]].on = FALSE]
    /\ loop' = Following(loop)
    /\ UNCHANGED <<clock, redo, decodes, session, pending, work, encoding, count, disturbed>>

-----------------------------------------------------------------------------
(* Late decodes: reDecideOnLateDecodes, executeReDecision, reDecideOperator *)

(* slotPackDecodeUpdated before the deadline; after it nothing is done.     *)
LateDecode ==
    /\ Quiet /\ decodes < bound.decodes
    /\ decodes' = decodes + 1
    /\ \E r \in Redos :
         /\ redo[r].pc = "idle"
         /\ redo' = [redo EXCEPT ![r] = [IdleRedo EXCEPT !.pc = "next", !.ver = decodes + 1]]
    /\ UNCHANGED <<clock, loop, session, station, pending, work, encoding, count, disturbed>>

Advance_OneTooFar(d) == IF d.i > Len(Order) THEN IdleRedo
                        ELSE [d EXCEPT !.pc = "next", !.i = @ + 1, !.stop = FALSE]
Advance(d) == IF d.i = Len(Order) THEN IdleRedo
              ELSE [d EXCEPT !.pc = "next", !.i = @ + 1, !.stop = FALSE]

(* Some message of the pack was not there at the last decision. (An update  *)
(* that brings no message is none.)                                         *)
HasNews(o, ver) ==
    ~(/\ session[o].seen # None
      /\ session[o].seen.slot = clock.slot
      /\ session[o].seen.ver >= ver)

(* The checks before the first await, for the next operator.                *)
RedoNext(r) ==
    /\ work = <<>> /\ loop.pc # "stop" /\ redo[r].pc = "next"
    /\ LET o == Order[redo[r].i]
       IN \/ /\ Sends(o) /\ ~session[o].busy /\ HasNews(o, redo[r].ver)
             /\ redo' = [redo EXCEPT ![r].pc = "scoring"]
          \/ /\ ~(Sends(o) /\ ~session[o].busy /\ HasNews(o, redo[r].ver))
             /\ redo' = [redo EXCEPT ![r] = Advance(@)]
          \/ /\ ~station[o].on
             /\ redo' = [redo EXCEPT ![r].pc = "waking"]
    /\ UNCHANGED <<clock, loop, decodes, session, station, pending, work, encoding, count,
                   disturbed>>

(* The gate may have wakened a stopped operator: the switch of the cycle    *)
(* asks for its text, and executeReDecision asks again.                     *)
RedoWake(r) ==
    /\ Quiet /\ redo[r].pc = "waking"
    /\ redo' = [redo EXCEPT ![r] = Advance(@)]
    /\ LET o == Order[redo[r].i]
       IN \/ UNCHANGED <<session, station, pending, work, count, disturbed>>
          \/ \E text \in Texts :
               /\ ~station[o].on /\ Calls
               /\ station' = [station EXCEPT ![o] = Called(o, text)]
               /\ session' = [session EXCEPT ![o].seen = None]
               /\ pending' = <<>>
               /\ work' = Unique(Append(pending, Wanted(o, text))) \o <<Wanted(o, text)>>
               /\ Disturb({o} \cup {pending[i].op : i \in DOMAIN pending})
    /\ UNCHANGED <<clock, loop, decodes, encoding>>

RedoScored(r) ==
    /\ Quiet /\ redo[r].pc = "scoring"
    /\ redo' = [redo EXCEPT ![r].pc = "deciding"]
    /\ session' = [session EXCEPT ![Order[redo[r].i]].busy = TRUE]
    /\ UNCHANGED <<clock, loop, decodes, station, pending, work, encoding, count, disturbed>>

(* The decision of the slot itself is still to come, or under way: the two  *)
(* compare with each other's last text.                                     *)
Undecided(o) == Unreached(o) \/ (loop.pc # "idle" /\ Order[loop.i] = o)

RedoDecided(r) ==
    /\ Quiet /\ redo[r].pc = "deciding"
    /\ \E text \in Texts \cup {None}, stop \in BOOLEAN :
         LET o == Order[redo[r].i]
         IN /\ station' = [station EXCEPT ![o].text = text]
            /\ session' = [session EXCEPT ![o].busy = FALSE]
            /\ redo' = [redo EXCEPT ![r].pc = "notifying", ![r].stop = stop]
            /\ Disturb(IF Undecided(o) THEN {o} ELSE {})
    /\ UNCHANGED <<clock, loop, decodes, pending, work, encoding, count>>

(* A stop also takes the operator's audio out of the mixer; a new text is   *)
(* asked for.                                                               *)
RedoNotified(r) ==
    /\ Quiet /\ redo[r].pc = "notifying"
    /\ redo' = [redo EXCEPT ![r] = Advance(@)]
    /\ LET o == Order[redo[r].i]
       IN \/ /\ redo[r].stop
             /\ station' = [station EXCEPT ![o].on = FALSE]
             /\ air' = [air EXCEPT ![o] = None]
             /\ UNCHANGED <<session, pending, work, disturbed>>
          \/ /\ ~redo[r].stop
             /\ session' = [session EXCEPT ![o].last = station[o].text,
                               ![o].seen = [slot |-> clock.slot, ver |-> redo[r].ver]]
             /\ IF station[o].text # session[o].last
                THEN /\ CheckAndTrigger(o, station[o])
                     /\ Disturb({pending[i].op : i \in DOMAIN pending})
                ELSE UNCHANGED <<pending, work, disturbed>>
             /\ UNCHANGED <<station, air>>
    /\ UNCHANGED <<clock, loop, decodes, queue, latest, guard, stamp, count>>

-----------------------------------------------------------------------------
(* Users and plugins *)

Event == Quiet /\ Happens

StartOperator(o) ==
    /\ Event
    /\ guard' = [guard EXCEPT ![o] = None]
    /\ station' = [station EXCEPT ![o].on = TRUE]
    /\ CheckAndTrigger(o, [station[o] EXCEPT !.on = TRUE])
    /\ Disturb({o} \cup {pending[i].op : i \in DOMAIN pending})
    /\ UNCHANGED <<clock, deciding, queue, latest, stamp, air>>

(* An encode that is under way is neither cancelled nor refused.            *)
StopOperator(o) ==
    /\ Event
    /\ guard' = [guard EXCEPT ![o] = None]
    /\ station' = [station EXCEPT ![o].on = FALSE]
    /\ Disturb({o})
    /\ UNCHANGED <<clock, deciding, pending, work, queue, latest, stamp, air>>

(* A change that has the late decodes looked at again and asks for the text *)
(* at once: handleOperatorTransmitCyclesChanged and its like.               *)
Revise(o, st) ==
    /\ Event
    /\ session' = [session EXCEPT ![o].seen = None]
    /\ station' = [station EXCEPT ![o] = st]
    /\ CheckAndTrigger(o, st)
    /\ Disturb({o} \cup {pending[i].op : i \in DOMAIN pending})
    /\ UNCHANGED <<clock, loop, redo, decodes, encoding>>

(* PluginManager.requestCall, in answer to a message of the previous slot   *)
RequestCall(o) == \E text \in Texts : Revise(o, Called(o, text))

(* A user changes the state of the strategy, or the text of its state. (New *)
(* texts of other states only have the late decodes looked at again.)       *)
ChangeText(o) == \E text \in Texts \cup {None} : Revise(o, [station[o] EXCEPT !.text = text])

ChangeCycle(o) == \E cycle \in {0, 1} : Revise(o, [station[o] EXCEPT !.cycle = cycle])

(* sendFreeText of a plugin: the request waits for the next one that is     *)
(* processed, whoever's that is.                                            *)
SendFreeText(o) ==
    /\ Event
    /\ \E text \in Texts : pending' = Append(pending, Wanted(o, text))
    /\ UNCHANGED <<clock, deciding, station, work, encoding, disturbed>>

-----------------------------------------------------------------------------
Loop == LoopHooks \/ LoopWake \/ LoopAutoCall \/ LoopScored \/ LoopDecided
        \/ LoopNotified \/ LoopStop

Redo(r) == RedoNext(r) \/ RedoWake(r) \/ RedoScored(r) \/ RedoDecided(r) \/ RedoNotified(r)

Acts(o) == StartOperator(o) \/ StopOperator(o) \/ RequestCall(o) \/ ChangeText(o)
           \/ ChangeCycle(o) \/ SendFreeText(o)

Step ==
    \/ Request \/ EncodeComplete \/ EncodeError
    \/ SlotTick \/ SlotStart \/ EncodeStart \/ LateDecode
    \/ Loop
    \/ \E r \in Redos : Redo(r)
    \/ \E o \in Present : Acts(o)

Next == Step /\ UNCHANGED bound

Spec == Init /\ [][Next]_vars

-----------------------------------------------------------------------------
(* The types of the model's state: the handlers' places, the operators'     *)
(* records, the requests at their stages.                                   *)
Clocks == [slot : Nat, ready : BOOLEAN, encoded : BOOLEAN]
Loops == [pc : {"idle", "hooks", "scoring", "deciding", "notifying", "stop"},
          i : DOMAIN Order, stop : BOOLEAN]
RedoRuns == [pc : {"idle", "next", "waking", "scoring", "deciding", "notifying"},
             i : DOMAIN Order, stop : BOOLEAN, ver : Nat]
Stations == [on : BOOLEAN, cycle : {0, 1}, text : Texts \cup {None}]
Sessions == [busy : BOOLEAN, seen : [slot : Nat, ver : Nat] \cup {None},
             last : Texts \cup {None}, pre : Texts \cup {None}]
Req == [op : Present, text : Texts]
Queued == [op : Present, text : Texts, id : Id]
Guards == [text : Texts, count : Nat, slot : Nat]
TypeOK ==
    /\ bound \in Bounds
    /\ clock \in Clocks /\ loop \in Loops /\ redo \in [Redos -> RedoRuns]
    /\ decodes \in Nat /\ stamp \in [Present -> Nat] /\ calls \in Nat /\ events \in Nat
    /\ station \in [Present -> Stations] /\ session \in [Present -> Sessions]
    /\ pending \in Seq(Req) /\ work \in Seq(Req) /\ queue \in Seq(Queued)
    /\ latest \in [Present -> Id \cup {None}]
    /\ guard \in [Present -> Guards \cup {None}]
    /\ air \in [Present -> Answer \cup {None}]
    /\ disturbed \subseteq Present

(* Everything asked of this slot so far has been answered.                  *)
Settled ==
    /\ Quiet /\ queue = <<>> /\ clock.ready /\ clock.encoded
    /\ loop = IdleLoop /\ \A r \in Redos : redo[r] = IdleRedo

(* Whatever the order of encodeStart, the slot's decision, its failure      *)
(* notices, late decodes and the encoder's answers: in the end an operator  *)
(* that sends in this slot has the text of its last decision, if there is   *)
(* one, in the mixer.                                                       *)
LastDecisionSent ==
    Settled => \A o \in Present \ disturbed :
                  Speaks(station[o]) => /\ air[o] # None
                                        /\ air[o].text = station[o].text

(* Audio goes into the mixer only in the slot it was asked for, when its    *)
(* operator sends; and once the boundary has been dealt with the mixer      *)
(* holds no other.                                                          *)
InOwnSlot ==
    \A o \in Present \ disturbed :
        air[o] # None /\ (clock.ready \/ air[o].at = clock.slot) =>
            /\ air[o].at = clock.slot /\ air[o].id.slot = clock.slot
            /\ InTxCycle(o)

(* An answer that reaches the mixer is that of the operator's newest        *)
(* request, even if an older one is still on its way or comes late.         *)
NewestWins ==
    [][\A o \in Present \ disturbed' :
          air'[o] # air[o] /\ air'[o] # None =>
              /\ \A i \in DOMAIN queue' : queue'[i].op # o
              /\ latest[o] = air'[o].id]_vars
=============================================================================
