------------------------ MODULE TransmissionPipeline ------------------------
(***************************************************************************)
(* The digital transmit path: mixer cache, PTT, playback and the handlers  *)
(* that drive them (subsystems/TransmissionPipeline.ts, with the parts of  *)
(* AudioMixer.ts, AudioStreamManager.ts and ClockCoordinator.ts it calls). *)
(*                                                                         *)
(* Every event (a finished encode, a mix timer, a slot boundary, a client  *)
(* command) starts an async handler, and handlers interleave at their      *)
(* awaits.  A handler is a slot of Handler with a program counter; an      *)
(* action runs one handler to its next await.  The continuations that a    *)
(* settled promise makes ready run before any timer, message or I/O event: *)
(* events and I/O wait for Drained.                                        *)
(*                                                                         *)
(* Audio content and time are abstract: a playback ends when it likes, the *)
(* mixer yields nothing when its cache is empty or the material is all     *)
(* played (late), the hold of the poll expires at any tick.                *)
(***************************************************************************)
EXTENDS Integers, Sequences, FiniteSets

CONSTANTS
  Handler,     \* handler instances in flight at once (bound, model only)
  SlotHandler, \* the one that serves slotStart: the previous one has ended
  Nobody,
  Operators,   \* operators that may transmit
  Scenarios,   \* the surroundings to consider: subsets of Surroundings
  MaxInFlight, \* bound on handlers and commands in flight and faults, together
  MaxFaults    \* bound on I/O faults

ASSUME HandlerAssumption ==
  /\ SlotHandler \in Handler
  /\ Nobody \notin Handler

(* What the station meets:                                                 *)
(*   overlap   events arrive while a handler awaits a stop or PTT          *)
(*   icom      shouldReleasePTTImmediatelyAfterAudio() is true             *)
Surroundings == {"overlap", "icom"}

ASSUME ModeAssumption ==
  /\ Scenarios \subseteq SUBSET Surroundings
  /\ MaxInFlight \in Nat
  /\ MaxFaults \in Nat

VARIABLES
  env,        \* the surroundings; they never change
  pc,         \* where each handler is suspended
  kind,       \* which handler it is
  waits,      \* the playback a handler in stopCurrentPlayback awaits
  current,    \* currentPlaybackPromise, named by the handler that plays it;
              \* the code's `playing' is current # Nobody
  stopFlag,   \* shouldStopPlayback
  cached,     \* operators with audio in slotAudioCache
  timer,      \* mixingTimeout is armed
  remixing,   \* _isRemixing
  pttActive,  \* _isPTTActive
  polls,      \* number of poll intervals running (pttPollInterval is set)
  silent,     \* pttAudioStoppedAt is set
  commands,   \* setPTT calls queued at the radio, in order
  rig,        \* the transmitter is keyed
  connected,  \* radioManager.isConnected()
  faults      \* I/O faults so far

mixer == <<cached, timer>>
playback == <<current, stopFlag>>
poll == <<polls, silent>>
radio == <<rig, connected, faults>>
vars == <<env, pc, kind, waits, current, stopFlag, cached, timer, remixing,
          pttActive, polls, silent, commands, rig, connected, faults>>

Kind == {"tx", "remix", "removal", "stop", "slot"}
Pc == {"idle", "preparing", "sounding", "finished", "interrupted", "failed",
       "stopping", "stopped", "unkeying", "unkeyed"}

Overlap == "overlap" \in env
IcomWlan == "icom" \in env

Playing == current # Nobody

-----------------------------------------------------------------------------
(* Commands.  A command remembers the handler that awaits it; a handler    *)
(* that ends leaves its commands behind, and they still take effect.       *)

Forget(q, h) ==
  [i \in DOMAIN q |-> IF q[i].by = h THEN [q[i] EXCEPT !.by = Nobody] ELSE q[i]]

Starting(h) == \E i \in DOMAIN commands : commands[i].on /\ commands[i].by = h

(* startPTT: a no-op when PTT is believed active or there is no radio.     *)
(* The defect records the new state before the radio answers.              *)
StartPTT_BeliefFirst(h) ==
  /\ commands' = IF pttActive \/ ~connected THEN commands
                 ELSE Append(commands, [on |-> TRUE, by |-> h])
  /\ pttActive' = (pttActive \/ connected)
StartPTT(h) ==
  /\ commands' = IF pttActive \/ ~connected THEN commands
                 ELSE Append(commands, [on |-> TRUE, by |-> h])
  /\ UNCHANGED pttActive

(* stopPTT called by h on the command queue q: _isPTTActive is cleared     *)
(* only when the command completes, or at once without a radio.            *)
MustUnkey == pttActive /\ connected
StopPTT(q, h) ==
  /\ commands' = IF MustUnkey THEN Append(q, [on |-> FALSE, by |-> h]) ELSE q
  /\ pttActive' = MustUnkey

(* stopCurrentPlayback: with nothing playing it resolves at once.          *)
(* The defect returns without waiting for the playback to end.             *)
StopPlayback_NoWait(h, k) ==
  /\ pc' = [pc EXCEPT ![h] = "stopped"]
  /\ kind' = [kind EXCEPT ![h] = k]
  /\ waits' = waits
  /\ stopFlag' = (stopFlag \/ Playing)
  /\ UNCHANGED current
StopPlayback(h, k) ==
  /\ pc' = [pc EXCEPT ![h] = IF Playing THEN "stopping" ELSE "stopped"]
  /\ kind' = [kind EXCEPT ![h] = k]
  /\ waits' = [waits EXCEPT ![h] = current]
  /\ stopFlag' = (stopFlag \/ Playing)
  /\ UNCHANGED current

(* playAudio: the caller becomes the current playback and clears the flag. *)
Play(h) ==
  /\ pc' = [pc EXCEPT ![h] = "sounding"]
  /\ current' = h
  /\ stopFlag' = FALSE

(* startPTTPoll does nothing while an interval runs; stopPTTPoll.  The     *)
(* defect forgets the interval it already has.                             *)
StartPoll_Again ==
  /\ polls' = polls + 1
  /\ silent' = FALSE
StartPoll ==
  /\ polls' = 1
  /\ silent' = (silent /\ polls = 1)
StopPoll ==
  /\ polls' = 0
  /\ silent' = FALSE

Idle(h) == pc' = [pc EXCEPT ![h] = "idle"]
EndRemix_KeepFlag == UNCHANGED remixing
EndRemix == remixing' = FALSE

-----------------------------------------------------------------------------
(* Continuations that are ready to run. *)
Ready(h) ==
  \/ pc[h] \in {"interrupted", "failed", "stopped", "unkeyed"}
  \/ pc[h] = "finished" /\ ~Starting(h)
  \/ pc[h] = "preparing" /\ ~Overlap  \* no tune tone to wait for
Drained == \A h \in Handler : ~Ready(h)

(* Nobody is inside an await that a second event could overtake. *)
Settled ==
  /\ commands = <<>>
  /\ \A h \in Handler : pc[h] \notin {"stopping", "unkeying"}

InFlight == Cardinality({h \in Handler : pc[h] # "idle"}) + Len(commands)

(* Bounds: a fault leaves room for one event less.                         *)
Room == InFlight + faults < MaxInFlight
May == Room /\ faults < MaxFaults

(* An event that a fresh handler h serves. *)
Event(h) ==
  /\ h # SlotHandler
  /\ pc[h] = "idle"
  /\ Drained
  /\ Overlap \/ Settled
  /\ Room

Init ==
  /\ env \in Scenarios
  /\ pc = [h \in Handler |-> "idle"]
  /\ kind = [h \in Handler |-> "tx"]
  /\ waits = [h \in Handler |-> Nobody]
  /\ current = Nobody
  /\ stopFlag = FALSE
  /\ cached = {}
  /\ timer = FALSE
  /\ remixing = FALSE
  /\ pttActive = FALSE
  /\ polls = 0
  /\ silent = FALSE
  /\ commands = <<>>
  /\ rig = FALSE
  /\ connected = TRUE
  /\ faults = 0

-----------------------------------------------------------------------------
(* handleEncodeComplete for an accepted result.  addOperatorAudio clears   *)
(* the cache first when the clock is in another slot than the cache        *)
(* (switched).  Then one of: remix while digital audio plays, mix now      *)
(* (mid-slot), or arm the mix timer for the transmit start.                *)

AddAudio(op, switched) ==
  cached' = (IF switched THEN {} ELSE cached) \cup {op}

EncodeRemix(h, op, switched) ==
  /\ Event(h)
  /\ Playing
  /\ AddAudio(op, switched)
  /\ timer' = (timer /\ ~switched)
  /\ remixing' = TRUE
  /\ StopPlayback(h, "remix")
  /\ UNCHANGED <<pttActive, poll, commands, rig, connected, faults>>

EncodeMidSlot(h, op, switched) ==
  /\ Event(h)
  /\ ~Playing
  /\ Overlap \/ ~timer  \* an unhurried timer has fired by the transmit start
  /\ AddAudio(op, switched)
  /\ timer' = (timer /\ ~switched)
  /\ \/ /\ pc' = [pc EXCEPT ![h] = "preparing"]
        /\ kind' = [kind EXCEPT ![h] = "tx"]
     \/ UNCHANGED <<pc, kind>>  \* all of it is already in the past
  /\ UNCHANGED <<waits, playback, remixing, pttActive, poll, commands, radio>>

EncodeSchedule(op, switched) ==
  /\ Drained
  /\ Overlap \/ Settled
  /\ ~Playing
  /\ AddAudio(op, switched)
  /\ timer' = TRUE
  /\ UNCHANGED <<pc, kind, waits, playback, remixing, pttActive, poll, commands, radio>>

(* The mix timer: triggerMixing emits mixedAudioReady unless the cache is  *)
(* empty.                                                                  *)
MixTimer(h) ==
  /\ Event(h)
  /\ timer
  /\ timer' = FALSE
  /\ IF cached = {} THEN UNCHANGED <<pc, kind>>
     ELSE /\ pc' = [pc EXCEPT ![h] = "preparing"]
          /\ kind' = [kind EXCEPT ![h] = "tx"]
  /\ UNCHANGED <<waits, playback, cached, remixing, pttActive, poll, commands, radio>>

(* handleMixedAudioReady after onBeforeStartPTT: PTT and playback start    *)
(* together, then the poll.                                                *)
StartTransmission(h) ==
  /\ pc[h] = "preparing"
  /\ Overlap => Drained
  /\ StartPTT(h)
  /\ StartPoll
  /\ \/ Play(h) /\ UNCHANGED faults
     \/ /\ May  \* playAudio throws: no output stream
        /\ faults' = faults + 1
        /\ pc' = [pc EXCEPT ![h] = "failed"]
        /\ UNCHANGED playback
  /\ UNCHANGED <<kind, waits, mixer, remixing, rig, connected>>

-----------------------------------------------------------------------------
(* The end of a playback: the loop saw the stop flag, ran out of samples,  *)
(* or failed.  The finally block clears the playback state only for the    *)
(* current playback; whoever awaits it in stopCurrentPlayback clears it    *)
(* unconditionally and goes on.                                            *)
Waiting(h) == {w \in Handler : pc[w] = "stopping" /\ waits[w] = h}

EndPlayback_LeakCurrent(h, end) ==
  /\ pc' = [g \in Handler |-> IF g = h THEN end
                              ELSE IF g \in Waiting(h) THEN "stopped" ELSE pc[g]]
  /\ current' = current
  /\ waits' = [w \in Handler |-> IF w \in Waiting(h) THEN Nobody ELSE waits[w]]
  /\ stopFlag' = (stopFlag /\ Waiting(h) = {})
EndPlayback(h, end) ==
  /\ pc' = [g \in Handler |-> IF g = h THEN end
                              ELSE IF g \in Waiting(h) THEN "stopped" ELSE pc[g]]
  /\ current' = IF current = h \/ Waiting(h) # {} THEN Nobody ELSE current
  /\ waits' = [w \in Handler |-> IF w \in Waiting(h) THEN Nobody ELSE waits[w]]
  /\ stopFlag' = (stopFlag /\ Waiting(h) = {})

PlaybackEnds(h) ==
  /\ pc[h] = "sounding"
  /\ Drained
  /\ \/ stopFlag /\ EndPlayback(h, "interrupted") /\ UNCHANGED faults
     \/ EndPlayback(h, "finished") /\ UNCHANGED faults
     \/ May /\ EndPlayback(h, "failed") /\ faults' = faults + 1
  /\ UNCHANGED <<kind, mixer, remixing, pttActive, poll, commands, rig, connected>>

(* The radio executes the oldest setPTT call.  A failed call is logged and *)
(* swallowed by PhysicalRadioManager.setPTT, so its caller goes on as if   *)
(* the state had changed.                                                  *)
Execute(c) ==
  \/ connected /\ rig' = c.on /\ UNCHANGED faults
  \/ ~connected /\ UNCHANGED <<rig, faults>>
  \/ connected /\ May /\ faults' = faults + 1 /\ UNCHANGED rig

CommandDone ==
  /\ commands # <<>>
  /\ Drained
  /\ Execute(Head(commands))
  /\ commands' = Tail(commands)
  /\ pttActive' = Head(commands).on
  /\ pc' = [h \in Handler |->
              IF Head(commands).by = h /\ ~Head(commands).on THEN "unkeyed" ELSE pc[h]]
  /\ UNCHANGED <<kind, waits, playback, mixer, remixing, poll, connected>>

-----------------------------------------------------------------------------
(* handleMixedAudioReady once Promise.all has settled. *)

TxFinished(h) ==
  /\ kind[h] = "tx"
  /\ pc[h] = "finished"
  /\ ~Starting(h)
  /\ IF IcomWlan
     THEN /\ StopPoll
          /\ StopPTT(commands, h)
          /\ pc' = [pc EXCEPT ![h] = IF MustUnkey THEN "unkeying" ELSE "idle"]
     ELSE Idle(h) /\ UNCHANGED <<poll, pttActive, commands>>
  /\ UNCHANGED <<kind, waits, playback, mixer, remixing, radio>>

(* 'playback interrupted': a content switch, PTT stays on. *)
InterruptedPTT_Stop(h) ==
  /\ StopPTT(Forget(commands, h), Nobody)
InterruptedPTT(h) ==
  /\ commands' = Forget(commands, h)
  /\ UNCHANGED pttActive

TxInterrupted(h) ==
  /\ kind[h] = "tx"
  /\ pc[h] = "interrupted"
  /\ StopPoll
  /\ InterruptedPTT(h)
  /\ Idle(h)
  /\ UNCHANGED <<kind, waits, playback, mixer, remixing, radio>>

TxFailed(h) ==
  /\ kind[h] = "tx"
  /\ pc[h] = "failed"
  /\ StopPoll
  /\ StopPTT(Forget(commands, h), h)
  /\ pc' = [pc EXCEPT ![h] = IF MustUnkey THEN "unkeying" ELSE "idle"]
  /\ UNCHANGED <<kind, waits, playback, mixer, remixing, radio>>

(* The remix of handleEncodeComplete and of removeOperatorFromTransmission *)
(* after the old playback stopped.  late: nothing is left to play.  An     *)
(* encode's remix that yields nothing just ends; a removal's stops PTT.    *)
Remix(h) ==
  /\ kind[h] \in {"remix", "removal"}
  /\ pc[h] = "stopped"
  /\ \E late \in BOOLEAN :
       IF cached # {} /\ ~late
       THEN Play(h) /\ UNCHANGED <<poll, pttActive, commands, remixing>>
       ELSE /\ UNCHANGED playback
            /\ IF kind[h] = "remix"
               THEN Idle(h) /\ EndRemix /\ UNCHANGED <<poll, pttActive, commands>>
               ELSE /\ pc' = [pc EXCEPT ![h] = IF MustUnkey THEN "unkeying" ELSE "unkeyed"]
                    /\ StopPoll
                    /\ StopPTT(commands, h)
                    /\ UNCHANGED remixing
  /\ UNCHANGED <<kind, waits, mixer, radio>>

(* The remixed audio ended: only then is the poll started, and the finally *)
(* block clears _isRemixing whatever happened.                             *)
RemixEnds(h) ==
  /\ kind[h] \in {"remix", "removal"}
  /\ pc[h] \in {"finished", "interrupted", "failed"}
  /\ IF pc[h] = "finished" THEN StartPoll ELSE UNCHANGED poll
  /\ EndRemix
  /\ Idle(h)
  /\ UNCHANGED <<kind, waits, playback, mixer, pttActive, commands, radio>>

-----------------------------------------------------------------------------
(* removeOperatorFromTransmission: the last operator stops everything;     *)
(* otherwise remix, unless a remix is under way or nothing plays.          *)
RemoveOperator(h, op) ==
  /\ Event(h)
  /\ op \in cached
  /\ cached' = cached \ {op}
  /\ CASE cached' = {} -> StopPlayback(h, "stop") /\ UNCHANGED remixing
       [] cached' # {} /\ Playing /\ ~remixing ->
            StopPlayback(h, "removal") /\ remixing' = TRUE
       [] OTHER -> UNCHANGED <<pc, kind, waits, playback, remixing>>
  /\ UNCHANGED <<timer, pttActive, poll, commands, radio>>

(* forceStopTransmission; the last operator's removal runs the same steps. *)
ForceStop(h) ==
  /\ Event(h)
  /\ StopPlayback(h, "stop")
  /\ UNCHANGED <<mixer, remixing, pttActive, poll, commands, radio>>

ForceStopPTT(h) ==
  /\ StopPoll
  /\ StopPTT(commands, h)
  /\ pc' = [pc EXCEPT ![h] = IF MustUnkey THEN "unkeying" ELSE "unkeyed"]

StopUnkeys(h) ==
  /\ kind[h] = "stop"
  /\ pc[h] = "stopped"
  /\ ForceStopPTT(h)
  /\ UNCHANGED <<kind, waits, playback, mixer, remixing, radio>>

(* The slotStart handler: forceStopPTT, then onSlotStart. *)
SlotPTT(h) == ForceStopPTT(h)

SlotStart ==
  LET h == SlotHandler IN
  /\ pc[h] = "idle"
  /\ Drained
  /\ Overlap \/ Settled
  /\ kind' = [kind EXCEPT ![h] = "slot"]
  /\ SlotPTT(h)
  /\ UNCHANGED <<waits, playback, mixer, remixing, radio>>

OnSlotStart(h) ==
  /\ kind[h] = "slot"
  /\ pc[h] = "unkeyed"
  /\ StopPlayback(h, "slot")
  /\ UNCHANGED <<mixer, remixing, pttActive, poll, commands, radio>>

(* clearSlotCache, the last step of a slot boundary and of a forced stop.  *)
Clear(h) ==
  /\ \/ kind[h] = "slot" /\ pc[h] = "stopped"
     \/ kind[h] = "stop" /\ pc[h] = "unkeyed"
  /\ cached' = {}
  /\ timer' = FALSE
  /\ Idle(h)
  /\ UNCHANGED <<kind, waits, playback, remixing, pttActive, poll, commands, radio>>

(* The last await of a transmission and of an emptied removal. *)
Unkeyed(h) ==
  /\ kind[h] \in {"tx", "removal"}
  /\ pc[h] = "unkeyed"
  /\ IF kind[h] = "removal" THEN EndRemix ELSE UNCHANGED remixing
  /\ Idle(h)
  /\ UNCHANGED <<kind, waits, playback, mixer, pttActive, poll, commands, radio>>

-----------------------------------------------------------------------------
(* pollPTTState, every PTT_POLL_INTERVAL_MS while the interval exists. *)
Sounds == Playing \/ remixing

PollRelease ==  \* PTT_HOLD_AFTER_AUDIO_MS is over
  /\ StopPTT(commands, Nobody)
  /\ StopPoll

PollTick ==
  /\ polls > 0
  /\ Drained
  /\ CASE ~pttActive -> StopPoll /\ UNCHANGED <<pttActive, commands>>
       [] pttActive /\ Sounds -> silent' = FALSE /\ UNCHANGED <<polls, pttActive, commands>>
       [] pttActive /\ ~Sounds /\ ~silent -> silent' = TRUE /\ UNCHANGED <<polls, pttActive, commands>>
       [] pttActive /\ ~Sounds /\ silent -> PollRelease
  /\ UNCHANGED <<pc, kind, waits, playback, mixer, remixing, radio>>

(* The connection is lost: RadioBridge calls forceStopPTT, which does not  *)
(* reach the radio any more.                                               *)
RadioLost ==
  /\ connected
  /\ Drained
  /\ May
  /\ connected' = FALSE
  /\ faults' = faults + 1
  /\ IF pttActive THEN StopPoll ELSE UNCHANGED poll
  /\ pttActive' = FALSE
  /\ UNCHANGED <<pc, kind, waits, playback, mixer, remixing, commands, rig>>

RadioBack ==
  /\ ~connected
  /\ Drained
  /\ commands = <<>>
  /\ connected' = TRUE
  /\ UNCHANGED <<pc, kind, waits, playback, mixer, remixing, pttActive, poll,
                 commands, rig, faults>>

-----------------------------------------------------------------------------
EncodeComplete(h, op) ==
  \E switched \in BOOLEAN :
    \/ EncodeRemix(h, op, switched)
    \/ EncodeMidSlot(h, op, switched)
    \/ EncodeSchedule(op, switched)

Continue(h) ==
  \/ TxFinished(h)
  \/ TxInterrupted(h)
  \/ TxFailed(h)
  \/ Remix(h)
  \/ RemixEnds(h)
  \/ StopUnkeys(h)
  \/ OnSlotStart(h)
  \/ Clear(h)
  \/ Unkeyed(h)

Client(h) ==
  \/ \E op \in Operators : EncodeComplete(h, op) \/ RemoveOperator(h, op)
  \/ MixTimer(h)
  \/ ForceStop(h)

Step ==
  \/ \E h \in Handler : Client(h)
  \/ \E h \in Handler : StartTransmission(h)
  \/ \E h \in Handler : PlaybackEnds(h)
  \/ \E h \in Handler : Continue(h)
  \/ CommandDone
  \/ SlotStart
  \/ PollTick
  \/ RadioLost
  \/ RadioBack

Next == Step /\ UNCHANGED env

Spec == Init /\ [][Next]_vars

(* Ready continuations always run.  The event loop serves every timer and  *)
(* I/O source in turn, so a source that is ready again and again is served *)
(* (strong fairness: Drained switches these actions off in between): the   *)
(* slot clock ticks, playbacks end, the radio answers.                     *)
Fairness ==
  /\ WF_vars((\E h \in Handler : Continue(h)) /\ UNCHANGED env)
  /\ \A h \in Handler \ {SlotHandler} : SF_vars(StartTransmission(h) /\ UNCHANGED env)
  /\ \A h \in Handler \ {SlotHandler} : SF_vars(PlaybackEnds(h) /\ UNCHANGED env)
  /\ SF_vars(CommandDone /\ UNCHANGED env)
  /\ SF_vars(SlotStart /\ UNCHANGED env)

FairSpec == Spec /\ Fairness

-----------------------------------------------------------------------------
(* Properties. *)

TypeOK ==
  /\ env \in SUBSET Surroundings
  /\ pc \in [Handler -> Pc]
  /\ kind \in [Handler -> Kind]
  /\ waits \in [Handler -> Handler \cup {Nobody}]
  /\ current \in Handler \cup {Nobody}
  /\ stopFlag \in BOOLEAN
  /\ cached \subseteq Operators
  /\ timer \in BOOLEAN
  /\ remixing \in BOOLEAN
  /\ pttActive \in BOOLEAN
  /\ polls \in 0..1
  /\ silent \in BOOLEAN
  /\ commands \in Seq([on : BOOLEAN, by : Handler \cup {Nobody}])
  /\ rig \in BOOLEAN
  /\ connected \in BOOLEAN
  /\ faults \in 0..MaxFaults

(* However starts, forced stops and poll releases overlap, _isPTTActive is *)
(* what the transmitter does, as long as no call failed.                   *)
RigFollowsBelief == faults = 0 => rig = pttActive

(* _isRemixing never outlives the remix that set it: left behind, it would *)
(* hold PTT forever and refuse every later removal's remix.                *)
RemixFlagOwned ==
  remixing => \E h \in Handler : kind[h] \in {"remix", "removal"} /\ pc[h] # "idle"

(* stopCurrentPlayback never awaits a playback that is already over, and   *)
(* isPlaying() never reports one ("防止 isPlaying 状态泄漏").               *)
NoDeadPlayback ==
  /\ current # Nobody => pc[current] = "sounding"
  /\ \A h \in Handler :
       pc[h] = "stopping" => waits[h] \in Handler /\ pc[waits[h]] = "sounding"

(* No chain of remixes, removals, interruptions and failures leaves the    *)
(* flag of a remix or the state of a playback behind.                      *)
NothingLeftBehind == RemixFlagOwned /\ NoDeadPlayback

(* While events are far enough apart, a content switch never leaves two    *)
(* playbacks writing to the output.                                        *)
OneAudio ==
  env = {} => \A g, h \in Handler : pc[g] = "sounding" /\ pc[h] = "sounding" => g = h

(* While events are far enough apart, audio goes out with PTT on through   *)
(* every remix and removal; only a slot boundary drops PTT first and stops *)
(* the audio after it.                                                     *)
KeyedAudio ==
  \A h \in Handler :
    env = {} /\ pc[h] = "sounding" /\ commands = <<>> /\ faults = 0
      => pttActive \/ pc[SlotHandler] # "idle"

(* PTT always comes off again, as far as the program knows, and no handler *)
(* waits forever for a playback or for the radio: whatever overlaps, and   *)
(* also when a playback or a PTT call fails or the radio is lost.          *)
PttReleased == []<>~pttActive
HandlersFinish == \A h \in Handler : []<>(pc[h] = "idle")
ComesToRest == PttReleased /\ HandlersFinish

(* A claim of the code's comments that overlapping events break. *)

(* A PTT start whose transmission is over. *)
OrphanStart == \E i \in DOMAIN commands : commands[i].on /\ commands[i].by = Nobody

(* A forced stop leaves no start of an ended transmission behind it. *)
StopLeavesNoStart ==
  \A h \in Handler : kind[h] = "stop" /\ pc[h] # "idle" /\ pc'[h] = "idle" => ~OrphanStart'
ForceStopStops == [][StopLeavesNoStart]_vars
=============================================================================
