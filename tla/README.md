# TX-5DR: a TLA+ model of the station server

TX-5DR is a web-based amateur radio station: a Node.js server that drives a
transceiver, decodes and transmits FT8/FT4, and offers voice, CW and SSTV to
several clients at once. This directory models the part of it in which timing
decides whether the station behaves: the path from a decoded message to a decision, the
keyed transmitter and back, and from a finished contact to the file that keeps it. The model is checked with TLC on small instances and the
main safety properties are proved with TLAPS for every value of the constants.

Paths below are relative to `packages/server/src/` unless they start with
`packages/` or `docs/`. `PROJECT.json` holds the line-by-line map from definitions to
source, the runs, the mutants, the hazards and the theorems.

1. [Inventory](#1-inventory)
2. [Plan](#2-plan)
3. [Modelling conventions](#3-modelling-conventions)
4. [Radio I/O queue](#4-radio-io-queue)
5. [Transmission pipeline](#5-transmission-pipeline)
6. [Voice PTT](#6-voice-ptt)
7. [Engine lifecycle](#7-engine-lifecycle)
8. [Decision flow](#8-decision-flow)
9. [Standard QSO](#9-standard-qso)
10. [Logbook](#10-logbook)
11. [Runs and bounds](#11-runs-and-bounds)
12. [Proofs](#12-proofs)
13. [Where the code disagrees with itself](#13-where-the-code-disagrees-with-itself)
14. [What is not modelled](#14-what-is-not-modelled)

## 1. Inventory

The server is one JavaScript thread. Its components share objects and call each
other directly; concurrency comes from `await`, timers, event emitters, worker
processes and the radio. That makes two questions recur everywhere: what has
changed while a handler was suspended, and who undoes a step when the handler
that took it never comes back.

| Component (source) | State it keeps | Operations | What makes it hard | What makes it correct |
|---|---|---|---|---|
| Radio I/O queue (`radio/connections/RadioIoQueue.ts`) | task queue, active counts, pump flag, dedupe map | `run`, `runLowPriority`, pump microtask, `finishTask` | a flag held across a microtask; shared promises; reconnects | nobody waits for ever, critical first, an answer belongs to its session |
| Radio connection (`radio/PhysicalRadioManager.ts`, `state-machines/radioStateMachine.ts`, `radio/connections/*`) | connection, session id, state machine, reconnect attempt, intentional-disconnect flag | connect, disconnect, health check, reconnect with backoff | late answers, flags consumed by the wrong event | retries are bounded and end in a settled state; an intended disconnect is not retried |
| Radio power (`radio/RadioPowerController.ts`) | one operation in progress | power on, operate, off, standby | drives engine and connection, loses the connection on purpose | one operation at a time; engine and radio agree afterwards |
| Transmission pipeline (`subsystems/TransmissionPipeline.ts`, `subsystems/ClockCoordinator.ts`) | `_isPTTActive`, `_isRemixing`, the PTT poll | encode complete, mix ready, remix, operator removed, force stop, slot start | PTT and playback started in parallel; every handler awaits both | the transmitter follows the flag and always comes off |
| Audio mixer and playback (`audio/AudioMixer.ts`, `audio/AudioStreamManager.ts`) | slot cache, mix timer, current playback and its stop flag | add, mix, remix, clear; play, stop | playback state cleared after an await by someone else | one stream at a time; nobody waits for a playback that is over |
| Operator decisions (`operator/RadioOperatorManager.ts`, `plugin/DecisionOrchestrator.ts`) | pending requests, latest request id, decision session per operator, same-message guard | slot start, encode start, late re-decision, queue consumption | the decision, the encode and late decodes race | what goes out is the last decision; a slot carries one message per operator |
| Standard QSO (`packages/builtin-plugins/src/standard-qso`) | QSO state, target, counters | decide on decoded messages | message sequences nobody planned | a QSO is logged once; counters bound every state |
| Encode queue, decode pool (`decode/*`) | pending jobs, worker processes, health, respawn timer | push, dispatch, result, timeout, exit, respawn | processes die, jobs time out, answers come late | every job ends once; a dead worker gets no job |
| Slot clock and scheduler (`packages/core/src/clock/*`) | last slot, timers, run generation | start, stop, slot start, sub-windows | clock corrections, suspend, stop inside an event | each slot once, in order; none after a stop |
| Voice PTT (`voice/VoiceSessionManager.ts`, `voice/VoicePTTLockManager.ts`, handlers in `websocket/WSServer.ts`) | the lock, the output gate, the engine's PTT flags | press, release, disconnect, preempt, lock timeout, engine stop | lock and radio change at different times | on the air means holding the lock; a release frees one's own lock and no one else's |
| Voice keyer, CW keyer (`voice/VoiceKeyerManager.ts`, `cw/CWKeyerManager.ts`) | one active playback, a stop flag | play, repeat, stop, manual key | stop during a file read, key during a stop | after a stop nothing is keyed |
| Tune tone, SSTV transmit, physical PTT monitor (`radio/TuneToneController.ts`, `sstv/SSTVManager.ts`, `radio/PhysicalPttMonitor.ts`) | active, PTT asserted, generation; a poll | start, stop, timeout; poll | stop during start; own PTT taken for the operator's | a tone that is not active has no PTT |
| Engine lifecycle and mode switch (`subsystems/EngineLifecycle.ts`, `utils/ResourceManager.ts`, `state-machines/engineStateMachine.ts`, `subsystems/RadioBridge.ts`, `DigitalRadioEngine.ts`) | engine state, resource states, started list, resource plan, restart flag | start, stop, rollback, rebuild, switch, radio lost and back | resources that throw, hang and complete late; a switch built from waits | a running engine is complete; an idle one leaves nothing up |
| Files and logbook (`utils/persistence/*`, `log/ADIFLogProvider.ts`, `config/*`) | JSON stores with backups; journal, snapshot | save, rotate, recover; append, checkpoint, replay | crashes between any two steps | a confirmed write survives (`docs/persistence-durability.md`) |
| Slot packs (`slot/*`) | frames per slot | merge, deduplicate | decodes of one slot arrive in passes | merging loses no message |
| Plugins, sync services, realtime audio, spectrum, rigctld, OpenWebRX, auth, WebSocket and HTTP layers, UI | | | I/O, signal processing, third-party code | see section 14 |

How they interact when the station transmits: the slot clock emits `slotStart` and
`encodeStart`; the orchestrator decides and the operator manager queues encode
requests; an encode result reaches the transmission pipeline, which mixes, keys the
radio (`setPTT` through the radio manager and the I/O queue) and plays. Voice, keyers
and tones key the same radio by other paths. The engine lifecycle starts and stops
all of them; RadioBridge stops the engine when the radio is lost. WebSocket
handlers may call any of these at any time.

The hazards this causes are listed one by one in `PROJECT.json`, each at the line where
it bites, with the properties that would catch it or the reason why none does. Known as
well, in the parts that are not modelled:

- Decode pool: a worker that timed out is still marked ready
  (`WSJTXDecodeProcessPool.ts:679`); one failure is reported by timeout, error and exit (`:892`).
- Tune tone: its busy test leaves out SSTV (`DigitalRadioEngine.ts:1930`), and the PTT
  monitor's test leaves out the tone (`PhysicalPttMonitor.ts:94`).
- Radio connection: the intentional-disconnect flag meets another disconnect than its own
  (`PhysicalRadioManager.ts:680`); a swallowed `setPTT(false)` failure is not retried (`:1103`).
- Slot clock: the next slot is the last one plus its length, whatever the clock did
  (`SlotClock.ts:104`); mode and AP context may change during a window's wait (`SlotScheduler.ts:129`).
- Mixer: concurrent remixes add their elapsed time twice (`AudioMixer.ts:276`); two
  clocks meet in the mix target (`TransmissionPipeline.ts:474`).
- Engine: STOP is ignored by a starting engine, and `stop()` then waits 15 s
  for it and throws (`EngineLifecycle.ts:644`).

## 2. Plan

The modules, in the order in which they were written and in which a reader should take them:

1. `RadioIoQueue` over the abstract `RadioCalls`: everything else relies on commands
   reaching the radio in order and being answered.
2. `TransmissionPipeline`: the digital transmit path from the encode result on.
3. `VoicePtt`: the voice transmit path.
4. `EngineLifecycle` with `EnginePlans`: starting, stopping, switching.
5. `DecisionFlow`: from the decision to the encode result, which is where the pipeline begins.
6. `StandardQso`: what is decided, and what several such stations do to each other.
7. `LogJournal` over the abstract `Logbook`: what is left of a contact after a crash.

Each component has one run that carries its properties, and a second one where liveness
needs a smaller instance or where the code refutes a claim. The runs of a component's
surroundings are one run: a rigid variable chooses them (section 3).

What would come next, by value:

1. `VoiceKeyer` composed with `VoicePtt` (its presses and releases become the keyer's
   actions); `CWKeyer`; `TuneTone` with SSTV transmit and the physical PTT monitor.
2. `DecodePool`: workers, timeouts, respawn; abstractly, each job ends exactly once.
3. `RadioConnection`: state machine, sessions and the intentional-disconnect flag, with
   the power controller; composed with `EngineLifecycle`'s view of the radio.
4. `SlotClock`; `SlotMixer` (offsets of remixes) and slot-pack merging as algorithms
   checked against reference definitions.

Every safety property and refinement of a passing run is proved (section 12); the theorems to add
are those of these modules.

## 3. Modelling conventions

- **An action is what runs between two awaits.** The thread is never preempted, so a
  handler's code up to its next real await is one action, with every change it makes.
  An await on something that is already settled is not an interleaving point
  with I/O or timers: only microtasks come between, and a module that needs their
  order models them (`Pump` in `RadioIoQueue`, `Drained` in `TransmissionPipeline`).
- **Time is abstract.** A timeout may fire whenever what it guards is still going on.
- **Surroundings.** Each module has a rigid variable, chosen in `Init` from a constant: the
  options of the queue, `bound` in `DecisionFlow`, elsewhere `env`, in most modules a set of
  named disturbances out of `Scenarios`. A property names the
  disturbances it does not survive; the run contains, for each property, the largest
  sets it survives that TLC can finish. Nothing is disabled silently: a disturbance named in a
  property's condition is one the code breaks it under (section 13).
- **History.** `disturbed` (`DecisionFlow`), `mixed`, `assured`, `aired` (`StandardQso`) and `promised`
  (`LogJournal`) are read by properties only.
- **Bounds** are constants named `Max...` and appear in guards only.
- **Mutants.** A definition whose name ends in a defect (`SchedulePump_Dropped`) is a
  plausible bug in the definition it is named after; `PROJECT.json` says which property
  notices it. Every property of every passing run has one.

## 4. Radio I/O queue

`RadioIoQueue` models the whole class and the session check that `HamlibConnection` and
`IcomWlanConnection` put around each command. A caller is a place in the server that
issues commands; it awaits its call, so a task is named by the caller that
created it.

| Model | Code |
|---|---|
| `queue`, `activeTasks`, `activeCount`, `criticalCount`, `pumpScheduled`, `dedupedTasks` | the fields of the same meaning |
| `promise`, `callSession`, `ioSession`, `onRadio`, `outcome` | the promise a caller awaits, the session id captured by `runSerializedTask`, the connection's `ioSessionId`, and how a call ended |
| `Run`, `RunSkipped` | `run` / `runLowPriority` up to the returned promise |
| `Pump` | the microtask of `schedulePump` |
| `Settle` | a command ends, with success, error or a stale session, and `finishTask` |
| `NewSession` | a reconnect |

`RadioCalls` is what the queue promises its callers, without queue, counters, flag or
map. `ImplementsCalls` is the refinement (`pending <- Queued, running <- activeTasks,
await <- promise`).

`options` is what `RadioIoQueueOptions` holds: the serial queue of Hamlib and the wider one
of ICOM WLAN are two initial values of it. Checked (`radio_io`): exact counters, no
caller left with a dead task and one task per dedupe key (`Bookkeeping`), no lost wakeup, FIFO within
a class, an answer `ok` only in the session it was asked in and `stale` only when that session is over, and,
on the serial queue, that critical calls always end while normal ones can only be starved
by critical ones (`Served`). Fairness: microtasks run, and each command of the radio library ends
(the connections race it against a timer).

Left out: the congestion warning and the snapshots, which only read.

## 5. Transmission pipeline

`TransmissionPipeline` models the handlers of `TransmissionPipeline.ts` with the parts of the
mixer, the stream manager and the clock coordinator they call. A handler is an
element of `Handler` with a program counter; `SlotHandler` serves `slotStart`.

| Model | Code |
|---|---|
| `pttActive`, `remixing`, `polls`, `silent` | `_isPTTActive`, `_isRemixing`, `pttPollInterval`, `pttAudioStoppedAt` |
| `cached`, `timer` | `slotAudioCache`, `mixingTimeout` |
| `current`, `stopFlag`, `waits` | `currentPlaybackPromise` (and `playing`), `shouldStopPlayback`, whom a `stopCurrentPlayback` awaits |
| `commands`, `rig`, `connected` | `setPTT` calls in order (FIFO by section 4), the transmitter, `isConnected()` |
| `EncodeRemix`, `EncodeMidSlot`, `EncodeSchedule` | `handleEncodeComplete`, one action for each branch |
| `MixTimer`, `StartTransmission` | the timer and `handleMixedAudioReady` |
| `TxFinished`, `TxInterrupted`, `TxFailed` | its three ends |
| `Remix`, `RemixEnds`, `RemoveOperator` | the remix paths |
| `ForceStop`, `ForceStopPTT`, `StopUnkeys`, `SlotStart`, `OnSlotStart`, `Clear` | forced stop and slot boundary |
| `PollTick`, `PollRelease` | `pollPTTState` |
| `PlaybackEnds`, `CommandDone`, `RadioLost`, `RadioBack` | the outside |

Whether a slot switch has happened when a result arrives is nondeterministic: the
clock is not modelled. `"overlap"` lets events happen while a handler awaits a stop or a PTT
call; without it they come one after another, the case the code is written for. `"icom"`
selects the immediate release after audio. `OneAudio` and `KeyedAudio` hold without either.

What the runs show (`tx_safety`): with any overlap and faults, `_isPTTActive` is what the
transmitter does unless a call failed, `_isRemixing` never outlives its remix and nobody
waits for a playback that is over (`NothingLeftBehind`); without overlap only
one stream writes to the output and audio goes out with PTT on. With one operator,
any overlap and a playback that fails, a PTT call that fails or a radio that is lost (`tx_live`), PTT always
comes off, as far as the program knows, and every handler ends (`ComesToRest`); what a failed
release leaves on the air the program does not know (`rig` is not in the property). A fault leaves
room for one event less (`Room`), which bounds both together. Fairness is strong
for timers and I/O, since the event loop serves every ready source although
microtasks switch these actions off in between, and weak for continuations. No
fairness is assumed of operators or clients.

Left out: offsets into the audio, non-digital playback kinds, device streams and
their watchdog, setup and teardown with the engine, the counters that feed a log line.

## 6. Voice PTT

`VoicePtt` models the lock, the session that keys the radio for its holder, the
handlers of the WebSocket messages and of a disconnect, and the engine flags.

| Model | Code |
|---|---|
| `holder` | `VoicePTTLock.lockedBy` |
| `out` | `VoiceTxOutputPipeline.outputEnabled` |
| `claimed` | `voiceManualPttActive`, `voiceKeyerPttActive` |
| `commands` | `setPTT` calls with the continuation each resumes |
| `preparing` | starts that await `onBeforeStartPTT` (a tune tone is stopped first) |
| `Press`, `PressOverKeyer`, `StartTransmit` | `handleVoicePttRequest`, `startTransmit` |
| `Release`, `StopTransmit` | release or disconnect, `stopTransmit` |
| `LockTimeout` | the 180 s timer |
| `EngineStop`, `EngineStart` | `stop` / `start` of the session |
| `Answer` with `Started`, `RolledBack`, `Released`, `Stopped`, `Preempted` | the radio acts and the continuation runs |

The radio's act and its answer are one step. The wait for the keyer's playback to
stop, within a preemption, is abstracted into the command that releases it. The
physical PTT flag, the button logic of the web UI, audio frames, `setRadioMode` and
`resetVoicePttState` are left out.

What the runs show: in an orderly station (clients wait for answers, no lock timeout,
no tone in the way, the radio obeys), with engine stops and preemption in any order, the
transmitter is never keyed without a holder and the engine flags name exactly the
source on the air. With impatient clients, timeouts and tones, a holder with nothing in
flight is keyed and let through (no engine stop, no refusal), a client that let go of its
button loses the lock (`LetGo`, no preemption), and a release never cuts off
another client. Fairness: the radio answers or the connection gives up, and stopping a
tune tone ends.

## 7. Engine lifecycle

`EngineLifecycle` models the engine state machine, `ResourceManager`, the mode switch
and RadioBridge's stop and restart. `EnginePlans` is the registration table; SSTV
registers the digital plan.

A resource is a pair of asynchronous functions. The manager awaits one with a
timeout, and the function goes on after it: `state` is what the manager believes, `up`
what is really up, `late` the functions it has given up on.

| Model | Code |
|---|---|
| `engine` | the machine's state |
| `plan`, `state`, `started` | the registered resources, their metadata, `startedResources` |
| `jobs` | what the machine's actor and the switch are executing: the resources still to do |
| `switch` | where `switchEngineMode` waits and what it read before |
| `wasRunning`, `restoring` | RadioBridge's flag, a restart on its way |
| `StartResource`, `ResourceStarted`, `ResourceFailed` | `startResource`; a required failure begins the rollback |
| `StopResource`, `ResourceStopped`, `StopFailed` | `stopResource`, in `stopAll` or `rollback` |
| `LateStart`, `LateStop` | a function that ends after its timeout |
| `EngineSettles` | the actor is done |
| `LinkLost`, `LinkOff`, `LinkBack`, `Restore` | the radio manager's events and RadioBridge |
| `SwitchBegin` ... `SwitchEnds`, `SwitchAborts` | `switchEngineMode` and its waits |

`StartOrder` is `topologicalSort`: depth-first through the dependencies, by priority, an
optional dependency like any other; it visits only as deep as there are registrations, which the theorem
`StartsInOrder` shows to be enough. `Keyed` holds the modes whose keyer is stopped
when they are left: there the switch waits before it acts, elsewhere it acts at once.
Iterations of the manager's loop that do not wait are steps of their own; nothing
else can tell.

Assumed: no transmission is in progress when the radio is lost (section 5 models that
side), and the operator presses Stop on a running engine only. Left out: what
resources contain, the audio sidecar's retries. The branch of `startResource` for a
resource that already runs never fires: the code keeps it as a defence.

What the run `engine` shows: with functions failing or hanging (one or two per behaviour,
`MCMaxFaults` says how many in which surroundings), a radio that comes
and goes and switches in any order, a running engine has every required resource of
its mode running; it has its radio; an engine at rest leaves nothing up and a resource is
never up without what it depends on, but for the radio, which a loss takes from under the
rest (`UpInOrder`). Starts, stops and switches end (`Settles`), and an
engine that ran when the radio was lost is started when it is back. Each holds under the
disturbances its definition names; section 13 lists what breaks the others. Fairness:
functions end or time out, event handlers and waits go on. None is assumed of the
operator or the radio.

## 8. Decision flow

`DecisionFlow` models what happens between two slots: `DecisionOrchestrator` decides for the
operators one after another, `RadioOperatorManager` turns texts into encode requests, the encode
queue answers them in order, the mixer keeps the newest answer of each operator. Which
text a strategy chooses is left open, and whether it has one. The module ends where section 5 begins.

| Model | Code |
|---|---|
| `clock` | the slot, and which of `slotStart` and `encodeStart` have been handled |
| `loop`, `redo` | where `handleSlotStart` is, and each run of `executeReDecision` |
| `session` | `OperatorDecisionState`: a decision in progress, the message set it saw, the last text, the text encoded before the decision |
| `pending`, `work`, `queue` | `pendingTransmissions`, what `processPendingTransmissions` has taken, the encode queue |
| `latest`, `guard`, `stamp` | `latestEncodeRequestIds`, `sameTransmissionGuardStates`, the milliseconds in request ids |
| `air` | the mixer's audio of each operator |
| `SlotStart`, `LoopHooks` ... `LoopStop` | the `slotStart` handler and `handleSlotStart`, cut at its awaits |
| `EncodeStart`, `Request`, `EncodeComplete`, `EncodeError` | `handleEncodeStart`, the loop over requests, the two answers |
| `LateDecode`, `RedoNext` ... `RedoNotified` | `reDecideOnLateDecodes`, `executeReDecision`, `reDecideOperator` |
| `LoopWake`, `LoopAutoCall`, `RedoWake` | calls for stopped operators |
| `Speaks`, `Triggered` | the conditions of `checkAndTriggerTransmission` and what it queues |
| `StartOperator`, `StopOperator`, `SendFreeText`, and over `Revise` `RequestCall`, `ChangeText`, `ChangeCycle` | users and plugins: the handlers of changed states, slot contents and cycles ask for the text at once |

What `decision_flow` shows: once everything asked of a slot is answered, an operator that sends in
it has the text of its last decision, if there is one, in the mixer (`LastDecisionSent`), whichever of
`encodeStart`, the decision, its failure notices, late decodes and answers came first; audio
goes only into the slot it was asked for (`InOwnSlot`); and an answer that reaches the mixer
is that of the newest request (`NewestWins`).

`disturbed` holds the operators these are not claimed of. Every addition to it is a way
the code has of losing the plain course, found by TLC while the set was smaller:

- `encodeStart` comes before the operator's hooks have finished: the reset
  (`DecisionOrchestrator.ts:131`) then wipes the note of what was encoded, and the correction is lost;
  or between a late decision and the end of its failure notice, when `last` is not yet set.
- `encodeStart` comes while the decision of an operator without a text is under way (`Unnoted`). It notes
  nothing (`DecisionOrchestrator.ts:192`), so the text that is then decided has nothing to be compared
  with and is not asked for in this slot.
- A re-decision overlaps the decision of the slot: each compares with the other's text.
- Two requests of one operator within a millisecond get one id, and the mixer ignores the
  second answer.
- A free text of a plugin waits in `pendingTransmissions` for whoever's request is next.
- A user's start or a call late in a transmit slot is answered in the next slot, which is a
  receive slot; a wake-up or a call leaves `last` behind.
- An encode error is logged and nothing takes the text's place.

The three properties hold for every number of operators, texts and slots: section 12. `Kept` (what is left
of a sequence when others are filtered out) is a recursive function and not `SelectSeq`, so that
the proofs can say which requests it leaves.

Assumed: the handlers of a slot end within it, and an encode asked for late ends in the
next. Left out: operators with several transmit cycles, the handler of a changed frequency
(`RadioOperatorManager.ts:355`, whose event nothing emits), edits of the texts of other states (which only
have the late decodes looked at again), the content of requests, the encode
workers (a queue that answers in order).

## 9. Standard QSO

`StandardQso` models the strategy of `packages/builtin-plugins/src/standard-qso`, one copy per station, on
a channel that loses messages: TX1 to TX6 with what each does on the decoded frames, on
a timeout and on entry; the log and its merge; the caches of contexts; the gate that
lets a stopped operator answer a direct call; the two slots in which a repeated RRR is
answered; users. Other stations may send any frame of `env.kinds` at any time.

A report is represented by who gave it to whom, which is what can get mixed up. Candidates
are ordered by signal and score in the code; here any of them may be first.

| Model | Code |
|---|---|
| `station[s]` | the operator's switch and gate, `StandardQSOPluginRuntime`'s fields, the log |
| `Handle` with `Calling` ... `Idling` | `handle` of the six states |
| `ChangeState`, `ClearContext`, `Retarget` | `changeState` with `onEnter`, `clearQSOContext`, `restoreContext` |
| `Aged`, `TimedOut` | the timeout count of `handleReceivedAndDicideNext`, `onTimeout` |
| `SlotStart`, `EncodeStart`, `Redecide`, `Tick` | the three moments at which the operator calls the strategy, and the slot's end |
| `RequestCall`, `SetState`, `Switch`, `Reset` | users |

What `standard_qso` shows: what is logged on an acknowledgement or a 73 is in the other
station's log (`Confirmed`); the reports in a log, a cache or a contact under way are
those exchanged with that station (`ReportsTheirs`); a station leaves TX5 only after its 73 was sent,
or asked for and replaced by a late decision (`GoodbyeQueued`; the comment at
`StandardQSOPluginRuntime.ts:830` has the first case only in mind); no station stays with one
target for ever (`QsoEnds`); and on a clear channel contacts get into both logs (`Completes`).
Fairness: slots keep coming.

Stations whose user took hold of a contact are `mixed` and excepted: `requestCall` keeps the reports
of the contact before, and a state set by hand logs what it finds. One more behaviour was
met: `restoreContext` prefers a cached context without a report to the report just received.

Left out: Fox/Hound, free slot texts and `patchContext`, several operators of one callsign, the
failure notices of calls without a reply, stations of one cycle hearing each other, merges
with records older than five minutes, bands.

## 10. Logbook

`LogJournal` models `ADIFLogProvider` on disk and the safe write of `SafeFileWriter` it uses.
`Logbook` is what it promises: a multiset of records that changes by one operation
at a time, and stops of the program that cut off one operation at most.

| Model | Code |
|---|---|
| `main`, `spares` | the ADIF snapshot; its temporary files and backups, newest first |
| `journal`, `archives` | `journal.ndjson` and the rotated ones, as sequences of entries |
| `cache` | the records in memory |
| `job` | what `initialize`, a safe write or `close` is doing: the step and its goal |
| `Start`, `LoadMain`, `LoadSpare`, `LoadNothing`, `ReplayArchives`, `ReplayJournal` | `initialize`, `loadCache`, `loadSnapshotWithRecovery` and the replays |
| `WriteTmp`, `Rotate`, `Rename`, `WriteFails` | `writeFileNow` and `rotateBackups` |
| `Commit`, `AppendFails` | `appendJournal` and the change in memory, for add, update, delete and import |
| `Close`, `Archive`, `ArchiveFails`, `Exit` | the checkpoint of `close`, and the end of the process |
| `Crash`, `Damage` | death at any step, with whatever was being written there in part; a snapshot (and spares) found unreadable |

A record has an id, the key it is matched by (`buildImportedQsoFingerprint`: callsign, time, mode and
frequency), one bit of content and `line`, the id that its line gives when it is read. The program's own
lines carry their id. Another program's line is kept as it is; it carries an id or gets one
from callsign, date and time at each load (`adifToQSORecord`), which is less than the key: with
`"alike"`, lines of different keys may give one id (`Marks`), and of such records a load keeps
one. `"voice"` has a start write the snapshot anew because some line tells its mode in an old
way (`loadCache`). In `rotateBackups` a rename that fails, or a crash between two, leaves a gap,
which a later rotation closes over another backup (`Moved`). Metadata that cannot be read
lets a start fail and leaves the files as they are, so it is a start that did not happen.

What `log_journal` shows: after a stop of any kind the log holds what was acknowledged, no more and
no less, through crashes at any step, failed writes and a damaged snapshot
(`ImplementsLogbook`); the journals alone hold the history of a log that began here
(`HistoryComplete`); an empty log is written only where there never was one (`NeverBlank`); the program
refuses to start only when nothing was logged (`FailsOnlyEmpty`).

`Durable` names what the code does not withstand, each reproduced by adding it to a scenario:

- A torn append stays in the journal; entries appended behind it, acknowledged, are lost when
  the journal is replayed (a close in between saves them).
- The recovery from damage is not taken up again when it is cut off: the damaged snapshot has been moved
  aside, and the next start finds no file and writes an empty log, or takes an older state
  for the whole. The JSON stores recover in the same order (`SafeFileWriter.ts:240`).
- Two lines of other programs that differ only in what the id leaves out, as mode or frequency, give one
  id (`"alike"`): both are acknowledged at the import, one is left after an ordinary restart. So is one of two when an
  edited record, which keeps its id, is imported again (`"edit"` with `"import"`).
  `NothingLost` is refuted by either, and section 13 has the finding.
- Imported lines get another id after a reload, so archived journals, replayed over a
  backup, do not delete them again.
- Records that match each other, which `addQSO` allows, are one after a replay.
- A recovery from journals alone has nothing of what the log held before the first of them.
- A temporary file cut off behind its header counts as a readable spare.

Left out: parsing and formatting, lines that cannot be parsed, several records in one
import, operations queued behind the close of a logbook that is being deleted, the
shutdown deadline of `flushAll`, the code's third backup (two are kept here).

## 11. Runs and bounds

| Run | Module, configuration | Instance | Distinct states |
|---|---|---|---|
| `radio_io` | `MCRadioIoQueue`, `RadioIoQueue.cfg` | Hamlib and ICOM WLAN options; 2 critical callers, 2 sharing a dedupe id, 1 poller; 1 reconnect; fairness | 217 thousand |
| `tx_safety` | `MCTransmissionPipeline`, `TxPipeline_safety.cfg` | 2 handlers and the slot's, 2 operators, 5 in flight or faults, 1 fault; any overlap with the ICOM release, none with the poll | 418 thousand |
| `tx_live` | `TxPipeline_live.cfg` | 1 operator, 3 in flight or faults, 1 fault, any overlap, fairness | 83 thousand |
| `tx_force_gap` | `TxPipeline_force.cfg` | refutes `ForceStopStops` | |
| `voice_safety` | `MCVoicePtt`, `VoicePtt_safety.cfg` | 2 clients and the keyer, 3 commands or blocked starts, 1 refusal, fairness | 1.0 million |
| `voice_lock_timeout` | `VoicePtt_timeout.cfg` | refutes `KeyHasHolder` | |
| `engine` | `MCEngineLifecycle`, `EngineLifecycle.cfg` | 3 modes, 5 resources, 6 surroundings, 1 or 2 faults, fairness | 338 thousand |
| `engine_rebuild` | `EngineLifecycle_rebuild.cfg` | refutes `RebuildAtRest` | |
| `decision_flow` | `MCDecisionFlow`, `DecisionFlow.cfg` | 1 operator with up to 3 slots, 2 late decodes, calls and events, or 2 operators with 2 slots, or a call; 2 texts or none, 2 re-decisions at once | 2.6 million |
| `standard_qso` | `MCStandardQso`, `StandardQso.cfg` | up to 3 stations and 1 stranger, 3 timeouts, 2 attempts, 8 surroundings, fairness | 298 thousand |
| `log_journal` | `MCLogJournal`, `LogJournal.cfg` | 2 keys, 3 operations, 2 faults, 2 backups, 11 surroundings | 2.8 million |
| `log_reimport` | `LogJournal_reimport.cfg` | refutes `NothingLost`, without any fault, in 2 surroundings | |

Why these are enough. The queue's code distinguishes a caller's class, its dedupe key and
its session: two of each class meet in every pairing, and one reconnect gives an
old and a new session. In the pipeline an anomaly needs a handler that is
suspended and others that pass it: two besides the slot's handler give every pair,
and two operators separate "my audio" from
"someone's audio". In voice PTT a stale continuation needs a former holder, a new one and
the keyer; three commands are a release, a press behind it and an engine stop. The engine's
instance has one resource of each kind (radio, optional, a chain of two required
ones, one that a mode alone has), a mode that keeps the radio and one that needs no
quiescing; two faults are a failure and one more during the rollback it causes. In the decision
flow a wrong text needs a decision, a second one and an encode between or around them: one
operator with two late decodes has all orders of these, three slots carry requests and the
repetition guard (`MaxSame` 1) across a slot of the other cycle, and two operators show
whose requests a third party takes along. A contact between two stations takes six slots, a third
station competes for either of them, and the stranger says everything to one of them at any time.
In the logbook three operations are a record, a change of it and another record between two
checkpoints; two faults are a crash and another during the recovery from it. Of the proved theorems
none depends on these bounds.

Deadlock is checked for the queue, the pipeline and the stations. The others may stop:
nothing obliges a client to press again, slots and operations are bounded, a log that cannot be opened stays
closed. Those runs switch the check off, and the liveness properties say what must not stop half way.

## 12. Proofs

Proved with TLAPS for all constants that satisfy the modules' assumptions (callers,
clients, modes, resource plans and options of any number; any bounds):

| Theorem | Says | Argument |
|---|---|---|
| `RadioIoQueue_proofs` `TypeCorrect`, `BooksExact`, `Wakeup` | `TypeOK`, `Bookkeeping`, `NoLostWakeup` | consequences of one inductive invariant `IInv`, of which `CriticalFirst` is a part |
| `SessionSafety` | `SessionSound`, an action property | `IInv` and a case per action |
| `NobodyOvertakes` | `FifoPerClass`, an action property | `IInv`; a task is inserted behind all others of its class, and the pump takes the head |
| `Implements` | the queue implements `RadioCalls` | initial states and each action mapped, using `IInv` |
| `TransmissionPipeline_proofs` `TypeCorrect`, `BeliefSound`, `LeavesNothing` | `TypeOK`, `RigFollowsBelief`, `NothingLeftBehind` | inductive invariant `IInv` |
| `SingleAudio`, `AudioIsKeyed` | `OneAudio`, `KeyedAudio` | `IInv`, and `AInv` for scenarios without overlap |
| `VoicePtt_proofs` `TypeCorrect`, `NeverOrphaned`, `FlagsTruthful` | `TypeOK`, `KeyedMeansHeld`, `ClaimsTruth` | inductive invariant `OInv` |
| `HolderHeard` | `HeldMeansKeyed` | inductive invariant `HInv` |
| `NobodyCutOff` | `NoCutOff`, an action property, in any surroundings | inductive invariant `CInv` |
| `EngineLifecycle_proofs` `StartsInOrder` | `OrderSound`: the start order has every resource once, behind its dependencies | induction over the depth of a visit and the resources visited |
| `TypeCorrect`, `StartedMeansComplete` | `TypeOK`, `RunningComplete` | inductive invariants `TypeInv`, `Inv` |
| `NeverWithoutRadio` | `RunningHasRadio` | inductive invariant `RInv` |
| `UpAndDownInOrder` | `UpInOrder` | inductive invariant `RInv /\ (Tidy => UpInv)` |
| `DecisionFlow_proofs` `TypeCorrect`, `AudioInOwnSlot`, `LastDecisionAlwaysSent` | `TypeOK`, `InOwnSlot`, `LastDecisionSent` | inductive invariants `TypeOK`, `FlowInv` |
| `NewestAnswerWins` | `NewestWins`, an action property | `FlowInv` and a case per action |
| `StandardQso_proofs` `TypeCorrect`, `ContactsConfirmed`, `ReportsRight` | `TypeOK`, `Confirmed`, `ReportsTheirs` | inductive invariants `TypeInv`, `QsoInv` |
| `GoodbyeKept` | `GoodbyeQueued`, an action property | `QsoInv` and a case per action |
| `LogJournal_proofs` `NoLogRefused` | `FailsOnlyEmpty` | inductive invariants `JobInv`, `SnapInv`, `SeqInv`, `JournalInv` |
| `NoBlankLog` | `NeverBlank`, an action property | `SnapInv` |
| `TypeCorrect` | `TypeOK` | inductive invariant `TypeOK /\ JobInv /\ SnapInv /\ ShapeInv` |
| `JournalsSuffice` | `HistoryComplete` | inductive invariant `LogInv`, and what a replay does |
| `LogKeepsBook` | the log implements `Logbook`, in the surroundings of `Durable` (section 10) | initial states and each action mapped, using `LogInv` |

The strengthenings, and why the properties alone are not inductive:

- **Queue.** `NoOrphan` says a promise points at an outstanding task; that a task is not
  queued twice and active as well (`NoDuplicate`), that its creator awaits it (`OwnTask`) and that
  the dedupe map holds exactly the outstanding tasks with a key (`MapExact`) is what
  keeps it so when a task ends or is shared. `SessionInv` ties a shared promise to the
  session of its creator.
- **Pipeline.** `RigFollowsBelief` speaks of the transmitter, which changes when a command
  is executed. `OffAwaited` says who awaits each release in the queue, so that the
  continuation that clears `_isPTTActive` exists; `FaultFree` says that without faults the radio is
  connected and obeys. `OneAudio` needs to know that handlers take turns: at most one
  stops a playback or is about to play (`OneAhead`), nothing plays by then (`Cleared`), and neither the mix timer
  (`TimerWaits`) nor a slot boundary (`SlotTurn`) cuts in. `KeyedAudio` looks at an empty queue only; `Keyed` says where
  the queued calls leave PTT (`EndsOn`), also for a remix that has yet to play.
- **Voice.** `KeyedMeansHeld` depends on commands under way: in an orderly station every queued
  key-down belongs to the holder, and an interruption of the keyer names the holder
  as the one it makes room for (`Ordered`). `NoCutOff` needs `Covered`: behind each queued release
  stands, for any later holder, the start that will key again. `HeldMeansKeyed` looks at an empty queue
only; `Attended` is what it comes from with commands queued: the last one leaves the transmitter keyed, or the
holder's own release is among them, or the holder has yet to ask.
- **Start order.** Plans are assumed to be what `detectCircularDependencies` lets pass: every dependency
  is registered, and resources have levels above those of their dependencies. A visit of a resource adds
  nothing above its level (`Extends`), so it cannot have been added by its own dependencies, and
  the list stays free of duplicates. That the sort by priority leaves out nothing (`Places`) is a matter of
  counting: the number of registrations before one is a different one for each.
- **Engine.** `RunningComplete` is about what `startAll` leaves behind: while it runs, every
  required resource is running or still to do (`Covered`), the job under way is the one the
  machine's state calls for (`JobAgrees`), the switch rebuilds only at rest (`SwitchAtRest`), and no
  metadata belongs to an earlier plan. `RunningHasRadio` adds that nothing is hung or late (`NoHang`) and
that a radio the books call running is connected and listed to be stopped, or a stop is under way
(`Booked`). `UpInOrder` follows from the lists: what is live is on the list of the started
or on what is left to stop (`Placed`); the first names every resource after those it depends on (`StartChain`), because
the manager starts none before they run, its reverse names it before them (`StopChain`), and both
name it once; what a start has yet to do is on neither (`Unstarted`).

- **Decisions.** `LastDecisionSent` looks at an operator whose requests are all answered;
  `FlowInv` follows one on its way there. Before the slot's decision nothing was asked for it (`Untouched`); the
  ids of its requests grow from the one in the mixer over those in the queue to the newest
  (`Numbered`); only an operator that sends in this slot has any (`InCycle`); what the
  orchestrator remembers it to have sent or encoded is the text it has
  (`Remembered`, which the comparison in `Outdated` relies on), and before `encodeStart` it remembers none to have
  been encoded; and the text it remembers, if any, is among what
  `processPendingTransmissions` has taken, else in the newest request, queued or answered (`Announced`). All but
  `Bounded` are stated per undisturbed operator: a lemma for each action says what it does to the
  requests of the operator it serves, and one that it leaves those of the others alone.
- **Stations.** `Confirmed` relates two logs, but what moves from one station to the other is a
  frame: `Backed` says of every RRR or 73 on the air, or decoded, that its sender has logged
  the addressee, and `FrameOk` that a report is of the addressee. `Sane` keeps what a frame is made from in order: the context is
  filed under its target, a station with a 73 to send has been assured of its contact, one that calls
  CQ has no target. `Asked` says that a 73 asked for goes out in this
  very slot; it can be inductive only because no station has two turns in a slot (`Order` is injective).
  Each operation of the strategy has a lemma for types and one for `Sane`, about any record
  and any frames, so that a decision, a retry and a wake-up, which run the same handlers, share them.
- **Logbook.** `NeverBlank` needs to know that no step between the start and the first
  checkpoint finds the snapshot missing (`SnapInv`, on the order of phases in `JobInv`). `FailsOnlyEmpty`
  speaks of a start and is decided by what earlier runs left: `JournalInv` says that once something is logged
  some archive or the journal holds an entry that can be read back, and that a journal still
  in use does not begin with a torn one. `TypeOK` counts the backups, so it must be known that what a
  rename takes from the spares is a temporary file: there is one (`ShapeInv`).
- **Logbook, over restarts.** A log out of use exists on disk only. `KeepInv`, where the
  snapshot is not damaged, says that a start would read back what was promised, whether or not the journal was put
  away after the checkpoint that made it superfluous, so replaying it over its own result must change
  nothing (`ReplayAfterCheckpoint`). It needs the records to be `Proper`: one per id, also once other programs' lines
  have been given theirs, one per key where none match, and ids no newer than the operations so far. `HistInv`
  says that all journals, from nothing, end where that start would. `DamageInv`, where the snapshot may be
  damaged, is about `Origins`, the logs from which all the journals together lead to what was promised: the snapshot,
  every spare that can be read, and what was promised are such, so whichever a recovery begins
  with, it ends well. Where the log began with another program's record, nothing at all is no such
  origin, and a backup is there as soon as a journal is archived (`OldGood`). That a step of the
  log changes what it says by one record gone and one come is `BookChange`, about cardinalities. Reading back is `Load`, which chooses one record of each id; over
  `Proper` records, whose lines give different ids, it only renames (`Read`), and loading twice is loading once.
- **Replays.** An entry spares some records, whatever else there is, and puts others; so does a
  journal, and a sequence of journals (`ReplaySteps`, `ReplayAllSteps`). `StepsSplit` has the consequence the proofs
  use: a replay over `S` is what it gives from nothing and those records of `S` that every entry spares.

**Induction over data.** The library's induction theorems take a formula as a parameter, which
the provers cannot instantiate. `Induction` states the principle with a set in its place (`UpTo`:
a set of numbers that has 0 and with `i` also `i + 1`), from the well-foundedness of `<`, and derives
that a function whose value at `i` is given by the one at `i - 1` exists (`DefinedStepByStep`). The set is
then the numbers the fact holds of. `DecisionFlow_proofs` proves in this way what `Kept` keeps, and
`LogJournal_proofs` what `Replay` and `ReplayAll` give, and `EngineLifecycle_proofs` what visiting resources
does to the list of those sorted.

Only model-checked: liveness (`Served`, `ComesToRest`, `LetGo`, `Settles`, `Resumes`, `QsoEnds`, `Completes`), which like
`ENABLED` is beyond the prover. No module uses `RECURSIVE`, which the prover's SMT backend does not support.

## 13. Where the code disagrees with itself

Four runs refute a statement the repository makes:

- `tx_force_gap`: `forceStopPTT` looks at `_isPTTActive`, which lags behind a queued
  `setPTT(true)`. A forced stop in that gap reports success and the transmitter is keyed after it,
  with no transmission behind it, until the slot boundary.
- `voice_lock_timeout`: the lock's 180 s timer frees the lock and takes nothing off the
  air: the transmitter stays keyed and no client holds the lock that would unkey it.
- `engine_rebuild`: `switchEngineMode` acts on an engine state it read before it awaited a
  keyer. An engine started meanwhile has its resource plan rebuilt while it starts, and the
  resources started so far are forgotten.
- `log_reimport`: two records whose lines give the same id, as two contacts at one time that differ in
  mode, are imported, acknowledged and stored; the program is restarted without a fault, one of the two
  remains, and the next checkpoint writes that one. The same happens to a record of another program that is
  edited, keeps its id and has its file imported again.

Further behaviours, each excluded by name in a property and reproduced by adding the
named disturbance to its scenario:

- Pipeline, `overlap`: two encode results within one stop make two streams
  (`OneAudio`); a playback that fails before its PTT call is answered leaves the transmitter
  keyed until the slot boundary, as does a poll that cancels itself before the PTT
  call is answered.
- Voice, `impatient`: a press during the client's own release is freed by the end of that
  release. `toneBlock`: a client that left while a tone was being stopped is keyed.
  `engineStop`: the radio is unkeyed and the lock kept. `preempt`: a tap during a preemption is
  released before it is pressed. `refuse`: a refused PTT is swallowed below the
  session, which believes it is on the air.
- Engine, `early`: a radio lost while the engine starts is not reported, and the engine runs
  without it. `hasty`: a radio that is back before the engine has stopped clears the restart
  flag, and nobody starts the engine. `stop`: an engine stopped by the operator
  while the radio reconnects is started again. `hang`, `jam`: what times out completes under
  an engine that has moved on; a stop that failed is forgotten.
- Decisions, contacts and the logbook: the lists in sections 8, 9 and 10.

## 14. What is not modelled

`PROJECT.json` lists every component with its status. Beyond those
section 2 names these are left out for good: signal processing (decoders, CW recognition, SSTV,
voice jitter buffer, spectra), device I/O and drivers, the plugin host and what
plugins compute, external services (logbook sync, PSK Reporter, OpenWebRX), protocol
front ends that translate one request at a time (rigctld, HTTP routes, most WebSocket
messages), authentication, parsers, and the user interfaces.

The composition of the modules is by assumption so far: `TransmissionPipeline` and `VoicePtt` take
the radio as a FIFO of PTT commands that are answered, which `RadioIoQueue` shows of the queue for
critical commands (`FifoPerClass`, `Served`); they do not run against each other, although
both key the same radio. `DecisionFlow` hands the pipeline the answers it takes as events, and
`StandardQso` decides the texts `DecisionFlow` leaves open.
