------------------------------ MODULE VoicePtt ------------------------------
(***************************************************************************)
(* Voice transmission: the exclusive PTT lock (VoicePTTLockManager), the   *)
(* session that keys the radio for its holder (VoiceSessionManager) and    *)
(* the engine flags that tell the rest of the station who is on the air.   *)
(*                                                                         *)
(* The server is one thread, so an action is what runs between two awaits. *)
(* An asynchronous call that awaits setPTT is represented by its command   *)
(* in the radio queue together with the continuation the answer resumes    *)
(* ("then").  The radio executes PTT commands in the order they were       *)
(* submitted: RadioIoQueue checks that of the queue below this module.     *)
(***************************************************************************)
EXTENDS Integers, Sequences, SequencesExt

CONSTANTS
  Clients,      \* connections, and the identities the voice keyer locks under
  Keyers,       \* the identities "voice-keyer:..." among them
  Nobody,       \* lockedBy = null
  Scenarios,    \* the surroundings to choose from, see below
  MaxCommands,  \* bound: PTT commands and blocked starts at the same time
  MaxLost       \* bound: PTT commands the radio refuses

(***************************************************************************)
(* "impatient"   a client presses before its last release was answered     *)
(* "preempt"     a client presses while the voice keyer is on the air      *)
(* "timeout"     the lock is held for its 180 s                            *)
(* "toneBlock"   a tune tone is on the air and must be stopped first       *)
(* "toneThrow"   stopping it throws                                        *)
(* "engineStop"  the engine is stopped and started again                   *)
(* "refuse"      the radio refuses a PTT command                           *)
(***************************************************************************)
Surroundings ==
  {"impatient", "preempt", "timeout", "toneBlock", "toneThrow", "engineStop", "refuse"}

ASSUME VoiceAssumption ==
  /\ Keyers \subseteq Clients
  /\ Nobody \notin Clients
  /\ Scenarios \subseteq SUBSET Surroundings
  /\ MaxCommands \in Nat
  /\ MaxLost \in Nat

VARIABLES
  env,        \* what the surroundings do; it never changes
  started,    \* VoiceSessionManager.isStarted
  holder,     \* VoicePTTLock.lockedBy
  out,        \* VoiceTxOutputPipeline.outputEnabled
  claimed,    \* the sources whose engine flag says "transmitting"
  commands,   \* the PTT commands the radio has not answered, oldest first
  preparing,  \* the starts that await onBeforeStartPTT, oldest first
  pressed,    \* the clients whose PTT button is down
  lost,       \* PTT commands refused so far
  rig         \* the transmitter is keyed

vars == <<env, started, holder, out, claimed, commands, preparing, pressed, lost, rig>>

Sources == {"manual", "voice-keyer"}
(* Mutant: a source the engine does not know. *)
Kind_Unknown(c) == IF c \in Keyers THEN "keyer" ELSE "manual"
(* getPttSource.                                                           *)
Kind(c) == IF c \in Keyers THEN "voice-keyer" ELSE "manual"

(* A continuation: who made the call, which call it is, and for a press    *)
(* that interrupts the keyer the client to start afterwards.               *)
Calls == {"start", "release", "rollback", "stop", "preempt"}
Commands ==
  {cmd \in [on : BOOLEAN, by : Clients, call : Calls, next : Clients \cup {Nobody}] :
     /\ cmd.on <=> cmd.call = "start"
     /\ cmd.next \in Clients <=> cmd.call = "preempt"}

Key(c) == [on |-> TRUE, by |-> c, call |-> "start", next |-> Nobody]
Unkey(c, call) == [on |-> FALSE, by |-> c, call |-> call, next |-> Nobody]
Interrupt(k, c) == [on |-> FALSE, by |-> k, call |-> "preempt", next |-> c]

(* What a client waits for are the calls it made, not those of the engine. *)
Concerns(cmd, c) == cmd.call # "stop" /\ c \in {cmd.by, cmd.next}
Awaiting(c) == (\E i \in DOMAIN commands : Concerns(commands[i], c)) \/ Contains(preparing, c)

Room == Len(commands) + Len(preparing) < MaxCommands
Quiet == commands = <<>> /\ preparing = <<>>

-----------------------------------------------------------------------------
Init ==
  /\ env \in Scenarios
  /\ started = TRUE
  /\ holder = Nobody
  /\ out = TRUE
  /\ claimed = {}
  /\ commands = <<>>
  /\ preparing = <<>>
  /\ pressed = {}
  /\ lost = 0
  /\ rig = FALSE

(* requestLock followed by the synchronous part of startTransmit, for a    *)
(* queue "queued": the lock is taken (again), the voice output is silenced *)
(* and the key command submitted, unless the tune tone has to stop first.  *)
MayStart(c) == started /\ holder \in {Nobody, c}

StartTransmit(c, queued) ==
  /\ holder' = c
  /\ out' = FALSE
  /\ \/ /\ commands' = Append(queued, Key(c))
        /\ UNCHANGED preparing
     \/ /\ "toneBlock" \in env
        /\ preparing' = Append(preparing, c)
        /\ commands' = queued
     \/ /\ "toneThrow" \in env
        /\ commands' = Append(queued, Unkey(c, "rollback"))
        /\ UNCHANGED preparing

(* handleVoicePttRequest of a client, and the start of a keyer's playback. *)
Press(c) ==
  /\ Room
  /\ c \notin pressed
  /\ "impatient" \in env \/ ~Awaiting(c)
  /\ pressed' = pressed \cup {c}
  /\ UNCHANGED <<started, claimed, lost, rig>>
  /\ \/ MayStart(c) /\ StartTransmit(c, commands)
     \/ ~MayStart(c) /\ UNCHANGED <<holder, out, commands, preparing>>

(* handleVoicePttRequest while the keyer holds the lock: the keyer is      *)
(* stopped first and the start waits for that.                             *)
PressOverKeyer(c) ==
  /\ "preempt" \in env
  /\ Room
  /\ c \notin pressed \cup Keyers
  /\ holder \in Keyers
  /\ "impatient" \in env \/ ~Awaiting(c)
  /\ pressed' = pressed \cup {c}
  /\ commands' = Append(commands, Interrupt(holder, c))
  /\ UNCHANGED <<started, holder, out, claimed, preparing, lost, rig>>

(* Mutants: the holder is not asked for; a release before the radio is     *)
(* keyed is ignored.                                                       *)
StopTransmit_Anybody(c) == commands' = Append(commands, Unkey(c, "release"))
(* stopTransmit and handleClientDisconnect: only the holder unkeys.  A     *)
(* client that comes back after a disconnect is another connection.        *)
StopTransmit(c) ==
  IF holder = c THEN commands' = Append(commands, Unkey(c, "release"))
                ELSE UNCHANGED commands

Release(c) ==
  /\ Room
  /\ c \in pressed
  /\ pressed' = pressed \ {c}
  /\ StopTransmit(c)
  /\ UNCHANGED <<started, holder, out, claimed, preparing, lost, rig>>

(* The lock's timer: the lock is freed and nothing else is done.           *)
LockTimeout ==
  /\ "timeout" \in env
  /\ holder # Nobody
  /\ holder' = Nobody
  /\ UNCHANGED <<started, out, claimed, commands, preparing, pressed, lost, rig>>

(* VoiceSessionManager.stop, which the engine calls once at a time.        *)
Stopping == \E i \in DOMAIN commands : commands[i].call = "stop"

EngineStop ==
  /\ "engineStop" \in env
  /\ Room
  /\ started /\ ~Stopping
  /\ IF holder = Nobody
       THEN started' = FALSE /\ UNCHANGED commands
       ELSE commands' = Append(commands, Unkey(holder, "stop")) /\ UNCHANGED started
  /\ UNCHANGED <<holder, out, claimed, preparing, pressed, lost, rig>>

EngineStart ==
  /\ ~started
  /\ started' = TRUE
  /\ UNCHANGED <<holder, out, claimed, commands, preparing, pressed, lost, rig>>

(* onBeforeStartPTT returns: the start goes on without a look at the lock. *)
ToneStopped ==
  /\ preparing # <<>>
  /\ commands' = Append(commands, Key(Head(preparing)))
  /\ preparing' = Tail(preparing)
  /\ UNCHANGED <<started, holder, out, claimed, pressed, lost, rig>>

-----------------------------------------------------------------------------
(* The radio answers its oldest command and the caller resumes.  A refused *)
(* command is logged by PhysicalRadioManager and looks like any other.     *)
Obey(cmd) ==
  \/ rig' = cmd.on /\ UNCHANGED lost
  \/ /\ "refuse" \in env /\ lost < MaxLost
     /\ lost' = lost + 1
     /\ UNCHANGED rig

(* Mutant: the voice output stays silenced.                                *)
Started_Silent(cmd) ==
  /\ cmd.on
  /\ claimed' = claimed \cup {Kind(cmd.by)}
  /\ commands' = Tail(commands)
  /\ UNCHANGED <<started, holder, out, preparing>>
(* The rest of startTransmit.                                              *)
Started(cmd) ==
  /\ cmd.on
  /\ out' = TRUE
  /\ claimed' = claimed \cup {Kind(cmd.by)}
  /\ commands' = Tail(commands)
  /\ UNCHANGED <<started, holder, preparing>>

(* Mutant: releaseLock without the check of the holder.                    *)
Freed_Always(c) == Nobody
(* releaseLock: only the holder lets go.                                   *)
Freed(c) == IF holder = c THEN Nobody ELSE holder

(* The catch block of startTransmit: no event tells the engine.            *)
RolledBack(cmd) ==
  /\ cmd.call = "rollback"
  /\ holder' = Freed(cmd.by)
  /\ out' = FALSE
  /\ commands' = Tail(commands)
  /\ UNCHANGED <<started, claimed, preparing>>

(* Mutant: the flag of the microphone, whoever was on the air.             *)
ClearFlag_Manual == claimed' = claimed \ {"manual"}
(* The rest of stopTransmitInternal: the engine flag that is cleared is    *)
(* that of whoever holds the lock now.                                     *)
ClearFlag == claimed' = claimed \ {Kind(holder)}

(* Mutant: stopTransmit forgets to release the lock.                       *)
Released_KeepsLock(cmd) ==
  /\ cmd.call = "release"
  /\ out' = FALSE
  /\ ClearFlag
  /\ commands' = Tail(commands)
  /\ UNCHANGED <<started, holder, preparing>>
(* The rest of stopTransmit and handleClientDisconnect.                    *)
Released(cmd) ==
  /\ cmd.call = "release"
  /\ out' = FALSE
  /\ ClearFlag
  /\ holder' = Freed(cmd.by)
  /\ commands' = Tail(commands)
  /\ UNCHANGED <<started, preparing>>

Stopped(cmd) ==
  /\ cmd.call = "stop"
  /\ out' = FALSE
  /\ ClearFlag
  /\ started' = FALSE
  /\ commands' = Tail(commands)
  /\ UNCHANGED <<holder, preparing>>

(* The keyer has let go: the press that interrupted it starts, or is       *)
(* denied.                                                                 *)
Preempted(cmd) ==
  /\ cmd.call = "preempt"
  /\ ClearFlag
  /\ UNCHANGED started
  /\ IF started /\ Freed(cmd.by) \in {Nobody, cmd.next}
       THEN StartTransmit(cmd.next, Tail(commands))
       ELSE /\ holder' = Freed(cmd.by)
            /\ out' = FALSE
            /\ commands' = Tail(commands)
            /\ UNCHANGED preparing

Answer ==
  /\ commands # <<>>
  /\ UNCHANGED pressed
  /\ LET cmd == Head(commands)
     IN  /\ Obey(cmd)
         /\ Started(cmd) \/ RolledBack(cmd) \/ Released(cmd) \/ Stopped(cmd) \/ Preempted(cmd)

Step ==
  \/ \E c \in Clients : Press(c) \/ PressOverKeyer(c) \/ Release(c)
  \/ LockTimeout \/ EngineStop \/ EngineStart
  \/ ToneStopped \/ Answer

Next == Step /\ UNCHANGED env

Spec == Init /\ [][Next]_vars

(* The radio answers every command, or its connection gives up on it, and  *)
(* stopping a tune tone ends.  Nothing obliges a client to do anything.    *)
Fairness ==
  /\ WF_vars(Answer /\ UNCHANGED env)
  /\ WF_vars(ToneStopped /\ UNCHANGED env)
FairSpec == Spec /\ Fairness

-----------------------------------------------------------------------------
TypeOK ==
  /\ env \in SUBSET Surroundings
  /\ started \in BOOLEAN
  /\ holder \in Clients \cup {Nobody}
  /\ out \in BOOLEAN
  /\ claimed \in SUBSET Sources
  /\ commands \in Seq(Commands)
  /\ preparing \in Seq(Clients)
  /\ pressed \in SUBSET Clients
  /\ lost \in Nat
  /\ rig \in BOOLEAN

(* The transmitter is never keyed without a holder of the lock: nobody but *)
(* the holder can unkey it.                                                *)
KeyHasHolder == rig => holder # Nobody

(* In an orderly station clients wait for their answers, the lock does not *)
(* time out, no tune tone is in the way and the radio obeys.               *)
Orderly == env \subseteq {"engineStop", "preempt"}

(* There the transmitter never escapes its holder.                         *)
KeyedMeansHeld == Orderly => KeyHasHolder

(* There the engine flags name exactly the source that is on the air,      *)
(* whatever the lock does between a command and its answer.                *)
ClaimsTruth == Orderly => claimed = IF rig THEN {Kind(holder)} ELSE {}

(* Unless the engine stops or the radio refuses, a client that holds the   *)
(* lock with nothing in flight is on the air and its voice is let through. *)
HeldMeansKeyed ==
  env \cap {"engineStop", "refuse"} = {} => (Quiet /\ holder # Nobody => rig /\ out)

(* Unless a press may wait for the keyer, a client that let go of its      *)
(* button does not keep the lock.                                          *)
LetGo ==
  "preempt" \notin env => \A c \in Clients : []<>(holder # c \/ c \in pressed)

(* A client's release never cuts off another client: when it is answered,  *)
(* the transmission of any later holder is still to come.                  *)
CutsNobody ==
  rig /\ ~rig' =>
    \/ holder \in {Nobody, Head(commands).by}
    \/ \E i \in DOMAIN Tail(commands) :
         Tail(commands)[i].by = holder /\ Tail(commands)[i].call \in {"start", "rollback"}
    \/ Contains(preparing, holder)
NoCutOff == [][CutsNobody]_vars
=============================================================================
