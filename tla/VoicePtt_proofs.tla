--------------------------- MODULE VoicePtt_proofs ---------------------------
(***************************************************************************)
(* What holds of the voice PTT session for any number of clients and       *)
(* keyers, any queue of commands and any number of engine restarts.        *)
(***************************************************************************)
EXTENDS VoicePtt, SequenceTheorems, TLAPS

USE VoiceAssumption

-----------------------------------------------------------------------------
(* Type correctness.                                                       *)
LEMMA KeyType == \A c \in Clients : Key(c) \in Commands
  BY DEF Key, Commands, Calls

LEMMA UnkeyType == \A c \in Clients, call \in {"release", "rollback", "stop"} : Unkey(c, call) \in Commands
  BY DEF Unkey, Commands, Calls

LEMMA InterruptType == \A k, c \in Clients : Interrupt(k, c) \in Commands
  BY DEF Interrupt, Commands, Calls

LEMMA KindType == \A c \in Clients \cup {Nobody} : Kind(c) \in Sources
  BY DEF Kind, Sources

LEMMA CommandFacts ==
  ASSUME NEW cmd \in Commands
  PROVE  /\ cmd.on \in BOOLEAN /\ cmd.by \in Clients
         /\ cmd.on <=> cmd.call = "start"
         /\ cmd.call = "preempt" => cmd.next \in Clients
<1>1. /\ cmd \in [on : BOOLEAN, by : Clients, call : Calls, next : Clients \cup {Nobody}]
      /\ cmd.on <=> cmd.call = "start"
      /\ cmd.next \in Clients <=> cmd.call = "preempt"
  BY Zenon DEF Commands
<1>2. cmd.by \in Clients
  BY <1>1
<1>3. cmd.on \in BOOLEAN
  BY <1>1, Zenon
<1> QED  BY <1>1, <1>2, <1>3, Zenon

LEMMA StartType ==
  ASSUME NEW c \in Clients, NEW queued \in Seq(Commands), preparing \in Seq(Clients),
         StartTransmit(c, queued)
  PROVE  /\ holder' \in Clients \cup {Nobody}
         /\ out' \in BOOLEAN
         /\ commands' \in Seq(Commands)
         /\ preparing' \in Seq(Clients)
<1>1. Key(c) \in Commands /\ Unkey(c, "rollback") \in Commands
  BY KeyType, UnkeyType
<1>2. /\ Append(queued, Key(c)) \in Seq(Commands)
      /\ Append(queued, Unkey(c, "rollback")) \in Seq(Commands)
      /\ Append(preparing, c) \in Seq(Clients)
  BY <1>1, AppendProperties
<1>3. holder' \in Clients \cup {Nobody}
  BY DEF StartTransmit
<1>4. out' \in BOOLEAN
  BY Zenon DEF StartTransmit
<1>5. commands' \in Seq(Commands) /\ preparing' \in Seq(Clients)
  BY <1>2, Zenon DEF StartTransmit
<1> QED  BY <1>3, <1>4, <1>5

(* What stays of the state's type when the radio answers.                  *)
LEMMA HeadType ==
  ASSUME NEW s \in Seq(Commands), s # <<>>
  PROVE  Head(s) \in Commands /\ Tail(s) \in Seq(Commands)
  BY HeadTailProperties

LEMMA FreedType ==
  ASSUME holder \in Clients \cup {Nobody}, NEW c
  PROVE  Freed(c) \in {holder, Nobody}
  BY DEF Freed

LEMMA TypeInit == Init => TypeOK
<1> SUFFICES ASSUME Init PROVE TypeOK
  OBVIOUS
<1>1. started \in BOOLEAN /\ out \in BOOLEAN /\ rig \in BOOLEAN
  BY Zenon DEF Init
<1>2. /\ holder \in Clients \cup {Nobody} /\ claimed \in SUBSET Sources
      /\ pressed \in SUBSET Clients /\ lost \in Nat
  BY DEF Init
<1>3. commands \in Seq(Commands) /\ preparing \in Seq(Clients)
  BY EmptySeq DEF Init
<1>4. env \in SUBSET Surroundings
  BY DEF Init
<1> QED  BY <1>1, <1>2, <1>3, <1>4 DEF TypeOK

LEMMA TypeStep == TypeOK /\ [Next]_vars => TypeOK'
<1> SUFFICES ASSUME TypeOK, [Next]_vars PROVE TypeOK'
  OBVIOUS
<1>0. /\ started \in BOOLEAN /\ out \in BOOLEAN /\ rig \in BOOLEAN
      /\ holder \in Clients \cup {Nobody}
      /\ claimed \in SUBSET Sources
      /\ commands \in Seq(Commands) /\ preparing \in Seq(Clients)
      /\ pressed \in SUBSET Clients /\ lost \in Nat
  BY DEF TypeOK
<1>e. env' \in SUBSET Surroundings
  <2>1. UNCHANGED env
    BY DEF Next, vars
  <2> QED  BY <2>1 DEF TypeOK
<1>1. ASSUME NEW c \in Clients, Press(c) PROVE TypeOK'
  <2>1. pressed' \in SUBSET Clients /\ claimed' \in SUBSET Sources /\ lost' \in Nat
    BY <1>0, <1>1 DEF Press
  <2>2. started' \in BOOLEAN /\ rig' \in BOOLEAN
    BY <1>0, <1>1, Zenon DEF Press
  <2>3. /\ holder' \in Clients \cup {Nobody}
        /\ out' \in BOOLEAN
        /\ commands' \in Seq(Commands)
        /\ preparing' \in Seq(Clients)
    <3>1. CASE StartTransmit(c, commands)
      BY <1>0, <3>1, StartType
    <3>2. CASE UNCHANGED <<holder, out, commands, preparing>>
      BY <1>0, <3>2, Zenon
    <3> QED  BY <1>1, <3>1, <3>2 DEF Press
  <2> QED  BY <1>e, <2>1, <2>2, <2>3 DEF TypeOK
<1>2. ASSUME NEW c \in Clients, PressOverKeyer(c) PROVE TypeOK'
  <2>1. Interrupt(holder, c) \in Commands
    BY <1>2, InterruptType DEF PressOverKeyer
  <2>2. commands' \in Seq(Commands)
    BY <1>0, <1>2, <2>1, AppendProperties DEF PressOverKeyer
  <2>3. pressed' \in SUBSET Clients
    BY <1>0, <1>2 DEF PressOverKeyer
  <2>4. UNCHANGED <<started, holder, out, claimed, preparing, lost, rig>>
    BY <1>2 DEF PressOverKeyer
  <2> QED  BY <1>e, <1>0, <2>2, <2>3, <2>4, Zenon DEF TypeOK
<1>3. ASSUME NEW c \in Clients, Release(c) PROVE TypeOK'
  <2>1. Unkey(c, "release") \in Commands
    BY UnkeyType
  <2>2. commands' \in Seq(Commands)
    BY <1>0, <1>3, <2>1, AppendProperties DEF Release, StopTransmit
  <2>3. pressed' \in SUBSET Clients
    BY <1>0, <1>3 DEF Release
  <2>4. UNCHANGED <<started, holder, out, claimed, preparing, lost, rig>>
    BY <1>3 DEF Release
  <2> QED  BY <1>e, <1>0, <2>2, <2>3, <2>4, Zenon DEF TypeOK
<1>4. ASSUME LockTimeout PROVE TypeOK'
  <2>1. holder' \in Clients \cup {Nobody}
    BY <1>4 DEF LockTimeout
  <2>2. UNCHANGED <<started, out, claimed, commands, preparing, pressed, lost, rig>>
    BY <1>4 DEF LockTimeout
  <2> QED  BY <1>e, <1>0, <2>1, <2>2, Zenon DEF TypeOK
<1>5. ASSUME EngineStop PROVE TypeOK'
  <2>1. commands' \in Seq(Commands)
    <3>1. CASE holder = Nobody
      BY <1>0, <1>5, <3>1 DEF EngineStop
    <3>2. CASE holder # Nobody
      <4>1. Unkey(holder, "stop") \in Commands
        BY <1>0, <3>2, UnkeyType
      <4> QED  BY <1>0, <1>5, <3>2, <4>1, AppendProperties DEF EngineStop
    <3> QED  BY <3>1, <3>2
  <2>2. started' \in BOOLEAN
    BY <1>0, <1>5, Zenon DEF EngineStop
  <2>3. UNCHANGED <<holder, out, claimed, preparing, pressed, lost, rig>>
    BY <1>5 DEF EngineStop
  <2> QED  BY <1>e, <1>0, <2>1, <2>2, <2>3, Zenon DEF TypeOK
<1>6. ASSUME EngineStart PROVE TypeOK'
  <2>1. started' \in BOOLEAN
    BY <1>6, Zenon DEF EngineStart
  <2>2. UNCHANGED <<holder, out, claimed, commands, preparing, pressed, lost, rig>>
    BY <1>6 DEF EngineStart
  <2> QED  BY <1>e, <1>0, <2>1, <2>2, Zenon DEF TypeOK
<1>7. ASSUME ToneStopped PROVE TypeOK'
  <2>1. Head(preparing) \in Clients /\ Tail(preparing) \in Seq(Clients)
    BY <1>0, <1>7, HeadTailProperties DEF ToneStopped
  <2>2. commands' \in Seq(Commands)
    BY <1>0, <1>7, <2>1, KeyType, AppendProperties DEF ToneStopped
  <2>3. preparing' \in Seq(Clients)
    BY <1>7, <2>1 DEF ToneStopped
  <2>4. UNCHANGED <<started, holder, out, claimed, pressed, lost, rig>>
    BY <1>7 DEF ToneStopped
  <2> QED  BY <1>e, <1>0, <2>2, <2>3, <2>4, Zenon DEF TypeOK
<1>8. ASSUME Answer PROVE TypeOK'
  <2> DEFINE cmd == Head(commands)
  <2>0. cmd \in Commands /\ Tail(commands) \in Seq(Commands)
    BY <1>0, <1>8, HeadType DEF Answer
  <2>1. /\ cmd.on \in BOOLEAN /\ cmd.by \in Clients
        /\ cmd.call = "preempt" => cmd.next \in Clients
    BY <2>0, CommandFacts
  <2>2. Obey(cmd) /\ UNCHANGED pressed
    BY <1>8 DEF Answer
  <2>3. pressed' \in SUBSET Clients /\ lost' \in Nat
    BY <1>0, <2>2 DEF Obey
  <2>4. rig' \in BOOLEAN
    BY <1>0, <2>1, <2>2, Zenon DEF Obey
  <2>5. Kind(cmd.by) \in Sources /\ Kind(holder) \in Sources
    BY <1>0, <2>1, KindType
  <2>6. Freed(cmd.by) \in Clients \cup {Nobody}
    BY <1>0, FreedType
  <2> HIDE DEF cmd
  <2> DEFINE Goal ==
        /\ started' \in BOOLEAN /\ out' \in BOOLEAN
        /\ holder' \in Clients \cup {Nobody}
        /\ claimed' \in SUBSET Sources
        /\ commands' \in Seq(Commands) /\ preparing' \in Seq(Clients)
  <2>a. ASSUME Started(cmd) PROVE Goal
    <3>1. claimed' \in SUBSET Sources
      BY <1>0, <2>5, <2>a DEF Started
    <3> QED  BY <1>0, <2>0, <2>a, <3>1, Zenon DEF Started
  <2>b. ASSUME RolledBack(cmd) PROVE Goal
    BY <1>0, <2>0, <2>6, <2>b, Zenon DEF RolledBack
  <2>c. ASSUME Released(cmd) PROVE Goal
    <3>1. claimed' \in SUBSET Sources
      BY <1>0, <2>c DEF Released, ClearFlag
    <3> QED  BY <1>0, <2>0, <2>6, <2>c, <3>1, Zenon DEF Released
  <2>d. ASSUME Stopped(cmd) PROVE Goal
    <3>1. claimed' \in SUBSET Sources
      BY <1>0, <2>d DEF Stopped, ClearFlag
    <3> QED  BY <1>0, <2>0, <2>d, <3>1, Zenon DEF Stopped
  <2>e. ASSUME Preempted(cmd) PROVE Goal
    <3>1. claimed' \in SUBSET Sources /\ UNCHANGED started
      BY <1>0, <2>e DEF Preempted, ClearFlag
    <3>2. CASE started /\ Freed(cmd.by) \in {Nobody, cmd.next}
      <4>1. StartTransmit(cmd.next, Tail(commands))
        BY <2>e, <3>2 DEF Preempted
      <4>2. cmd.next \in Clients
        BY <2>1, <2>e DEF Preempted
      <4> QED  BY <1>0, <2>0, <3>1, <4>1, <4>2, StartType
    <3>3. CASE ~(started /\ Freed(cmd.by) \in {Nobody, cmd.next})
      BY <1>0, <2>0, <2>6, <2>e, <3>1, <3>3, Zenon DEF Preempted
    <3> QED  BY <3>2, <3>3
  <2>7. Goal
    BY <1>8, <2>a, <2>b, <2>c, <2>d, <2>e DEF Answer, cmd
  <2> QED  BY <1>e, <2>3, <2>4, <2>7 DEF TypeOK
<1>9. CASE UNCHANGED vars
  BY <1>0, <1>e, <1>9, Zenon DEF TypeOK, vars
<1> QED  BY <1>1, <1>2, <1>3, <1>4, <1>5, <1>6, <1>7, <1>8, <1>9 DEF Next, Step

-----------------------------------------------------------------------------
(* The orderly station.                                                    *)
(* Every command to key is that of the lock's holder, and no earlier       *)
(* command frees the lock of that client; a press that interrupts the      *)
(* keyer is the only call of its client in flight.                         *)
Frees(cmd) == cmd.call \in {"release", "preempt", "rollback"}

KeysHeld(cmds, h) ==
  \A i \in 1..Len(cmds) : cmds[i].on =>
    /\ cmds[i].by = h
    /\ \A j \in 1..(i - 1) : ~(Frees(cmds[j]) /\ cmds[j].by = h)

NoRollback(cmds) == \A i \in 1..Len(cmds) : cmds[i].call # "rollback"

Interrupts(cmds, h) ==
  \A i \in 1..Len(cmds) : cmds[i].call = "preempt" =>
    /\ cmds[i].next # h
    /\ \A j \in 1..Len(cmds) : j # i => ~Concerns(cmds[j], cmds[i].next)

Ordered(cmds, h) == KeysHeld(cmds, h) /\ NoRollback(cmds) /\ Interrupts(cmds, h)

FlagsNow == claimed = IF rig THEN {Kind(holder)} ELSE {}

InOrder ==
  /\ preparing = <<>>
  /\ Ordered(commands, holder)
  /\ KeyHasHolder
  /\ FlagsNow

OInv == TypeOK /\ (Orderly => InOrder)

(* How the queue changes: one command is appended or the oldest is gone.   *)
LEMMA AppendFacts ==
  ASSUME NEW s \in Seq(Commands), NEW cmd \in Commands
  PROVE  /\ Append(s, cmd) \in Seq(Commands)
         /\ Len(s) \in Nat
         /\ Len(Append(s, cmd)) = Len(s) + 1
         /\ \A i \in 1..Len(s) : Append(s, cmd)[i] = s[i] /\ s[i] \in Commands
         /\ Append(s, cmd)[Len(s) + 1] = cmd
  BY AppendProperties, LenProperties, ElementOfSeq

LEMMA TailFacts ==
  ASSUME NEW s \in Seq(Commands), s # <<>>
  PROVE  /\ Tail(s) \in Seq(Commands)
         /\ Len(s) \in Nat \ {0}
         /\ Len(Tail(s)) = Len(s) - 1
         /\ Head(s) = s[1]
         /\ \A i \in 1..Len(Tail(s)) : Tail(s)[i] = s[i + 1]
  BY HeadTailProperties, LenProperties, EmptySeq

(* A command to unkey may follow anything, as long as it does not concern  *)
(* the client of an interruption.                                          *)
LEMMA AppendUnkey ==
  ASSUME NEW s \in Seq(Commands), NEW h, NEW cmd \in Commands,
         Ordered(s, h), ~cmd.on, cmd.call # "rollback",
         cmd.call = "preempt" =>
           cmd.next # h /\ \A i \in 1..Len(s) : ~Concerns(s[i], cmd.next),
         \A i \in 1..Len(s) : s[i].call = "preempt" => ~Concerns(cmd, s[i].next)
  PROVE  Ordered(Append(s, cmd), h)
<1> DEFINE t == Append(s, cmd)
<1>1. /\ Len(s) \in Nat /\ Len(t) = Len(s) + 1 /\ t[Len(s) + 1] = cmd
      /\ \A i \in 1..Len(s) : t[i] = s[i]
  BY AppendFacts
<1> HIDE DEF t
<1>2. KeysHeld(t, h)
  BY <1>1 DEF Ordered, KeysHeld
<1>3. NoRollback(t)
  BY <1>1 DEF Ordered, NoRollback
<1>4. Interrupts(t, h)
  BY <1>1 DEF Ordered, Interrupts
<1> QED  BY <1>2, <1>3, <1>4 DEF Ordered, t

(* A command to key follows a queue that keys for nobody else and frees    *)
(* nothing of its client.                                                  *)
LEMMA AppendKey ==
  ASSUME NEW s \in Seq(Commands), NEW c \in Clients,
         NoRollback(s), Interrupts(s, c),
         \A i \in 1..Len(s) : ~Concerns(s[i], c) /\ ~s[i].on
  PROVE  Ordered(Append(s, Key(c)), c)
<1> DEFINE t == Append(s, Key(c))
<1>0. Key(c) \in Commands
  BY KeyType
<1>1. /\ Len(s) \in Nat /\ Len(t) = Len(s) + 1 /\ t[Len(s) + 1] = Key(c)
      /\ \A i \in 1..Len(s) : t[i] = s[i]
  BY <1>0, AppendFacts
<1>2. /\ Key(c).on /\ Key(c).by = c /\ Key(c).call = "start" /\ Key(c).next = Nobody
  BY DEF Key
<1> HIDE DEF t
<1>3. KeysHeld(t, c)
  BY <1>1, <1>2 DEF KeysHeld, Frees, Concerns
<1>4. NoRollback(t)
  BY <1>1, <1>2 DEF NoRollback
<1>5. \A i \in 1..Len(s) : s[i].call = "preempt" => s[i].next # c /\ s[i].next # Nobody
  <2>1. \A i \in 1..Len(s) : s[i] \in Commands
    BY <1>0, AppendFacts
  <2> QED  BY <2>1, CommandFacts DEF Interrupts
<1>6. Interrupts(t, c)
  BY <1>1, <1>2, <1>5 DEF Interrupts, Concerns
<1> QED  BY <1>3, <1>4, <1>6 DEF Ordered, t

(* Once the oldest command is answered the rest is as orderly, for the     *)
(* holder there was, and for nobody if that command frees the lock.        *)
LEMMA TailOrdered ==
  ASSUME NEW s \in Seq(Commands), s # <<>>, NEW h, Ordered(s, h)
  PROVE  /\ Ordered(Tail(s), h)
         /\ Frees(Head(s)) /\ Head(s).by = h =>
              \A i \in 1..Len(Tail(s)) : ~Tail(s)[i].on
<1> DEFINE t == Tail(s)
<1>1. /\ Len(s) \in Nat \ {0} /\ Len(t) = Len(s) - 1 /\ Head(s) = s[1]
      /\ \A i \in 1..Len(t) : t[i] = s[i + 1]
  BY TailFacts
<1> HIDE DEF t
<1>2. KeysHeld(t, h)
  BY <1>1 DEF Ordered, KeysHeld
<1>3. NoRollback(t)
  BY <1>1 DEF Ordered, NoRollback
<1>4. Interrupts(t, h)
  BY <1>1 DEF Ordered, Interrupts
<1>5. Frees(Head(s)) /\ Head(s).by = h => \A i \in 1..Len(t) : ~t[i].on
  BY <1>1 DEF Ordered, KeysHeld
<1> QED  BY <1>2, <1>3, <1>4, <1>5 DEF Ordered, t

(* A queue that keys nobody is as good without a holder.                   *)
LEMMA NobodyOrdered ==
  ASSUME NEW s \in Seq(Commands), NEW h, Ordered(s, h),
         \A i \in 1..Len(s) : ~s[i].on
  PROVE  Ordered(s, Nobody)
<1>1. \A i \in 1..Len(s) : s[i] \in Commands
  BY ElementOfSeq
<1>2. \A i \in 1..Len(s) : s[i].call = "preempt" => s[i].next # Nobody
  BY <1>1, CommandFacts
<1>3. KeysHeld(s, Nobody)
  BY DEF KeysHeld
<1>4. Interrupts(s, Nobody)
  BY <1>2 DEF Ordered, Interrupts
<1> QED  BY <1>3, <1>4 DEF Ordered

(* Without a holder, or with a client that waits for nothing, the queue    *)
(* keys nobody else.                                                       *)
LEMMA NothingKeyed ==
  ASSUME NEW s \in Seq(Commands), NEW c \in Clients, NEW h \in {Nobody, c}, Ordered(s, h),
         \A i \in 1..Len(s) : ~Concerns(s[i], c)
  PROVE  /\ \A i \in 1..Len(s) : ~s[i].on
         /\ Interrupts(s, c) /\ NoRollback(s)
<1>1. \A i \in 1..Len(s) : s[i] \in Commands
  BY ElementOfSeq
<1>2. \A i \in 1..Len(s) : s[i].by \in Clients /\ (s[i].on <=> s[i].call = "start")
  BY <1>1, CommandFacts
<1>3. \A i \in 1..Len(s) : ~s[i].on
  BY <1>2 DEF Ordered, KeysHeld, Concerns
<1>4. \A i \in 1..Len(s) : s[i].call = "preempt" => s[i].next # c
  BY DEF Concerns
<1>5. Interrupts(s, c) /\ NoRollback(s)
  BY <1>4 DEF Ordered, Interrupts
<1> QED  BY <1>3, <1>5

(* In an orderly station a start that is let in submits its key command.   *)
LEMMA StartKeys ==
  ASSUME Orderly, NEW c, NEW queued, StartTransmit(c, queued)
  PROVE  /\ holder' = c
         /\ commands' = Append(queued, Key(c))
         /\ UNCHANGED preparing
<1>1. "toneBlock" \notin env /\ "toneThrow" \notin env
  BY DEF Orderly
<1> QED  BY <1>1, Zenon DEF StartTransmit

LEMMA AwaitingFacts ==
  ASSUME commands \in Seq(Commands), NEW c, ~Awaiting(c)
  PROVE  \A i \in 1..Len(commands) : ~Concerns(commands[i], c)
<1>1. DOMAIN commands = 1..Len(commands)
  BY LenProperties
<1> QED  BY <1>1 DEF Awaiting

LEMMA OrderlyInit == Init => OInv
<1> SUFFICES ASSUME Init PROVE OInv
  OBVIOUS
<1>1. TypeOK
  BY TypeInit
<1>2. Ordered(commands, holder)
  BY DEF Init, Ordered, KeysHeld, NoRollback, Interrupts
<1>3. preparing = <<>> /\ KeyHasHolder /\ FlagsNow
  BY DEF Init, KeyHasHolder, FlagsNow
<1> QED  BY <1>1, <1>2, <1>3 DEF OInv, InOrder

LEMMA OrderlyStep == TypeOK /\ Orderly /\ InOrder /\ [Next]_vars => InOrder'
<1> SUFFICES ASSUME TypeOK, Orderly, InOrder, [Next]_vars PROVE InOrder'
  OBVIOUS
<1>0. /\ commands \in Seq(Commands) /\ holder \in Clients \cup {Nobody}
      /\ preparing = <<>> /\ Ordered(commands, holder)
      /\ rig => holder # Nobody
      /\ claimed = IF rig THEN {Kind(holder)} ELSE {}
  BY DEF InOrder, TypeOK, KeyHasHolder, FlagsNow
<1>e. "impatient" \notin env /\ "timeout" \notin env
  BY DEF Orderly
<1>u. \A cmd \in Commands : cmd.call = "stop" => \A c : ~Concerns(cmd, c)
  BY DEF Concerns
<1>1. ASSUME NEW c \in Clients, Press(c) PROVE InOrder'
  <2>1. UNCHANGED <<started, claimed, lost, rig>>
    BY <1>1 DEF Press
  <2>2. CASE MayStart(c) /\ StartTransmit(c, commands)
    <3>1. holder' = c /\ commands' = Append(commands, Key(c)) /\ UNCHANGED preparing
      BY <2>2, StartKeys
    <3>2. \A i \in 1..Len(commands) : ~Concerns(commands[i], c)
      BY <1>0, <1>1, <1>e, AwaitingFacts DEF Press
    <3>3. holder \in {Nobody, c}
      BY <2>2 DEF MayStart
    <3>4. Ordered(commands', holder')
      BY <1>0, <3>1, <3>2, <3>3, NothingKeyed, AppendKey
    <3>5. rig => holder = c
      BY <1>0, <3>3
    <3>6. KeyHasHolder'
      BY <2>1, <3>1, <3>5 DEF KeyHasHolder
    <3>7. FlagsNow'
      BY <1>0, <2>1, <3>1, <3>5 DEF FlagsNow, Kind
    <3> QED  BY <1>0, <2>1, <3>1, <3>4, <3>6, <3>7 DEF InOrder
  <2>3. CASE UNCHANGED <<holder, out, commands, preparing>>
    BY <1>0, <2>1, <2>3 DEF InOrder, KeyHasHolder, FlagsNow, Kind
  <2> QED  BY <1>1, <2>2, <2>3 DEF Press
<1>2. ASSUME NEW c \in Clients, PressOverKeyer(c) PROVE InOrder'
  <2>1. /\ UNCHANGED <<started, holder, out, claimed, preparing, lost, rig>>
        /\ commands' = Append(commands, Interrupt(holder, c))
        /\ holder \in Keyers /\ c \notin Keyers /\ ~Awaiting(c)
    BY <1>2, <1>e DEF PressOverKeyer
  <2> DEFINE cmd == Interrupt(holder, c)
  <2>2. /\ cmd \in Commands /\ ~cmd.on /\ cmd.call = "preempt"
        /\ cmd.by = holder /\ cmd.next = c
    BY <2>1, InterruptType DEF Interrupt
  <2>3. \A i \in 1..Len(commands) : ~Concerns(commands[i], c)
    BY <1>0, <2>1, AwaitingFacts
  <2>4. \A i \in 1..Len(commands) :
          commands[i].call = "preempt" => commands[i].next # holder /\ commands[i].next # c
    BY <1>0, <2>3 DEF Ordered, Interrupts, Concerns
  <2>5. Ordered(commands', holder')
    <3> HIDE DEF cmd
    <3>1. \A i \in 1..Len(commands) :
            commands[i].call = "preempt" => ~Concerns(cmd, commands[i].next)
      BY <2>2, <2>4 DEF Concerns
    <3>2. cmd.next # holder
      BY <2>1, <2>2
    <3>3. Ordered(Append(commands, cmd), holder)
      BY <1>0, <2>2, <2>3, <3>1, <3>2, AppendUnkey
    <3> QED  BY <2>1, <3>3 DEF cmd
  <2> QED  BY <1>0, <2>1, <2>5 DEF InOrder, KeyHasHolder, FlagsNow, Kind
<1>3. ASSUME NEW c \in Clients, Release(c) PROVE InOrder'
  <2>1. /\ UNCHANGED <<started, holder, out, claimed, preparing, lost, rig>>
        /\ StopTransmit(c)
    BY <1>3 DEF Release
  <2>2. Ordered(commands', holder')
    <3>1. CASE holder = c
      <4> DEFINE cmd == Unkey(c, "release")
      <4>1. /\ cmd \in Commands /\ ~cmd.on /\ cmd.call = "release"
            /\ cmd.by = c /\ cmd.next = Nobody
        BY UnkeyType DEF Unkey
      <4> HIDE DEF cmd
      <4>2. \A i \in 1..Len(commands) :
              commands[i].call = "preempt" => ~Concerns(cmd, commands[i].next)
        <5>1. \A i \in 1..Len(commands) : commands[i] \in Commands
          BY <1>0, ElementOfSeq
        <5>2. \A i \in 1..Len(commands) : commands[i].call = "preempt" =>
                commands[i].next \in Clients /\ commands[i].next # c
          BY <1>0, <3>1, <5>1, CommandFacts DEF Ordered, Interrupts
        <5> QED  BY <4>1, <5>2 DEF Concerns
      <4>3. Ordered(Append(commands, cmd), holder)
        BY <1>0, <4>1, <4>2, AppendUnkey
      <4> QED  BY <2>1, <3>1, <4>3 DEF StopTransmit, cmd
    <3>2. CASE holder # c
      BY <1>0, <2>1, <3>2 DEF StopTransmit
    <3> QED  BY <3>1, <3>2
  <2> QED  BY <1>0, <2>1, <2>2 DEF InOrder, KeyHasHolder, FlagsNow, Kind
<1>4. ~LockTimeout
  BY <1>e DEF LockTimeout
<1>5. ASSUME EngineStop PROVE InOrder'
  <2>1. UNCHANGED <<holder, out, claimed, preparing, pressed, lost, rig>>
    BY <1>5 DEF EngineStop
  <2>2. Ordered(commands', holder')
    <3>1. CASE holder = Nobody
      BY <1>0, <1>5, <2>1, <3>1 DEF EngineStop
    <3>2. CASE holder # Nobody
      <4> DEFINE cmd == Unkey(holder, "stop")
      <4>1. cmd \in Commands /\ ~cmd.on /\ cmd.call = "stop"
        BY <1>0, <3>2, UnkeyType DEF Unkey
      <4>2. commands' = Append(commands, cmd)
        BY <1>5, <3>2 DEF EngineStop
      <4> HIDE DEF cmd
      <4>3. Ordered(Append(commands, cmd), holder)
        BY <1>0, <1>u, <4>1, AppendUnkey
      <4> QED  BY <2>1, <4>2, <4>3
    <3> QED  BY <3>1, <3>2
  <2> QED  BY <1>0, <2>1, <2>2 DEF InOrder, KeyHasHolder, FlagsNow, Kind
<1>6. ASSUME EngineStart PROVE InOrder'
  <2>1. UNCHANGED <<holder, out, claimed, commands, preparing, pressed, lost, rig>>
    BY <1>6 DEF EngineStart
  <2> QED  BY <1>0, <2>1 DEF InOrder, KeyHasHolder, FlagsNow, Kind
<1>7. ~ToneStopped
  BY <1>0 DEF ToneStopped
<1>8. ASSUME Answer PROVE InOrder'
  <2> DEFINE cmd == Head(commands)
             rest == Tail(commands)
  <2>0. cmd \in Commands /\ rest \in Seq(Commands) /\ commands # <<>>
    BY <1>0, <1>8, HeadType DEF Answer
  <2>1. /\ cmd.by \in Clients
        /\ cmd.on <=> cmd.call = "start"
        /\ cmd.call = "preempt" => cmd.next \in Clients
    BY <2>0, CommandFacts
  <2>2. rig' = cmd.on
    BY <1>8 DEF Answer, Obey, Orderly
  <2>3. /\ Ordered(rest, holder)
        /\ Frees(cmd) /\ cmd.by = holder => \A i \in 1..Len(rest) : ~rest[i].on
    BY <1>0, <2>0, TailOrdered
  <2>4. /\ cmd.on => cmd.by = holder
        /\ cmd.call # "rollback"
        /\ cmd.call = "preempt" =>
             cmd.next # holder /\ \A i \in 1..Len(rest) : ~Concerns(rest[i], cmd.next)
    <3>1. /\ Len(commands) \in Nat \ {0} /\ cmd = commands[1]
          /\ Len(rest) = Len(commands) - 1
          /\ \A i \in 1..Len(rest) : rest[i] = commands[i + 1]
      BY <1>0, <2>0, TailFacts
    <3> HIDE DEF cmd, rest
    <3> QED  BY <1>0, <3>1 DEF Ordered, KeysHeld, NoRollback, Interrupts
  <2> HIDE DEF cmd, rest
  <2> DEFINE Goal ==
        /\ Ordered(commands', holder') /\ preparing' = <<>>
        /\ cmd.on => holder' # Nobody
        /\ claimed' = IF cmd.on THEN {Kind(holder')} ELSE {}
  <2>f. Frees(cmd) => Ordered(rest, Freed(cmd.by))
    <3>1. CASE holder = cmd.by
      BY <2>0, <2>3, <3>1, NobodyOrdered DEF Freed
    <3>2. CASE holder # cmd.by
      BY <2>3, <3>2 DEF Freed
    <3> QED  BY <3>1, <3>2
  <2>c. ClearFlag => claimed' = {}
    BY <1>0 DEF ClearFlag
  <2>5. ASSUME Started(cmd) PROVE Goal
    <3>1. commands' = rest /\ UNCHANGED <<holder, preparing>> /\ cmd.on
      BY <2>5 DEF Started, rest
    <3>2. claimed' = {Kind(holder)}
      BY <1>0, <2>4, <2>5, <3>1 DEF Started
    <3>3. holder # Nobody
      BY <2>1, <2>4, <3>1
    <3> QED  BY <1>0, <2>3, <3>1, <3>2, <3>3
  <2>6. ~RolledBack(cmd)
    BY <2>4 DEF RolledBack
  <2>7. ASSUME Released(cmd) PROVE Goal
    <3>1. /\ commands' = rest /\ holder' = Freed(cmd.by) /\ UNCHANGED preparing
          /\ cmd.call = "release" /\ ClearFlag
      BY <2>7 DEF Released, rest
    <3>2. ~cmd.on /\ Frees(cmd)
      BY <2>1, <3>1 DEF Frees
    <3> QED  BY <1>0, <2>f, <2>c, <3>1, <3>2
  <2>8. ASSUME Stopped(cmd) PROVE Goal
    <3>1. /\ commands' = rest /\ UNCHANGED <<holder, preparing>>
          /\ cmd.call = "stop" /\ ClearFlag
      BY <2>8 DEF Stopped, rest
    <3>2. ~cmd.on
      BY <2>1, <3>1
    <3> QED  BY <1>0, <2>3, <2>c, <3>1, <3>2
  <2>9. ASSUME Preempted(cmd) PROVE Goal
    <3>1. cmd.call = "preempt" /\ ClearFlag
      BY <2>9 DEF Preempted
    <3>2. ~cmd.on /\ Frees(cmd) /\ cmd.next \in Clients
      BY <2>1, <3>1 DEF Frees
    <3>3. CASE started /\ Freed(cmd.by) \in {Nobody, cmd.next}
      <4>1. StartTransmit(cmd.next, rest)
        BY <2>9, <3>3 DEF Preempted, rest
      <4>2. /\ holder' = cmd.next /\ commands' = Append(rest, Key(cmd.next))
            /\ UNCHANGED preparing
        BY <4>1, StartKeys
      <4>3. Ordered(rest, Freed(cmd.by))
        BY <2>f, <3>2
      <4>4. \A i \in 1..Len(rest) : ~Concerns(rest[i], cmd.next)
        BY <2>4, <3>1
      <4>5. Ordered(commands', holder')
        BY <2>0, <3>2, <3>3, <4>2, <4>3, <4>4, NothingKeyed, AppendKey
      <4> QED  BY <1>0, <2>c, <3>1, <3>2, <4>2, <4>5
    <3>4. CASE ~(started /\ Freed(cmd.by) \in {Nobody, cmd.next})
      <4>1. holder' = Freed(cmd.by) /\ commands' = rest /\ UNCHANGED preparing
        BY <2>9, <3>4 DEF Preempted, rest
      <4> QED  BY <1>0, <2>f, <2>c, <3>1, <3>2, <4>1
    <3> QED  BY <3>3, <3>4
  <2>10. Goal
    BY <1>8, <2>5, <2>6, <2>7, <2>8, <2>9 DEF Answer, cmd
  <2>11. KeyHasHolder'
    BY <2>2, <2>10, Zenon DEF KeyHasHolder
  <2>12. FlagsNow'
    <3>1. CASE cmd.on
      BY <2>2, <2>10, <3>1 DEF FlagsNow, Kind
    <3>2. CASE ~cmd.on
      BY <2>2, <2>10, <3>2 DEF FlagsNow
    <3> QED  BY <3>1, <3>2
  <2> QED  BY <2>2, <2>10, <2>11, <2>12 DEF InOrder
<1>9. CASE UNCHANGED vars
  BY <1>0, <1>9 DEF vars, InOrder, KeyHasHolder, FlagsNow, Kind
<1> QED  BY <1>1, <1>2, <1>3, <1>4, <1>5, <1>6, <1>7, <1>8, <1>9 DEF Next, Step

-----------------------------------------------------------------------------
(* Why a release cuts nobody off, in any surroundings: whoever takes the   *)
(* lock after a command to unkey was submitted starts behind it.           *)
StillToCome(cmds, i, prep, h) ==
  \/ \E j \in (i + 1)..Len(cmds) : cmds[j].by = h /\ cmds[j].call \in {"start", "rollback"}
  \/ Contains(prep, h)

Covered(cmds, prep, h) ==
  h # Nobody =>
    \A i \in 1..Len(cmds) : cmds[i].by = h \/ cmds[i].on \/ StillToCome(cmds, i, prep, h)

CInv == TypeOK /\ Covered(commands, preparing, holder)

(* A command of the holder or one to key needs no cover.                   *)
LEMMA AppendCovered ==
  ASSUME NEW s \in Seq(Commands), NEW prep, NEW h, NEW cmd \in Commands,
         Covered(s, prep, h), cmd.by = h \/ cmd.on
  PROVE  Covered(Append(s, cmd), prep, h)
<1> DEFINE t == Append(s, cmd)
<1>1. /\ Len(s) \in Nat /\ Len(t) = Len(s) + 1 /\ t[Len(s) + 1] = cmd
      /\ \A i \in 1..Len(s) : t[i] = s[i]
  BY AppendFacts
<1> HIDE DEF t
<1>2. \A i \in 1..Len(s) : StillToCome(s, i, prep, h) => StillToCome(t, i, prep, h)
  BY <1>1 DEF StillToCome
<1>3. Covered(t, prep, h)
  BY <1>1, <1>2 DEF Covered
<1> QED  BY <1>3 DEF t

LEMMA TailCovered ==
  ASSUME NEW s \in Seq(Commands), s # <<>>, NEW prep, NEW h, Covered(s, prep, h)
  PROVE  Covered(Tail(s), prep, h)
<1> DEFINE t == Tail(s)
<1>1. /\ Len(s) \in Nat \ {0} /\ Len(t) = Len(s) - 1
      /\ \A i \in 1..Len(t) : t[i] = s[i + 1]
  BY TailFacts
<1> HIDE DEF t
<1>2. ASSUME NEW i \in 1..Len(t), StillToCome(s, i + 1, prep, h)
      PROVE  StillToCome(t, i, prep, h)
  <2>1. ASSUME NEW j \in (i + 2)..Len(s),
               s[j].by = h /\ s[j].call \in {"start", "rollback"}
        PROVE  StillToCome(t, i, prep, h)
    <3>1. j - 1 \in (i + 1)..Len(t) /\ t[j - 1] = s[j]
      BY <1>1
    <3> QED  BY <2>1, <3>1 DEF StillToCome
  <2>2. i + 1 + 1 = i + 2
    OBVIOUS
  <2> QED  BY <1>2, <2>1, <2>2 DEF StillToCome
<1>3. Covered(t, prep, h)
  BY <1>1, <1>2 DEF Covered
<1> QED  BY <1>3 DEF t

(* A start comes behind everything that is in the queue.                   *)
LEMMA StartCovers ==
  ASSUME NEW c \in Clients, NEW s \in Seq(Commands), preparing \in Seq(Clients),
         StartTransmit(c, s)
  PROVE  Covered(commands', preparing', holder')
<1>1. holder' = c
  BY DEF StartTransmit
<1>2. ASSUME NEW cmd \in Commands, commands' = Append(s, cmd), cmd.by = c,
             cmd.call \in {"start", "rollback"}
      PROVE  Covered(commands', preparing', holder')
  <2>1. /\ Len(s) \in Nat /\ Len(commands') = Len(s) + 1 /\ commands'[Len(s) + 1] = cmd
    BY <1>2, AppendFacts
  <2>2. \A i \in 1..Len(s) : StillToCome(commands', i, preparing', c)
    <3> SUFFICES ASSUME NEW i \in 1..Len(s) PROVE StillToCome(commands', i, preparing', c)
      OBVIOUS
    <3>1. Len(s) + 1 \in (i + 1)..Len(commands')
      BY <2>1
    <3> QED  BY <1>2, <2>1, <3>1 DEF StillToCome
  <2> QED  BY <1>1, <1>2, <2>1, <2>2 DEF Covered
<1>3. CASE preparing' = Append(preparing, c)
  <2>1. /\ Len(preparing) \in Nat /\ Len(preparing') = Len(preparing) + 1
        /\ preparing'[Len(preparing) + 1] = c
    BY <1>3, AppendProperties, LenProperties
  <2>2. Contains(preparing', c)
    BY <2>1 DEF Contains
  <2> QED  BY <1>1, <2>2 DEF Covered, StillToCome
<1>4. /\ Key(c) \in Commands /\ Key(c).by = c /\ Key(c).call = "start"
      /\ Unkey(c, "rollback") \in Commands /\ Unkey(c, "rollback").by = c
      /\ Unkey(c, "rollback").call = "rollback"
  BY KeyType, UnkeyType DEF Key, Unkey
<1> QED  BY <1>2, <1>3, <1>4 DEF StartTransmit

LEMMA CoveredInit == Init => CInv
<1>1. Init => Covered(commands, preparing, holder)
  BY DEF Init, Covered
<1> QED  BY <1>1, TypeInit DEF CInv

LEMMA CoveredStep == CInv /\ [Next]_vars => CInv'
<1> SUFFICES ASSUME CInv, [Next]_vars PROVE CInv'
  OBVIOUS
<1>0. /\ commands \in Seq(Commands) /\ holder \in Clients \cup {Nobody}
      /\ preparing \in Seq(Clients) /\ Covered(commands, preparing, holder)
  BY DEF CInv, TypeOK
<1>t. TypeOK'
  BY TypeStep DEF CInv
<1> DEFINE Goal == Covered(commands', preparing', holder')
<1>n. ASSUME holder' = Nobody PROVE Goal
  BY <1>n DEF Covered
<1>1. ASSUME NEW c \in Clients, Press(c) PROVE Goal
  <2>1. CASE StartTransmit(c, commands)
    BY <1>0, <2>1, StartCovers
  <2>2. CASE UNCHANGED <<holder, out, commands, preparing>>
    BY <1>0, <2>2
  <2> QED  BY <1>1, <2>1, <2>2 DEF Press
<1>2. ASSUME NEW c \in Clients, PressOverKeyer(c) PROVE Goal
  <2>1. /\ UNCHANGED <<holder, preparing>> /\ holder \in Keyers
        /\ commands' = Append(commands, Interrupt(holder, c))
    BY <1>2 DEF PressOverKeyer
  <2>2. Interrupt(holder, c) \in Commands /\ Interrupt(holder, c).by = holder
    BY <2>1, InterruptType DEF Interrupt
  <2>3. Covered(Append(commands, Interrupt(holder, c)), preparing, holder)
    BY <1>0, <2>2, AppendCovered
  <2> QED  BY <2>1, <2>3
<1>3. ASSUME NEW c \in Clients, Release(c) PROVE Goal
  <2>1. UNCHANGED <<holder, preparing>> /\ StopTransmit(c)
    BY <1>3 DEF Release
  <2>2. CASE holder = c
    <3>1. Unkey(c, "release") \in Commands /\ Unkey(c, "release").by = holder
      BY <2>2, UnkeyType DEF Unkey
    <3>2. Covered(Append(commands, Unkey(c, "release")), preparing, holder)
      BY <1>0, <3>1, AppendCovered
    <3> QED  BY <2>1, <2>2, <3>2 DEF StopTransmit
  <2>3. CASE holder # c
    BY <1>0, <2>1, <2>3 DEF StopTransmit
  <2> QED  BY <2>2, <2>3
<1>4. ASSUME LockTimeout PROVE Goal
  BY <1>4, <1>n DEF LockTimeout
<1>5. ASSUME EngineStop PROVE Goal
  <2>1. UNCHANGED <<holder, preparing>>
    BY <1>5 DEF EngineStop
  <2>2. CASE holder = Nobody
    BY <1>n, <2>1, <2>2
  <2>3. CASE holder # Nobody
    <3>1. Unkey(holder, "stop") \in Commands /\ Unkey(holder, "stop").by = holder
      BY <1>0, <2>3, UnkeyType DEF Unkey
    <3>2. Covered(Append(commands, Unkey(holder, "stop")), preparing, holder)
      BY <1>0, <3>1, AppendCovered
    <3> QED  BY <1>5, <2>1, <2>3, <3>2 DEF EngineStop
  <2> QED  BY <2>2, <2>3
<1>6. ASSUME EngineStart PROVE Goal
  BY <1>0, <1>6 DEF EngineStart
<1>7. ASSUME ToneStopped PROVE Goal
  <2> DEFINE c == Head(preparing)
             t == Append(commands, Key(c))
  <2>1. /\ commands' = t /\ preparing' = Tail(preparing) /\ holder' = holder
        /\ preparing # <<>>
    BY <1>7 DEF ToneStopped
  <2>2. /\ c \in Clients /\ c = preparing[1] /\ Len(preparing) \in Nat \ {0}
        /\ Len(Tail(preparing)) = Len(preparing) - 1
        /\ \A i \in 1..Len(Tail(preparing)) : Tail(preparing)[i] = preparing[i + 1]
    BY <1>0, <2>1, HeadTailProperties, LenProperties, EmptySeq
  <2>3. /\ Key(c) \in Commands /\ Key(c).by = c /\ Key(c).on /\ Key(c).call = "start"
    BY <2>2, KeyType DEF Key
  <2>4. /\ Len(commands) \in Nat /\ Len(t) = Len(commands) + 1
        /\ t[Len(commands) + 1] = Key(c)
    BY <1>0, <2>3, AppendFacts
  <2>5. Covered(t, preparing, holder)
    BY <1>0, <2>3, AppendCovered
  <2> HIDE DEF c, t
  <2>6. Contains(preparing, holder) => holder = c \/ Contains(Tail(preparing), holder)
    <3> SUFFICES ASSUME NEW i \in 1..Len(preparing), preparing[i] = holder, holder # c
                 PROVE  Contains(Tail(preparing), holder)
      BY DEF Contains
    <3>1. i - 1 \in 1..Len(Tail(preparing)) /\ Tail(preparing)[i - 1] = holder
      BY <2>2
    <3> QED  BY <3>1 DEF Contains
  <2>7. \A i \in 1..Len(commands) :
          StillToCome(t, i, preparing, holder) => StillToCome(t, i, Tail(preparing), holder)
    <3> SUFFICES ASSUME NEW i \in 1..Len(commands), StillToCome(t, i, preparing, holder)
                 PROVE  StillToCome(t, i, Tail(preparing), holder)
      OBVIOUS
    <3>1. Len(commands) + 1 \in (i + 1)..Len(t)
      BY <2>4
    <3> QED  BY <2>3, <2>4, <2>6, <3>1 DEF StillToCome
  <2>8. Covered(t, Tail(preparing), holder)
    BY <2>3, <2>4, <2>5, <2>7 DEF Covered
  <2> QED  BY <2>1, <2>8
<1>8. ASSUME Answer PROVE Goal
  <2> DEFINE cmd == Head(commands)
             rest == Tail(commands)
  <2>0. cmd \in Commands /\ rest \in Seq(Commands) /\ commands # <<>>
    BY <1>0, <1>8, HeadType DEF Answer
  <2>1. Covered(rest, preparing, holder)
    BY <1>0, <2>0, TailCovered
  <2> HIDE DEF cmd, rest
  <2>2. ASSUME commands' = rest, UNCHANGED preparing, holder' \in {holder, Nobody} PROVE Goal
    BY <1>n, <2>1, <2>2
  <2>3. Freed(cmd.by) \in {holder, Nobody}
    BY DEF Freed
  <2>4. ASSUME Started(cmd) PROVE Goal
    BY <2>2, <2>4 DEF Started, rest
  <2>5. ASSUME RolledBack(cmd) PROVE Goal
    BY <2>2, <2>3, <2>5 DEF RolledBack, rest
  <2>6. ASSUME Released(cmd) PROVE Goal
    BY <2>2, <2>3, <2>6 DEF Released, rest
  <2>7. ASSUME Stopped(cmd) PROVE Goal
    BY <2>2, <2>7 DEF Stopped, rest
  <2>8. ASSUME Preempted(cmd) PROVE Goal
    <3>1. CASE StartTransmit(cmd.next, rest)
      <4>1. cmd.next \in Clients
        BY <2>0, <2>8, CommandFacts DEF Preempted
      <4> QED  BY <1>0, <2>0, <3>1, <4>1, StartCovers
    <3>2. CASE holder' = Freed(cmd.by) /\ commands' = rest /\ UNCHANGED preparing
      BY <2>2, <2>3, <3>2
    <3> QED  BY <2>8, <3>1, <3>2 DEF Preempted, rest
  <2> QED  BY <1>8, <2>4, <2>5, <2>6, <2>7, <2>8 DEF Answer, cmd
<1>9. ASSUME UNCHANGED vars PROVE Goal
  <2>1. UNCHANGED <<commands, preparing, holder>>
    BY <1>9 DEF vars
  <2> QED  BY <1>0, <2>1
<1> HIDE DEF Goal
<1>10. Goal
  BY <1>1, <1>2, <1>3, <1>4, <1>5, <1>6, <1>7, <1>8, <1>9 DEF Next, Step
<1> QED  BY <1>t, <1>10 DEF CInv, Goal

(* Only an answer unkeys the radio.                                        *)
LEMMA CoveredCutsNobody == CInv /\ [Next]_vars => CutsNobody
<1> SUFFICES ASSUME CInv, [Next]_vars, rig, ~rig' PROVE CutsNobody
  BY DEF CutsNobody
<1>0. /\ commands \in Seq(Commands) /\ holder \in Clients \cup {Nobody}
      /\ Covered(commands, preparing, holder)
  BY DEF CInv, TypeOK
<1>1. Answer
  BY DEF Next, Step, vars, Press, PressOverKeyer, Release, LockTimeout, EngineStop, EngineStart, ToneStopped
<1> DEFINE cmd == Head(commands)
           rest == Tail(commands)
<1>2. /\ commands # <<>> /\ Obey(cmd)
  BY <1>1 DEF Answer
<1>3. ~cmd.on
  BY <1>2 DEF Obey
<1>4. /\ rest \in Seq(Commands) /\ Len(commands) \in Nat \ {0}
      /\ Len(rest) = Len(commands) - 1 /\ cmd = commands[1]
      /\ \A i \in 1..Len(rest) : rest[i] = commands[i + 1]
  BY <1>0, <1>2, TailFacts
<1>5. DOMAIN rest = 1..Len(rest)
  BY <1>4, LenProperties
<1> HIDE DEF cmd, rest
<1>6. CASE holder # Nobody /\ cmd.by # holder
  <2>1. StillToCome(commands, 1, preparing, holder)
    BY <1>0, <1>3, <1>4, <1>6 DEF Covered
  <2>2. CASE Contains(preparing, holder)
    BY <2>2 DEF CutsNobody
  <2>3. ASSUME NEW j \in 2..Len(commands), commands[j].by = holder,
               commands[j].call \in {"start", "rollback"}
        PROVE  CutsNobody
    <3>1. j - 1 \in DOMAIN rest /\ rest[j - 1] = commands[j]
      BY <1>4, <1>5
    <3> QED  BY <2>3, <3>1 DEF CutsNobody, rest
  <2>4. 1 + 1 = 2
    OBVIOUS
  <2> QED  BY <2>1, <2>2, <2>3, <2>4 DEF StillToCome
<1>7. CASE holder = Nobody \/ cmd.by = holder
  BY <1>7 DEF CutsNobody, cmd
<1> QED  BY <1>6, <1>7

-----------------------------------------------------------------------------
(* Why a holder is heard when the queue is empty: until then the last      *)
(* command in it keys the radio, or one of the holder's frees the lock, or *)
(* the holder's start still waits for the tune tone.                       *)
Undisturbed == env \cap {"engineStop", "refuse"} = {}

EndsOn(cmds, on) == IF cmds = <<>> THEN on ELSE cmds[Len(cmds)].on
FreedLater(cmds, h) == \E i \in 1..Len(cmds) : cmds[i].by = h /\ ~cmds[i].on
Attended(cmds, prep, on, h) ==
  h # Nobody => EndsOn(cmds, on) \/ FreedLater(cmds, h) \/ Contains(prep, h)
NoStop(cmds) == \A i \in 1..Len(cmds) : cmds[i].call # "stop"

HInv ==
  /\ TypeOK
  /\ Undisturbed => /\ NoStop(commands)
                    /\ Attended(commands, preparing, rig /\ out, holder)

(* A command to key, or one of the holder that frees the lock, attends to  *)
(* the holder whatever was in the queue.                                   *)
LEMMA AppendAttended ==
  ASSUME NEW s \in Seq(Commands), NEW prep, NEW on, NEW h, NEW cmd \in Commands,
         NoStop(s), cmd.call # "stop", cmd.on \/ cmd.by = h
  PROVE  NoStop(Append(s, cmd)) /\ Attended(Append(s, cmd), prep, on, h)
<1> DEFINE t == Append(s, cmd)
<1>1. /\ t \in Seq(Commands) /\ Len(s) \in Nat /\ Len(t) = Len(s) + 1
      /\ t[Len(s) + 1] = cmd /\ \A i \in 1..Len(s) : t[i] = s[i]
  BY AppendFacts
<1>2. t # <<>>
  BY <1>1, EmptySeq, LenProperties
<1>3. cmd.on \in BOOLEAN
  BY CommandFacts
<1> HIDE DEF t
<1>4. NoStop(t)
  BY <1>1 DEF NoStop
<1>5. ASSUME cmd.on PROVE EndsOn(t, on)
  <2>1. t[Len(t)] = cmd
    BY <1>1
  <2> QED  BY <1>2, <1>5, <2>1, Zenon DEF EndsOn
<1>6. ASSUME ~cmd.on PROVE FreedLater(t, h)
  <2>1. Len(s) + 1 \in 1..Len(t)
    BY <1>1
  <2> QED  BY <1>1, <1>6, <2>1, Zenon DEF FreedLater
<1>7. Attended(t, prep, on, h)
  BY <1>5, <1>6, Zenon DEF Attended
<1> QED  BY <1>4, <1>7 DEF t

(* What the oldest command leaves behind: an answered command to key has   *)
(* keyed, and an answered command to unkey was not the holder's.           *)
LEMMA TailAttended ==
  ASSUME NEW s \in Seq(Commands), s # <<>>, NEW prep, NEW was, NEW on, NEW h,
         NoStop(s), Attended(s, prep, was, h),
         Head(s).on => on,
         ~Head(s).on => Head(s).by # h
  PROVE  Attended(Tail(s), prep, on, h)
<1> DEFINE t == Tail(s)
<1>1. /\ t \in Seq(Commands) /\ Len(s) \in Nat \ {0} /\ Len(t) = Len(s) - 1 /\ Head(s) = s[1]
      /\ \A i \in 1..Len(t) : t[i] = s[i + 1]
  BY TailFacts
<1>2. (t = <<>>) <=> (Len(t) = 0)
  BY <1>1, EmptySeq, LenProperties
<1> HIDE DEF t
<1>3. ASSUME h # Nobody, EndsOn(s, was) PROVE EndsOn(t, on) \/ FreedLater(t, h)
  <2>1. s[Len(s)].on
    BY <1>3 DEF EndsOn
  <2>2. CASE Len(t) = 0
    <3>1. t = <<>>
      BY <1>2, <2>2, Zenon
    <3>2. Len(s) = 1
      BY <1>1, <2>2
    <3>3. s[Len(s)] = Head(s)
      BY <1>1, <3>2
    <3> QED  BY <2>1, <3>1, <3>3, Zenon DEF EndsOn
  <2>3. CASE Len(t) # 0
    <3>1. Len(t) \in 1..Len(t) /\ Len(t) + 1 = Len(s)
      BY <1>1, <2>3
    <3> QED  BY <1>1, <1>2, <2>1, <2>3, <3>1 DEF EndsOn
  <2> QED  BY <2>2, <2>3
<1>4. ASSUME FreedLater(s, h) PROVE FreedLater(t, h)
  <2>1. PICK i \in 1..Len(s) : s[i].by = h /\ ~s[i].on
    BY <1>4 DEF FreedLater
  <2>2. i # 1
    BY <1>1, <2>1
  <2>3. i - 1 \in 1..Len(t) /\ (i - 1) + 1 = i
    BY <1>1, <2>2
  <2>4. t[i - 1] = s[i]
    BY <1>1, <2>3
  <2> QED  BY <2>1, <2>3, <2>4 DEF FreedLater
<1>5. Attended(t, prep, on, h)
  BY <1>3, <1>4 DEF Attended
<1> QED  BY <1>5 DEF t

LEMMA TailNoStop ==
  ASSUME NEW s \in Seq(Commands), s # <<>>, NoStop(s)
  PROVE  NoStop(Tail(s)) /\ Head(s).call # "stop"
<1>1. /\ Len(s) \in Nat \ {0} /\ Len(Tail(s)) = Len(s) - 1 /\ Head(s) = s[1]
      /\ \A i \in 1..Len(Tail(s)) : Tail(s)[i] = s[i + 1]
  BY TailFacts
<1> QED  BY <1>1 DEF NoStop

LEMMA StartAttends ==
  ASSUME NEW c \in Clients, NEW s \in Seq(Commands), preparing \in Seq(Clients),
         NoStop(s), StartTransmit(c, s)
  PROVE  NoStop(commands') /\ Attended(commands', preparing', (rig /\ out)', holder')
<1>1. holder' = c
  BY DEF StartTransmit
<1>2. /\ Key(c) \in Commands /\ Key(c).on /\ Key(c).call = "start"
      /\ Unkey(c, "rollback") \in Commands /\ Unkey(c, "rollback").by = c
      /\ Unkey(c, "rollback").call = "rollback"
  BY KeyType, UnkeyType DEF Key, Unkey
<1>3. CASE commands' = Append(s, Key(c))
  BY <1>2, <1>3, AppendAttended
<1>4. CASE commands' = Append(s, Unkey(c, "rollback"))
  BY <1>1, <1>2, <1>4, AppendAttended
<1>5. CASE preparing' = Append(preparing, c) /\ commands' = s
  <2>1. /\ Len(preparing) \in Nat /\ Len(preparing') = Len(preparing) + 1
        /\ preparing'[Len(preparing) + 1] = c
    BY <1>5, AppendProperties, LenProperties
  <2>2. Contains(preparing', c)
    BY <2>1 DEF Contains
  <2> QED  BY <1>1, <1>5, <2>2 DEF Attended
<1> QED  BY <1>3, <1>4, <1>5 DEF StartTransmit

LEMMA HeardInit == Init => HInv
<1> SUFFICES ASSUME Init PROVE HInv
  OBVIOUS
<1>1. commands = <<>> /\ holder = Nobody
  BY DEF Init
<1>2. Len(commands) = 0
  BY <1>1
<1>3. NoStop(commands)
  BY <1>2 DEF NoStop
<1> QED  BY <1>1, <1>3, TypeInit DEF HInv, Attended

LEMMA HeardStep ==
  TypeOK /\ HInv /\ Undisturbed /\ [Next]_vars =>
    NoStop(commands') /\ Attended(commands', preparing', (rig /\ out)', holder')
<1> SUFFICES ASSUME TypeOK, HInv, Undisturbed, [Next]_vars
             PROVE  NoStop(commands') /\ Attended(commands', preparing', (rig /\ out)', holder')
  OBVIOUS
<1> DEFINE Goal == NoStop(commands') /\ Attended(commands', preparing', (rig /\ out)', holder')
<1>0. /\ commands \in Seq(Commands) /\ holder \in Clients \cup {Nobody}
      /\ preparing \in Seq(Clients)
      /\ NoStop(commands) /\ Attended(commands, preparing, rig /\ out, holder)
      /\ "engineStop" \notin env /\ "refuse" \notin env
  BY DEF HInv, TypeOK, Undisturbed
<1>s. ASSUME UNCHANGED <<commands, preparing, rig, out, holder>> PROVE Goal
  <2>1. (rig /\ out)' <=> (rig /\ out)
    BY <1>s
  <2> QED  BY <1>0, <1>s, <2>1 DEF Attended, EndsOn
<1>1. ASSUME NEW c \in Clients, Press(c) PROVE Goal
  <2>1. CASE StartTransmit(c, commands)
    BY <1>0, <2>1, StartAttends
  <2>2. CASE UNCHANGED <<holder, out, commands, preparing>>
    BY <1>1, <1>s, <2>2 DEF Press
  <2> QED  BY <1>1, <2>1, <2>2 DEF Press
<1>2. ASSUME NEW c \in Clients, PressOverKeyer(c) PROVE Goal
  <2>1. /\ UNCHANGED <<holder, preparing>> /\ holder \in Clients
        /\ commands' = Append(commands, Interrupt(holder, c))
    BY <1>2 DEF PressOverKeyer
  <2>2. /\ Interrupt(holder, c) \in Commands /\ Interrupt(holder, c).by = holder
        /\ Interrupt(holder, c).call = "preempt"
    BY <2>1, InterruptType DEF Interrupt
  <2> QED  BY <1>0, <2>1, <2>2, AppendAttended
<1>3. ASSUME NEW c \in Clients, Release(c) PROVE Goal
  <2>1. UNCHANGED <<holder, preparing, rig, out>> /\ StopTransmit(c)
    BY <1>3 DEF Release
  <2>2. CASE holder = c
    <3>1. /\ Unkey(c, "release") \in Commands /\ Unkey(c, "release").by = holder
          /\ Unkey(c, "release").call = "release"
      BY <2>2, UnkeyType DEF Unkey
    <3>2. commands' = Append(commands, Unkey(c, "release"))
      BY <2>1, <2>2 DEF StopTransmit
    <3> QED  BY <1>0, <2>1, <3>1, <3>2, AppendAttended
  <2>3. CASE holder # c
    BY <1>s, <2>1, <2>3 DEF StopTransmit
  <2> QED  BY <2>2, <2>3
<1>4. ASSUME LockTimeout PROVE Goal
  <2>1. holder' = Nobody /\ commands' = commands
    BY <1>4 DEF LockTimeout
  <2> QED  BY <1>0, <2>1 DEF Attended
<1>5. ASSUME EngineStop PROVE Goal
  BY <1>0, <1>5 DEF EngineStop
<1>6. ASSUME EngineStart PROVE Goal
  BY <1>s, <1>6 DEF EngineStart
<1>7. ASSUME ToneStopped PROVE Goal
  <2>1. /\ commands' = Append(commands, Key(Head(preparing))) /\ preparing # <<>>
        /\ Head(preparing) \in Clients
    BY <1>0, <1>7, HeadTailProperties DEF ToneStopped
  <2>2. /\ Key(Head(preparing)) \in Commands /\ Key(Head(preparing)).on
        /\ Key(Head(preparing)).call = "start"
    BY <2>1, KeyType DEF Key
  <2> QED  BY <1>0, <2>1, <2>2, AppendAttended
<1>8. ASSUME Answer PROVE Goal
  <2> DEFINE cmd == Head(commands)
             rest == Tail(commands)
  <2>0. cmd \in Commands /\ rest \in Seq(Commands) /\ commands # <<>> /\ Obey(cmd)
    BY <1>0, <1>8, HeadType DEF Answer
  <2>1. NoStop(rest) /\ cmd.call # "stop"
    BY <1>0, <2>0, TailNoStop
  <2>2. (rig' <=> cmd.on) /\ (cmd.on <=> cmd.call = "start")
    <3>1. rig' = cmd.on
      BY <1>0, <2>0 DEF Obey
    <3> QED  BY <2>0, <3>1, CommandFacts
  <2>3. ASSUME holder' = holder, UNCHANGED preparing, commands' = rest,
               cmd.on => (rig /\ out)', ~cmd.on => cmd.by # holder
        PROVE  Goal
    <3>1. Attended(rest, preparing, (rig /\ out)', holder)
      BY <1>0, <2>0, <2>3, TailAttended
    <3> QED  BY <2>1, <2>3, <3>1
  <2>4. ASSUME ~cmd.on, holder' = Freed(cmd.by), UNCHANGED preparing, commands' = rest
        PROVE  Goal
    <3>1. CASE holder = cmd.by
      BY <2>1, <2>4, <3>1 DEF Freed, Attended
    <3>2. CASE holder # cmd.by
      BY <2>3, <2>4, <3>2 DEF Freed
    <3> QED  BY <3>1, <3>2
  <2> HIDE DEF cmd, rest, Goal
  <2>5. ASSUME Started(cmd) PROVE Goal
    BY <2>2, <2>3, <2>5 DEF Started, rest
  <2>6. ASSUME RolledBack(cmd) PROVE Goal
    BY <2>2, <2>4, <2>6 DEF RolledBack, rest
  <2>7. ASSUME Released(cmd) PROVE Goal
    BY <2>2, <2>4, <2>7 DEF Released, rest
  <2>8. ASSUME Preempted(cmd) PROVE Goal
    <3>1. CASE StartTransmit(cmd.next, rest)
      <4>1. cmd.next \in Clients
        BY <2>0, <2>8, CommandFacts DEF Preempted
      <4> QED  BY <1>0, <2>0, <2>1, <3>1, <4>1, StartAttends DEF Goal
    <3>2. CASE holder' = Freed(cmd.by) /\ commands' = rest /\ UNCHANGED preparing
      BY <2>2, <2>4, <2>8, <3>2 DEF Preempted
    <3> QED  BY <2>8, <3>1, <3>2 DEF Preempted, rest
  <2>9. ~Stopped(cmd)
    BY <2>1 DEF Stopped
  <2> QED  BY <1>8, <2>5, <2>6, <2>7, <2>8, <2>9 DEF Answer, cmd
<1>9. ASSUME UNCHANGED vars PROVE Goal
  BY <1>s, <1>9 DEF vars
<1> HIDE DEF Goal
<1>10. Goal
  BY <1>1, <1>2, <1>3, <1>4, <1>5, <1>6, <1>7, <1>8, <1>9 DEF Next, Step
<1> QED  BY <1>10 DEF Goal

LEMMA HeardImplies == HInv => HeldMeansKeyed
<1> SUFFICES ASSUME HInv, Undisturbed, Quiet, holder # Nobody PROVE rig /\ out
  BY DEF HeldMeansKeyed, Undisturbed
<1>1. commands = <<>> /\ preparing = <<>>
  BY DEF Quiet
<1>2. Len(commands) = 0 /\ Len(preparing) = 0
  BY <1>1
<1>3. ~FreedLater(commands, holder) /\ ~Contains(preparing, holder)
  BY <1>2 DEF FreedLater, Contains
<1>4. EndsOn(commands, rig /\ out)
  BY <1>3 DEF HInv, Attended
<1> QED  BY <1>1, <1>4 DEF EndsOn

-----------------------------------------------------------------------------
(* Every variable keeps its type.                                          *)
THEOREM TypeCorrect == Spec => []TypeOK
  BY TypeInit, TypeStep, PTL DEF Spec

LEMMA OrderlyInvariance == Spec => []OInv
<1>1. OInv /\ [Next]_vars => OInv'
  <2> SUFFICES ASSUME OInv, [Next]_vars PROVE OInv'
    OBVIOUS
  <2>1. TypeOK'
    BY TypeStep DEF OInv
  <2>2. env' = env
    BY DEF Next, vars
  <2>3. CASE Orderly
    BY <2>1, <2>3, OrderlyStep DEF OInv
  <2>4. CASE ~Orderly
    BY <2>1, <2>2, <2>4 DEF OInv, Orderly
  <2> QED  BY <2>3, <2>4
<1> QED  BY <1>1, OrderlyInit, PTL DEF Spec

LEMMA OrderlyImplies == OInv => KeyedMeansHeld /\ ClaimsTruth
  BY DEF OInv, InOrder, KeyedMeansHeld, ClaimsTruth, FlagsNow

(* In an orderly station the transmitter is keyed only for the holder of   *)
(* the lock, who can unkey it.                                             *)
THEOREM NeverOrphaned == Spec => []KeyedMeansHeld
  BY OrderlyInvariance, OrderlyImplies, PTL

(* In an orderly station the engine flags name the source on the air.      *)
THEOREM FlagsTruthful == Spec => []ClaimsTruth
  BY OrderlyInvariance, OrderlyImplies, PTL

(* In any surroundings, a release never cuts off another client.           *)
THEOREM NobodyCutOff == Spec => NoCutOff
  BY CoveredInit, CoveredStep, CoveredCutsNobody, PTL DEF Spec, NoCutOff

(* Unless the engine stops or the radio refuses, a holder of the lock with *)
(* nothing in flight is on the air and heard.                              *)
THEOREM HolderHeard == Spec => []HeldMeansKeyed
<1>1. HInv /\ [Next]_vars => HInv'
  <2> SUFFICES ASSUME HInv, [Next]_vars PROVE HInv'
    OBVIOUS
  <2>1. TypeOK /\ TypeOK'
    BY TypeStep DEF HInv
  <2>2. env' = env
    BY DEF Next, vars
  <2>3. CASE Undisturbed
    BY <2>1, <2>3, HeardStep DEF HInv
  <2>4. CASE ~Undisturbed
    BY <2>1, <2>2, <2>4 DEF HInv, Undisturbed
  <2> QED  BY <2>3, <2>4
<1> QED  BY <1>1, HeardInit, HeardImplies, PTL DEF Spec
=============================================================================
