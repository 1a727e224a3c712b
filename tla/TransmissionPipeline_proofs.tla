--------------------- MODULE TransmissionPipeline_proofs ---------------------
(***************************************************************************)
(* Proofs of the safety properties of TransmissionPipeline for any set of  *)
(* handlers and operators, any bounds, with or without ICOM release and    *)
(* overlapping events.  IInv is inductive; Step lists what has to be shown *)
(* once per action.                                                        *)
(***************************************************************************)
EXTENDS TransmissionPipeline, SequenceTheorems, TLAPS

Command == [on : BOOLEAN, by : Handler \cup {Nobody}]

(* A PTT-off command that a handler awaits: the handler is still waiting,  *)
(* and for one command only.  It keeps CommandDone from resuming a handler *)
(* that went on to something else.                                         *)
OffBy(q, i, h) == i \in DOMAIN q /\ ~q[i].on /\ q[i].by = h
AwaitedIn(q, p) ==
  \A h \in Handler : \A i \in DOMAIN q :
    OffBy(q, i, h) => p[h] = "unkeying" /\ \A j \in DOMAIN q : OffBy(q, j, h) => i = j
OffAwaited == AwaitedIn(commands, pc)

FaultFree == faults = 0 => connected /\ rig = pttActive

IInv ==
  /\ TypeOK
  /\ FaultFree
  /\ RemixFlagOwned
  /\ NoDeadPlayback
  /\ OffAwaited

-----------------------------------------------------------------------------
(* Facts about the queue of commands. *)

(* Handlers that start to wait for nothing leave the queue sound. *)
LEMMA AwaitedFrame ==
  ASSUME NEW q, NEW p, NEW p2, AwaitedIn(q, p),
         \A h \in Handler : p[h] = "unkeying" => p2[h] = "unkeying"
  PROVE  AwaitedIn(q, p2)
  BY DEF AwaitedIn, OffBy

(* A command that no handler awaits can be appended. *)
LEMMA AwaitedAppend ==
  ASSUME NEW q \in Seq(Command), NEW p, AwaitedIn(q, p),
         NEW c \in Command, c.on \/ c.by = Nobody
  PROVE  AwaitedIn(Append(q, c), p)
  <1>1. \A i \in DOMAIN Append(q, c) : \A h \in Handler :
          OffBy(Append(q, c), i, h) => OffBy(q, i, h)
    BY HandlerAssumption DEF OffBy, Command
  <1>2. QED BY <1>1 DEF AwaitedIn, OffBy

(* A handler that is not waiting can append its own. *)
LEMMA AwaitedAppendOff ==
  ASSUME NEW q \in Seq(Command), NEW p \in [Handler -> Pc], AwaitedIn(q, p),
         NEW h \in Handler, p[h] # "unkeying"
  PROVE  AwaitedIn(Append(q, [on |-> FALSE, by |-> h]), [p EXCEPT ![h] = "unkeying"])
  <1> DEFINE r == Append(q, [on |-> FALSE, by |-> h])
             p2 == [p EXCEPT ![h] = "unkeying"]
  <1>1. \A i \in DOMAIN q : ~OffBy(q, i, h)
    BY DEF AwaitedIn
  <1>2. \A i \in DOMAIN r : \A g \in Handler :
          OffBy(r, i, g) => OffBy(q, i, g) \/ (g = h /\ i = Len(q) + 1)
    BY DEF OffBy, Command
  <1>3. ASSUME NEW g \in Handler, NEW i \in DOMAIN r, OffBy(r, i, g)
        PROVE  p2[g] = "unkeying" /\ \A j \in DOMAIN r : OffBy(r, j, g) => i = j
    <2>1. CASE g = h
      BY <1>1, <1>2, <1>3, <2>1 DEF OffBy
    <2>2. CASE g # h
      <3>1. OffBy(q, i, g)
        BY <1>2, <1>3, <2>2
      <3>2. p[g] = "unkeying" /\ \A j \in DOMAIN q : OffBy(q, j, g) => i = j
        BY <3>1 DEF AwaitedIn, OffBy
      <3>3. \A j \in DOMAIN r : OffBy(r, j, g) => OffBy(q, j, g)
        BY <1>2, <2>2
      <3>4. QED BY <2>2, <3>2, <3>3 DEF OffBy
    <2>3. QED BY <2>1, <2>2
  <1>4. QED BY <1>3 DEF AwaitedIn

(* Forgetting a handler keeps the queue a queue, and sound. *)
LEMMA ForgetType ==
  ASSUME NEW q \in Seq(Command), NEW h
  PROVE  Forget(q, h) \in Seq(Command)
  <1>1. DOMAIN q = 1..Len(q) /\ Len(q) \in Nat /\ \A i \in 1..Len(q) : q[i] \in Command
    BY LenProperties, ElementOfSeq
  <1>2. \A i \in 1..Len(q) : Forget(q, h)[i] \in Command
    BY <1>1 DEF Forget, Command
  <1>3. Forget(q, h) = [i \in 1..Len(q) |-> Forget(q, h)[i]]
    BY <1>1 DEF Forget
  <1>4. Forget(q, h) \in [1..Len(q) -> Command]
    BY <1>2, <1>3
  <1>5. QED BY <1>1, <1>4, SeqDef

LEMMA AwaitedForget ==
  ASSUME NEW q \in Seq(Command), NEW p, AwaitedIn(q, p), NEW h
  PROVE  AwaitedIn(Forget(q, h), p)
  <1>1. DOMAIN Forget(q, h) = DOMAIN q
    BY DEF Forget
  <1>2. \A i \in DOMAIN q : \A g \in Handler : OffBy(Forget(q, h), i, g) => OffBy(q, i, g)
    BY HandlerAssumption, <1>1 DEF OffBy, Forget, Command
  <1>3. QED BY <1>1, <1>2 DEF AwaitedIn

(* Taking the oldest command resumes the handler that awaits it. *)
LEMMA AwaitedTail ==
  ASSUME NEW q \in Seq(Command), q # <<>>, NEW p \in [Handler -> Pc], AwaitedIn(q, p)
  PROVE  AwaitedIn(Tail(q), [h \in Handler |->
           IF Head(q).by = h /\ ~Head(q).on THEN "unkeyed" ELSE p[h]])
  <1> DEFINE p2 == [h \in Handler |-> IF Head(q).by = h /\ ~Head(q).on THEN "unkeyed" ELSE p[h]]
  <1>1. /\ DOMAIN Tail(q) = 1..(Len(q) - 1)
        /\ DOMAIN q = 1..Len(q)
        /\ \A i \in 1..(Len(q) - 1) : Tail(q)[i] = q[i + 1]
        /\ Head(q) = q[1]
        /\ Len(q) \in Nat /\ Len(q) >= 1
    BY HeadTailProperties, EmptySeq
  <1>2. ASSUME NEW g \in Handler, NEW i \in DOMAIN Tail(q), OffBy(Tail(q), i, g)
        PROVE  p2[g] = "unkeying" /\ \A j \in DOMAIN Tail(q) : OffBy(Tail(q), j, g) => i = j
    <2>1. i \in Nat /\ i + 1 \in DOMAIN q /\ OffBy(q, i + 1, g)
      BY <1>1, <1>2 DEF OffBy
    <2>2. p[g] = "unkeying" /\ \A j \in DOMAIN q : OffBy(q, j, g) => i + 1 = j
      BY <2>1 DEF AwaitedIn
    <2>3. 1 \in DOMAIN q /\ ~OffBy(q, 1, g)
      BY <1>1, <2>1, <2>2
    <2>4. p2[g] = "unkeying"
      BY <1>1, <2>2, <2>3 DEF OffBy
    <2>5. ASSUME NEW j \in DOMAIN Tail(q), OffBy(Tail(q), j, g)
          PROVE  i = j
      <3>1. j \in Nat /\ j + 1 \in DOMAIN q /\ OffBy(q, j + 1, g)
        BY <1>1, <2>5 DEF OffBy
      <3>2. i + 1 = j + 1
        BY <3>1, <2>2
      <3>3. QED BY <3>1, <3>2, <2>1
    <2>6. QED BY <2>4, <2>5
  <1>3. QED BY <1>2 DEF AwaitedIn

(* What stopPTT does to a sound queue, for a handler that is not waiting.  *)
LEMMA StopPTTSound ==
  ASSUME TypeOK, NEW q \in Seq(Command), AwaitedIn(q, pc),
         NEW h \in Handler, pc[h] # "unkeying", NEW other \in Pc, StopPTT(q, h),
         pc' = [pc EXCEPT ![h] = IF MustUnkey THEN "unkeying" ELSE other]
  PROVE  commands' \in Seq(Command) /\ pttActive' \in BOOLEAN /\ OffAwaited'
  <1>0. MustUnkey \in BOOLEAN /\ pttActive' = MustUnkey
    BY Zenon DEF MustUnkey, StopPTT
  <1>1. CASE MustUnkey
    <2>1. commands' = Append(q, [on |-> FALSE, by |-> h])
          /\ pc' = [pc EXCEPT ![h] = "unkeying"]
      BY <1>1 DEF StopPTT
    <2>2. commands' \in Seq(Command)
      BY <2>1 DEF Command
    <2>3. AwaitedIn(Append(q, [on |-> FALSE, by |-> h]), [pc EXCEPT ![h] = "unkeying"])
      BY AwaitedAppendOff DEF TypeOK
    <2>4. OffAwaited'
      BY <2>1, <2>3 DEF OffAwaited
    <2>5. QED BY <1>0, <2>2, <2>4
  <1>2. CASE ~MustUnkey
    <2>1. commands' = q /\ pc' = [pc EXCEPT ![h] = other]
      BY <1>2 DEF StopPTT
    <2>2. \A g \in Handler : pc[g] = "unkeying" => pc'[g] = "unkeying"
      BY <2>1 DEF TypeOK
    <2>3. QED BY <1>0, <2>1, <2>2, AwaitedFrame DEF OffAwaited
  <1>3. QED BY <1>0, <1>1, <1>2

(* ---- steps *)
(* What the helpers return has the right type. *)
LEMMA StopPTTType ==
  ASSUME NEW q \in Seq(Command), NEW h \in Handler \cup {Nobody}, StopPTT(q, h)
  PROVE  commands' \in Seq(Command) /\ pttActive' \in BOOLEAN
  <1>1. pttActive' \in BOOLEAN
    BY Zenon DEF StopPTT, MustUnkey
  <1>2. [on |-> FALSE, by |-> h] \in Command
    BY DEF Command
  <1>3. commands' \in Seq(Command)
    <2>1. CASE MustUnkey BY <1>2, <2>1 DEF StopPTT
    <2>2. CASE ~MustUnkey BY <2>2 DEF StopPTT
    <2>3. QED BY <2>1, <2>2
  <1>4. QED BY <1>1, <1>3

LEMMA StartPTTType ==
  ASSUME TypeOK, NEW h \in Handler, StartPTT(h)
  PROVE  commands' \in Seq(Command) /\ pttActive' \in BOOLEAN
  <1>1. [on |-> TRUE, by |-> h] \in Command
    BY DEF Command
  <1>2. CASE pttActive \/ ~connected
    <2>1. commands' = commands
      BY <1>2, Zenon DEF StartPTT
    <2>2. pttActive' = pttActive
      BY Zenon DEF StartPTT
    <2>3. QED BY <2>1, <2>2 DEF TypeOK, Command
  <1>3. CASE ~(pttActive \/ ~connected)
    <2>1. commands' = Append(commands, [on |-> TRUE, by |-> h])
      BY <1>3, Zenon DEF StartPTT
    <2>2. pttActive' = pttActive
      BY Zenon DEF StartPTT
    <2>3. QED BY <1>1, <2>1, <2>2 DEF TypeOK, Command
  <1>4. QED BY <1>2, <1>3

LEMMA StopPlaybackType ==
  ASSUME TypeOK, NEW h \in Handler, NEW k \in Kind, StopPlayback(h, k)
  PROVE  /\ pc' \in [Handler -> Pc]
         /\ kind' \in [Handler -> Kind]
         /\ waits' \in [Handler -> Handler \cup {Nobody}]
         /\ current' \in Handler \cup {Nobody}
         /\ stopFlag' \in BOOLEAN
  <1>1. pc' \in [Handler -> Pc]
    BY DEF TypeOK, StopPlayback, Pc
  <1>2. kind' \in [Handler -> Kind]
    BY DEF TypeOK, StopPlayback
  <1>3. waits' \in [Handler -> Handler \cup {Nobody}] /\ current' \in Handler \cup {Nobody}
    BY DEF TypeOK, StopPlayback
  <1>4. stopFlag' \in BOOLEAN
    BY Zenon DEF StopPlayback
  <1>5. QED BY <1>1, <1>2, <1>3, <1>4

LEMMA PlayType ==
  ASSUME TypeOK, NEW h \in Handler, Play(h)
  PROVE  pc' \in [Handler -> Pc] /\ current' \in Handler \cup {Nobody} /\ stopFlag' \in BOOLEAN
  BY DEF TypeOK, Play, Pc

LEMMA PollType ==
  ASSUME TypeOK, StartPoll \/ StopPoll \/ UNCHANGED poll
  PROVE  polls' \in 0..1 /\ silent' \in BOOLEAN
  <1>1. polls' \in 0..1
    BY DEF TypeOK, StartPoll, StopPoll, poll
  <1>2. silent' \in BOOLEAN
    <2>1. CASE StartPoll BY <2>1, Zenon DEF StartPoll
    <2>2. CASE StopPoll BY <2>2 DEF StopPoll
    <2>3. CASE UNCHANGED poll BY <2>3 DEF TypeOK, poll
    <2>4. QED BY <2>1, <2>2, <2>3
  <1>3. QED BY <1>1, <1>2

LEMMA EndPlaybackType ==
  ASSUME TypeOK, NEW h \in Handler, NEW end \in Pc, EndPlayback(h, end)
  PROVE  /\ pc' \in [Handler -> Pc]
         /\ waits' \in [Handler -> Handler \cup {Nobody}]
         /\ current' \in Handler \cup {Nobody}
         /\ stopFlag' \in BOOLEAN
  <1>1. pc' \in [Handler -> Pc]
    BY DEF TypeOK, EndPlayback, Pc
  <1>2. waits' \in [Handler -> Handler \cup {Nobody}] /\ current' \in Handler \cup {Nobody}
    BY DEF TypeOK, EndPlayback
  <1>3. stopFlag' \in BOOLEAN
    BY Zenon DEF EndPlayback
  <1>4. QED BY <1>1, <1>2, <1>3

LEMMA PcType ==
  ASSUME TypeOK, NEW h \in Handler, NEW p \in Pc, pc' = [pc EXCEPT ![h] = p]
  PROVE  pc' \in [Handler -> Pc]
  BY DEF TypeOK

(* Every step keeps the types. *)
LEMMA TypeStep ==
  ASSUME TypeOK, [Next]_vars
  PROVE  TypeOK'
  <1>env. env' \in SUBSET Surroundings
    BY DEF TypeOK, Next, vars
  <1>0. CASE UNCHANGED vars
    BY <1>0 DEF TypeOK, vars
  <1>1. ASSUME NEW h \in Handler, NEW op \in Operators, NEW switched \in BOOLEAN, EncodeRemix(h, op, switched)
        PROVE  TypeOK'
    <2>1. "remix" \in Kind BY DEF Kind
    <2>2. timer' \in BOOLEAN BY <1>1, Zenon DEF EncodeRemix
    <2>3. cached' \subseteq Operators BY <1>1 DEF EncodeRemix, AddAudio, TypeOK
    <2>4. QED BY <1>env, <1>1, <2>1, <2>2, <2>3, StopPlaybackType DEF TypeOK, EncodeRemix, radio, poll
  <1>2. ASSUME NEW h \in Handler, NEW op \in Operators, NEW switched \in BOOLEAN, EncodeMidSlot(h, op, switched)
        PROVE  TypeOK'
    <2>1. timer' \in BOOLEAN BY <1>2, Zenon DEF EncodeMidSlot
    <2>2. cached' \subseteq Operators BY <1>2 DEF EncodeMidSlot, AddAudio, TypeOK
    <2>3. QED BY <1>env, <1>2, <2>1, <2>2 DEF TypeOK, EncodeMidSlot, playback, radio, poll, Pc, Kind
  <1>3. ASSUME NEW op \in Operators, NEW switched \in BOOLEAN, EncodeSchedule(op, switched)
        PROVE  TypeOK'
    BY <1>env, <1>3 DEF TypeOK, EncodeSchedule, playback, mixer, radio, poll, Pc, Kind, AddAudio, Playing
  <1>4. ASSUME NEW h \in Handler, NEW op \in Operators, RemoveOperator(h, op)
        PROVE  TypeOK'
    <2>1. cached' \subseteq Operators BY <1>4 DEF RemoveOperator, TypeOK
    <2>2. "stop" \in Kind /\ "removal" \in Kind BY DEF Kind
    <2>3. remixing' \in BOOLEAN BY <1>4 DEF RemoveOperator, TypeOK
    <2>4. CASE StopPlayback(h, "stop") \/ StopPlayback(h, "removal")
      BY <1>env, <1>4, <2>1, <2>2, <2>3, <2>4, StopPlaybackType DEF TypeOK, RemoveOperator, radio, poll
    <2>5. CASE UNCHANGED <<pc, kind, waits, playback, remixing>>
      BY <1>env, <1>4, <2>1, <2>5 DEF TypeOK, RemoveOperator, playback, radio, poll
    <2>6. QED BY <1>4, <2>4, <2>5 DEF RemoveOperator
  <1>5. ASSUME NEW h \in Handler, MixTimer(h)
        PROVE  TypeOK'
    BY <1>env, <1>5 DEF TypeOK, MixTimer, playback, mixer, radio, poll, Pc, Kind, Event
  <1>6. ASSUME NEW h \in Handler, ForceStop(h)
        PROVE  TypeOK'
    <2>1. "stop" \in Kind BY DEF Kind
    <2>2. QED BY <1>env, <1>6, <2>1, StopPlaybackType DEF TypeOK, ForceStop, mixer, radio, poll
  <1>7. ASSUME NEW h \in Handler, StartTransmission(h)
        PROVE  TypeOK'
    <2>1. faults' \in 0..MaxFaults BY <1>7, ModeAssumption DEF May, StartTransmission, TypeOK
    <2>2. /\ pc' \in [Handler -> Pc]
          /\ current' \in Handler \cup {Nobody}
          /\ stopFlag' \in BOOLEAN
      BY <1>7, PlayType DEF StartTransmission, TypeOK, playback, Pc
    <2>3. QED BY <1>env, <1>7, <2>1, <2>2, StartPTTType, PollType DEF TypeOK, StartTransmission, mixer, Command
  <1>8. ASSUME NEW h \in Handler, PlaybackEnds(h)
        PROVE  TypeOK'
    <2>1. faults' \in 0..MaxFaults BY <1>8, ModeAssumption DEF May, PlaybackEnds, TypeOK
    <2>2. "interrupted" \in Pc /\ "finished" \in Pc /\ "failed" \in Pc BY DEF Pc
    <2>3. QED BY <1>env, <1>8, <2>1, <2>2, EndPlaybackType DEF TypeOK, PlaybackEnds, mixer, poll
  <1>9. ASSUME NEW h \in Handler, TxFinished(h)
        PROVE  TypeOK'
    <2>1. pc' \in [Handler -> Pc] BY <1>9 DEF TxFinished, Idle, TypeOK, Pc
    <2>2. commands' \in Seq(Command) /\ pttActive' \in BOOLEAN
      BY <1>9, StopPTTType DEF TxFinished, TypeOK, Command
    <2>3. polls' \in 0..1 /\ silent' \in BOOLEAN
      BY <1>9, PollType DEF TxFinished, poll
    <2>4. QED BY <1>env, <1>9, <2>1, <2>2, <2>3 DEF TypeOK, TxFinished, playback, mixer, radio, Command
  <1>10. ASSUME NEW h \in Handler, TxInterrupted(h)
        PROVE  TypeOK'
    <2>1. pc' \in [Handler -> Pc] BY <1>10 DEF TxInterrupted, Idle, TypeOK, Pc
    <2>2. commands' \in Seq(Command)
      BY <1>10, ForgetType DEF TxInterrupted, InterruptedPTT, TypeOK, Command
    <2>3. QED BY <1>env, <1>10, <2>1, <2>2, PollType
      DEF TypeOK, TxInterrupted, InterruptedPTT, playback, mixer, radio, Command
  <1>11. ASSUME NEW h \in Handler, TxFailed(h)
        PROVE  TypeOK'
    <2>1. pc' \in [Handler -> Pc] BY <1>11 DEF TxFailed, TypeOK, Pc
    <2>2. Forget(commands, h) \in Seq(Command)
      BY ForgetType DEF TypeOK, Command
    <2>3. QED BY <1>env, <1>11, <2>1, <2>2, StopPTTType, PollType
      DEF TypeOK, TxFailed, playback, mixer, radio, Command
  <1>12. ASSUME NEW h \in Handler, Remix(h)
        PROVE  TypeOK'
    <2>1. /\ pc' \in [Handler -> Pc]
          /\ current' \in Handler \cup {Nobody}
          /\ stopFlag' \in BOOLEAN
      BY <1>12, PlayType DEF Remix, Idle, TypeOK, playback, Pc
    <2>2. commands' \in Seq(Command) /\ pttActive' \in BOOLEAN
      BY <1>12, StopPTTType DEF Remix, TypeOK, Command
    <2>3. remixing' \in BOOLEAN
      BY <1>12 DEF Remix, EndRemix, TypeOK
    <2>4. polls' \in 0..1 /\ silent' \in BOOLEAN
      BY <1>12, PollType DEF Remix, poll
    <2>5. QED BY <1>env, <1>12, <2>1, <2>2, <2>3, <2>4 DEF TypeOK, Remix, mixer, radio, Command
  <1>13. ASSUME NEW h \in Handler, RemixEnds(h)
        PROVE  TypeOK'
    <2>1. pc' \in [Handler -> Pc] BY <1>13 DEF RemixEnds, Idle, TypeOK, Pc
    <2>2. polls' \in 0..1 /\ silent' \in BOOLEAN
      BY <1>13, PollType DEF RemixEnds
    <2>3. QED BY <1>env, <1>13, <2>1, <2>2 DEF TypeOK, RemixEnds, EndRemix, playback, mixer, radio
  <1>14. ASSUME NEW h \in Handler, StopUnkeys(h)
        PROVE  TypeOK'
    <2>1. pc' \in [Handler -> Pc] BY <1>14 DEF StopUnkeys, ForceStopPTT, TypeOK, Pc
    <2>2. QED BY <1>env, <1>14, <2>1, StopPTTType, PollType
      DEF TypeOK, StopUnkeys, ForceStopPTT, playback, mixer, radio, Command
  <1>15. ASSUME NEW h \in Handler, OnSlotStart(h)
        PROVE  TypeOK'
    <2>1. "slot" \in Kind BY DEF Kind
    <2>2. QED BY <1>env, <1>15, <2>1, StopPlaybackType DEF TypeOK, OnSlotStart, mixer, radio, poll
  <1>16. ASSUME NEW h \in Handler, Clear(h)
        PROVE  TypeOK'
    BY <1>env, <1>16 DEF TypeOK, Clear, playback, mixer, radio, poll, Pc, Kind, Idle
  <1>17. ASSUME NEW h \in Handler, Unkeyed(h)
        PROVE  TypeOK'
    BY <1>env, <1>17 DEF TypeOK, Unkeyed, playback, mixer, radio, poll, Pc, Kind, EndRemix, Idle
  <1>18. CASE CommandDone
    <2>0. commands \in Seq(Command) /\ commands # <<>>
      BY <1>18 DEF CommandDone, TypeOK, Command
    <2>5. Head(commands) \in Command /\ Tail(commands) \in Seq(Command)
      BY <2>0, HeadTailProperties
    <2>6. Head(commands).on \in BOOLEAN
      BY <2>5 DEF Command
    <2>1. commands' \in Seq(Command) /\ pttActive' \in BOOLEAN
      BY <1>18, <2>5, <2>6 DEF CommandDone
    <2>2. pc' \in [Handler -> Pc] BY <1>18 DEF CommandDone, TypeOK, Pc
    <2>3. rig' \in BOOLEAN /\ faults' \in 0..MaxFaults
      <3>1. CASE connected /\ rig' = Head(commands).on /\ UNCHANGED faults
        BY <2>6, <3>1 DEF TypeOK
      <3>2. CASE UNCHANGED <<rig, faults>>
        BY <3>2 DEF TypeOK
      <3>3. CASE May /\ faults' = faults + 1 /\ UNCHANGED rig
        BY <3>3, ModeAssumption DEF TypeOK, May
      <3>4. QED BY <1>18, <3>1, <3>2, <3>3 DEF CommandDone, Execute
    <2>4. QED BY <1>env, <1>18, <2>1, <2>2, <2>3 DEF TypeOK, CommandDone, playback, mixer, poll, Command
  <1>19. CASE SlotStart
    <2>1. pc' \in [Handler -> Pc] BY <1>19, HandlerAssumption DEF SlotStart, SlotPTT, ForceStopPTT, TypeOK, Pc
    <2>2. kind' \in [Handler -> Kind] BY <1>19 DEF SlotStart, TypeOK, Kind
    <2>3. QED BY <1>env, <1>19, <2>1, <2>2, HandlerAssumption, StopPTTType, PollType
      DEF TypeOK, SlotStart, SlotPTT, ForceStopPTT, playback, mixer, radio, Command
  <1>20. CASE PollTick
    <2>1. commands' \in Seq(Command) /\ pttActive' \in BOOLEAN
      BY <1>20, StopPTTType DEF PollTick, PollRelease, TypeOK, Command
    <2>2. polls' \in 0..1 /\ silent' \in BOOLEAN
      <3>1. CASE StopPoll BY <3>1, PollType
      <3>2. CASE silent' \in BOOLEAN /\ UNCHANGED polls BY <3>2 DEF TypeOK
      <3>3. QED BY <1>20, <3>1, <3>2 DEF PollTick, PollRelease
    <2>3. QED BY <1>env, <1>20, <2>1, <2>2 DEF TypeOK, PollTick, playback, mixer, radio, Command
  <1>21. CASE RadioLost
    <2>1. polls' \in 0..1 /\ silent' \in BOOLEAN
      BY <1>21, PollType DEF RadioLost
    <2>2. faults' \in 0..MaxFaults
      BY <1>21, ModeAssumption DEF May, RadioLost, TypeOK
    <2>3. QED BY <1>env, <1>21, <2>1, <2>2 DEF TypeOK, RadioLost, playback, mixer
  <1>22. CASE RadioBack
    BY <1>env, <1>22 DEF TypeOK, RadioBack, playback, mixer, radio, poll, Pc, Kind
  <1>23. QED
    BY <1>0, <1>1, <1>2, <1>3, <1>4, <1>5, <1>6, <1>7, <1>8, <1>9, <1>10, <1>11, <1>12, <1>13, <1>14, <1>15, <1>16, <1>17, <1>18, <1>19, <1>20, <1>21, <1>22
    DEF Next, Step, Client, EncodeComplete, Continue

(* A handler in `unkeying' stays there until its command is done. *)
LEMMA AwaitStep ==
  ASSUME TypeOK, OffAwaited, [Next]_vars
  PROVE  OffAwaited'
  <1>0. CASE UNCHANGED vars
    BY <1>0 DEF OffAwaited, vars
  <1>1. ASSUME NEW h \in Handler, NEW op \in Operators, NEW switched \in BOOLEAN, EncodeRemix(h, op, switched)
        PROVE  OffAwaited'
    <2>1. \A g \in Handler : pc[g] = "unkeying" => pc'[g] = "unkeying"
      BY <1>1 DEF TypeOK, EncodeRemix, Event, AddAudio, StopPlayback, Playing
    <2>2. commands' = commands
      BY <1>1 DEF EncodeRemix, Event, AddAudio, StopPlayback, Playing
    <2>3. QED BY <2>1, <2>2, AwaitedFrame DEF OffAwaited
  <1>2. ASSUME NEW h \in Handler, NEW op \in Operators, NEW switched \in BOOLEAN, EncodeMidSlot(h, op, switched)
        PROVE  OffAwaited'
    <2>1. \A g \in Handler : pc[g] = "unkeying" => pc'[g] = "unkeying"
      BY <1>2 DEF TypeOK, EncodeMidSlot, Event, AddAudio, Playing
    <2>2. commands' = commands
      BY <1>2 DEF EncodeMidSlot, Event, AddAudio, Playing
    <2>3. QED BY <2>1, <2>2, AwaitedFrame DEF OffAwaited
  <1>3. ASSUME NEW op \in Operators, NEW switched \in BOOLEAN, EncodeSchedule(op, switched)
        PROVE  OffAwaited'
    <2>1. \A g \in Handler : pc[g] = "unkeying" => pc'[g] = "unkeying"
      BY <1>3 DEF TypeOK, EncodeSchedule, AddAudio, Playing
    <2>2. commands' = commands
      BY <1>3 DEF EncodeSchedule, AddAudio, Playing
    <2>3. QED BY <2>1, <2>2, AwaitedFrame DEF OffAwaited
  <1>4. ASSUME NEW h \in Handler, NEW op \in Operators, RemoveOperator(h, op)
        PROVE  OffAwaited'
    <2>1. \A g \in Handler : pc[g] = "unkeying" => pc'[g] = "unkeying"
      BY <1>4 DEF TypeOK, RemoveOperator, Event, StopPlayback, Playing
    <2>2. commands' = commands
      BY <1>4 DEF RemoveOperator, Event, StopPlayback, Playing
    <2>3. QED BY <2>1, <2>2, AwaitedFrame DEF OffAwaited
  <1>5. ASSUME NEW h \in Handler, MixTimer(h)
        PROVE  OffAwaited'
    <2>1. \A g \in Handler : pc[g] = "unkeying" => pc'[g] = "unkeying"
      BY <1>5 DEF TypeOK, MixTimer, Event
    <2>2. commands' = commands
      BY <1>5 DEF MixTimer, Event
    <2>3. QED BY <2>1, <2>2, AwaitedFrame DEF OffAwaited
  <1>6. ASSUME NEW h \in Handler, ForceStop(h)
        PROVE  OffAwaited'
    <2>1. \A g \in Handler : pc[g] = "unkeying" => pc'[g] = "unkeying"
      BY <1>6 DEF TypeOK, ForceStop, Event, StopPlayback, Playing
    <2>2. commands' = commands
      BY <1>6 DEF ForceStop, Event, StopPlayback, Playing
    <2>3. QED BY <2>1, <2>2, AwaitedFrame DEF OffAwaited
  <1>7. ASSUME NEW h \in Handler, StartTransmission(h)
        PROVE  OffAwaited'
    <2>1. \A g \in Handler : pc[g] = "unkeying" => pc'[g] = "unkeying"
      BY <1>7 DEF TypeOK, StartTransmission, Play
    <2>2. [on |-> TRUE, by |-> h] \in Command
      BY DEF Command
    <2>3. commands' = commands \/ commands' = Append(commands, [on |-> TRUE, by |-> h])
      BY <1>7, Zenon DEF StartTransmission, StartPTT
    <2>4. AwaitedIn(commands', pc)
      BY <2>2, <2>3, AwaitedAppend DEF OffAwaited, TypeOK, Command
    <2>5. QED BY <2>1, <2>4, AwaitedFrame DEF OffAwaited
  <1>8. ASSUME NEW h \in Handler, PlaybackEnds(h)
        PROVE  OffAwaited'
    <2>1. \A g \in Handler : pc[g] = "unkeying" => pc'[g] = "unkeying"
      BY <1>8 DEF TypeOK, PlaybackEnds, EndPlayback, Waiting
    <2>2. commands' = commands
      BY <1>8 DEF PlaybackEnds, EndPlayback, Waiting
    <2>3. QED BY <2>1, <2>2, AwaitedFrame DEF OffAwaited
  <1>9. ASSUME NEW h \in Handler, TxFinished(h)
        PROVE  OffAwaited'
    <2>1. CASE IcomWlan
      <3>1. "idle" \in Pc BY DEF Pc
      <3>2. QED BY <1>9, <2>1, <3>1, StopPTTSound DEF TxFinished, OffAwaited, TypeOK, Command
    <2>2. CASE ~IcomWlan
      <3>1. \A g \in Handler : pc[g] = "unkeying" => pc'[g] = "unkeying"
        BY <1>9, <2>2 DEF TypeOK, TxFinished, Idle
      <3>2. QED BY <1>9, <2>2, <3>1, AwaitedFrame DEF TxFinished, OffAwaited
    <2>3. QED BY <2>1, <2>2
  <1>10. ASSUME NEW h \in Handler, TxInterrupted(h)
        PROVE  OffAwaited'
    <2>1. \A g \in Handler : pc[g] = "unkeying" => pc'[g] = "unkeying"
      BY <1>10 DEF TypeOK, TxInterrupted, Idle
    <2>2. AwaitedIn(commands', pc)
      BY <1>10, AwaitedForget DEF TxInterrupted, InterruptedPTT, OffAwaited, TypeOK, Command
    <2>3. QED BY <2>1, <2>2, AwaitedFrame DEF OffAwaited
  <1>11. ASSUME NEW h \in Handler, TxFailed(h)
        PROVE  OffAwaited'
    <2>1. Forget(commands, h) \in Seq(Command) /\ AwaitedIn(Forget(commands, h), pc)
      BY ForgetType, AwaitedForget DEF OffAwaited, TypeOK, Command
    <2>2. "idle" \in Pc BY DEF Pc
    <2>3. QED BY <1>11, <2>1, <2>2, StopPTTSound DEF TxFailed
  <1>12. ASSUME NEW h \in Handler, Remix(h)
        PROVE  OffAwaited'
    <2>1. CASE UNCHANGED commands
      <3>1. \A g \in Handler : pc[g] = "unkeying" => pc'[g] = "unkeying"
        BY <1>12 DEF TypeOK, Remix, Play, Idle
      <3>2. QED BY <2>1, <3>1, AwaitedFrame DEF OffAwaited
    <2>2. CASE /\ pc' = [pc EXCEPT ![h] = IF MustUnkey THEN "unkeying" ELSE "unkeyed"]
               /\ StopPTT(commands, h)
      <3>1. "unkeyed" \in Pc BY DEF Pc
      <3>2. QED BY <1>12, <2>2, <3>1, StopPTTSound DEF Remix, OffAwaited, TypeOK, Command
    <2>3. QED BY <1>12, <2>1, <2>2 DEF Remix
  <1>13. ASSUME NEW h \in Handler, RemixEnds(h)
        PROVE  OffAwaited'
    <2>1. \A g \in Handler : pc[g] = "unkeying" => pc'[g] = "unkeying"
      BY <1>13 DEF TypeOK, RemixEnds, StartPoll, EndRemix, Idle
    <2>2. commands' = commands
      BY <1>13 DEF RemixEnds, StartPoll, EndRemix, Idle
    <2>3. QED BY <2>1, <2>2, AwaitedFrame DEF OffAwaited
  <1>14. ASSUME NEW h \in Handler, StopUnkeys(h)
        PROVE  OffAwaited'
    <2>1. "unkeyed" \in Pc BY DEF Pc
    <2>2. QED BY <1>14, <2>1, StopPTTSound DEF StopUnkeys, ForceStopPTT, OffAwaited, TypeOK, Command
  <1>15. ASSUME NEW h \in Handler, OnSlotStart(h)
        PROVE  OffAwaited'
    <2>1. \A g \in Handler : pc[g] = "unkeying" => pc'[g] = "unkeying"
      BY <1>15 DEF TypeOK, OnSlotStart, StopPlayback, Playing
    <2>2. commands' = commands
      BY <1>15 DEF OnSlotStart, StopPlayback, Playing
    <2>3. QED BY <2>1, <2>2, AwaitedFrame DEF OffAwaited
  <1>16. ASSUME NEW h \in Handler, Clear(h)
        PROVE  OffAwaited'
    <2>1. \A g \in Handler : pc[g] = "unkeying" => pc'[g] = "unkeying"
      BY <1>16 DEF TypeOK, Clear, Idle
    <2>2. commands' = commands
      BY <1>16 DEF Clear, Idle
    <2>3. QED BY <2>1, <2>2, AwaitedFrame DEF OffAwaited
  <1>17. ASSUME NEW h \in Handler, Unkeyed(h)
        PROVE  OffAwaited'
    <2>1. \A g \in Handler : pc[g] = "unkeying" => pc'[g] = "unkeying"
      BY <1>17 DEF TypeOK, Unkeyed, EndRemix, Idle
    <2>2. commands' = commands
      BY <1>17 DEF Unkeyed, EndRemix, Idle
    <2>3. QED BY <2>1, <2>2, AwaitedFrame DEF OffAwaited
  <1>18. CASE CommandDone
    BY <1>18, AwaitedTail DEF CommandDone, OffAwaited, TypeOK, Command
  <1>19. CASE SlotStart
    <2>1. "unkeyed" \in Pc BY DEF Pc
    <2>2. QED BY <1>19, <2>1, HandlerAssumption, StopPTTSound
      DEF SlotStart, SlotPTT, ForceStopPTT, OffAwaited, TypeOK, Command
  <1>20. CASE PollTick
    <2>1. [on |-> FALSE, by |-> Nobody] \in Command
      BY DEF Command
    <2>2. commands' = commands \/ commands' = Append(commands, [on |-> FALSE, by |-> Nobody])
      BY <1>20 DEF PollTick, PollRelease, StopPTT
    <2>3. pc' = pc
      BY <1>20 DEF PollTick
    <2>4. QED BY <2>1, <2>2, <2>3, AwaitedAppend DEF OffAwaited, TypeOK, Command
  <1>21. CASE RadioLost
    <2>1. \A g \in Handler : pc[g] = "unkeying" => pc'[g] = "unkeying"
      BY <1>21 DEF TypeOK, RadioLost, StopPoll
    <2>2. commands' = commands
      BY <1>21 DEF RadioLost, StopPoll
    <2>3. QED BY <2>1, <2>2, AwaitedFrame DEF OffAwaited
  <1>22. CASE RadioBack
    <2>1. \A g \in Handler : pc[g] = "unkeying" => pc'[g] = "unkeying"
      BY <1>22 DEF TypeOK, RadioBack
    <2>2. commands' = commands
      BY <1>22 DEF RadioBack
    <2>3. QED BY <2>1, <2>2, AwaitedFrame DEF OffAwaited
  <1>23. QED
    BY <1>0, <1>1, <1>2, <1>3, <1>4, <1>5, <1>6, <1>7, <1>8, <1>9, <1>10, <1>11, <1>12, <1>13, <1>14, <1>15, <1>16, <1>17, <1>18, <1>19, <1>20, <1>21, <1>22
    DEF Next, Step, Client, EncodeComplete, Continue

LEMMA StopPTTBelief ==
  ASSUME TypeOK, NEW q, NEW h, StopPTT(q, h)
  PROVE  pttActive' = pttActive \/ ~connected
  BY Zenon DEF StopPTT, MustUnkey, TypeOK

(* Without faults belief and transmitter change together. *)
LEMMA FaultFreeStep ==
  ASSUME TypeOK, FaultFree, [Next]_vars
  PROVE  FaultFree'
  <1>0. CASE UNCHANGED vars
    BY <1>0 DEF FaultFree, vars
  <1>1. ASSUME NEW h \in Handler, NEW op \in Operators, NEW switched \in BOOLEAN, EncodeRemix(h, op, switched)
        PROVE  FaultFree'
    BY <1>1 DEF EncodeRemix, radio, FaultFree, Event, AddAudio, StopPlayback, Playing
  <1>2. ASSUME NEW h \in Handler, NEW op \in Operators, NEW switched \in BOOLEAN, EncodeMidSlot(h, op, switched)
        PROVE  FaultFree'
    BY <1>2 DEF EncodeMidSlot, radio, FaultFree, Event, AddAudio, Playing
  <1>3. ASSUME NEW op \in Operators, NEW switched \in BOOLEAN, EncodeSchedule(op, switched)
        PROVE  FaultFree'
    BY <1>3 DEF EncodeSchedule, radio, FaultFree, AddAudio, Playing
  <1>4. ASSUME NEW h \in Handler, NEW op \in Operators, RemoveOperator(h, op)
        PROVE  FaultFree'
    BY <1>4 DEF RemoveOperator, radio, FaultFree, Event, StopPlayback, Playing
  <1>5. ASSUME NEW h \in Handler, MixTimer(h)
        PROVE  FaultFree'
    BY <1>5 DEF MixTimer, radio, FaultFree, Event
  <1>6. ASSUME NEW h \in Handler, ForceStop(h)
        PROVE  FaultFree'
    BY <1>6 DEF ForceStop, radio, FaultFree, Event, StopPlayback, Playing
  <1>7. ASSUME NEW h \in Handler, StartTransmission(h)
        PROVE  FaultFree'
    <2>1. faults' = 0 => faults = 0
      BY <1>7, ModeAssumption DEF StartTransmission, TypeOK
    <2>2. UNCHANGED <<pttActive, rig, connected>>
      BY <1>7 DEF StartTransmission, StartPTT
    <2>3. QED BY <2>1, <2>2 DEF FaultFree
  <1>8. ASSUME NEW h \in Handler, PlaybackEnds(h)
        PROVE  FaultFree'
    <2>1. faults' = 0 => faults = 0
      BY <1>8, ModeAssumption DEF PlaybackEnds, TypeOK
    <2>2. UNCHANGED <<pttActive, rig, connected>>
      BY <1>8 DEF PlaybackEnds
    <2>3. QED BY <2>1, <2>2 DEF FaultFree
  <1>9. ASSUME NEW h \in Handler, TxFinished(h)
        PROVE  FaultFree'
    <2>1. pttActive' = pttActive \/ ~connected
      BY <1>9, StopPTTBelief DEF TxFinished, StopPoll, Idle
    <2>2. QED BY <1>9, <2>1 DEF FaultFree, TxFinished, radio
  <1>10. ASSUME NEW h \in Handler, TxInterrupted(h)
        PROVE  FaultFree'
    BY <1>10 DEF TxInterrupted, radio, FaultFree, StopPoll, Idle, InterruptedPTT
  <1>11. ASSUME NEW h \in Handler, TxFailed(h)
        PROVE  FaultFree'
    <2>1. pttActive' = pttActive \/ ~connected
      BY <1>11, StopPTTBelief DEF TxFailed, StopPoll
    <2>2. QED BY <1>11, <2>1 DEF FaultFree, TxFailed, radio
  <1>12. ASSUME NEW h \in Handler, Remix(h)
        PROVE  FaultFree'
    <2>1. pttActive' = pttActive \/ ~connected
      BY <1>12, StopPTTBelief DEF Remix, Play, StopPoll, Idle, EndRemix
    <2>2. QED BY <1>12, <2>1 DEF FaultFree, Remix, radio
  <1>13. ASSUME NEW h \in Handler, RemixEnds(h)
        PROVE  FaultFree'
    BY <1>13 DEF RemixEnds, radio, FaultFree, StartPoll, EndRemix, Idle
  <1>14. ASSUME NEW h \in Handler, StopUnkeys(h)
        PROVE  FaultFree'
    <2>1. pttActive' = pttActive \/ ~connected
      BY <1>14, StopPTTBelief DEF StopUnkeys, ForceStopPTT, StopPoll
    <2>2. QED BY <1>14, <2>1 DEF FaultFree, StopUnkeys, radio
  <1>15. ASSUME NEW h \in Handler, OnSlotStart(h)
        PROVE  FaultFree'
    BY <1>15 DEF OnSlotStart, radio, FaultFree, StopPlayback, Playing
  <1>16. ASSUME NEW h \in Handler, Clear(h)
        PROVE  FaultFree'
    BY <1>16 DEF Clear, radio, FaultFree, Idle
  <1>17. ASSUME NEW h \in Handler, Unkeyed(h)
        PROVE  FaultFree'
    BY <1>17 DEF Unkeyed, radio, FaultFree, EndRemix, Idle
  <1>18. CASE CommandDone
    <2>1. ASSUME faults' = 0
          PROVE  faults = 0 /\ connected' = connected /\ (connected => rig' = pttActive')
      BY <1>18, <2>1, ModeAssumption DEF CommandDone, Execute, TypeOK
    <2>2. QED BY <2>1 DEF FaultFree
  <1>19. CASE SlotStart
    <2>1. pttActive' = pttActive \/ ~connected
      BY <1>19, StopPTTBelief DEF SlotStart, SlotPTT, ForceStopPTT, StopPoll
    <2>2. QED BY <1>19, <2>1 DEF FaultFree, SlotStart, radio
  <1>20. CASE PollTick
    <2>1. pttActive' = pttActive \/ ~connected
      BY <1>20, StopPTTBelief DEF PollTick, PollRelease, StopPoll
    <2>2. QED BY <1>20, <2>1 DEF FaultFree, PollTick, radio
  <1>21. CASE RadioLost
    <2>1. faults' # 0
      BY <1>21, ModeAssumption DEF RadioLost, TypeOK
    <2>2. QED BY <2>1 DEF FaultFree
  <1>22. CASE RadioBack
    BY <1>22 DEF RadioBack, FaultFree
  <1>23. QED
    BY <1>0, <1>1, <1>2, <1>3, <1>4, <1>5, <1>6, <1>7, <1>8, <1>9, <1>10, <1>11, <1>12, <1>13, <1>14, <1>15, <1>16, <1>17, <1>18, <1>19, <1>20, <1>21, <1>22
    DEF Next, Step, Client, EncodeComplete, Continue

(* The handlers that may hold the remix flag. *)
Owner(h) == kind[h] \in {"remix", "removal"} /\ pc[h] # "idle"

(* The handler that set the flag clears it before it ends. *)
LEMMA RemixFlagStep ==
  ASSUME TypeOK, RemixFlagOwned, [Next]_vars
  PROVE  RemixFlagOwned'
  <1>0. CASE UNCHANGED vars
    BY <1>0 DEF RemixFlagOwned, vars
  <1>1. ASSUME NEW h \in Handler, NEW op \in Operators, NEW switched \in BOOLEAN, EncodeRemix(h, op, switched)
        PROVE  RemixFlagOwned'
    <2>1. Owner(h)'
      BY <1>1 DEF EncodeRemix, Owner, StopPlayback, Event, TypeOK
    <2>2. QED BY <2>1 DEF RemixFlagOwned, Owner
  <1>2. ASSUME NEW h \in Handler, NEW op \in Operators, NEW switched \in BOOLEAN, EncodeMidSlot(h, op, switched)
        PROVE  RemixFlagOwned'
    <2>1. UNCHANGED remixing
      BY <1>2 DEF EncodeMidSlot, Event, AddAudio, Playing
    <2>2. \A g \in Handler : Owner(g) => Owner(g)'
      BY <1>2 DEF EncodeMidSlot, Owner, TypeOK, Event, AddAudio, Playing
    <2>3. QED BY <2>1, <2>2 DEF RemixFlagOwned, Owner
  <1>3. ASSUME NEW op \in Operators, NEW switched \in BOOLEAN, EncodeSchedule(op, switched)
        PROVE  RemixFlagOwned'
    BY <1>3 DEF EncodeSchedule, RemixFlagOwned
  <1>4. ASSUME NEW h \in Handler, NEW op \in Operators, RemoveOperator(h, op)
        PROVE  RemixFlagOwned'
    <2>1. CASE StopPlayback(h, "removal")
      <3>1. Owner(h)'
        BY <1>4, <2>1 DEF Owner, StopPlayback, Event, TypeOK
      <3>2. QED BY <3>1 DEF RemixFlagOwned, Owner
    <2>2. CASE UNCHANGED remixing /\ (StopPlayback(h, "stop") \/ UNCHANGED <<pc, kind>>)
      <3>1. \A g \in Handler : Owner(g) => Owner(g)'
        BY <1>4, <2>2 DEF RemoveOperator, Event, Owner, StopPlayback, TypeOK
      <3>2. QED BY <2>2, <3>1 DEF RemixFlagOwned, Owner
    <2>3. QED BY <1>4, <2>1, <2>2 DEF RemoveOperator
  <1>5. ASSUME NEW h \in Handler, MixTimer(h)
        PROVE  RemixFlagOwned'
    <2>1. UNCHANGED remixing
      BY <1>5 DEF MixTimer, Event
    <2>2. \A g \in Handler : Owner(g) => Owner(g)'
      BY <1>5 DEF MixTimer, Owner, TypeOK, Event
    <2>3. QED BY <2>1, <2>2 DEF RemixFlagOwned, Owner
  <1>6. ASSUME NEW h \in Handler, ForceStop(h)
        PROVE  RemixFlagOwned'
    <2>1. UNCHANGED remixing
      BY <1>6 DEF ForceStop, Event, StopPlayback, Playing
    <2>2. \A g \in Handler : Owner(g) => Owner(g)'
      BY <1>6 DEF ForceStop, Owner, TypeOK, Event, StopPlayback, Playing
    <2>3. QED BY <2>1, <2>2 DEF RemixFlagOwned, Owner
  <1>7. ASSUME NEW h \in Handler, StartTransmission(h)
        PROVE  RemixFlagOwned'
    <2>1. UNCHANGED remixing
      BY <1>7 DEF StartTransmission, StartPTT, StartPoll, Play
    <2>2. \A g \in Handler : Owner(g) => Owner(g)'
      BY <1>7 DEF StartTransmission, Owner, TypeOK, StartPTT, StartPoll, Play
    <2>3. QED BY <2>1, <2>2 DEF RemixFlagOwned, Owner
  <1>8. ASSUME NEW h \in Handler, PlaybackEnds(h)
        PROVE  RemixFlagOwned'
    <2>1. UNCHANGED remixing
      BY <1>8 DEF PlaybackEnds, EndPlayback, Waiting
    <2>2. \A g \in Handler : Owner(g) => Owner(g)'
      BY <1>8 DEF PlaybackEnds, Owner, TypeOK, EndPlayback, Waiting
    <2>3. QED BY <2>1, <2>2 DEF RemixFlagOwned, Owner
  <1>9. ASSUME NEW h \in Handler, TxFinished(h)
        PROVE  RemixFlagOwned'
    <2>1. UNCHANGED remixing
      BY <1>9 DEF TxFinished, StopPoll, Idle
    <2>2. \A g \in Handler : Owner(g) => Owner(g)'
      BY <1>9 DEF TxFinished, Owner, TypeOK, StopPoll, Idle
    <2>3. QED BY <2>1, <2>2 DEF RemixFlagOwned, Owner
  <1>10. ASSUME NEW h \in Handler, TxInterrupted(h)
        PROVE  RemixFlagOwned'
    <2>1. UNCHANGED remixing
      BY <1>10 DEF TxInterrupted, StopPoll, Idle, InterruptedPTT
    <2>2. \A g \in Handler : Owner(g) => Owner(g)'
      BY <1>10 DEF TxInterrupted, Owner, TypeOK, StopPoll, Idle, InterruptedPTT
    <2>3. QED BY <2>1, <2>2 DEF RemixFlagOwned, Owner
  <1>11. ASSUME NEW h \in Handler, TxFailed(h)
        PROVE  RemixFlagOwned'
    <2>1. UNCHANGED remixing
      BY <1>11 DEF TxFailed, StopPoll
    <2>2. \A g \in Handler : Owner(g) => Owner(g)'
      BY <1>11 DEF TxFailed, Owner, TypeOK, StopPoll
    <2>3. QED BY <2>1, <2>2 DEF RemixFlagOwned, Owner
  <1>12. ASSUME NEW h \in Handler, Remix(h)
        PROVE  RemixFlagOwned'
    <2>1. CASE kind[h] = "remix" /\ remixing' = FALSE
      BY <2>1 DEF RemixFlagOwned
    <2>2. CASE UNCHANGED <<remixing, kind>> /\ \A g \in Handler : pc[g] # "idle" => pc'[g] # "idle"
      BY <2>2 DEF RemixFlagOwned
    <2>3. CASE Play(h) /\ UNCHANGED <<remixing, kind>>
      <3>1. \A g \in Handler : pc[g] # "idle" => pc'[g] # "idle"
        BY <2>3 DEF Play, TypeOK
      <3>2. QED BY <3>1, <2>2, <2>3
    <2>4. CASE pc' = [pc EXCEPT ![h] = IF MustUnkey THEN "unkeying" ELSE "unkeyed"]
               /\ UNCHANGED <<remixing, kind>>
      <3>1. \A g \in Handler : pc[g] # "idle" => pc'[g] # "idle"
        BY <2>4 DEF TypeOK
      <3>2. QED BY <3>1, <2>2, <2>4
    <2>5. QED BY <1>12, <2>1, <2>3, <2>4 DEF Remix, EndRemix
  <1>13. ASSUME NEW h \in Handler, RemixEnds(h)
        PROVE  RemixFlagOwned'
    <2>1. remixing' = FALSE
      BY <1>13 DEF RemixEnds, EndRemix
    <2>2. QED BY <2>1 DEF RemixFlagOwned
  <1>14. ASSUME NEW h \in Handler, StopUnkeys(h)
        PROVE  RemixFlagOwned'
    <2>1. UNCHANGED remixing
      BY <1>14 DEF StopUnkeys, ForceStopPTT, StopPoll
    <2>2. \A g \in Handler : Owner(g) => Owner(g)'
      BY <1>14 DEF StopUnkeys, Owner, TypeOK, ForceStopPTT, StopPoll
    <2>3. QED BY <2>1, <2>2 DEF RemixFlagOwned, Owner
  <1>15. ASSUME NEW h \in Handler, OnSlotStart(h)
        PROVE  RemixFlagOwned'
    <2>1. UNCHANGED remixing
      BY <1>15 DEF OnSlotStart, StopPlayback, Playing
    <2>2. \A g \in Handler : Owner(g) => Owner(g)'
      BY <1>15 DEF OnSlotStart, Owner, TypeOK, StopPlayback, Playing
    <2>3. QED BY <2>1, <2>2 DEF RemixFlagOwned, Owner
  <1>16. ASSUME NEW h \in Handler, Clear(h)
        PROVE  RemixFlagOwned'
    <2>1. UNCHANGED remixing
      BY <1>16 DEF Clear, Idle
    <2>2. \A g \in Handler : Owner(g) => Owner(g)'
      BY <1>16 DEF Clear, Owner, TypeOK, Idle
    <2>3. QED BY <2>1, <2>2 DEF RemixFlagOwned, Owner
  <1>17. ASSUME NEW h \in Handler, Unkeyed(h)
        PROVE  RemixFlagOwned'
    <2>1. CASE kind[h] = "removal"
      BY <1>17, <2>1 DEF Unkeyed, EndRemix, RemixFlagOwned
    <2>2. CASE kind[h] # "removal"
      <3>1. UNCHANGED remixing
        BY <1>17, <2>2 DEF Unkeyed
      <3>2. \A g \in Handler : Owner(g) => Owner(g)'
        BY <1>17, <2>2 DEF Unkeyed, Idle, Owner, TypeOK
      <3>3. QED BY <3>1, <3>2 DEF RemixFlagOwned, Owner
    <2>3. QED BY <2>1, <2>2
  <1>18. CASE CommandDone
    <2>1. UNCHANGED remixing
      BY <1>18 DEF CommandDone, Execute
    <2>2. \A g \in Handler : Owner(g) => Owner(g)'
      BY <1>18 DEF CommandDone, Owner, TypeOK, Execute
    <2>3. QED BY <2>1, <2>2 DEF RemixFlagOwned, Owner
  <1>19. CASE SlotStart
    <2>1. UNCHANGED remixing
      BY <1>19 DEF SlotStart, SlotPTT, ForceStopPTT, StopPoll
    <2>2. \A g \in Handler : Owner(g) => Owner(g)'
      BY <1>19 DEF SlotStart, Owner, TypeOK, SlotPTT, ForceStopPTT, StopPoll
    <2>3. QED BY <2>1, <2>2 DEF RemixFlagOwned, Owner
  <1>20. CASE PollTick
    BY <1>20 DEF PollTick, RemixFlagOwned
  <1>21. CASE RadioLost
    BY <1>21 DEF RadioLost, RemixFlagOwned
  <1>22. CASE RadioBack
    BY <1>22 DEF RadioBack, RemixFlagOwned
  <1>23. QED
    BY <1>0, <1>1, <1>2, <1>3, <1>4, <1>5, <1>6, <1>7, <1>8, <1>9, <1>10, <1>11, <1>12, <1>13, <1>14, <1>15, <1>16, <1>17, <1>18, <1>19, <1>20, <1>21, <1>22
    DEF Next, Step, Client, EncodeComplete, Continue

(* Only the end of a playback takes it out of `sounding'. *)
LEMMA PlaybackStep ==
  ASSUME TypeOK, NoDeadPlayback, OffAwaited, [Next]_vars
  PROVE  NoDeadPlayback'
  <1>0. CASE UNCHANGED vars
    BY <1>0 DEF NoDeadPlayback, vars
  <1>1. ASSUME NEW h \in Handler, NEW op \in Operators, NEW switched \in BOOLEAN, EncodeRemix(h, op, switched)
        PROVE  NoDeadPlayback'
    BY <1>1, HandlerAssumption DEF EncodeRemix, playback, NoDeadPlayback, TypeOK, Event, AddAudio, StopPlayback, Playing
  <1>2. ASSUME NEW h \in Handler, NEW op \in Operators, NEW switched \in BOOLEAN, EncodeMidSlot(h, op, switched)
        PROVE  NoDeadPlayback'
    BY <1>2, HandlerAssumption DEF EncodeMidSlot, playback, NoDeadPlayback, TypeOK, Event, AddAudio, Playing
  <1>3. ASSUME NEW op \in Operators, NEW switched \in BOOLEAN, EncodeSchedule(op, switched)
        PROVE  NoDeadPlayback'
    BY <1>3, HandlerAssumption DEF EncodeSchedule, playback, NoDeadPlayback, TypeOK, AddAudio, Playing
  <1>4. ASSUME NEW h \in Handler, NEW op \in Operators, RemoveOperator(h, op)
        PROVE  NoDeadPlayback'
    BY <1>4, HandlerAssumption DEF RemoveOperator, playback, NoDeadPlayback, TypeOK, Event, StopPlayback, Playing
  <1>5. ASSUME NEW h \in Handler, MixTimer(h)
        PROVE  NoDeadPlayback'
    BY <1>5, HandlerAssumption DEF MixTimer, playback, NoDeadPlayback, TypeOK, Event
  <1>6. ASSUME NEW h \in Handler, ForceStop(h)
        PROVE  NoDeadPlayback'
    BY <1>6, HandlerAssumption DEF ForceStop, playback, NoDeadPlayback, TypeOK, Event, StopPlayback, Playing
  <1>7. ASSUME NEW h \in Handler, StartTransmission(h)
        PROVE  NoDeadPlayback'
    BY <1>7, HandlerAssumption DEF StartTransmission, playback, NoDeadPlayback, TypeOK, StartPTT, StartPoll, Play
  <1>8. ASSUME NEW h \in Handler, PlaybackEnds(h)
        PROVE  NoDeadPlayback'
    BY <1>8, HandlerAssumption DEF PlaybackEnds, playback, NoDeadPlayback, TypeOK, EndPlayback, Waiting
  <1>9. ASSUME NEW h \in Handler, TxFinished(h)
        PROVE  NoDeadPlayback'
    BY <1>9, HandlerAssumption DEF TxFinished, playback, NoDeadPlayback, TypeOK, StopPoll, Idle
  <1>10. ASSUME NEW h \in Handler, TxInterrupted(h)
        PROVE  NoDeadPlayback'
    BY <1>10, HandlerAssumption DEF TxInterrupted, playback, NoDeadPlayback, TypeOK, StopPoll, Idle, InterruptedPTT
  <1>11. ASSUME NEW h \in Handler, TxFailed(h)
        PROVE  NoDeadPlayback'
    BY <1>11, HandlerAssumption DEF TxFailed, playback, NoDeadPlayback, TypeOK, StopPoll
  <1>12. ASSUME NEW h \in Handler, Remix(h)
        PROVE  NoDeadPlayback'
    BY <1>12, HandlerAssumption DEF Remix, playback, NoDeadPlayback, TypeOK, Play, StopPoll, Idle, EndRemix
  <1>13. ASSUME NEW h \in Handler, RemixEnds(h)
        PROVE  NoDeadPlayback'
    BY <1>13, HandlerAssumption DEF RemixEnds, playback, NoDeadPlayback, TypeOK, StartPoll, EndRemix, Idle
  <1>14. ASSUME NEW h \in Handler, StopUnkeys(h)
        PROVE  NoDeadPlayback'
    BY <1>14, HandlerAssumption DEF StopUnkeys, playback, NoDeadPlayback, TypeOK, ForceStopPTT, StopPoll
  <1>15. ASSUME NEW h \in Handler, OnSlotStart(h)
        PROVE  NoDeadPlayback'
    BY <1>15, HandlerAssumption DEF OnSlotStart, playback, NoDeadPlayback, TypeOK, StopPlayback, Playing
  <1>16. ASSUME NEW h \in Handler, Clear(h)
        PROVE  NoDeadPlayback'
    BY <1>16, HandlerAssumption DEF Clear, playback, NoDeadPlayback, TypeOK, Idle
  <1>17. ASSUME NEW h \in Handler, Unkeyed(h)
        PROVE  NoDeadPlayback'
    BY <1>17, HandlerAssumption DEF Unkeyed, playback, NoDeadPlayback, TypeOK, EndRemix, Idle
  <1>18. CASE CommandDone
    <2>1. \A g \in Handler : pc[g] # "unkeying" => pc'[g] = pc[g]
      <3>1. 1 \in DOMAIN commands /\ Head(commands) = commands[1]
        BY <1>18, HeadTailProperties, EmptySeq DEF CommandDone, TypeOK, Command
      <3>2. QED BY <1>18, <3>1 DEF CommandDone, OffAwaited, AwaitedIn, OffBy, TypeOK
    <2>2. \A g \in Handler : pc'[g] = "stopping" => pc[g] = "stopping"
      BY <1>18 DEF CommandDone, TypeOK
    <2>3. QED BY <1>18, <2>1, <2>2 DEF CommandDone, playback, NoDeadPlayback, TypeOK
  <1>19. CASE SlotStart
    BY <1>19, HandlerAssumption DEF SlotStart, playback, NoDeadPlayback, TypeOK, SlotPTT, ForceStopPTT, StopPoll
  <1>20. CASE PollTick
    BY <1>20, HandlerAssumption DEF PollTick, playback, NoDeadPlayback, TypeOK, PollRelease, StopPoll
  <1>21. CASE RadioLost
    BY <1>21, HandlerAssumption DEF RadioLost, playback, NoDeadPlayback, TypeOK, StopPoll
  <1>22. CASE RadioBack
    BY <1>22, HandlerAssumption DEF RadioBack, playback, NoDeadPlayback, TypeOK
  <1>23. QED
    BY <1>0, <1>1, <1>2, <1>3, <1>4, <1>5, <1>6, <1>7, <1>8, <1>9, <1>10, <1>11, <1>12, <1>13, <1>14, <1>15, <1>16, <1>17, <1>18, <1>19, <1>20, <1>21, <1>22
    DEF Next, Step, Client, EncodeComplete, Continue

-----------------------------------------------------------------------------
(* IInv is an inductive invariant: it holds initially and every step keeps *)
(* it.  AwaitedIn is what makes the end of a command harmless for          *)
(* NoDeadPlayback; the other parts need only the types.                    *)
THEOREM Invariance == Spec => []IInv
  <1>1. Init => IInv
    <2>1. Init => TypeOK
      <3> SUFFICES ASSUME Init PROVE TypeOK
        OBVIOUS
      <3>1. pc \in [Handler -> Pc] /\ kind \in [Handler -> Kind]
        BY DEF Init, Pc, Kind
      <3>2. commands \in Seq(Command) /\ faults \in 0..MaxFaults
        BY ModeAssumption DEF Init
      <3>3. waits \in [Handler -> Handler \cup {Nobody}] /\ current \in Handler \cup {Nobody}
        BY DEF Init
      <3>4. polls \in 0..1 /\ cached \subseteq Operators
        BY DEF Init
      <3>5. /\ stopFlag \in BOOLEAN /\ timer \in BOOLEAN /\ remixing \in BOOLEAN
            /\ pttActive \in BOOLEAN /\ silent \in BOOLEAN /\ rig \in BOOLEAN
            /\ connected \in BOOLEAN
        BY Zenon DEF Init
      <3>6. env \in SUBSET Surroundings
        BY ModeAssumption DEF Init
      <3>7. QED BY <3>1, <3>2, <3>3, <3>4, <3>5, <3>6 DEF TypeOK, Command
    <2>2. Init => FaultFree /\ RemixFlagOwned /\ OffAwaited
      <3>1. Init => FaultFree
        BY DEF Init, FaultFree
      <3>2. Init => RemixFlagOwned
        BY DEF Init, RemixFlagOwned
      <3>3. Init => OffAwaited
        BY DEF Init, OffAwaited, AwaitedIn
      <3>4. QED BY <3>1, <3>2, <3>3
    <2>3. Init => NoDeadPlayback
      BY DEF Init, NoDeadPlayback
    <2>4. QED BY <2>1, <2>2, <2>3 DEF IInv
  <1>2. IInv /\ [Next]_vars => IInv'
    BY TypeStep, AwaitStep, FaultFreeStep, RemixFlagStep, PlaybackStep DEF IInv
  <1>3. QED BY <1>1, <1>2, PTL DEF Spec

(* Type correctness for any set of handlers and operators. *)
THEOREM TypeCorrect == Spec => []TypeOK
  BY Invariance, PTL DEF IInv

(* As long as no radio call failed, _isPTTActive is the state of the       *)
(* transmitter whatever starts, stops and releases overlap.                *)
THEOREM BeliefSound == Spec => []RigFollowsBelief
  <1>1. IInv => RigFollowsBelief
    BY DEF IInv, FaultFree, RigFollowsBelief
  <1>2. QED BY <1>1, Invariance, PTL

(* _isRemixing is set only while a remix is in progress, and the playback  *)
(* that isPlaying() reports and every playback a handler awaits are still  *)
(* sounding, for any overlap of handlers.                                  *)
THEOREM LeavesNothing == Spec => []NothingLeftBehind
  <1>1. IInv => NothingLeftBehind
    BY DEF IInv, NothingLeftBehind
  <1>2. QED BY <1>1, Invariance, PTL

-----------------------------------------------------------------------------
(* Events that are far enough apart take turns.  Only one handler at a     *)
(* time stops a playback or is about to play, a slot boundary among them;  *)
(* once it is about to play nothing plays.                                 *)
Remixes(h) == kind[h] \in {"remix", "removal"} /\ pc[h] \in {"stopping", "stopped"}
Ahead(h) ==
  \/ pc[h] \in {"preparing", "stopping", "stopped"}
  \/ h = SlotHandler /\ pc[h] \in {"unkeying", "unkeyed"}

SlotTurn ==
  /\ pc[SlotHandler] = "idle" \/ (kind[SlotHandler] = "slot" /\ Ahead(SlotHandler))
  /\ pc[SlotHandler] # "preparing"
  /\ \A h \in Handler : kind[h] = "slot" => h = SlotHandler

SoundsAlone == \A h \in Handler : pc[h] = "sounding" => current = h
OneAhead == \A g, h \in Handler : Ahead(g) /\ Ahead(h) => g = h
Cleared == \A h \in Handler : pc[h] \in {"preparing", "stopped"} => current = Nobody
TimerWaits ==
  timer => current = Nobody /\ \A h \in Handler : pc[h] # "preparing" /\ ~Remixes(h)
PreparesAlone ==
  \A h \in Handler : pc[h] = "preparing" =>
    commands = <<>> /\ \A g \in Handler : g # h => pc[g] = "idle"

Apart == SlotTurn /\ SoundsAlone /\ OneAhead /\ Cleared /\ TimerWaits /\ PreparesAlone
ApartState == IInv /\ env = {} /\ Apart

(* An event finds every handler at rest but the one that plays.            *)
LEMMA EventFacts ==
  ASSUME ApartState, Drained, Settled
  PROVE  /\ commands = <<>>
         /\ \A g \in Handler : pc[g] \in {"idle", "sounding"}
         /\ \A g \in Handler : pc[g] = "sounding" <=> current = g
         /\ pc[SlotHandler] = "idle"
  <1>1. commands = <<>> /\ \A g \in Handler : pc[g] \notin {"stopping", "unkeying"}
    BY DEF Settled
  <1>2. \A g \in Handler : ~Starting(g)
    BY <1>1 DEF Starting
  <1>3. \A g \in Handler : pc[g] \notin {"interrupted", "failed", "stopped", "unkeyed", "finished", "preparing"}
    BY <1>2 DEF ApartState, Drained, Ready, Overlap
  <1>4. \A g \in Handler : pc[g] \in {"idle", "sounding"}
    BY <1>1, <1>3 DEF ApartState, IInv, TypeOK, Pc
  <1>5. \A g \in Handler : pc[g] = "sounding" <=> current = g
    BY HandlerAssumption DEF ApartState, Apart, SoundsAlone, IInv, NoDeadPlayback
  <1>6. pc[SlotHandler] = "idle"
    BY <1>4, HandlerAssumption DEF ApartState, Apart, SlotTurn, Ahead
  <1>7. QED BY <1>1, <1>4, <1>5, <1>6

(* Handlers that end, wait for the radio or do not move take nobody's turn.*)
LEMMA ApartFrame ==
  ASSUME Apart, current' = current, timer' => timer,
         \A g \in Handler : kind'[g] = kind[g],
         \A g \in Handler : pc'[g] = pc[g] \/ pc'[g] \in {"idle", "unkeying", "unkeyed"},
         pc'[SlotHandler] # pc[SlotHandler] =>
           pc'[SlotHandler] = "idle" \/ Ahead(SlotHandler),
         \A h \in Handler : pc[h] = "preparing" =>
           UNCHANGED <<commands, pc>>
  PROVE  Apart'
  <1>1. \A g \in Handler : Ahead(g)' => Ahead(g)
    BY DEF Ahead
  <1>2. SlotTurn'
    <2>1. SlotHandler \in Handler /\ kind'[SlotHandler] = kind[SlotHandler]
      BY HandlerAssumption
    <2>2. Ahead(SlotHandler) => pc[SlotHandler] # "idle"
      BY DEF Ahead
    <2>3. CASE pc'[SlotHandler] = pc[SlotHandler]
      BY <2>1, <2>3 DEF Apart, SlotTurn, Ahead
    <2>4. CASE pc'[SlotHandler] # pc[SlotHandler]
      <3>1. pc'[SlotHandler] = "idle" \/ (Ahead(SlotHandler)' /\ kind[SlotHandler] = "slot")
        BY <2>1, <2>2, <2>4 DEF Apart, SlotTurn, Ahead
      <3>2. pc'[SlotHandler] # "preparing"
        BY <2>1, <2>4
      <3>3. \A h \in Handler : kind'[h] = "slot" => h = SlotHandler
        BY DEF Apart, SlotTurn
      <3>4. QED BY <2>1, <3>1, <3>2, <3>3 DEF SlotTurn
    <2>5. QED BY <2>3, <2>4
  <1>3. SoundsAlone' /\ Cleared'
    BY DEF Apart, SoundsAlone, Cleared
  <1>4. OneAhead'
    BY <1>1 DEF Apart, OneAhead
  <1>5. TimerWaits'
    BY DEF Apart, TimerWaits, Remixes
  <1>6. PreparesAlone'
    BY DEF Apart, PreparesAlone
  <1>7. QED BY <1>2, <1>3, <1>4, <1>5, <1>6 DEF Apart

(* A handler that starts to stop a playback when no other is ahead of it.  *)
LEMMA ApartStop ==
  ASSUME ApartState, NEW h \in Handler, NEW k \in Kind, StopPlayback(h, k), timer' => timer,
         k \in {"remix", "removal"} => Playing,
         h = SlotHandler <=> k = "slot",
         pc[h] # "sounding", \A g \in Handler : Ahead(g) => g = h
  PROVE  Apart'
  <1>1. /\ current' = current
        /\ \A g \in Handler : pc'[g] = IF g # h THEN pc[g] ELSE IF Playing THEN "stopping" ELSE "stopped"
        /\ \A g \in Handler : kind'[g] = IF g # h THEN kind[g] ELSE k
    BY DEF StopPlayback, ApartState, IInv, TypeOK
  <1>2. \A g \in Handler : Ahead(g)' => g = h
    BY <1>1 DEF Ahead
  <1>3. SlotTurn'
    BY <1>1, HandlerAssumption DEF ApartState, Apart, SlotTurn, Ahead
  <1>4. SoundsAlone' /\ OneAhead'
    BY <1>1, <1>2 DEF ApartState, Apart, SoundsAlone, OneAhead
  <1>5. \A g \in Handler : pc'[g] # "preparing"
    BY <1>1, <1>2 DEF Ahead
  <1>6. Cleared' /\ PreparesAlone'
    BY <1>1, <1>2, <1>5 DEF ApartState, Cleared, PreparesAlone, Ahead, Playing
  <1>7. TimerWaits'
    BY <1>1, <1>2, <1>5 DEF ApartState, Apart, TimerWaits, Remixes, Ahead, Playing
  <1>8. QED BY <1>3, <1>4, <1>6, <1>7 DEF Apart

(* A handler that is about to play, at an event that finds nothing playing.*)
LEMMA ApartPrepare ==
  ASSUME ApartState, Drained, Settled, NEW h \in Handler, h # SlotHandler, ~Playing,
         pc' = [pc EXCEPT ![h] = "preparing"], kind' = [kind EXCEPT ![h] = "tx"],
         timer' = FALSE, UNCHANGED <<current, commands>>
  PROVE  Apart'
  <1>1. commands = <<>> /\ \A g \in Handler : pc[g] = "idle"
    BY EventFacts, HandlerAssumption DEF Playing
  <1>2. /\ \A g \in Handler : pc'[g] = IF g = h THEN "preparing" ELSE "idle"
        /\ \A g \in Handler : kind'[g] = IF g = h THEN "tx" ELSE kind[g]
    BY <1>1 DEF ApartState, IInv, TypeOK
  <1>3. SlotTurn'
    BY <1>2, HandlerAssumption DEF ApartState, Apart, SlotTurn, Ahead
  <1>4. SoundsAlone' /\ OneAhead' /\ Cleared' /\ TimerWaits' /\ PreparesAlone'
    BY <1>1, <1>2 DEF SoundsAlone, OneAhead, Cleared, TimerWaits, PreparesAlone, Ahead, Playing
  <1>5. QED BY <1>3, <1>4 DEF Apart

(* The handler whose turn it is plays, and nothing else does.              *)
LEMMA ApartPlay ==
  ASSUME ApartState, NEW h \in Handler, Ahead(h), pc[h] \in {"preparing", "stopped"},
         h # SlotHandler, pc[h] = "preparing" \/ Remixes(h),
         Play(h), UNCHANGED <<kind, timer>>
  PROVE  Apart'
  <1>1. /\ current' = h /\ current = Nobody
        /\ \A g \in Handler : pc'[g] = IF g = h THEN "sounding" ELSE pc[g]
    BY DEF Play, ApartState, Apart, Cleared, IInv, TypeOK
  <1>2. \A g \in Handler : Ahead(g)' => FALSE
    BY <1>1, HandlerAssumption DEF ApartState, Apart, OneAhead, Ahead
  <1>3. \A g \in Handler : pc[g] # "sounding"
    BY <1>1, HandlerAssumption DEF ApartState, Apart, SoundsAlone
  <1>4. SlotTurn'
    BY <1>1, HandlerAssumption DEF ApartState, Apart, SlotTurn, Ahead
  <1>5. SoundsAlone' /\ OneAhead' /\ Cleared' /\ PreparesAlone'
    BY <1>1, <1>2, <1>3 DEF SoundsAlone, OneAhead, Cleared, PreparesAlone, Ahead
  <1>6. TimerWaits'
    BY <1>2 DEF ApartState, Apart, TimerWaits
  <1>7. QED BY <1>4, <1>5, <1>6 DEF Apart

(* A playback that ends, for whoever awaits it.                            *)
LEMMA ApartEnd ==
  ASSUME ApartState, Drained, NEW h \in Handler, pc[h] = "sounding",
         NEW end \in {"interrupted", "finished", "failed"}, EndPlayback(h, end),
         UNCHANGED <<kind, timer>>
  PROVE  Apart'
  <1>1. current = h /\ current' = Nobody
    BY DEF ApartState, Apart, SoundsAlone, EndPlayback
  <1>2. \A g \in Handler : pc'[g] \in {pc[g]} \cup (IF g = h THEN {end} ELSE {})
                                   \cup (IF pc[g] = "stopping" THEN {"stopped"} ELSE {})
    BY DEF EndPlayback, Waiting
  <1>3. \A g \in Handler : g # h => pc[g] # "sounding"
    BY <1>1 DEF ApartState, Apart, SoundsAlone
  <1>4. pc'[h] = end
    BY DEF EndPlayback
  <1>5. \A g \in Handler : Ahead(g)' => Ahead(g)
    BY <1>2, <1>4 DEF Ahead
  <1>6. \A g \in Handler : pc'[g] # "preparing"
    <2>1. \A g \in Handler : pc[g] # "preparing"
      BY DEF Drained, Ready, ApartState, Overlap
    <2>2. QED BY <1>2, <2>1
  <1>7. SlotTurn'
    BY <1>2, <1>4, <1>6, HandlerAssumption DEF ApartState, Apart, SlotTurn, Ahead
  <1>8. SoundsAlone' /\ Cleared' /\ PreparesAlone'
    BY <1>1, <1>2, <1>3, <1>4, <1>6 DEF SoundsAlone, Cleared, PreparesAlone
  <1>9. OneAhead'
    BY <1>5 DEF ApartState, Apart, OneAhead
  <1>10. TimerWaits'
    BY <1>1, HandlerAssumption DEF ApartState, Apart, TimerWaits
  <1>11. QED BY <1>7, <1>8, <1>9, <1>10 DEF Apart

LEMMA ApartStep ==
  ASSUME ApartState, Step
  PROVE  Apart'
  <1> USE HandlerAssumption
  <1>a. /\ Apart /\ TypeOK /\ OffAwaited /\ ~Overlap /\ ~IcomWlan
        /\ \A g \in Handler : pc[g] = "preparing" => \A h \in Handler : h # g => pc[h] = "idle"
        /\ Drained => \A g \in Handler : pc[g] \notin {"preparing", "stopped"}
    BY DEF ApartState, IInv, Overlap, IcomWlan, Apart, PreparesAlone, Drained, Ready
  <1>b. ASSUME NEW h \in Handler, Event(h)
        PROVE  /\ Drained /\ Settled /\ h # SlotHandler /\ pc[h] = "idle"
               /\ \A g \in Handler : ~Ahead(g)
    BY <1>a, <1>b, EventFacts DEF Event, Ahead
  <1>c. ASSUME NEW h \in Handler, kind' = kind, current' = current, timer' => timer,
               pc[h] \notin {"idle", "preparing"},
               h = SlotHandler => Ahead(h),
               NEW p \in {"idle", "unkeying", "unkeyed"}, pc' = [pc EXCEPT ![h] = p]
        PROVE  Apart'
    <2>1. \A g \in Handler : pc'[g] = IF g = h THEN p ELSE pc[g]
      BY <1>a, <1>c DEF TypeOK
    <2>2. \A g \in Handler : pc[g] # "preparing"
      BY <1>a, <1>c
    <2>3. QED BY <1>a, <1>c, <2>1, <2>2, ApartFrame
  <1>d. ASSUME NEW h \in Handler, pc[h] # "idle", h = SlotHandler PROVE kind[h] = "slot" /\ Ahead(h)
    BY <1>a, <1>d DEF Apart, SlotTurn
  <1>1. ASSUME NEW h \in Handler, NEW op \in Operators, NEW switched \in BOOLEAN, EncodeRemix(h, op, switched)
        PROVE  Apart'
    BY <1>1, <1>b, ApartStop DEF EncodeRemix, Kind
  <1>2. ASSUME NEW h \in Handler, NEW op \in Operators, NEW switched \in BOOLEAN, EncodeMidSlot(h, op, switched)
        PROVE  Apart'
    <2>1. /\ Event(h) /\ ~Playing /\ timer' = FALSE /\ UNCHANGED <<current, commands>>
      BY <1>2, <1>a DEF EncodeMidSlot, playback
    <2>2. CASE UNCHANGED <<pc, kind>>
      BY <2>1, <2>2, <1>a, ApartFrame
    <2>3. CASE pc' = [pc EXCEPT ![h] = "preparing"] /\ kind' = [kind EXCEPT ![h] = "tx"]
      BY <2>1, <2>3, <1>b, ApartPrepare
    <2>4. QED BY <1>2, <2>2, <2>3 DEF EncodeMidSlot
  <1>3. ASSUME NEW op \in Operators, NEW switched \in BOOLEAN, EncodeSchedule(op, switched)
        PROVE  Apart'
    <2>1. /\ Drained /\ Settled /\ ~Playing /\ UNCHANGED <<pc, kind, current, commands>>
      BY <1>3, <1>a DEF EncodeSchedule, playback
    <2>2. \A g \in Handler : pc[g] \in {"idle", "sounding"}
      BY <2>1, EventFacts
    <2>3. TimerWaits'
      BY <2>1, <2>2 DEF TimerWaits, Remixes, Playing
    <2>4. QED BY <2>1, <2>3, <1>a DEF Apart, SlotTurn, SoundsAlone, OneAhead, Cleared, PreparesAlone, Ahead
  <1>4. ASSUME NEW h \in Handler, NEW op \in Operators, RemoveOperator(h, op)
        PROVE  Apart'
    <2>1. Event(h) /\ timer' = timer /\ UNCHANGED commands
      BY <1>4 DEF RemoveOperator
    <2>2. CASE StopPlayback(h, "stop") \/ (Playing /\ StopPlayback(h, "removal"))
      BY <2>1, <2>2, <1>b, ApartStop DEF Kind
    <2>3. CASE UNCHANGED <<pc, kind, waits, playback>>
      BY <2>1, <2>3, <1>a, ApartFrame DEF playback
    <2>4. \/ StopPlayback(h, "stop")
          \/ Playing /\ StopPlayback(h, "removal")
          \/ UNCHANGED <<pc, kind, waits, playback>>
      BY <1>4, Zenon DEF RemoveOperator
    <2>5. QED BY <2>2, <2>3, <2>4
  <1>5. ASSUME NEW h \in Handler, MixTimer(h)
        PROVE  Apart'
    <2>1. /\ Event(h) /\ ~Playing /\ timer' = FALSE /\ UNCHANGED <<current, commands>>
      BY <1>5, <1>a DEF MixTimer, playback, Apart, TimerWaits, Playing
    <2>2. CASE UNCHANGED <<pc, kind>>
      BY <2>1, <2>2, <1>a, ApartFrame
    <2>3. CASE pc' = [pc EXCEPT ![h] = "preparing"] /\ kind' = [kind EXCEPT ![h] = "tx"]
      BY <2>1, <2>3, <1>b, ApartPrepare
    <2>4. QED BY <1>5, <2>2, <2>3 DEF MixTimer
  <1>6. ASSUME NEW h \in Handler, ForceStop(h)
        PROVE  Apart'
    BY <1>6, <1>b, ApartStop DEF ForceStop, Kind, mixer
  <1>7. ASSUME NEW h \in Handler, StartTransmission(h)
        PROVE  Apart'
    <2>1. /\ pc[h] = "preparing" /\ Ahead(h) /\ h # SlotHandler /\ UNCHANGED <<kind, timer>>
      BY <1>7, <1>a DEF StartTransmission, mixer, Ahead, Apart, SlotTurn
    <2>2. CASE Play(h)
      BY <2>1, <2>2, ApartPlay
    <2>3. CASE pc' = [pc EXCEPT ![h] = "failed"] /\ UNCHANGED playback
      <3>1. /\ current' = current
            /\ \A g \in Handler : pc'[g] = IF g = h THEN "failed" ELSE "idle"
        BY <2>1, <2>3, <1>a DEF playback, TypeOK
      <3>2. SlotTurn' /\ PreparesAlone' /\ TimerWaits'
        BY <2>1, <3>1, <1>a DEF Apart, SlotTurn, PreparesAlone, TimerWaits, Remixes, Ahead
      <3>3. SoundsAlone' /\ OneAhead' /\ Cleared'
        BY <3>1, <2>1 DEF SoundsAlone, OneAhead, Cleared, Ahead
      <3>4. QED BY <3>2, <3>3 DEF Apart
    <2>4. QED BY <1>7, <2>2, <2>3 DEF StartTransmission
  <1>8. ASSUME NEW h \in Handler, PlaybackEnds(h)
        PROVE  Apart'
    BY <1>8, ApartEnd DEF PlaybackEnds, mixer
  <1>9. ASSUME NEW h \in Handler, TxFinished(h)
        PROVE  Apart'
    BY <1>9, <1>a, <1>c, <1>d DEF TxFinished, Idle, mixer, playback
  <1>10. ASSUME NEW h \in Handler, TxInterrupted(h)
        PROVE  Apart'
    BY <1>10, <1>a, <1>c, <1>d DEF TxInterrupted, Idle, mixer, playback
  <1>11. ASSUME NEW h \in Handler, TxFailed(h)
        PROVE  Apart'
    BY <1>11, <1>a, <1>c, <1>d DEF TxFailed, mixer, playback
  <1>12. ASSUME NEW h \in Handler, Remix(h)
        PROVE  Apart'
    <2>1. /\ pc[h] = "stopped" /\ kind[h] \in {"remix", "removal"} /\ UNCHANGED <<kind, timer>>
          /\ h # SlotHandler
      BY <1>12, <1>d DEF Remix, mixer
    <2>2. CASE Play(h)
      BY <2>1, <2>2, ApartPlay DEF Ahead, Remixes
    <2>3. ASSUME UNCHANGED playback, NEW p \in {"idle", "unkeying", "unkeyed"},
                 pc' = [pc EXCEPT ![h] = p]
          PROVE  Apart'
      BY <2>1, <2>3, <1>c DEF playback
    <2>4. QED BY <1>12, <2>2, <2>3 DEF Remix, Idle
  <1>13. ASSUME NEW h \in Handler, RemixEnds(h)
        PROVE  Apart'
    BY <1>13, <1>a, <1>c, <1>d DEF RemixEnds, Idle, mixer, playback
  <1>14. ASSUME NEW h \in Handler, StopUnkeys(h)
        PROVE  Apart'
    BY <1>14, <1>a, <1>c, <1>d DEF StopUnkeys, ForceStopPTT, mixer, playback
  <1>15. ASSUME NEW h \in Handler, OnSlotStart(h)
        PROVE  Apart'
    <2>1. h = SlotHandler /\ Ahead(h) /\ pc[h] = "unkeyed" /\ timer' = timer
      BY <1>15, <1>a, <1>d DEF OnSlotStart, Apart, SlotTurn, mixer
    <2>2. \A g \in Handler : Ahead(g) => g = h
      BY <2>1, <1>a DEF Apart, OneAhead
    <2>3. QED BY <1>15, <2>1, <2>2, ApartStop DEF OnSlotStart, Kind
  <1>16. ASSUME NEW h \in Handler, Clear(h)
        PROVE  Apart'
    BY <1>16, <1>a, <1>c, <1>d DEF Clear, Idle, playback
  <1>17. ASSUME NEW h \in Handler, Unkeyed(h)
        PROVE  Apart'
    BY <1>17, <1>a, <1>c, <1>d DEF Unkeyed, Idle, mixer, playback
  <1>18. CASE CommandDone
    <2>1. Drained /\ UNCHANGED <<kind, current, timer>>
      BY <1>18 DEF CommandDone, mixer, playback
    <2>2. \A g \in Handler : pc'[g] = pc[g] \/ (pc'[g] = "unkeyed" /\ pc[g] = "unkeying")
      <3>1. 1 \in DOMAIN commands /\ Head(commands) = commands[1]
        BY <1>18, <1>a, HeadTailProperties, EmptySeq DEF CommandDone, TypeOK, Command
      <3>2. \A g \in Handler : pc[g] # "unkeying" => pc'[g] = pc[g]
        BY <1>18, <1>a, <3>1 DEF CommandDone, OffAwaited, AwaitedIn, OffBy, TypeOK
      <3>3. \A g \in Handler : pc'[g] \in {pc[g], "unkeyed"}
        BY <1>18 DEF CommandDone
      <3>4. QED BY <3>2, <3>3
    <2>3. QED BY <2>1, <2>2, <1>a, ApartFrame DEF Ahead
  <1>19. CASE SlotStart
    <2> DEFINE h == SlotHandler
    <2>1. /\ Drained /\ Settled /\ pc[h] = "idle" /\ UNCHANGED <<current, timer>>
          /\ kind' = [kind EXCEPT ![h] = "slot"]
          /\ \E p \in {"unkeying", "unkeyed"} : pc' = [pc EXCEPT ![h] = p]
      BY <1>19, <1>a DEF SlotStart, SlotPTT, ForceStopPTT, mixer, playback
    <2>2. \A g \in Handler : pc[g] \in {"idle", "sounding"}
      BY <2>1, EventFacts
    <2>3. /\ \A g \in Handler : g # h => pc'[g] = pc[g] /\ kind'[g] = kind[g]
          /\ pc'[h] \in {"unkeying", "unkeyed"} /\ kind'[h] = "slot"
      BY <2>1, <1>a DEF TypeOK
    <2>4. SlotTurn' /\ TimerWaits'
      BY <2>1, <2>2, <2>3, <1>a DEF Apart, SlotTurn, TimerWaits, Remixes, Ahead
    <2>5. SoundsAlone' /\ OneAhead' /\ Cleared' /\ PreparesAlone'
      BY <2>1, <2>2, <2>3, <1>a DEF Apart, SoundsAlone, OneAhead, Cleared, PreparesAlone, Ahead
    <2>6. QED BY <2>4, <2>5 DEF Apart
  <1>20. CASE PollTick \/ RadioLost \/ RadioBack
    <2>1. Drained /\ UNCHANGED <<pc, kind, current, timer>>
      BY <1>20 DEF PollTick, RadioLost, RadioBack, mixer, playback
    <2>2. QED BY <2>1, <1>a, ApartFrame
  <1>23. QED
    BY <1>1, <1>2, <1>3, <1>4, <1>5, <1>6, <1>7, <1>8, <1>9, <1>10, <1>11, <1>12, <1>13, <1>14, <1>15, <1>16, <1>17, <1>18, <1>19, <1>20
    DEF Step, Client, EncodeComplete, Continue
-----------------------------------------------------------------------------
(* Where the calls already under way leave PTT, if none fails: on while    *)
(* audio sounds outside a slot boundary and while a remix is on its way.   *)
EndsOn == IF commands = <<>> THEN pttActive ELSE commands[Len(commands)].on
Keyed ==
  faults = 0 =>
    /\ \A h \in Handler : pc[h] # "failed"
    /\ \A h \in Handler : pc[h] = "sounding" => EndsOn \/ pc[SlotHandler] # "idle"
    /\ \A h \in Handler : Remixes(h) => EndsOn

(* Steps that turn no PTT off and start no audio without it.               *)
LEMMA KeyedFrame ==
  ASSUME Keyed, faults' = 0 => faults = 0, faults = 0 /\ EndsOn => EndsOn',
         \A g \in Handler : pc'[g] = "sounding" => pc[g] = "sounding" \/ (faults = 0 => EndsOn),
         \A g \in Handler : Remixes(g)' => Remixes(g) \/ (faults = 0 => EndsOn),
         \A g \in Handler : pc'[g] = "failed" => pc[g] = "failed" \/ faults' # 0,
         pc'[SlotHandler] = "idle" => pc[SlotHandler] = "idle"
  PROVE  Keyed'
  BY DEF Keyed

(* Steps after which nothing sounds and no remix is on its way.            *)
LEMMA KeyedQuiet ==
  ASSUME Keyed, faults' = 0 => faults = 0,
         \A g \in Handler : pc'[g] \notin {"sounding", "failed"} \/ pc'[g] = pc[g],
         \A g \in Handler : pc[g] # "sounding",
         \A g \in Handler : ~Remixes(g)'
  PROVE  Keyed'
  BY DEF Keyed

(* Nothing sounds, and no other remix is on its way, for the handler whose *)
(* playback has stopped.                                                   *)
LEMMA StoppedQuiet ==
  ASSUME ApartState, NEW h \in Handler, pc[h] = "stopped"
  PROVE  /\ \A g \in Handler : pc[g] # "sounding"
         /\ \A g \in Handler : Remixes(g) => g = h
  <1>1. current = Nobody
    BY DEF ApartState, Apart, Cleared
  <1>2. \A g \in Handler : pc[g] # "sounding"
    BY <1>1, HandlerAssumption DEF ApartState, Apart, SoundsAlone
  <1>3. \A g \in Handler : Remixes(g) => g = h
    BY DEF ApartState, Apart, OneAhead, Ahead, Remixes
  <1>4. QED BY <1>2, <1>3

(* Neither forgetting who awaits a call nor completing one changes where   *)
(* the calls leave PTT.                                                    *)
LEMMA EndsOnForget ==
  ASSUME TypeOK, NEW h, commands' = Forget(commands, h), pttActive' = pttActive
  PROVE  EndsOn' = EndsOn
  <1>1. DOMAIN commands = 1..Len(commands) /\ Len(commands) \in Nat
        /\ \A i \in 1..Len(commands) : commands[i] \in Command
    BY LenProperties, ElementOfSeq DEF TypeOK, Command
  <1>2. commands' \in Seq(Command)
    BY ForgetType DEF TypeOK, Command
  <1>3. Len(commands') = Len(commands)
    <2>1. DOMAIN commands' = 1..Len(commands)
      BY <1>1 DEF Forget
    <2>2. QED BY <1>1, <1>2, <2>1, LenProperties
  <1>4. \A i \in 1..Len(commands) : commands'[i].on = commands[i].on
    BY <1>1 DEF Forget, Command
  <1>5. commands = <<>> <=> Len(commands) = 0
    BY EmptySeq DEF TypeOK
  <1>6. commands' = <<>> <=> Len(commands') = 0
    BY <1>2, EmptySeq
  <1>7. commands # <<>> => Len(commands) \in 1..Len(commands)
    BY <1>1, <1>5
  <1>8. QED BY <1>3, <1>4, <1>5, <1>6, <1>7 DEF EndsOn

LEMMA EndsOnDone ==
  ASSUME TypeOK, CommandDone
  PROVE  EndsOn' = EndsOn
  <1>1. commands \in Seq(Command) /\ commands # <<>> /\ commands' = Tail(commands)
        /\ pttActive' = Head(commands).on
    BY DEF CommandDone, TypeOK, Command
  <1>2. /\ commands' \in Seq(Command)
        /\ Len(commands) \in Nat /\ Len(commands) >= 1
        /\ Len(commands') = Len(commands) - 1
        /\ \A i \in 1..(Len(commands) - 1) : commands'[i] = commands[i + 1]
        /\ Head(commands) = commands[1]
    BY <1>1, HeadTailProperties, EmptySeq
  <1>3. CASE Len(commands) = 1
    <2>1. commands' = <<>>
      BY <1>2, <1>3, EmptySeq
    <2>2. QED BY <1>1, <1>2, <1>3, <2>1 DEF EndsOn
  <1>4. CASE Len(commands) # 1
    <2>1. commands' # <<>>
      BY <1>2, <1>4, EmptySeq
    <2>2. commands'[Len(commands')] = commands[Len(commands)]
      BY <1>2, <1>4
    <2>3. QED BY <1>1, <2>1, <2>2 DEF EndsOn
  <1>5. QED BY <1>3, <1>4

LEMMA KeyedStep ==
  ASSUME ApartState, Keyed, Step
  PROVE  Keyed'
  <1> USE HandlerAssumption
  <1>a. /\ Apart /\ TypeOK /\ FaultFree /\ ~Overlap /\ ~IcomWlan
        /\ Drained => \A g \in Handler : pc[g] \notin {"preparing", "stopped"}
    BY DEF ApartState, IInv, Overlap, IcomWlan, Drained, Ready
  <1>b. ASSUME NEW h \in Handler, Event(h)
        PROVE  /\ h # SlotHandler /\ pc[SlotHandler] = "idle"
               /\ Playing => (faults = 0 => EndsOn)
    <2>1. /\ Drained /\ Settled /\ h # SlotHandler
      BY <1>a, <1>b DEF Event
    <2>2. pc[SlotHandler] = "idle" /\ \A g \in Handler : pc[g] = "sounding" <=> current = g
      BY <2>1, EventFacts
    <2>3. current \in Handler \cup {Nobody}
      BY <1>a DEF TypeOK
    <2>4. QED BY <2>1, <2>2, <2>3 DEF Keyed, Playing
  <1>c. ASSUME NEW h \in Handler, NEW k \in Kind, StopPlayback(h, k),
               UNCHANGED <<commands, pttActive, faults>>,
               pc[h] = "idle" => h # SlotHandler,
               k \in {"remix", "removal"} => (faults = 0 => EndsOn)
        PROVE  Keyed'
    <2>1. \A g \in Handler : pc'[g] \in {pc[g]} \cup (IF g = h THEN {"stopping", "stopped"} ELSE {})
      BY <1>a, <1>c DEF StopPlayback, TypeOK
    <2>2. \A g \in Handler : kind'[g] = IF g = h THEN k ELSE kind[g]
      BY <1>a, <1>c DEF StopPlayback, TypeOK
    <2>3. \A g \in Handler : Remixes(g)' => Remixes(g) \/ (faults = 0 => EndsOn)
      <3>1. ASSUME NEW g \in Handler, Remixes(g)' PROVE Remixes(g) \/ (faults = 0 => EndsOn)
        <4>1. CASE g = h
          BY <1>c, <2>2, <3>1, <4>1 DEF Remixes
        <4>2. CASE g # h
          BY <2>1, <2>2, <3>1, <4>2 DEF Remixes
        <4>3. QED BY <4>1, <4>2
      <3>2. QED BY <3>1
    <2>4. EndsOn' = EndsOn
      BY <1>c DEF EndsOn
    <2>5. pc'[SlotHandler] = "idle" => pc[SlotHandler] = "idle"
      BY <2>1
    <2>6. QED BY <1>c, <2>1, <2>3, <2>4, <2>5, KeyedFrame
  <1>d. ASSUME NEW h \in Handler, h # SlotHandler, NEW p \in {"idle", "preparing", "unkeying", "unkeyed"},
               kind' = kind, pc' = [pc EXCEPT ![h] = p], EndsOn' = EndsOn, faults' = faults
        PROVE  Keyed'
    <2>1. \A g \in Handler : pc'[g] = IF g = h THEN p ELSE pc[g]
      BY <1>a, <1>d DEF TypeOK
    <2>2. \A g \in Handler : Remixes(g)' => Remixes(g)
      BY <1>d, <2>1 DEF Remixes
    <2>3. QED BY <1>d, <2>1, <2>2, KeyedFrame
  <1>e. ASSUME NEW h \in Handler, pc[h] = "stopped", kind' = kind, faults' = faults,
               NEW p \in {"idle", "unkeying", "unkeyed"}, pc' = [pc EXCEPT ![h] = p]
        PROVE  Keyed'
    <2>1. \A g \in Handler : pc'[g] = IF g = h THEN p ELSE pc[g]
      BY <1>a, <1>e DEF TypeOK
    <2>2. \A g \in Handler : ~Remixes(g)'
      BY <1>e, <2>1, StoppedQuiet DEF Remixes
    <2>3. QED BY <1>e, <2>1, <2>2, StoppedQuiet, KeyedQuiet
  <1>f. ASSUME UNCHANGED <<pc, kind, commands, pttActive, faults>> PROVE Keyed'
    BY <1>f DEF Keyed, EndsOn, Remixes
  <1>g. ASSUME NEW h \in Handler, pc[h] # "idle", kind[h] # "slot" PROVE h # SlotHandler
    BY <1>a, <1>g DEF Apart, SlotTurn
  <1>h. ASSUME UNCHANGED <<commands, pttActive>> PROVE EndsOn' = EndsOn
    BY <1>h DEF EndsOn
  <1>i. ASSUME faults' # 0 PROVE Keyed'
    BY <1>i DEF Keyed
  <1>1. ASSUME NEW h \in Handler, NEW op \in Operators, NEW switched \in BOOLEAN, EncodeRemix(h, op, switched)
        PROVE  Keyed'
    BY <1>1, <1>b, <1>c DEF EncodeRemix, Kind, radio
  <1>2. ASSUME NEW h \in Handler, NEW op \in Operators, NEW switched \in BOOLEAN, EncodeMidSlot(h, op, switched)
        PROVE  Keyed'
    <2>1. Event(h) /\ UNCHANGED <<commands, pttActive, faults>>
      BY <1>2 DEF EncodeMidSlot, radio
    <2>2. CASE UNCHANGED <<pc, kind>>
      BY <2>1, <2>2, <1>f
    <2>3. CASE pc' = [pc EXCEPT ![h] = "preparing"] /\ kind' = [kind EXCEPT ![h] = "tx"]
      <3>1. h # SlotHandler /\ EndsOn' = EndsOn
        BY <2>1, <1>b, <1>h
      <3>2. \A g \in Handler : pc'[g] = IF g = h THEN "preparing" ELSE pc[g]
        BY <1>a, <2>3 DEF TypeOK
      <3>3. \A g \in Handler : Remixes(g)' => Remixes(g)
        BY <1>a, <2>3, <3>2 DEF Remixes, TypeOK
      <3>4. QED BY <2>1, <3>1, <3>2, <3>3, KeyedFrame
    <2>4. QED BY <1>2, <2>2, <2>3 DEF EncodeMidSlot
  <1>3. ASSUME NEW op \in Operators, NEW switched \in BOOLEAN, EncodeSchedule(op, switched)
        PROVE  Keyed'
    BY <1>3, <1>f DEF EncodeSchedule, radio
  <1>4. ASSUME NEW h \in Handler, NEW op \in Operators, RemoveOperator(h, op)
        PROVE  Keyed'
    <2>1. Event(h) /\ UNCHANGED <<commands, pttActive, faults>>
      BY <1>4 DEF RemoveOperator, radio
    <2>2. CASE StopPlayback(h, "stop")
      BY <2>1, <2>2, <1>b, <1>c DEF Kind
    <2>3. CASE Playing /\ StopPlayback(h, "removal")
      BY <2>1, <2>3, <1>b, <1>c DEF Kind
    <2>4. CASE UNCHANGED <<pc, kind>>
      BY <2>1, <2>4, <1>f
    <2>5. \/ StopPlayback(h, "stop")
          \/ Playing /\ StopPlayback(h, "removal")
          \/ UNCHANGED <<pc, kind>>
      BY <1>4, Zenon DEF RemoveOperator
    <2>6. QED BY <2>2, <2>3, <2>4, <2>5
  <1>5. ASSUME NEW h \in Handler, MixTimer(h)
        PROVE  Keyed'
    <2>1. Event(h) /\ UNCHANGED <<commands, pttActive, faults>>
      BY <1>5 DEF MixTimer, radio
    <2>2. CASE UNCHANGED <<pc, kind>>
      BY <2>1, <2>2, <1>f
    <2>3. CASE pc' = [pc EXCEPT ![h] = "preparing"] /\ kind' = [kind EXCEPT ![h] = "tx"]
      <3>1. h # SlotHandler /\ EndsOn' = EndsOn
        BY <2>1, <1>b, <1>h
      <3>2. \A g \in Handler : pc'[g] = IF g = h THEN "preparing" ELSE pc[g]
        BY <1>a, <2>3 DEF TypeOK
      <3>3. \A g \in Handler : Remixes(g)' => Remixes(g)
        BY <1>a, <2>3, <3>2 DEF Remixes, TypeOK
      <3>4. QED BY <2>1, <3>1, <3>2, <3>3, KeyedFrame
    <2>4. QED BY <1>5, <2>2, <2>3 DEF MixTimer
  <1>6. ASSUME NEW h \in Handler, ForceStop(h)
        PROVE  Keyed'
    BY <1>6, <1>b, <1>c DEF ForceStop, Kind, radio
  <1>7. ASSUME NEW h \in Handler, StartTransmission(h)
        PROVE  Keyed'
    <2>1. /\ pc[h] = "preparing" /\ commands = <<>> /\ kind' = kind
          /\ \A g \in Handler : g # h => pc[g] = "idle"
      BY <1>7, <1>a DEF StartTransmission, Apart, PreparesAlone
    <2>2. CASE faults' # 0
      BY <2>2, <1>i
    <2>3. CASE faults' = 0
      <3>1. faults = 0 /\ Play(h)
        BY <1>7, <1>a, <2>3 DEF StartTransmission, TypeOK
      <3>2. EndsOn'
        <4>1. connected
          BY <3>1, <1>a DEF FaultFree
        <4>2. CASE pttActive
          BY <1>7, <2>1, <4>2 DEF StartTransmission, StartPTT, EndsOn
        <4>3. CASE ~pttActive
          <5> DEFINE c == [on |-> TRUE, by |-> h]
          <5>1. commands' = Append(commands, c) /\ commands \in Seq(Command) /\ c \in Command
            BY <1>7, <1>a, <4>1, <4>3 DEF StartTransmission, StartPTT, TypeOK, Command
          <5>2. /\ commands' # <<>> /\ Len(commands') = Len(commands) + 1
                /\ commands'[Len(commands) + 1] = c
            BY <5>1, AppendProperties
          <5>3. QED BY <5>2 DEF EndsOn
        <4>4. QED BY <4>2, <4>3
      <3>3. \A g \in Handler : pc'[g] = IF g = h THEN "sounding" ELSE "idle"
        BY <1>a, <2>1, <3>1 DEF Play, TypeOK
      <3>4. QED BY <3>2, <3>3 DEF Keyed, Remixes
    <2>4. QED BY <2>2, <2>3
  <1>8. ASSUME NEW h \in Handler, PlaybackEnds(h)
        PROVE  Keyed'
    <2>1. /\ pc[h] = "sounding" /\ UNCHANGED <<kind, commands, pttActive>>
      BY <1>8 DEF PlaybackEnds
    <2>2. PICK end \in {"interrupted", "finished", "failed"} :
            EndPlayback(h, end) /\ (end = "failed" \/ faults' = faults)
            /\ (end = "failed" => faults' = faults + 1)
      BY <1>8 DEF PlaybackEnds
    <2>3. CASE end = "failed"
      BY <2>2, <2>3, <1>a, <1>i DEF TypeOK
    <2>4. CASE end # "failed"
      <3>1. \A g \in Handler : pc'[g] = IF g = h THEN end
                                       ELSE IF g \in Waiting(h) THEN "stopped" ELSE pc[g]
        BY <2>2 DEF EndPlayback
      <3>2. \A g \in Handler : Remixes(g)' => Remixes(g)
        BY <2>1, <2>2, <3>1 DEF Remixes, Waiting
      <3>3. EndsOn' = EndsOn /\ faults' = faults
        BY <2>1, <2>2, <2>4, <1>h
      <3>4. QED BY <2>2, <2>4, <3>1, <3>2, <3>3, KeyedFrame
    <2>5. QED BY <2>3, <2>4
  <1>9. ASSUME NEW h \in Handler, TxFinished(h)
        PROVE  Keyed'
    BY <1>9, <1>a, <1>d, <1>g, <1>h DEF TxFinished, Idle, radio
  <1>10. ASSUME NEW h \in Handler, TxInterrupted(h)
        PROVE  Keyed'
    BY <1>10, <1>a, <1>d, <1>g, EndsOnForget DEF TxInterrupted, InterruptedPTT, Idle, radio
  <1>11. ASSUME NEW h \in Handler, TxFailed(h)
        PROVE  Keyed'
    BY <1>11, <1>i DEF TxFailed, radio, Keyed
  <1>12. ASSUME NEW h \in Handler, Remix(h)
        PROVE  Keyed'
    <2>1. /\ pc[h] = "stopped" /\ kind[h] \in {"remix", "removal"}
          /\ UNCHANGED <<kind, faults>> /\ h # SlotHandler
      BY <1>12, <1>g DEF Remix, radio
    <2>2. CASE Play(h) /\ UNCHANGED <<pttActive, commands>>
      <3>1. \A g \in Handler : pc'[g] = IF g = h THEN "sounding" ELSE pc[g]
        BY <1>a, <2>2 DEF Play, TypeOK
      <3>2. faults = 0 => EndsOn
        BY <2>1 DEF Keyed, Remixes
      <3>3. \A g \in Handler : Remixes(g)' => Remixes(g)
        BY <2>1, <3>1 DEF Remixes
      <3>4. QED BY <2>1, <2>2, <3>1, <3>2, <3>3, <1>h, KeyedFrame
    <2>3. ASSUME NEW p \in {"idle", "unkeying", "unkeyed"}, pc' = [pc EXCEPT ![h] = p]
          PROVE  Keyed'
      BY <2>1, <2>3, <1>e
    <2>4. QED BY <1>12, <2>2, <2>3 DEF Remix, Idle
  <1>13. ASSUME NEW h \in Handler, RemixEnds(h)
        PROVE  Keyed'
    BY <1>13, <1>d, <1>g, <1>h DEF RemixEnds, Idle, radio
  <1>14. ASSUME NEW h \in Handler, StopUnkeys(h)
        PROVE  Keyed'
    BY <1>14, <1>e DEF StopUnkeys, ForceStopPTT, radio
  <1>15. ASSUME NEW h \in Handler, OnSlotStart(h)
        PROVE  Keyed'
    BY <1>15, <1>c DEF OnSlotStart, Kind, radio
  <1>16. ASSUME NEW h \in Handler, Clear(h)
        PROVE  Keyed'
    <2>1. CASE kind[h] = "slot" /\ pc[h] = "stopped"
      BY <1>16, <2>1, <1>e DEF Clear, Idle, radio
    <2>2. CASE kind[h] = "stop" /\ pc[h] = "unkeyed"
      BY <1>16, <2>2, <1>d, <1>g, <1>h DEF Clear, Idle, radio
    <2>3. QED BY <1>16, <2>1, <2>2 DEF Clear
  <1>17. ASSUME NEW h \in Handler, Unkeyed(h)
        PROVE  Keyed'
    BY <1>17, <1>d, <1>g, <1>h DEF Unkeyed, Idle, radio
  <1>18. CASE CommandDone
    <2>1. EndsOn' = EndsOn /\ kind' = kind
      BY <1>18, <1>a, EndsOnDone DEF CommandDone
    <2>2. \A g \in Handler : pc'[g] \in {pc[g], "unkeyed"}
      BY <1>18 DEF CommandDone
    <2>3. faults' = 0 => faults = 0
      BY <1>18, <1>a DEF CommandDone, Execute, TypeOK
    <2>4. \A g \in Handler : Remixes(g)' => Remixes(g)
      BY <2>1, <2>2 DEF Remixes
    <2>5. QED BY <2>1, <2>2, <2>3, <2>4, KeyedFrame
  <1>19. CASE SlotStart
    <2>1. /\ Drained /\ Settled /\ UNCHANGED faults
          /\ \E p \in {"unkeying", "unkeyed"} : pc' = [pc EXCEPT ![SlotHandler] = p]
      BY <1>19, <1>a DEF SlotStart, SlotPTT, ForceStopPTT, radio
    <2>2. \A g \in Handler : pc[g] \in {"idle", "sounding"}
      BY <2>1, EventFacts
    <2>3. /\ \A g \in Handler : g # SlotHandler => pc'[g] = pc[g]
          /\ pc'[SlotHandler] \in {"unkeying", "unkeyed"}
      BY <2>1, <1>a DEF TypeOK
    <2>4. \A g \in Handler : ~Remixes(g)'
      BY <2>2, <2>3 DEF Remixes
    <2>5. QED BY <2>1, <2>2, <2>3, <2>4 DEF Keyed
  <1>20. CASE PollTick
    <2>1. Drained /\ UNCHANGED <<pc, kind, faults>>
      BY <1>20 DEF PollTick, radio
    <2>2. CASE UNCHANGED <<commands, pttActive>>
      BY <2>1, <2>2, <1>f
    <2>3. CASE ~Playing
      <3>1. \A g \in Handler : pc[g] # "sounding"
        BY <2>3, <1>a DEF Playing, Apart, SoundsAlone
      <3>2. \A g \in Handler : pc[g] \notin {"stopping", "stopped"}
        BY <2>1, <3>1, <1>a DEF ApartState, IInv, NoDeadPlayback
      <3>3. QED BY <2>1, <3>1, <3>2, KeyedQuiet DEF Remixes
    <2>4. QED BY <1>20, <2>2, <2>3, Zenon DEF PollTick, Sounds
  <1>21. CASE RadioLost
    BY <1>21, <1>a, <1>i DEF RadioLost, TypeOK
  <1>22. CASE RadioBack
    BY <1>22, <1>f DEF RadioBack
  <1>23. QED
    BY <1>1, <1>2, <1>3, <1>4, <1>5, <1>6, <1>7, <1>8, <1>9, <1>10, <1>11, <1>12, <1>13, <1>14, <1>15, <1>16, <1>17, <1>18, <1>19, <1>20, <1>21, <1>22
    DEF Step, Client, EncodeComplete, Continue

(* The strengthened invariant of a station whose events are far apart. *)
AInv == env = {} => Apart /\ Keyed

LEMMA AInvariance == Spec => []AInv
  <1>1. Init => AInv
    <2> SUFFICES ASSUME Init PROVE AInv
      OBVIOUS
    <2>1. \A h \in Handler : pc[h] = "idle" /\ kind[h] = "tx"
      BY DEF Init
    <2>2. Apart
      BY <2>1, HandlerAssumption DEF Init, Apart, SlotTurn, SoundsAlone, OneAhead, Cleared,
        TimerWaits, PreparesAlone, Ahead
    <2>3. Keyed
      BY <2>1 DEF Keyed, Remixes
    <2>4. QED BY <2>2, <2>3 DEF AInv
  <1>2. IInv /\ AInv /\ [Next]_vars => AInv'
    <2> SUFFICES ASSUME IInv, AInv, [Next]_vars PROVE AInv'
      OBVIOUS
    <2>1. CASE Next
      BY <2>1, ApartStep, KeyedStep DEF AInv, Next, ApartState
    <2>2. CASE UNCHANGED vars
      BY <2>2 DEF AInv, vars, Apart, SlotTurn, SoundsAlone, OneAhead, Cleared,
        TimerWaits, PreparesAlone, Ahead, Remixes, Keyed, EndsOn
    <2>3. QED BY <2>1, <2>2
  <1>3. QED BY <1>1, <1>2, Invariance, PTL DEF Spec

(* Two playbacks never write to the output at once while events are far    *)
(* enough apart, for any number of operators, remixes and slot boundaries. *)
THEOREM SingleAudio == Spec => []OneAudio
  <1>1. AInv => OneAudio
    BY DEF AInv, Apart, SoundsAlone, OneAudio
  <1>2. QED BY <1>1, AInvariance, PTL

(* Audio goes out with PTT on, whatever is remixed or removed, unless a    *)
(* slot boundary is taking PTT down, for as long as no radio call failed   *)
(* and events are far enough apart.                                        *)
THEOREM AudioIsKeyed == Spec => []KeyedAudio
  <1>1. AInv => KeyedAudio
    BY DEF AInv, Keyed, EndsOn, KeyedAudio
  <1>2. QED BY <1>1, AInvariance, PTL
=============================================================================
