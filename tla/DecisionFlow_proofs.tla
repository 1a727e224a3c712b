-------------------------- MODULE DecisionFlow_proofs --------------------------
(* Proofs of the safety properties of DecisionFlow, for any number of        *)
(* operators, texts, re-decisions and slots, and any bounds.                 *)
EXTENDS DecisionFlow, Induction, SequenceTheorems

(* x is somewhere in s.                                                     *)
Has(s, x) == \E i \in DOMAIN s : s[i] = x

-----------------------------------------------------------------------------
(* What the filter returns: elements of the sequence, those at the places    *)
(* asked for and no others.                                                  *)
LEMMA KeptFacts ==
  ASSUME NEW X, NEW s \in Seq(X), NEW I
  PROVE  /\ Kept(s, I) \in Seq(X)
         /\ \A x : Has(Kept(s, I), x) <=> \E i \in DOMAIN s : i \in I /\ s[i] = x
<1> DEFINE n == Len(s)
           step == [i \in 1..n |-> [q \in Seq(X) |-> IF i \in I THEN Append(q, s[i]) ELSE q]]
           upto[k \in 0..Len(s)] ==
             IF k = 0 THEN <<>>
             ELSE IF k \in I THEN Append(upto[k - 1], s[k]) ELSE upto[k - 1]
           Good == {k \in 0..n : /\ upto[k] \in Seq(X)
                                 /\ \A x : Has(upto[k], x) <=> \E i \in 1..k : i \in I /\ s[i] = x}
<1>1. n \in Nat /\ DOMAIN s = 1..n /\ \A i \in 1..n : s[i] \in X
  BY LenProperties, ElementOfSeq
<1>2. step \in [1..n -> [Seq(X) -> Seq(X)]]
  BY <1>1
<1>3. PICK f \in [0..n -> Seq(X)] : f[0] = <<>> /\ \A i \in 1..n : f[i] = step[i][f[i - 1]]
  <2>1. <<>> \in Seq(X)
    OBVIOUS
  <2> HIDE DEF step, n
  <2>2. \E f : StepByStep(n, Seq(X), <<>>, step, f)
    BY <1>1, <1>2, <2>1, DefinedStepByStep, Zenon
  <2>3. QED BY <2>2, Zenon DEF StepByStep
<1>4. ASSUME NEW k \in 1..n
      PROVE  f[k] = IF k \in I THEN Append(f[k - 1], s[k]) ELSE f[k - 1]
  <2>1. k - 1 \in 0..n
    BY <1>1
  <2>2. f[k - 1] \in Seq(X)
    BY <2>1
  <2>3. step[k][f[k - 1]] = IF k \in I THEN Append(f[k - 1], s[k]) ELSE f[k - 1]
    BY <2>2
  <2>4. QED BY <1>3, <2>3
<1>5. f = [k \in 0..Len(s) |-> IF k = 0 THEN <<>>
             ELSE IF k \in I THEN Append(f[k - 1], s[k]) ELSE f[k - 1]]
  <2> HIDE DEF step
  <2>1. \A k \in 0..n : f[k] = IF k = 0 THEN <<>>
             ELSE IF k \in I THEN Append(f[k - 1], s[k]) ELSE f[k - 1]
    <3>1. \A k \in 0..n : k = 0 \/ k \in 1..n
      BY <1>1
    <3>2. QED BY <1>3, <1>4, <3>1
  <2>2. QED BY <2>1
<1>6. upto = [k \in 0..Len(s) |-> IF k = 0 THEN <<>>
             ELSE IF k \in I THEN Append(upto[k - 1], s[k]) ELSE upto[k - 1]]
  BY <1>5
<1> HIDE DEF upto, step
<1>7. 0 \in Good
  BY <1>1, <1>6 DEF Has
<1>8. ASSUME NEW k \in 0..(n - 1), k \in Good
      PROVE  k + 1 \in Good
  <2>1. k + 1 \in 0..n /\ upto[k] \in Seq(X) /\ k + 1 # 0 /\ (k + 1) - 1 = k
    BY <1>1, <1>8
  <2>2. upto[k + 1] = IF k + 1 \in I THEN Append(upto[k], s[k + 1]) ELSE upto[k]
    BY <1>6, <2>1
  <2>3. \A x : Has(upto[k], x) <=> \E i \in 1..k : i \in I /\ s[i] = x
    BY <1>8
  <2>4. 1..(k + 1) = 1..k \cup {k + 1}
    BY <1>1
  <2>5. CASE k + 1 \notin I
    BY <2>1, <2>2, <2>3, <2>4, <2>5
  <2>6. CASE k + 1 \in I
    <3>1. s[k + 1] \in X
      BY <1>1
    <3>2. /\ upto[k + 1] \in Seq(X)
          /\ DOMAIN upto[k + 1] = 1..(Len(upto[k]) + 1)
          /\ Len(upto[k]) \in Nat /\ DOMAIN upto[k] = 1..Len(upto[k])
          /\ \A i \in 1..Len(upto[k]) : upto[k + 1][i] = upto[k][i]
          /\ upto[k + 1][Len(upto[k]) + 1] = s[k + 1]
      BY <2>1, <2>2, <2>6, <3>1, AppendProperties, LenProperties
    <3>3. \A x : Has(upto[k + 1], x) <=> Has(upto[k], x) \/ s[k + 1] = x
      <4>1. DOMAIN upto[k + 1] = DOMAIN upto[k] \cup {Len(upto[k]) + 1}
        BY <3>2
      <4>2. QED BY <3>2, <4>1 DEF Has
    <3>4. QED BY <2>1, <2>3, <2>4, <2>6, <3>2, <3>3
  <2>7. QED BY <2>5, <2>6
<1>9. n \in Good
  <2> HIDE DEF Good
  <2>1. 0..n \subseteq Good
    BY <1>1, <1>7, <1>8, UpTo
  <2>2. QED BY <1>1, <2>1
<1>10. Kept(s, I) = upto[n]
  BY DEF Kept, upto
<1>11. QED BY <1>1, <1>9, <1>10

(* The filter that keeps the first of equal requests loses none.            *)
LEMMA UniqueFacts ==
  ASSUME NEW X, NEW s \in Seq(X)
  PROVE  /\ Unique(s) \in Seq(X)
         /\ \A x : Has(Unique(s), x) <=> Has(s, x)
<1> DEFINE I == {i \in DOMAIN s : \A j \in 1..(i - 1) : s[j] # s[i]}
<1>1. /\ Kept(s, I) \in Seq(X)
      /\ \A x : Has(Kept(s, I), x) <=> \E i \in DOMAIN s : i \in I /\ s[i] = x
  BY KeptFacts
<1>2. Len(s) \in Nat /\ DOMAIN s = 1..Len(s)
  BY LenProperties
<1>3. ASSUME NEW k \in DOMAIN s
      PROVE  \E i \in DOMAIN s : i \in I /\ s[i] = s[k]
  <2> DEFINE Same == {i \in DOMAIN s : s[i] = s[k]}
  <2>1. Same \subseteq Nat /\ Same # {}
    BY <1>2, <1>3
  <2> HIDE DEF Same
  <2>2. PICK i \in Same : \A m \in Same : i <= m
    BY <2>1, LeastElement
  <2> USE DEF Same
  <2>3. ASSUME NEW j \in 1..(i - 1)
        PROVE  s[j] # s[i]
    BY <1>2, <2>2
  <2>4. QED BY <2>2, <2>3
<1>4. \A x : Has(s, x) <=> \E i \in DOMAIN s : i \in I /\ s[i] = x
  BY <1>3 DEF Has
<1>5. QED BY <1>1, <1>4 DEF Unique

(* Concatenation has what either part has; a sequence of one, that one.     *)
LEMMA HasConcat ==
  ASSUME NEW X, NEW s \in Seq(X), NEW t \in Seq(X)
  PROVE  \A x : Has(s \o t, x) <=> Has(s, x) \/ Has(t, x)
<1>1. /\ Len(s) \in Nat /\ DOMAIN s = 1..Len(s)
      /\ Len(t) \in Nat /\ DOMAIN t = 1..Len(t)
      /\ s \o t \in Seq(X) /\ Len(s \o t) = Len(s) + Len(t)
      /\ DOMAIN (s \o t) = 1..(Len(s) + Len(t))
  BY LenProperties, ConcatProperties
<1>2. /\ \A i \in 1..Len(s) : (s \o t)[i] = s[i]
      /\ \A i \in 1..Len(t) : (s \o t)[Len(s) + i] = t[i]
  BY <1>1, ConcatProperties
<1>3. ASSUME NEW x, Has(s \o t, x)
      PROVE  Has(s, x) \/ Has(t, x)
  <2>1. PICK i \in 1..(Len(s) + Len(t)) : (s \o t)[i] = x
    BY <1>1, <1>3 DEF Has
  <2>2. CASE i <= Len(s)
    BY <1>1, <1>2, <2>1, <2>2 DEF Has
  <2>3. CASE i > Len(s)
    <3>1. i - Len(s) \in 1..Len(t) /\ i = Len(s) + (i - Len(s))
      BY <1>1, <2>3
    <3>2. t[i - Len(s)] = x
      BY <1>2, <2>1, <3>1
    <3>3. QED BY <1>1, <3>1, <3>2 DEF Has
  <2>4. QED BY <1>1, <2>2, <2>3
<1>4. ASSUME NEW x, Has(s, x)
      PROVE  Has(s \o t, x)
  BY <1>1, <1>2, <1>4 DEF Has
<1>5. ASSUME NEW x, Has(t, x)
      PROVE  Has(s \o t, x)
  <2>1. PICK i \in 1..Len(t) : t[i] = x
    BY <1>1, <1>5 DEF Has
  <2>2. Len(s) + i \in 1..(Len(s) + Len(t)) /\ (s \o t)[Len(s) + i] = x
    BY <1>1, <1>2, <2>1
  <2>3. QED BY <1>1, <2>2 DEF Has
<1>6. QED BY <1>3, <1>4, <1>5

(* What processPendingTransmissions takes: all that was pending, and these. *)
LEMMA TakeFacts ==
  ASSUME NEW reqs \in Seq(Req), pending \in Seq(Req), TakeRequests(reqs)
  PROVE  /\ pending' = <<>> /\ work' \in Seq(Req)
         /\ \A x : Has(work', x) <=> Has(pending, x) \/ Has(reqs, x)
<1>1. pending \o reqs \in Seq(Req)
  BY ConcatProperties
<1>2. /\ Unique(pending \o reqs) \in Seq(Req)
      /\ \A x : Has(Unique(pending \o reqs), x) <=> Has(pending \o reqs, x)
  BY <1>1, UniqueFacts
<1>3. \A x : Has(pending \o reqs, x) <=> Has(pending, x) \/ Has(reqs, x)
  BY HasConcat
<1>4. QED BY <1>2, <1>3 DEF TakeRequests

-----------------------------------------------------------------------------
(* Types.                                                                    *)

(* The operators of a behaviour stay what they are.                          *)
LEMMA Fixed ==
  ASSUME bound' = bound
  PROVE  /\ Order' = Order /\ Present' = Present
         /\ Loops' = Loops /\ RedoRuns' = RedoRuns /\ Req' = Req /\ Queued' = Queued
BY DEF Order, Present, Loops, RedoRuns, Req, Queued

(* The order is a non-empty sequence in which each operator has one place.   *)
LEMMA OrderFacts ==
  ASSUME TypeOK
  PROVE  /\ Order \in Seq(Present) /\ Len(Order) \in Nat \ {0}
         /\ DOMAIN Order = 1..Len(Order)
         /\ \A i \in DOMAIN Order : Order[i] \in Present
         /\ \A i, j \in DOMAIN Order : Order[i] = Order[j] => i = j
<1>1. /\ Order \in Seq(Ops) /\ Order # <<>>
      /\ \A i, j \in DOMAIN Order : Order[i] = Order[j] => i = j
  BY FlowAssumption DEF TypeOK, Order
<1>2. Len(Order) \in Nat \ {0} /\ DOMAIN Order = 1..Len(Order) /\ Order \in [1..Len(Order) -> Ops]
  BY <1>1, EmptySeq, LenProperties
<1>3. \A i \in DOMAIN Order : Order[i] \in Present
  BY DEF Present
<1>4. Order \in Seq(Present)
  BY <1>2, <1>3
<1>5. QED BY <1>1, <1>2, <1>3, <1>4

(* The place after an operator's, in the loop and in a re-decision.          *)
LEMMA PlaceFacts ==
  ASSUME TypeOK
  PROVE  /\ Following(loop) \in [pc : {"idle", "hooks"}, i : DOMAIN Order, stop : BOOLEAN]
         /\ Following(loop) \in Loops
         /\ \A r \in Redos : Advance(redo[r]) \in [pc : {"idle", "next"}, i : DOMAIN Order,
                                                   stop : BOOLEAN, ver : Nat]
         /\ \A r \in Redos : Advance(redo[r]) \in RedoRuns
<1>1. 1 \in DOMAIN Order /\ DOMAIN Order = 1..Len(Order) /\ Len(Order) \in Nat \ {0}
  BY OrderFacts
<1>2. IdleLoop \in [pc : {"idle", "hooks"}, i : DOMAIN Order, stop : BOOLEAN]
  BY <1>1 DEF IdleLoop
<1>3. Following(loop) \in [pc : {"idle", "hooks"}, i : DOMAIN Order, stop : BOOLEAN]
  <2>1. loop.i \in DOMAIN Order /\ (loop.i # Len(Order) => loop.i + 1 \in DOMAIN Order)
    BY <1>1 DEF TypeOK, Loops
  <2>2. QED BY <1>2, <2>1 DEF Following, IdleLoop
<1>4. ASSUME NEW r \in Redos
      PROVE  Advance(redo[r]) \in [pc : {"idle", "next"}, i : DOMAIN Order,
                                   stop : BOOLEAN, ver : Nat]
  <2>1. redo[r] \in [pc : {"idle", "next", "waking", "scoring", "deciding", "notifying"},
                     i : DOMAIN Order, stop : BOOLEAN, ver : Nat]
    BY DEF TypeOK, RedoRuns
  <2>2. redo[r].i \in DOMAIN Order /\ (redo[r].i # Len(Order) => redo[r].i + 1 \in DOMAIN Order)
    BY <1>1, <2>1
  <2>3. QED BY <1>1, <2>1, <2>2 DEF Advance, IdleRedo
<1>5. QED BY <1>3, <1>4 DEF Loops, RedoRuns

(* The requests that checkAndTriggerTransmission sends: the operator's own.  *)
LEMMA TriggerFacts ==
  ASSUME TypeOK, NEW o \in Present,
         NEW st \in Stations, CheckAndTrigger(o, st)
  PROVE  /\ pending' \in Seq(Req) /\ work' \in Seq(Req)
         /\ Triggered(o, st) = <<>> => pending' = pending /\ work' = work
         /\ Triggered(o, st) # <<>> =>
              /\ Triggered(o, st) = <<Wanted(o, st.text)>>
              /\ pending' = <<>>
              /\ \A x : Has(work', x) <=> Has(pending, x) \/ x = Wanted(o, st.text)
<1>1. CASE Triggered(o, st) = <<>>
  BY <1>1 DEF CheckAndTrigger, TypeOK
<1>2. CASE Triggered(o, st) # <<>>
  <2>1. /\ Triggered(o, st) = <<Wanted(o, st.text)>> /\ TakeRequests(Triggered(o, st))
        /\ st.text # None
    BY <1>2 DEF CheckAndTrigger, Triggered, Speaks
  <2>2. Wanted(o, st.text) \in Req
    BY <2>1 DEF Wanted, Req, Stations
  <2>3. <<Wanted(o, st.text)>> \in Seq(Req)
    BY <2>2
  <2>4. /\ pending' = <<>> /\ work' \in Seq(Req)
        /\ \A x : Has(work', x) <=> Has(pending, x) \/ Has(<<Wanted(o, st.text)>>, x)
    BY <2>1, <2>3, TakeFacts DEF TypeOK
  <2>5. \A x : Has(<<Wanted(o, st.text)>>, x) <=> x = Wanted(o, st.text)
    BY DEF Has
  <2>6. QED BY <1>2, <2>1, <2>4, <2>5
<1>3. QED BY <1>1, <1>2

(* Each step keeps the types: what an action assigns is in its set, and the  *)
(* rest is unchanged.                                                        *)

(* An encode fails.                                                         *)
LEMMA TypeEncodeError ==
  ASSUME TypeOK, EncodeError, bound' = bound
  PROVE  TypeOK'
<1>1. /\ Order' = Order /\ Present' = Present
      /\ Loops' = Loops /\ RedoRuns' = RedoRuns /\ Req' = Req /\ Queued' = Queued
  BY Fixed
<1>2. UNCHANGED <<clock, loop, redo, decodes, station, session, pending, work,
                  latest, guard, stamp, air, calls>>
  BY DEF EncodeError, deciding, encoding, count, Happens, Calls, Event, Disturb
<1>3. queue' \in Seq(Queued)
  BY HeadTailProperties DEF EncodeError, TypeOK
<1>4. events' \in Nat
  BY DEF EncodeError, Happens, TypeOK
<1>5. disturbed' \subseteq Present
  <2>1. Head(queue) \in Queued
    BY HeadTailProperties DEF EncodeError, TypeOK
  <2>2. QED BY <2>1 DEF EncodeError, Disturb, TypeOK, Queued
<1>6. QED BY <1>1, <1>2, <1>3, <1>4, <1>5 DEF TypeOK

(* A slot begins.                                                           *)
LEMMA TypeSlotTick ==
  ASSUME TypeOK, SlotTick, bound' = bound
  PROVE  TypeOK'
<1>1. /\ Order' = Order /\ Present' = Present
      /\ Loops' = Loops /\ RedoRuns' = RedoRuns /\ Req' = Req /\ Queued' = Queued
  BY Fixed
<1>2. UNCHANGED <<loop, redo, station, session, pending, work, queue, latest,
                  guard, air, calls, events>>
  BY DEF SlotTick, deciding, encoding, count, Happens, Calls, Event, Disturb
<1>3. clock' \in Clocks
  BY DEF SlotTick, TypeOK, Clocks
<1>4. decodes' \in Nat
  BY DEF SlotTick
<1>5. stamp' \in [Present -> Nat]
  BY DEF SlotTick
<1>6. disturbed' \subseteq Present
  <2>1. \A i \in DOMAIN queue : queue[i] \in Queued
    BY LenProperties, ElementOfSeq DEF TypeOK
  <2>2. QED BY <2>1 DEF SlotTick, Queued
<1>7. QED BY <1>1, <1>2, <1>3, <1>4, <1>5, <1>6 DEF TypeOK

(* Its handler clears what the previous slot left.                          *)
LEMMA TypeSlotStart ==
  ASSUME TypeOK, SlotStart, bound' = bound
  PROVE  TypeOK'
<1>1. /\ Order' = Order /\ Present' = Present
      /\ Loops' = Loops /\ RedoRuns' = RedoRuns /\ Req' = Req /\ Queued' = Queued
  BY Fixed
<1>2. UNCHANGED <<redo, decodes, station, session, pending, work, queue, guard,
                  stamp, calls, events, disturbed>>
  BY DEF SlotStart, deciding, encoding, count, Happens, Calls, Event, Disturb
<1>3. clock' \in Clocks
  BY DEF SlotStart, TypeOK, Clocks
<1>4. loop' \in Loops
  <2>1. 1 \in DOMAIN Order
    BY OrderFacts
  <2>2. QED BY <2>1 DEF SlotStart, IdleLoop, Loops
<1>5. latest' \in [Present -> Id \cup {None}]
  BY DEF SlotStart
<1>6. air' \in [Present -> Answer \cup {None}]
  BY DEF SlotStart
<1>7. QED BY <1>1, <1>2, <1>3, <1>4, <1>5, <1>6 DEF TypeOK

(* Hooks of an operator.                                                    *)
LEMMA TypeLoopHooks ==
  ASSUME TypeOK, LoopHooks, bound' = bound
  PROVE  TypeOK'
<1>1. /\ Order' = Order /\ Present' = Present
      /\ Loops' = Loops /\ RedoRuns' = RedoRuns /\ Req' = Req /\ Queued' = Queued
  BY Fixed
<1>2. UNCHANGED <<clock, redo, decodes, station, pending, work, queue, latest,
                  guard, stamp, air, calls, events, disturbed>>
  BY DEF LoopHooks, deciding, encoding, count, Happens, Calls, Event, Disturb
<1>3. loop' \in Loops
  <2>1. loop \in Loops
    BY DEF TypeOK
  <2>2. [loop EXCEPT !.pc = "scoring"] \in Loops
    BY <2>1 DEF Loops
  <2>3. loop' = [loop EXCEPT !.pc = "scoring"] \/ loop' = Following(loop)
    BY DEF LoopHooks
  <2>4. QED BY <2>2, <2>3, PlaceFacts
<1>4. session' \in [Present -> Sessions]
  <2> DEFINE o == Order[loop.i]
  <2>1. CASE station[o].on
    <3>1. session' = [session EXCEPT ![o].seen = None, ![o].last = None, ![o].pre = None]
      BY <2>1 DEF LoopHooks
    <3> HIDE DEF o
    <3>2. session \in [Present -> Sessions]
      BY DEF TypeOK
    <3>3. QED BY <3>1, <3>2 DEF Sessions
  <2>2. CASE ~station[o].on
    BY <2>2 DEF LoopHooks, TypeOK
  <2>3. QED BY <2>1, <2>2
<1>5. QED BY <1>1, <1>2, <1>3, <1>4 DEF TypeOK

(* Its candidates have been scored.                                         *)
LEMMA TypeLoopScored ==
  ASSUME TypeOK, LoopScored, bound' = bound
  PROVE  TypeOK'
<1>1. /\ Order' = Order /\ Present' = Present
      /\ Loops' = Loops /\ RedoRuns' = RedoRuns /\ Req' = Req /\ Queued' = Queued
  BY Fixed
<1>2. UNCHANGED <<clock, redo, decodes, station, pending, work, queue, latest,
                  guard, stamp, air, calls, events, disturbed>>
  BY DEF LoopScored, deciding, encoding, count, Happens, Calls, Event, Disturb
<1>3. loop' \in Loops
  BY DEF LoopScored, TypeOK, Loops
<1>4. session' \in [Present -> Sessions]
  BY DEF LoopScored, TypeOK, Sessions
<1>5. QED BY <1>1, <1>2, <1>3, <1>4 DEF TypeOK

(* Its strategy has decided.                                                *)
LEMMA TypeLoopDecided ==
  ASSUME TypeOK, LoopDecided, bound' = bound
  PROVE  TypeOK'
<1>1. /\ Order' = Order /\ Present' = Present
      /\ Loops' = Loops /\ RedoRuns' = RedoRuns /\ Req' = Req /\ Queued' = Queued
  BY Fixed
<1>2. UNCHANGED <<clock, redo, decodes, pending, work, queue, latest, guard,
                  stamp, air, calls, events, disturbed>>
  BY DEF LoopDecided, deciding, encoding, count, Happens, Calls, Event, Disturb
<1>3. loop' \in Loops
  BY DEF LoopDecided, TypeOK, Loops
<1>4. station' \in [Present -> Stations]
  <2> DEFINE o == Order[loop.i]
  <2>1. \E text \in Texts \cup {None} : station' = [station EXCEPT ![o].text = text]
    BY DEF LoopDecided
  <2> HIDE DEF o
  <2>2. station \in [Present -> Stations]
    BY DEF TypeOK
  <2>3. QED BY <2>1, <2>2 DEF Stations
<1>5. session' \in [Present -> Sessions]
  <2> DEFINE o == Order[loop.i]
           now == [slot |-> clock.slot, ver |-> 0]
  <2>1. \E text \in Texts \cup {None}, seen \in {now, session[o].seen} :
          session' = [session EXCEPT ![o].busy = FALSE, ![o].seen = seen, ![o].last = text]
    BY DEF LoopDecided
  <2>2. now \in [slot : Nat, ver : Nat]
    BY DEF TypeOK, Clocks
  <2>3. o \in Present
    BY OrderFacts DEF TypeOK, Loops
  <2> HIDE DEF o, now
  <2>4. PICK text \in Texts \cup {None}, seen \in {now, session[o].seen} :
          session' = [session EXCEPT ![o].busy = FALSE, ![o].seen = seen, ![o].last = text]
    BY <2>1
  <2>5. session \in [Present -> Sessions] /\ session[o].seen \in [slot : Nat, ver : Nat] \cup {None}
    BY <2>3 DEF TypeOK, Sessions
  <2>6. seen \in [slot : Nat, ver : Nat] \cup {None}
    BY <2>2, <2>4, <2>5
  <2>7. session' = [session EXCEPT ![o] = [session[o] EXCEPT !.busy = FALSE, !.seen = seen,
                                                             !.last = text]]
    BY <2>4, Zenon
  <2>8. [session[o] EXCEPT !.busy = FALSE, !.seen = seen, !.last = text] \in Sessions
    BY <2>3, <2>5, <2>6 DEF Sessions
  <2>9. QED BY <2>3, <2>5, <2>7, <2>8
<1>6. QED BY <1>1, <1>2, <1>3, <1>4, <1>5 DEF TypeOK

(* Its strategy stops it.                                                   *)
LEMMA TypeLoopStop ==
  ASSUME TypeOK, LoopStop, bound' = bound
  PROVE  TypeOK'
<1>1. /\ Order' = Order /\ Present' = Present
      /\ Loops' = Loops /\ RedoRuns' = RedoRuns /\ Req' = Req /\ Queued' = Queued
  BY Fixed
<1>2. UNCHANGED <<clock, redo, decodes, session, pending, work, queue, latest,
                  guard, stamp, air, calls, events, disturbed>>
  BY DEF LoopStop, deciding, encoding, count, Happens, Calls, Event, Disturb
<1>3. loop' \in Loops
  BY PlaceFacts DEF LoopStop
<1>4. station' \in [Present -> Stations]
  BY DEF LoopStop, TypeOK, Stations
<1>5. QED BY <1>1, <1>2, <1>3, <1>4 DEF TypeOK

(* Late decodes arrive.                                                     *)
LEMMA TypeLateDecode ==
  ASSUME TypeOK, LateDecode, bound' = bound
  PROVE  TypeOK'
<1>1. /\ Order' = Order /\ Present' = Present
      /\ Loops' = Loops /\ RedoRuns' = RedoRuns /\ Req' = Req /\ Queued' = Queued
  BY Fixed
<1>2. UNCHANGED <<clock, loop, station, session, pending, work, queue, latest,
                  guard, stamp, air, calls, events, disturbed>>
  BY DEF LateDecode, deciding, encoding, count, Happens, Calls, Event, Disturb
<1>3. decodes' \in Nat
  BY DEF LateDecode, TypeOK
<1>4. redo' \in [Redos -> RedoRuns]
  <2> DEFINE begun == [IdleRedo EXCEPT !.pc = "next", !.ver = decodes + 1]
  <2>1. begun \in RedoRuns
    <3>1. 1 \in DOMAIN Order /\ decodes + 1 \in Nat
      BY OrderFacts DEF TypeOK
    <3>2. QED BY <3>1 DEF IdleRedo, RedoRuns
  <2>2. \E r \in Redos : redo' = [redo EXCEPT ![r] = begun]
    BY DEF LateDecode
  <2> HIDE DEF begun
  <2>3. QED BY <2>1, <2>2 DEF TypeOK
<1>5. QED BY <1>1, <1>2, <1>3, <1>4 DEF TypeOK

(* The checks of a re-decision.                                             *)
LEMMA TypeRedoNext ==
  ASSUME TypeOK, NEW r \in Redos, RedoNext(r), bound' = bound
  PROVE  TypeOK'
<1>1. /\ Order' = Order /\ Present' = Present
      /\ Loops' = Loops /\ RedoRuns' = RedoRuns /\ Req' = Req /\ Queued' = Queued
  BY Fixed
<1>2. UNCHANGED <<clock, loop, decodes, station, session, pending, work, queue,
                  latest, guard, stamp, air, calls, events, disturbed>>
  BY DEF RedoNext, deciding, encoding, count, Happens, Calls, Event, Disturb
<1>3. redo' \in [Redos -> RedoRuns]
  <2>1. \/ redo' = [redo EXCEPT ![r].pc = "scoring"]
        \/ redo' = [redo EXCEPT ![r] = Advance(redo[r])]
        \/ redo' = [redo EXCEPT ![r].pc = "waking"]
    BY DEF RedoNext
  <2>2. Advance(redo[r]) \in RedoRuns
    BY PlaceFacts
  <2>3. redo \in [Redos -> RedoRuns]
    BY DEF TypeOK
  <2>4. QED BY <2>1, <2>2, <2>3 DEF RedoRuns
<1>4. QED BY <1>1, <1>2, <1>3 DEF TypeOK

(* A re-decision has its scores.                                            *)
LEMMA TypeRedoScored ==
  ASSUME TypeOK, NEW r \in Redos, RedoScored(r), bound' = bound
  PROVE  TypeOK'
<1>1. /\ Order' = Order /\ Present' = Present
      /\ Loops' = Loops /\ RedoRuns' = RedoRuns /\ Req' = Req /\ Queued' = Queued
  BY Fixed
<1>2. UNCHANGED <<clock, loop, decodes, station, pending, work, queue, latest,
                  guard, stamp, air, calls, events, disturbed>>
  BY DEF RedoScored, deciding, encoding, count, Happens, Calls, Event, Disturb
<1>3. redo' \in [Redos -> RedoRuns]
  <2>1. redo' = [redo EXCEPT ![r].pc = "deciding"]
    BY DEF RedoScored
  <2>2. redo \in [Redos -> RedoRuns]
    BY DEF TypeOK
  <2>3. QED BY <2>1, <2>2 DEF RedoRuns
<1>4. session' \in [Present -> Sessions]
  BY DEF RedoScored, TypeOK, Sessions
<1>5. QED BY <1>1, <1>2, <1>3, <1>4 DEF TypeOK

(* A re-decision is made.                                                   *)
LEMMA TypeRedoDecided ==
  ASSUME TypeOK, NEW r \in Redos, RedoDecided(r), bound' = bound
  PROVE  TypeOK'
<1>1. /\ Order' = Order /\ Present' = Present
      /\ Loops' = Loops /\ RedoRuns' = RedoRuns /\ Req' = Req /\ Queued' = Queued
  BY Fixed
<1>2. UNCHANGED <<clock, loop, decodes, pending, work, queue, latest, guard,
                  stamp, air, calls, events>>
  BY DEF RedoDecided, deciding, encoding, count, Happens, Calls, Event, Disturb
<1>3. redo' \in [Redos -> RedoRuns]
  <2>1. \E stop \in BOOLEAN : redo' = [redo EXCEPT ![r].pc = "notifying", ![r].stop = stop]
    BY DEF RedoDecided
  <2>2. PICK stop \in BOOLEAN : redo' = [redo EXCEPT ![r].pc = "notifying", ![r].stop = stop]
    BY <2>1
  <2>3. redo \in [Redos -> RedoRuns]
    BY DEF TypeOK
  <2>4. QED BY <2>2, <2>3 DEF RedoRuns
<1>4. station' \in [Present -> Stations]
  <2> DEFINE o == Order[redo[r].i]
  <2>1. \E text \in Texts \cup {None} : station' = [station EXCEPT ![o].text = text]
    BY DEF RedoDecided
  <2> HIDE DEF o
  <2>2. station \in [Present -> Stations]
    BY DEF TypeOK
  <2>3. QED BY <2>1, <2>2 DEF Stations
<1>5. session' \in [Present -> Sessions]
  <2> DEFINE o == Order[redo[r].i]
  <2>1. session' = [session EXCEPT ![o].busy = FALSE]
    BY DEF RedoDecided
  <2> HIDE DEF o
  <2>2. session \in [Present -> Sessions]
    BY DEF TypeOK
  <2>3. QED BY <2>1, <2>2 DEF Sessions
<1>6. disturbed' \subseteq Present
  BY OrderFacts DEF RedoDecided, Disturb, TypeOK, RedoRuns
<1>7. QED BY <1>1, <1>2, <1>3, <1>4, <1>5, <1>6 DEF TypeOK

(* An operator is stopped.                                                  *)
LEMMA TypeStopOperator ==
  ASSUME TypeOK, NEW o \in Present, StopOperator(o), bound' = bound
  PROVE  TypeOK'
<1>1. /\ Order' = Order /\ Present' = Present
      /\ Loops' = Loops /\ RedoRuns' = RedoRuns /\ Req' = Req /\ Queued' = Queued
  BY Fixed
<1>2. UNCHANGED <<clock, loop, redo, decodes, session, pending, work, queue,
                  latest, stamp, air, calls>>
  BY DEF StopOperator, deciding, encoding, count, Happens, Calls, Event, Disturb
<1>3. events' \in Nat
  BY DEF StopOperator, Event, Happens, TypeOK
<1>4. guard' \in [Present -> Guards \cup {None}]
  BY DEF StopOperator, TypeOK
<1>5. station' \in [Present -> Stations]
  BY DEF StopOperator, TypeOK, Stations
<1>6. disturbed' \subseteq Present
  BY DEF StopOperator, Disturb, TypeOK
<1>7. QED BY <1>1, <1>2, <1>3, <1>4, <1>5, <1>6 DEF TypeOK

(* A plugin sends a free text.                                              *)
LEMMA TypeSendFreeText ==
  ASSUME TypeOK, NEW o \in Present, SendFreeText(o), bound' = bound
  PROVE  TypeOK'
<1>1. /\ Order' = Order /\ Present' = Present
      /\ Loops' = Loops /\ RedoRuns' = RedoRuns /\ Req' = Req /\ Queued' = Queued
  BY Fixed
<1>2. UNCHANGED <<clock, loop, redo, decodes, station, session, work, queue,
                  latest, guard, stamp, air, calls, disturbed>>
  BY DEF SendFreeText, deciding, encoding, count, Happens, Calls, Event, Disturb
<1>3. events' \in Nat
  BY DEF SendFreeText, Event, Happens, TypeOK
<1>4. pending' \in Seq(Req)
  <2>1. \A text \in Texts : Wanted(o, text) \in Req
    BY DEF Wanted, Req
  <2>2. QED BY <2>1, AppendProperties DEF SendFreeText, TypeOK
<1>5. QED BY <1>1, <1>2, <1>3, <1>4 DEF TypeOK

(* A request's guard state after one more request is one.                    *)
LEMMA CountedFacts ==
  ASSUME TypeOK, NEW o \in Present, NEW text \in Texts
  PROVE  /\ Counted(guard[o], text) \in Guards
         /\ Counted(guard[o], text).slot = clock.slot
<1>1. clock.slot \in Nat
  BY DEF TypeOK, Clocks
<1>2. guard[o] = None \/ guard[o] \in Guards
  BY DEF TypeOK
<1>3. QED BY <1>1, <1>2 DEF Counted, Guards

(* The next request gets its id, is skipped, or stops its operator.          *)
LEMMA TypeRequest ==
  ASSUME TypeOK, Request, bound' = bound
  PROVE  TypeOK'
<1> DEFINE o == Head(work).op
           text == Head(work).text
           g == Counted(guard[o], text)
<1>1. /\ Order' = Order /\ Present' = Present
      /\ Loops' = Loops /\ RedoRuns' = RedoRuns /\ Req' = Req /\ Queued' = Queued
  BY Fixed
<1>2. Head(work) \in Req /\ work' \in Seq(Req)
  BY HeadTailProperties DEF Request, TypeOK
<1>3. o \in Present /\ text \in Texts
  BY <1>2 DEF Req
<1>4. g \in Guards
  BY <1>3, CountedFacts
<1>5. UNCHANGED <<clock, loop, redo, decodes, session, air, calls, events>>
  BY DEF Request, deciding, count
<1>6. CASE UNCHANGED <<station, pending, queue, latest, guard, stamp, disturbed>>
  BY <1>1, <1>2, <1>5, <1>6 DEF TypeOK
<1>7. CASE /\ station' = [station EXCEPT ![o].on = FALSE]
           /\ pending' = Kept(pending, {i \in DOMAIN pending : pending[i].op # o})
           /\ latest' = [latest EXCEPT ![o] = None] /\ guard' = [guard EXCEPT ![o] = None]
           /\ UNCHANGED <<queue, stamp, disturbed>>
  <2>1. station \in [Present -> Stations]
    BY DEF TypeOK
  <2>2. station' \in [Present -> Stations]
    BY <1>7, <2>1 DEF Stations
  <2>3. pending' \in Seq(Req)
    BY <1>7, KeptFacts DEF TypeOK
  <2>4. latest' \in [Present -> Id \cup {None}] /\ guard' \in [Present -> Guards \cup {None}]
    BY <1>7 DEF TypeOK
  <2>5. QED BY <1>1, <1>2, <1>5, <1>7, <2>2, <2>3, <2>4 DEF TypeOK
<1>8. CASE \E ms \in {stamp[o], stamp[o] + 1} :
             LET id == [slot |-> clock.slot, ms |-> ms]
             IN /\ stamp' = [stamp EXCEPT ![o] = ms]
                /\ latest' = [latest EXCEPT ![o] = id]
                /\ queue' = Append(queue, [op |-> o, text |-> text, id |-> id])
                /\ Disturb(IF latest[o] = id THEN {o} ELSE {})
                /\ guard' = [guard EXCEPT ![o] = g]
                /\ UNCHANGED <<station, pending>>
  <2> HIDE DEF o, text, g
  <2>1. PICK ms \in {stamp[o], stamp[o] + 1} :
               /\ stamp' = [stamp EXCEPT ![o] = ms]
               /\ latest' = [latest EXCEPT ![o] = [slot |-> clock.slot, ms |-> ms]]
               /\ queue' = Append(queue, [op |-> o, text |-> text,
                                          id |-> [slot |-> clock.slot, ms |-> ms]])
               /\ disturbed' \subseteq disturbed \cup {o}
               /\ guard' = [guard EXCEPT ![o] = g]
               /\ UNCHANGED <<station, pending>>
    BY <1>8 DEF Disturb
  <2>2. ms \in Nat /\ [slot |-> clock.slot, ms |-> ms] \in Id
    BY <1>3 DEF TypeOK, Clocks, Id
  <2>3. [op |-> o, text |-> text, id |-> [slot |-> clock.slot, ms |-> ms]] \in Queued
    BY <1>3, <2>2 DEF Queued
  <2>4. queue' \in Seq(Queued)
    BY <2>1, <2>3, AppendProperties DEF TypeOK
  <2>5. /\ stamp' \in [Present -> Nat] /\ latest' \in [Present -> Id \cup {None}]
        /\ guard' \in [Present -> Guards \cup {None}] /\ disturbed' \subseteq Present
    BY <1>3, <1>4, <2>1, <2>2 DEF TypeOK
  <2>6. QED BY <1>1, <1>2, <1>5, <2>1, <2>4, <2>5 DEF TypeOK
<1>9. QED BY <1>6, <1>7, <1>8 DEF Request

(* An answer arrives.                                                        *)
LEMMA TypeEncodeComplete ==
  ASSUME TypeOK, EncodeComplete, bound' = bound
  PROVE  TypeOK'
<1> DEFINE q == Head(queue)
           held == [text |-> q.text, id |-> q.id, at |-> clock.slot]
           fresh == [o \in Present |-> IF air[o] # None /\ air[o].at = clock.slot
                                       THEN air[o] ELSE None]
<1>1. /\ Order' = Order /\ Present' = Present
      /\ Loops' = Loops /\ RedoRuns' = RedoRuns /\ Req' = Req /\ Queued' = Queued
  BY Fixed
<1>2. UNCHANGED <<clock, loop, redo, decodes, station, session, pending, work, latest, guard,
                  stamp, calls, events, disturbed>>
  BY DEF EncodeComplete, deciding, count
<1>3. q \in Queued /\ queue' \in Seq(Queued)
  BY HeadTailProperties DEF EncodeComplete, TypeOK
<1>4. held \in Answer
  BY <1>3 DEF Queued, Answer, TypeOK, Clocks
<1>5. fresh \in [Present -> Answer \cup {None}]
  BY DEF TypeOK
<1>6. air' = air \/ air' = [fresh EXCEPT ![q.op] = held]
  BY DEF EncodeComplete
<1> HIDE DEF q, held, fresh
<1>7. air' \in [Present -> Answer \cup {None}]
  BY <1>4, <1>5, <1>6 DEF TypeOK
<1>8. QED BY <1>1, <1>2, <1>3, <1>7 DEF TypeOK

(* The texts that are to be sent in a slot are asked for.                    *)
LEMMA EncodeStartFacts ==
  ASSUME TypeOK, EncodeStart
  PROVE  /\ pending' = <<>> /\ work' \in Seq(Req)
         /\ \A x : Has(work', x) <=>
              Has(pending, x) \/ \E o \in Present :
                                  /\ Sends(o) /\ station[o].text # None
                                  /\ x = Wanted(o, station[o].text)
<1> DEFINE sending == Kept(Order, {i \in DOMAIN Order :
                                     Sends(Order[i]) /\ station[Order[i]].text # None})
           reqs == [i \in DOMAIN sending |-> Wanted(sending[i], station[sending[i]].text)]
<1>1. sending \in Seq(Present)
  BY KeptFacts, OrderFacts
<1>2. \A x : Has(sending, x) <=> x \in Present /\ Sends(x) /\ station[x].text # None
  <2>1. \A x : Has(sending, x) <=> \E i \in DOMAIN Order :
                 /\ i \in {j \in DOMAIN Order :
                               Sends(Order[j]) /\ station[Order[j]].text # None}
                 /\ Order[i] = x
    BY KeptFacts, OrderFacts
  <2>2. QED BY <2>1 DEF Present
<1>3. DOMAIN sending = 1..Len(sending) /\ Len(sending) \in Nat
      /\ \A i \in DOMAIN sending : sending[i] \in Present
  BY <1>1, LenProperties, ElementOfSeq
<1>4. TakeRequests(reqs)
  BY DEF EncodeStart
<1> HIDE DEF sending
<1>5. \A o \in Present : station[o].text # None => Wanted(o, station[o].text) \in Req
  <2>1. station \in [Present -> Stations]
    BY DEF TypeOK
  <2>2. QED BY <2>1 DEF Wanted, Req, Stations
<1>6. reqs \in Seq(Req)
  <2>1. \A i \in DOMAIN sending : station[sending[i]].text # None
    BY <1>2 DEF Has
  <2>2. QED BY <1>3, <1>5, <2>1
<1>7. \A x : Has(reqs, x) <=> \E i \in DOMAIN sending : x = Wanted(sending[i], station[sending[i]].text)
  BY DEF Has
<1>8. \A x : Has(reqs, x) <=> \E o \in Present : /\ Sends(o) /\ station[o].text # None
                                                 /\ x = Wanted(o, station[o].text)
  BY <1>2, <1>3, <1>7 DEF Has
<1> HIDE DEF reqs
<1>9. /\ pending' = <<>> /\ work' \in Seq(Req)
      /\ \A x : Has(work', x) <=> Has(pending, x) \/ Has(reqs, x)
  BY <1>4, <1>6, TakeFacts DEF TypeOK
<1>10. QED BY <1>8, <1>9

(* What is pending, and a call's station, have their types.                  *)
LEMMA PartFacts ==
  ASSUME TypeOK
  PROVE  /\ {pending[i].op : i \in DOMAIN pending} \subseteq Present
         /\ \A o \in Present, text \in Texts : Called(o, text) \in Stations
         /\ NewSession \in Sessions
<1>1. \A i \in DOMAIN pending : pending[i] \in Req
  BY LenProperties, ElementOfSeq DEF TypeOK
<1>2. {pending[i].op : i \in DOMAIN pending} \subseteq Present
  BY <1>1 DEF Req
<1>3. clock.slot % 2 \in {0, 1}
  BY DEF TypeOK, Clocks
<1>4. QED BY <1>2, <1>3 DEF Called, Stations, NewSession, Sessions


(* encodeStart asks for the texts.                                          *)
LEMMA TypeEncodeStart ==
  ASSUME TypeOK, EncodeStart, bound' = bound
  PROVE  TypeOK'
<1>1. /\ Order' = Order /\ Present' = Present
      /\ Loops' = Loops /\ RedoRuns' = RedoRuns /\ Req' = Req /\ Queued' = Queued
  BY Fixed
<1>2. UNCHANGED <<loop, redo, decodes, station, queue, latest, guard, stamp, air,
                  calls, events>>
  BY DEF EncodeStart, deciding, encoding, count, Happens, Calls, Event, Disturb
<1>3. clock' \in Clocks
  BY DEF EncodeStart, TypeOK, Clocks
<1>4. pending' \in Seq(Req)
  BY EncodeStartFacts
<1>5. work' \in Seq(Req)
  BY EncodeStartFacts
<1>6. session' \in [Present -> Sessions]
  <2>1. session \in [Present -> Sessions] /\ station \in [Present -> Stations]
    BY DEF TypeOK
  <2>2. \A o \in Present : [session[o] EXCEPT !.pre = station[o].text] \in Sessions
    BY <2>1 DEF Stations, Sessions
  <2>3. QED BY <2>1, <2>2 DEF EncodeStart
<1>7. disturbed' \subseteq Present
  BY PartFacts DEF EncodeStart, Disturb, TypeOK
<1>8. QED BY <1>1, <1>2, <1>3, <1>4, <1>5, <1>6, <1>7 DEF TypeOK

(* The gate wakes an operator.                                              *)
LEMMA TypeLoopWake ==
  ASSUME TypeOK, LoopWake, bound' = bound
  PROVE  TypeOK'
<1>1. /\ Order' = Order /\ Present' = Present
      /\ Loops' = Loops /\ RedoRuns' = RedoRuns /\ Req' = Req /\ Queued' = Queued
  BY Fixed
<1>2. Order[loop.i] \in Present
  BY OrderFacts DEF TypeOK, Loops
<1>3. UNCHANGED <<clock, redo, decodes, queue, latest, guard, stamp, air, events>>
  BY DEF LoopWake, deciding, encoding, count, Happens, Calls, Event, Disturb
<1>4. calls' \in Nat
  BY DEF LoopWake, Calls, TypeOK
<1>5. loop' \in Loops
  BY PlaceFacts DEF LoopWake
<1>6. station' \in [Present -> Stations]
  <2>1. PICK text \in Texts : station' = [station EXCEPT ![Order[loop.i]] = Called(Order[loop.i], text)]
    BY DEF LoopWake
  <2>2. QED BY <2>1, PartFacts DEF TypeOK
<1>7. session' \in [Present -> Sessions]
  <2>1. session \in [Present -> Sessions]
    BY DEF TypeOK
  <2>2. session' = [session EXCEPT ![Order[loop.i]].seen = None]
    BY DEF LoopWake
  <2>3. QED BY <2>1, <2>2 DEF Sessions
<1>8. pending' \in Seq(Req)
  <2>1. \E text \in Texts : CheckAndTrigger(Order[loop.i], Called(Order[loop.i], text))
    BY DEF LoopWake
  <2>2. \A text \in Texts : Called(Order[loop.i], text) \in Stations
    BY <1>2, PartFacts
  <2>3. QED BY <1>2, <2>1, <2>2, TriggerFacts
<1>9. work' \in Seq(Req)
  <2>1. \E text \in Texts : CheckAndTrigger(Order[loop.i], Called(Order[loop.i], text))
    BY DEF LoopWake
  <2>2. \A text \in Texts : Called(Order[loop.i], text) \in Stations
    BY <1>2, PartFacts
  <2>3. QED BY <1>2, <2>1, <2>2, TriggerFacts
<1>10. disturbed' \subseteq Present
  BY <1>2, PartFacts DEF LoopWake, Disturb, TypeOK
<1>11. QED BY <1>1, <1>2, <1>3, <1>4, <1>5, <1>6, <1>7, <1>8, <1>9, <1>10 DEF TypeOK

(* A plugin calls for an operator.                                          *)
LEMMA TypeLoopAutoCall ==
  ASSUME TypeOK, LoopAutoCall, bound' = bound
  PROVE  TypeOK'
<1>1. /\ Order' = Order /\ Present' = Present
      /\ Loops' = Loops /\ RedoRuns' = RedoRuns /\ Req' = Req /\ Queued' = Queued
  BY Fixed
<1>2. Order[loop.i] \in Present
  BY OrderFacts DEF TypeOK, Loops
<1>3. UNCHANGED <<clock, redo, decodes, queue, latest, guard, stamp, air, events>>
  BY DEF LoopAutoCall, deciding, encoding, count, Happens, Calls, Event, Disturb
<1>4. calls' \in Nat
  BY DEF LoopAutoCall, Calls, TypeOK
<1>5. loop' \in Loops
  <2>1. loop \in Loops /\ loop' = [loop EXCEPT !.pc = "deciding"]
    BY DEF LoopAutoCall, TypeOK
  <2>2. QED BY <2>1 DEF Loops
<1>6. station' \in [Present -> Stations]
  <2>1. PICK text \in Texts : station' = [station EXCEPT ![Order[loop.i]] = Called(Order[loop.i], text)]
    BY DEF LoopAutoCall
  <2>2. QED BY <2>1, PartFacts DEF TypeOK
<1>7. session' \in [Present -> Sessions]
  <2>1. [NewSession EXCEPT !.busy = TRUE] \in Sessions
    BY DEF NewSession, Sessions
  <2>2. session' = [session EXCEPT ![Order[loop.i]] = [NewSession EXCEPT !.busy = TRUE]]
    BY DEF LoopAutoCall
  <2>3. QED BY <2>1, <2>2 DEF TypeOK
<1>8. pending' \in Seq(Req)
  <2>1. \E text \in Texts : CheckAndTrigger(Order[loop.i], Called(Order[loop.i], text))
    BY DEF LoopAutoCall
  <2>2. \A text \in Texts : Called(Order[loop.i], text) \in Stations
    BY <1>2, PartFacts
  <2>3. QED BY <1>2, <2>1, <2>2, TriggerFacts
<1>9. work' \in Seq(Req)
  <2>1. \E text \in Texts : CheckAndTrigger(Order[loop.i], Called(Order[loop.i], text))
    BY DEF LoopAutoCall
  <2>2. \A text \in Texts : Called(Order[loop.i], text) \in Stations
    BY <1>2, PartFacts
  <2>3. QED BY <1>2, <2>1, <2>2, TriggerFacts
<1>10. disturbed' \subseteq Present
  BY <1>2, PartFacts DEF LoopAutoCall, Disturb, TypeOK
<1>11. QED BY <1>1, <1>2, <1>3, <1>4, <1>5, <1>6, <1>7, <1>8, <1>9, <1>10 DEF TypeOK

(* The plugins have heard of a failed QSO.                                  *)
LEMMA TypeLoopNotified ==
  ASSUME TypeOK, LoopNotified, bound' = bound
  PROVE  TypeOK'
<1>1. /\ Order' = Order /\ Present' = Present
      /\ Loops' = Loops /\ RedoRuns' = RedoRuns /\ Req' = Req /\ Queued' = Queued
  BY Fixed
<1>2. Order[loop.i] \in Present
  BY OrderFacts DEF TypeOK, Loops
<1>3. UNCHANGED <<clock, redo, decodes, station, queue, latest, guard, stamp,
                  air, calls, events>>
  BY DEF LoopNotified, deciding, encoding, count, Happens, Calls, Event, Disturb
<1>4. loop' \in Loops
  <2>1. loop \in Loops
    BY DEF TypeOK
  <2>2. [loop EXCEPT !.pc = "stop"] \in Loops
    BY <2>1 DEF Loops
  <2>3. QED BY <2>2, PlaceFacts DEF LoopNotified
<1>5. session' \in [Present -> Sessions]
  <2>1. session \in [Present -> Sessions]
    BY DEF TypeOK
  <2>2. session' = [session EXCEPT ![Order[loop.i]].pre = None]
    BY DEF LoopNotified
  <2>3. QED BY <2>1, <2>2 DEF Sessions
<1>6. pending' \in Seq(Req)
  <2>1. CheckAndTrigger(Order[loop.i], station[Order[loop.i]]) \/ UNCHANGED <<pending, work>>
    BY DEF LoopNotified
  <2>2. station[Order[loop.i]] \in Stations
    BY <1>2 DEF TypeOK
  <2>3. QED BY <1>2, <2>1, <2>2, TriggerFacts DEF TypeOK
<1>7. work' \in Seq(Req)
  <2>1. CheckAndTrigger(Order[loop.i], station[Order[loop.i]]) \/ UNCHANGED <<pending, work>>
    BY DEF LoopNotified
  <2>2. station[Order[loop.i]] \in Stations
    BY <1>2 DEF TypeOK
  <2>3. QED BY <1>2, <2>1, <2>2, TriggerFacts DEF TypeOK
<1>8. disturbed' \subseteq Present
  <2>1. disturbed' \subseteq disturbed \cup {pending[i].op : i \in DOMAIN pending}
    BY DEF LoopNotified, Disturb
  <2>2. QED BY <2>1, PartFacts DEF TypeOK
<1>9. QED BY <1>1, <1>2, <1>3, <1>4, <1>5, <1>6, <1>7, <1>8 DEF TypeOK

(* The gate has looked at a stopped operator.                               *)
LEMMA TypeRedoWake ==
  ASSUME TypeOK, NEW r \in Redos, RedoWake(r), bound' = bound
  PROVE  TypeOK'
<1>1. /\ Order' = Order /\ Present' = Present
      /\ Loops' = Loops /\ RedoRuns' = RedoRuns /\ Req' = Req /\ Queued' = Queued
  BY Fixed
<1>2. Order[redo[r].i] \in Present
  BY OrderFacts DEF TypeOK, RedoRuns
<1>3. UNCHANGED <<clock, loop, decodes, queue, latest, guard, stamp, air, events>>
  BY DEF RedoWake, deciding, encoding, count, Happens, Calls, Event, Disturb
<1>4. redo' \in [Redos -> RedoRuns]
  <2>1. redo' = [redo EXCEPT ![r] = Advance(redo[r])]
    BY DEF RedoWake
  <2>2. QED BY <2>1, PlaceFacts DEF TypeOK
<1>5. calls' \in Nat
  <2>1. calls' = calls \/ calls' = calls + 1
    BY DEF RedoWake, Calls, count
  <2>2. QED BY <2>1 DEF TypeOK
<1>6. station' \in [Present -> Stations]
  <2> DEFINE o == Order[redo[r].i]
  <2>1. \/ station' = station
        \/ \E text \in Texts : station' = [station EXCEPT ![o] = Called(o, text)]
    BY DEF RedoWake
  <2>2. \A text \in Texts : Called(o, text) \in Stations
    BY <1>2, PartFacts
  <2>3. station \in [Present -> Stations]
    BY DEF TypeOK
  <2> HIDE DEF o
  <2>4. QED BY <2>1, <2>2, <2>3
<1>7. session' \in [Present -> Sessions]
  <2>1. session \in [Present -> Sessions]
    BY DEF TypeOK
  <2>2. session' = session \/ session' = [session EXCEPT ![Order[redo[r].i]].seen = None]
    BY DEF RedoWake
  <2>3. QED BY <2>1, <2>2 DEF Sessions
<1>8. pending' \in Seq(Req)
  <2>1. pending' = pending \/ pending' = <<>>
    BY DEF RedoWake
  <2>2. pending \in Seq(Req) /\ <<>> \in Seq(Req)
    BY DEF TypeOK
  <2>3. QED BY <2>1, <2>2
<1>9. work' \in Seq(Req)
  <2> DEFINE o == Order[redo[r].i]
  <2>1. \/ work' = work
        \/ \E text \in Texts :
             work' = Unique(Append(pending, Wanted(o, text))) \o <<Wanted(o, text)>>
    BY DEF RedoWake
  <2>2. ASSUME NEW text \in Texts
        PROVE  Unique(Append(pending, Wanted(o, text))) \o <<Wanted(o, text)>> \in Seq(Req)
    <3> HIDE DEF o
    <3>1. Wanted(o, text) \in Req
      BY <1>2 DEF Wanted, Req, o
    <3>2. Append(pending, Wanted(o, text)) \in Seq(Req) /\ <<Wanted(o, text)>> \in Seq(Req)
      BY <3>1, AppendProperties DEF TypeOK
    <3>3. Unique(Append(pending, Wanted(o, text))) \in Seq(Req)
      BY <3>2, UniqueFacts
    <3>4. QED BY <3>2, <3>3, ConcatProperties
  <2> HIDE DEF o
  <2>3. QED BY <2>1, <2>2 DEF TypeOK
<1>10. disturbed' \subseteq Present
  <2>1. disturbed' \subseteq disturbed \cup {Order[redo[r].i]} \cup {pending[i].op : i \in DOMAIN pending}
    BY DEF RedoWake, Disturb
  <2>2. QED BY <1>2, <2>1, PartFacts DEF TypeOK
<1>11. QED BY <1>1, <1>2, <1>3, <1>4, <1>5, <1>6, <1>7, <1>8, <1>9, <1>10 DEF TypeOK

(* The plugins have heard of a re-decision.                                 *)
LEMMA TypeRedoNotified ==
  ASSUME TypeOK, NEW r \in Redos, RedoNotified(r), bound' = bound
  PROVE  TypeOK'
<1>1. /\ Order' = Order /\ Present' = Present
      /\ Loops' = Loops /\ RedoRuns' = RedoRuns /\ Req' = Req /\ Queued' = Queued
  BY Fixed
<1>2. Order[redo[r].i] \in Present
  BY OrderFacts DEF TypeOK, RedoRuns
<1>3. UNCHANGED <<clock, loop, decodes, queue, latest, guard, stamp, calls,
                  events>>
  BY DEF RedoNotified, deciding, encoding, count, Happens, Calls, Event, Disturb
<1>4. redo' \in [Redos -> RedoRuns]
  <2>1. redo' = [redo EXCEPT ![r] = Advance(redo[r])]
    BY DEF RedoNotified
  <2>2. QED BY <2>1, PlaceFacts DEF TypeOK
<1>5. station' \in [Present -> Stations]
  <2>1. station \in [Present -> Stations]
    BY DEF TypeOK
  <2>2. station' = station \/ station' = [station EXCEPT ![Order[redo[r].i]].on = FALSE]
    BY DEF RedoNotified
  <2>3. QED BY <2>1, <2>2 DEF Stations
<1>6. session' \in [Present -> Sessions]
  <2> DEFINE o == Order[redo[r].i]
           now == [slot |-> clock.slot, ver |-> redo[r].ver]
  <2>1. session \in [Present -> Sessions]
    BY DEF TypeOK
  <2>2. now \in [slot : Nat, ver : Nat]
    BY DEF TypeOK, Clocks, RedoRuns
  <2>3. station[o].text \in Texts \cup {None}
    BY <1>2 DEF TypeOK, Stations
  <2>4. session' = session \/ session' = [session EXCEPT ![o].last = station[o].text, ![o].seen = now]
    BY DEF RedoNotified
  <2> HIDE DEF o, now
  <2>5. QED BY <2>1, <2>2, <2>3, <2>4 DEF Sessions
<1>7. air' \in [Present -> Answer \cup {None}]
  BY DEF RedoNotified, TypeOK
<1>8. pending' \in Seq(Req)
  <2>1. CheckAndTrigger(Order[redo[r].i], station[Order[redo[r].i]]) \/ UNCHANGED <<pending, work>>
    BY DEF RedoNotified
  <2>2. station[Order[redo[r].i]] \in Stations
    BY <1>2 DEF TypeOK
  <2>3. QED BY <1>2, <2>1, <2>2, TriggerFacts DEF TypeOK
<1>9. work' \in Seq(Req)
  <2>1. CheckAndTrigger(Order[redo[r].i], station[Order[redo[r].i]]) \/ UNCHANGED <<pending, work>>
    BY DEF RedoNotified
  <2>2. station[Order[redo[r].i]] \in Stations
    BY <1>2 DEF TypeOK
  <2>3. QED BY <1>2, <2>1, <2>2, TriggerFacts DEF TypeOK
<1>10. disturbed' \subseteq Present
  <2>1. disturbed' \subseteq disturbed \cup {pending[i].op : i \in DOMAIN pending}
    BY DEF RedoNotified, Disturb
  <2>2. QED BY <2>1, PartFacts DEF TypeOK
<1>11. QED BY <1>1, <1>2, <1>3, <1>4, <1>5, <1>6, <1>7, <1>8, <1>9, <1>10 DEF TypeOK

(* An operator is started.                                                  *)
LEMMA TypeStartOperator ==
  ASSUME TypeOK, NEW o \in Present, StartOperator(o), bound' = bound
  PROVE  TypeOK'
<1>1. /\ Order' = Order /\ Present' = Present
      /\ Loops' = Loops /\ RedoRuns' = RedoRuns /\ Req' = Req /\ Queued' = Queued
  BY Fixed
<1>2. [station[o] EXCEPT !.on = TRUE] \in Stations
  <2>1. station[o] \in Stations
    BY DEF TypeOK
  <2>2. QED BY <2>1 DEF Stations
<1>3. UNCHANGED <<clock, loop, redo, decodes, session, queue, latest, stamp, air,
                  calls>>
  BY DEF StartOperator, deciding, encoding, count, Happens, Calls, Event, Disturb
<1>4. events' \in Nat
  BY DEF StartOperator, Event, Happens, TypeOK
<1>5. guard' \in [Present -> Guards \cup {None}]
  BY DEF StartOperator, TypeOK
<1>6. station' \in [Present -> Stations]
  <2>1. station \in [Present -> Stations] /\ station' = [station EXCEPT ![o].on = TRUE]
    BY DEF StartOperator, TypeOK
  <2>2. QED BY <2>1 DEF Stations
<1>7. pending' \in Seq(Req)
  BY <1>2, TriggerFacts DEF StartOperator
<1>8. work' \in Seq(Req)
  BY <1>2, TriggerFacts DEF StartOperator
<1>9. disturbed' \subseteq Present
  BY PartFacts DEF StartOperator, Disturb, TypeOK
<1>10. QED BY <1>1, <1>2, <1>3, <1>4, <1>5, <1>6, <1>7, <1>8, <1>9 DEF TypeOK

(* An operator is changed from outside.                                     *)
LEMMA TypeRevise ==
  ASSUME TypeOK, NEW o \in Present, NEW st \in Stations, Revise(o, st), bound' = bound
  PROVE  TypeOK'
<1>1. /\ Order' = Order /\ Present' = Present
      /\ Loops' = Loops /\ RedoRuns' = RedoRuns /\ Req' = Req /\ Queued' = Queued
  BY Fixed
<1>2. UNCHANGED <<clock, loop, redo, decodes, queue, latest, guard, stamp, air,
                  calls>>
  BY DEF Revise, encoding, Event, Happens
<1>3. events' \in Nat
  BY DEF Revise, Event, Happens, TypeOK
<1>4. station' \in [Present -> Stations]
  BY DEF Revise, TypeOK
<1>5. session' \in [Present -> Sessions]
  <2>1. session \in [Present -> Sessions]
    BY DEF TypeOK
  <2>2. session' = [session EXCEPT ![o].seen = None]
    BY DEF Revise
  <2>3. QED BY <2>1, <2>2 DEF Sessions
<1>6. pending' \in Seq(Req) /\ work' \in Seq(Req)
  BY TriggerFacts DEF Revise
<1>7. disturbed' \subseteq Present
  BY PartFacts DEF Revise, Disturb, TypeOK
<1>8. QED BY <1>1, <1>2, <1>3, <1>4, <1>5, <1>6, <1>7 DEF TypeOK

(* What a call, a new text or another cycle makes of an operator.           *)
LEMMA RevisedFacts ==
  ASSUME TypeOK, NEW o \in Present, RequestCall(o) \/ ChangeText(o) \/ ChangeCycle(o)
  PROVE  \E st \in Stations : Revise(o, st)
<1>1. station[o] \in Stations
  BY DEF TypeOK
<1>2. \A text \in Texts \cup {None} : [station[o] EXCEPT !.text = text] \in Stations
  BY <1>1 DEF Stations
<1>3. \A cycle \in {0, 1} : [station[o] EXCEPT !.cycle = cycle] \in Stations
  BY <1>1 DEF Stations
<1>4. \A text \in Texts : Called(o, text) \in Stations
  BY PartFacts
<1>5. QED BY <1>2, <1>3, <1>4 DEF RequestCall, ChangeText, ChangeCycle

LEMMA TypeInit == Init => TypeOK
<1> SUFFICES ASSUME Init PROVE TypeOK
  OBVIOUS
<1>1. bound.order \in Seq(Ops) /\ bound.order # <<>>
  BY FlowAssumption DEF Init
<1>2. 1 \in DOMAIN Order
  BY <1>1, EmptySeq, LenProperties DEF Order
<1>3. loop \in Loops
  BY <1>2 DEF Init, IdleLoop, Loops
<1>4. redo \in [Redos -> RedoRuns]
  BY <1>2 DEF Init, IdleRedo, RedoRuns
<1>5. session \in [Present -> Sessions]
  BY DEF Init, NewSession, Sessions
<1>6. station \in [Present -> Stations] /\ clock \in Clocks
  BY DEF Init, Stations, Clocks
<1>7. QED BY <1>3, <1>4, <1>5, <1>6 DEF Init, TypeOK

LEMMA TypeNext == TypeOK /\ [Next]_vars => TypeOK'
<1> SUFFICES ASSUME TypeOK, [Next]_vars PROVE TypeOK'
  OBVIOUS
<1>1. CASE UNCHANGED vars
  <2>1. Order' = Order /\ Present' = Present /\ Loops' = Loops /\ RedoRuns' = RedoRuns
        /\ Req' = Req /\ Queued' = Queued
    BY <1>1, Fixed DEF vars
  <2>2. QED BY <1>1, <2>1 DEF vars, deciding, encoding, count, TypeOK
<1>2. CASE Next
  <2>1. Step /\ bound' = bound
    BY <1>2 DEF Next
  <2>2. CASE Request \/ EncodeComplete \/ EncodeError
    BY <2>1, <2>2, TypeRequest, TypeEncodeComplete, TypeEncodeError
  <2>3. CASE SlotTick \/ SlotStart \/ EncodeStart \/ LateDecode
    BY <2>1, <2>3, TypeSlotTick, TypeSlotStart, TypeEncodeStart, TypeLateDecode
  <2>4. CASE Loop
    BY <2>1, <2>4, TypeLoopHooks, TypeLoopWake, TypeLoopAutoCall, TypeLoopScored,
       TypeLoopDecided, TypeLoopNotified, TypeLoopStop DEF Loop
  <2>5. ASSUME NEW r \in Redos, Redo(r)
        PROVE  TypeOK'
    BY <2>1, <2>5, TypeRedoNext, TypeRedoWake, TypeRedoScored, TypeRedoDecided,
       TypeRedoNotified DEF Redo
  <2>6. ASSUME NEW o \in Present, Acts(o)
        PROVE  TypeOK'
    BY <2>1, <2>6, TypeStartOperator, TypeStopOperator, RevisedFacts, TypeRevise,
       TypeSendFreeText DEF Acts
  <2>7. QED BY <2>1, <2>2, <2>3, <2>4, <2>5, <2>6 DEF Step
<1>3. QED BY <1>1, <1>2

(* Every state of every behaviour has the types of TypeOK: each handler's    *)
(* place is that of an operator, each request one of an operator that is     *)
(* there, and each operator's record is complete.                            *)
THEOREM TypeCorrect == Spec => []TypeOK
<1>1. QED BY TypeInit, TypeNext, PTL DEF Spec

-----------------------------------------------------------------------------
(* The invariant of the slot: for an operator whose slot takes its plain     *)
(* course, how far its requests are and with which texts.                    *)

Bounded ==
  /\ loop.pc # "idle" => clock.ready
  /\ \A o \in Present : guard[o] # None => guard[o].count <= MaxSame
  /\ \A o \in Present : latest[o] # None => latest[o].slot <= clock.slot
  /\ \A o \in Present : air[o] # None => air[o].at <= clock.slot

(* The texts that are about to get an id; an encode under way; an answer.    *)
Works(o) == {work[i].text : i \in {j \in DOMAIN work : work[j].op = o}}
InQueue(o) == \E i \in DOMAIN queue : queue[i].op = o
OnAir(o) == air[o] # None /\ air[o].at = clock.slot

(* The newest id is of this slot, and the last that the clock has given.     *)
Asked(o) == latest[o] = [slot |-> clock.slot, ms |-> stamp[o]]

AtLoop(o) == loop.pc # "idle" /\ Order[loop.i] = o
Decided(o) == AtLoop(o) => loop.pc \in {"notifying", "stop"}

(* Before its decision in the slot nothing has been asked for, and a late    *)
(* decision only follows the slot's own.                                     *)
Untouched(o) ==
  /\ Unreached(o) => /\ ~clock.encoded /\ Works(o) = {} /\ ~InQueue(o) /\ ~OnAir(o)
                     /\ clock.ready => latest[o] = None
  /\ Undecided(o) => ~Unannounced(o)

(* The ids of an operator's requests grow, from that of its audio in the     *)
(* mixer over those in the queue to the newest.                              *)
Numbered(o) ==
  /\ InQueue(o) \/ OnAir(o) => Asked(o)
  /\ \A i \in DOMAIN queue : queue[i].op = o =>
       /\ queue[i].id.slot = clock.slot /\ queue[i].id.ms <= stamp[o]
       /\ OnAir(o) => air[o].id.ms < queue[i].id.ms
  /\ \A i, j \in DOMAIN queue :
       i < j /\ queue[i].op = o /\ queue[j].op = o => queue[i].id.ms < queue[j].id.ms
  /\ OnAir(o) => air[o].id.slot = clock.slot /\ air[o].id.ms <= stamp[o]
  /\ clock.ready /\ latest[o] # None => Asked(o)
  /\ clock.ready /\ air[o] # None => OnAir(o)
  /\ Asked(o) => guard[o] # None /\ guard[o].slot = clock.slot

(* Only an operator that sends in this slot has any of them.                 *)
InCycle(o) == Works(o) # {} \/ InQueue(o) \/ OnAir(o) => InTxCycle(o)

(* What the orchestrator notes of the texts it has seen is right.            *)
Remembered(o) ==
  station[o].on =>
    /\ ~Unreached(o) /\ Decided(o) /\ ~Unannounced(o) => session[o].last = station[o].text
    /\ ~clock.encoded /\ ~Unreached(o) /\ AtLoop(o) /\ loop.pc # "stop" =>
         session[o].pre = None
    /\ InTxCycle(o) /\ clock.encoded /\ AtLoop(o) /\ loop.pc # "stop" =>
         IF Decided(o) THEN session[o].pre = None => session[o].last = None
         ELSE session[o].pre = station[o].text /\ session[o].pre # None

(* The text of the newest request, wherever that is.                         *)
Awaited(o, text) ==
  /\ Asked(o)
  /\ \/ \E i \in DOMAIN queue :
          queue[i].op = o /\ queue[i].id = latest[o] /\ queue[i].text = text
     \/ OnAir(o) /\ air[o].id = latest[o] /\ air[o].text = text
Carried(o, text) == IF Works(o) # {} THEN Works(o) = {text} ELSE Awaited(o, text)

(* Between encodeStart and the notices of the decision that is the text      *)
(* noted at encodeStart, else that of the last decision, if there is one.    *)
Noted(o) == IF AtLoop(o) /\ loop.pc # "stop" THEN session[o].pre ELSE session[o].last
Announced(o) ==
  station[o].on /\ InTxCycle(o) /\ clock.encoded /\ Noted(o) # None => Carried(o, Noted(o))

Plain(o) == Untouched(o) /\ Numbered(o) /\ InCycle(o) /\ Remembered(o) /\ Announced(o)

FlowInv == Bounded /\ \A o \in Present \ disturbed : Plain(o)

-----------------------------------------------------------------------------
(* What is asked for an operator, and by whom.                               *)

LEMMA WorksFacts ==
  ASSUME NEW o \in Present, work \in Seq(Req)
  PROVE  \A text : text \in Works(o) <=> Has(work, Wanted(o, text))
<1>1. \A i \in DOMAIN work : work[i] \in Req
  BY LenProperties, ElementOfSeq
<1>2. ASSUME NEW text, text \in Works(o)
      PROVE  Has(work, Wanted(o, text))
  <2>1. PICK i \in DOMAIN work : work[i].op = o /\ work[i].text = text
    BY <1>2 DEF Works
  <2>2. work[i] = Wanted(o, text)
    BY <1>1, <2>1 DEF Req, Wanted
  <2>3. QED BY <2>2 DEF Has
<1>3. ASSUME NEW text, Has(work, Wanted(o, text))
      PROVE  text \in Works(o)
  <2>1. PICK i \in DOMAIN work : work[i] = Wanted(o, text)
    BY <1>3 DEF Has
  <2>2. work[i].op = o /\ work[i].text = text
    BY <2>1 DEF Wanted
  <2>3. QED BY <2>2 DEF Works
<1>4. QED BY <1>2, <1>3

(* The same of the next state.                                               *)
LEMMA WorksNext ==
  ASSUME TypeOK', bound' = bound, NEW o \in Present
  PROVE  \A text : text \in Works(o)' <=> Has(work', Wanted(o, text))
<1>1. Present' = Present /\ Req' = Req /\ work' \in Seq(Req)
  BY Fixed DEF TypeOK
<1>2. \A i \in DOMAIN work' : work'[i] \in Req
  BY <1>1, LenProperties, ElementOfSeq
<1>3. ASSUME NEW text, text \in Works(o)'
      PROVE  Has(work', Wanted(o, text))
  <2>1. PICK i \in DOMAIN work' : work'[i].op = o /\ work'[i].text = text
    BY <1>3 DEF Works
  <2>2. work'[i] = Wanted(o, text)
    BY <1>2, <2>1 DEF Req, Wanted
  <2>3. QED BY <2>2 DEF Has
<1>4. ASSUME NEW text, Has(work', Wanted(o, text))
      PROVE  text \in Works(o)'
  <2>1. PICK i \in DOMAIN work' : work'[i] = Wanted(o, text)
    BY <1>4 DEF Has
  <2>2. work'[i].op = o /\ work'[i].text = text
    BY <2>1 DEF Wanted
  <2>3. QED BY <2>2 DEF Works
<1>5. QED BY <1>3, <1>4

(* No request of an operator that is not among the pending ones' is there.   *)
PendingOps == {pending[i].op : i \in DOMAIN pending}

LEMMA NonePending ==
  ASSUME NEW o, o \notin PendingOps
  PROVE  \A text : ~Has(pending, Wanted(o, text))
BY DEF PendingOps, Has, Wanted

LEMMA QuietWorks ==
  ASSUME Quiet, NEW o
  PROVE  Works(o) = {}
BY DEF Quiet, Works

(* After checkAndTriggerTransmission an operator of which nothing was        *)
(* pending is asked for by its own call, with its text, or not at all.       *)
LEMMA TriggerWorks ==
  ASSUME TypeOK, TypeOK', bound' = bound, Quiet, NEW p \in Present, NEW st \in Stations,
         CheckAndTrigger(p, st), NEW o \in Present, o \notin PendingOps
  PROVE  Works(o)' = IF o = p /\ Speaks(st) THEN {st.text} ELSE {}
<1>1. \A text : text \in Works(o)' <=> Has(work', Wanted(o, text))
  BY WorksNext
<1>2. \A text : ~Has(pending, Wanted(o, text))
  BY NonePending
<1>3. CASE Triggered(p, st) = <<>>
  <2>1. ~Speaks(st)
    BY <1>3 DEF Triggered
  <2>2. work' = <<>>
    BY <1>3, TriggerFacts DEF Quiet
  <2>3. Works(o)' = {}
    BY <2>2 DEF Works
  <2>4. QED BY <2>1, <2>3
<1>4. CASE Triggered(p, st) # <<>>
  <2>1. Speaks(st)
    BY <1>4 DEF Triggered
  <2>2. \A x : Has(work', x) <=> Has(pending, x) \/ x = Wanted(p, st.text)
    BY <1>4, TriggerFacts
  <2>3. \A text : text \in Works(o)' <=> Wanted(o, text) = Wanted(p, st.text)
    BY <1>1, <1>2, <2>2
  <2>4. \A text : Wanted(o, text) = Wanted(p, st.text) <=> o = p /\ text = st.text
    BY DEF Wanted
  <2>5. \A text : text \in Works(o)' <=> o = p /\ text = st.text
    BY <2>3, <2>4
  <2>6. QED BY <2>1, <2>5
<1>5. QED BY <1>3, <1>4

(* After encodeStart, likewise: with its text if it sends in this slot.      *)
LEMMA StartWorks ==
  ASSUME TypeOK, TypeOK', bound' = bound, EncodeStart, NEW o \in Present, o \notin PendingOps
  PROVE  Works(o)' = IF Sends(o) /\ station[o].text # None THEN {station[o].text} ELSE {}
<1>1. \A text : text \in Works(o)' <=> Has(work', Wanted(o, text))
  BY WorksNext
<1>2. \A text : ~Has(pending, Wanted(o, text))
  BY NonePending
<1>3. \A x : Has(work', x) <=>
              Has(pending, x) \/ \E p \in Present : /\ Sends(p) /\ station[p].text # None
                                                    /\ x = Wanted(p, station[p].text)
  BY EncodeStartFacts
<1>4. \A p, t, text : Wanted(o, text) = Wanted(p, t) <=> o = p /\ text = t
  BY DEF Wanted
<1>5. \A text : text \in Works(o)' <=>
                  Sends(o) /\ station[o].text # None /\ text = station[o].text
  BY <1>1, <1>2, <1>3, <1>4
<1>6. QED BY <1>5

(* After a wake in a re-decision only the operator itself is asked for.      *)
LEMMA WakeWorks ==
  ASSUME TypeOK, TypeOK', bound' = bound, NEW p \in Present, NEW text \in Texts,
         work' = Unique(Append(pending, Wanted(p, text))) \o <<Wanted(p, text)>>,
         NEW o \in Present, o \notin PendingOps, o # p
  PROVE  Works(o)' = {}
<1> DEFINE w == Wanted(p, text)
<1>1. w \in Req /\ pending \in Seq(Req)
  BY DEF Wanted, Req, TypeOK
<1> HIDE DEF w
<1>2. Append(pending, w) \in Seq(Req) /\ <<w>> \in Seq(Req)
      /\ Append(pending, w) = pending \o <<w>>
  BY <1>1, AppendProperties, AppendIsConcat
<1>3. \A x : Has(Append(pending, w), x) <=> Has(pending, x) \/ Has(<<w>>, x)
  <2>1. \A x : Has(pending \o <<w>>, x) <=> Has(pending, x) \/ Has(<<w>>, x)
    BY <1>1, <1>2, HasConcat
  <2>2. QED BY <1>2, <2>1
<1>4. /\ Unique(Append(pending, w)) \in Seq(Req)
      /\ \A x : Has(Unique(Append(pending, w)), x) <=> Has(Append(pending, w), x)
  BY <1>2, UniqueFacts
<1>5. \A x : Has(work', x) <=> Has(Unique(Append(pending, w)), x) \/ Has(<<w>>, x)
  BY <1>2, <1>4, HasConcat DEF w
<1>6. \A x : Has(<<w>>, x) <=> x = w
  BY DEF Has
<1>7. \A t : Wanted(o, t) # w
  BY DEF Wanted, w
<1>8. \A t : ~Has(pending, Wanted(o, t))
  BY NonePending
<1>9. \A t : t \in Works(o)' <=> Has(work', Wanted(o, t))
  BY WorksNext
<1>10. QED BY <1>3, <1>4, <1>5, <1>6, <1>7, <1>8, <1>9

-----------------------------------------------------------------------------
(* The place of an operator.                                                 *)

LEMMA PlaceOf ==
  ASSUME TypeOK, NEW k \in DOMAIN Order, NEW o, Order[k] = o
  PROVE  /\ Unreached(o) <=> \/ ~clock.ready
                             \/ /\ loop.pc # "idle"
                                /\ k > loop.i \/ (k = loop.i /\ loop.pc = "hooks")
         /\ AtLoop(o) <=> loop.pc # "idle" /\ loop.i = k
<1>1. \A i \in DOMAIN Order : Order[i] = o <=> i = k
  BY OrderFacts
<1>2. loop.i \in DOMAIN Order
  BY DEF TypeOK, Loops
<1>3. QED BY <1>1, <1>2 DEF Unreached, AtLoop

LEMMA PlaceNext ==
  ASSUME TypeOK, TypeOK', bound' = bound, NEW k \in DOMAIN Order, NEW o, Order[k] = o
  PROVE  /\ Unreached(o)' <=> \/ ~clock'.ready
                              \/ /\ loop'.pc # "idle"
                                 /\ k > loop'.i \/ (k = loop'.i /\ loop'.pc = "hooks")
         /\ AtLoop(o)' <=> loop'.pc # "idle" /\ loop'.i = k
<1>1. \A i \in DOMAIN Order : Order[i] = o <=> i = k
  BY OrderFacts
<1>2. Order' = Order
  BY Fixed
<1>3. loop'.i \in DOMAIN Order
  BY <1>2 DEF TypeOK, Loops
<1>4. QED BY <1>1, <1>2, <1>3 DEF Unreached, AtLoop

(* When the loop goes on, within an operator or from it to the next, it is   *)
(* for the other operators as far as it was.                                 *)
LEMMA Passing ==
  ASSUME TypeOK, TypeOK', bound' = bound, clock' = clock, loop.pc # "idle",
         \/ loop' = Following(loop)
         \/ loop'.pc # "idle" /\ loop'.i = loop.i,
         NEW o \in Present, o # Order[loop.i]
  PROVE  /\ Unreached(o)' <=> Unreached(o)
         /\ ~AtLoop(o) /\ (AtLoop(o)' => Unreached(o))
<1>1. PICK k \in DOMAIN Order : Order[k] = o
  BY DEF Present
<1>2. DOMAIN Order = 1..Len(Order) /\ Len(Order) \in Nat /\ loop.i \in DOMAIN Order /\ k # loop.i
  BY <1>1, OrderFacts DEF TypeOK, Loops
<1>3. /\ Unreached(o) <=> \/ ~clock.ready
                          \/ /\ loop.pc # "idle"
                             /\ k > loop.i \/ (k = loop.i /\ loop.pc = "hooks")
      /\ AtLoop(o) <=> loop.pc # "idle" /\ loop.i = k
  BY <1>1, PlaceOf
<1>4. /\ Unreached(o)' <=> \/ ~clock'.ready
                           \/ /\ loop'.pc # "idle"
                              /\ k > loop'.i \/ (k = loop'.i /\ loop'.pc = "hooks")
      /\ AtLoop(o)' <=> loop'.pc # "idle" /\ loop'.i = k
  BY <1>1, PlaceNext
<1>5. CASE loop'.pc # "idle" /\ loop'.i = loop.i
  BY <1>2, <1>3, <1>4, <1>5
<1>6. CASE loop' = Following(loop)
  <2>1. CASE loop.i = Len(Order)
    <3>1. loop'.pc = "idle" /\ k < loop.i
      BY <1>2, <1>6, <2>1 DEF Following, IdleLoop
    <3>2. QED BY <1>2, <1>3, <1>4, <3>1
  <2>2. CASE loop.i # Len(Order)
    <3>1. loop'.pc = "hooks" /\ loop'.i = loop.i + 1
      BY <1>6, <2>2 DEF Following, IdleLoop
    <3>2. QED BY <1>2, <1>3, <1>4, <3>1
  <2>3. QED BY <2>1, <2>2
<1>7. QED BY <1>5, <1>6

(* The operator that the loop leaves is behind it.                           *)
LEMMA Passed ==
  ASSUME TypeOK, TypeOK', bound' = bound, clock' = clock, clock.ready, loop.pc # "idle",
         loop' = Following(loop), NEW o, Order[loop.i] = o
  PROVE  ~Unreached(o)' /\ ~AtLoop(o)'
<1>1. DOMAIN Order = 1..Len(Order) /\ Len(Order) \in Nat /\ loop.i \in DOMAIN Order
  BY OrderFacts DEF TypeOK, Loops
<1>2. /\ Unreached(o)' <=> \/ ~clock'.ready
                           \/ /\ loop'.pc # "idle"
                              /\ loop.i > loop'.i \/ (loop.i = loop'.i /\ loop'.pc = "hooks")
      /\ AtLoop(o)' <=> loop'.pc # "idle" /\ loop'.i = loop.i
  BY <1>1, PlaceNext
<1>3. loop'.pc = "idle" \/ loop'.i = loop.i + 1
  BY DEF Following, IdleLoop
<1>4. QED BY <1>1, <1>2, <1>3

(* A re-decision that moves is still, or not yet, about to announce what it  *)
(* decided.                                                                  *)
LEMMA NoticeFacts ==
  ASSUME TypeOK, bound' = bound, NEW r \in Redos, NEW d, redo' = [redo EXCEPT ![r] = d],
         NEW o, \/ redo[r].pc # "notifying" /\ d.pc # "notifying"
                \/ o # Order[redo[r].i] /\ d.i = redo[r].i
                \/ o # Order[redo[r].i] /\ d.pc # "notifying"
  PROVE  Unannounced(o)' <=> Unannounced(o)
<1>1. Order' = Order
  BY Fixed
<1>2. \A s \in Redos : redo'[s] = IF s = r THEN d ELSE redo[s]
  BY DEF TypeOK
<1>3. QED BY <1>1, <1>2 DEF Unannounced

-----------------------------------------------------------------------------
(* Frames: what does not change for an operator.                             *)

Same(o) ==
  /\ clock'.slot = clock.slot /\ clock'.ready = clock.ready /\ queue' = queue
  /\ latest'[o] = latest[o] /\ guard'[o] = guard[o] /\ stamp'[o] = stamp[o] /\ air'[o] = air[o]

LEMMA SameNumbers ==
  ASSUME NEW o, Same(o)
  PROVE  /\ Numbered(o)' <=> Numbered(o)
         /\ InQueue(o)' <=> InQueue(o)
         /\ OnAir(o)' <=> OnAir(o)
         /\ \A text : Awaited(o, text)' <=> Awaited(o, text)
<1>1. /\ InQueue(o)' <=> InQueue(o)
      /\ OnAir(o)' <=> OnAir(o)
      /\ Asked(o)' <=> Asked(o)
  BY DEF Same, InQueue, OnAir, Asked
<1>2. Numbered(o)' <=> Numbered(o)
  BY <1>1 DEF Same, Numbered
<1>3. \A text : Awaited(o, text)' <=> Awaited(o, text)
  BY <1>1 DEF Same, Awaited
<1>4. QED BY <1>1, <1>2, <1>3

(* An operator that a step does not concern keeps its plain course.          *)
LEMMA Elsewhere ==
  ASSUME NEW o, Plain(o), Same(o), clock' = clock,
         station'[o] = station[o], session'[o].last = session[o].last,
         session'[o].pre = session[o].pre, Works(o)' = Works(o),
         Unannounced(o)' <=> Unannounced(o), Unreached(o)' <=> Unreached(o),
         \/ (AtLoop(o)' <=> AtLoop(o)) /\ loop'.pc = loop.pc
         \/ ~AtLoop(o) /\ (AtLoop(o)' => Unreached(o))
  PROVE  Plain(o)'
<1>1. /\ Numbered(o)' <=> Numbered(o)
      /\ InQueue(o)' <=> InQueue(o)
      /\ OnAir(o)' <=> OnAir(o)
      /\ \A text : Awaited(o, text)' <=> Awaited(o, text)
  BY SameNumbers
<1>2. InTxCycle(o)' <=> InTxCycle(o)
  BY DEF InTxCycle
<1>3. (Undecided(o) <=> Unreached(o) \/ AtLoop(o)) /\ (Undecided(o)' <=> Unreached(o)' \/ AtLoop(o)')
  BY DEF Undecided, AtLoop
<1>4. Unreached(o) => ~clock.encoded /\ Works(o) = {} /\ ~InQueue(o) /\ ~OnAir(o)
                      /\ (clock.ready => latest[o] = None)
  BY DEF Plain, Untouched
<1>5. Undecided(o)' => Undecided(o)
  BY <1>3
<1>6. Untouched(o)'
  BY <1>1, <1>4, <1>5 DEF Untouched, Plain, Same
<1>7. InCycle(o)'
  BY <1>1, <1>2 DEF InCycle, Plain
<1>8. Remembered(o)'
  BY <1>2, <1>4 DEF Remembered, Decided, Plain
<1>9. Announced(o)'
  BY <1>1, <1>2, <1>4 DEF Announced, Carried, Noted, Plain
<1>10. QED BY <1>1, <1>6, <1>7, <1>8, <1>9 DEF Plain

-----------------------------------------------------------------------------
(* Each step keeps the plain course of the operators that it does not        *)
(* disturb.                                                                  *)

(* The next request.                                                         *)
LEMMA PlainRequest ==
  ASSUME TypeOK, TypeOK', bound' = bound, FlowInv, Request,
         NEW o \in Present, o \notin disturbed'
  PROVE  Plain(o)'
<1> DEFINE p == Head(work).op
           text == Head(work).text
           g == Counted(guard[p], text)
<1>1. /\ work # <<>> /\ work' = Tail(work)
      /\ UNCHANGED <<clock, loop, redo, session, air>>
  BY DEF Request, deciding
<1>2. Present' = Present /\ Order' = Order
  BY Fixed
<1>3. Head(work) \in Req /\ work \in Seq(Req) /\ p \in Present /\ text \in Texts
  <2>1. work \in Seq(Req)
    BY DEF TypeOK
  <2>2. Head(work) \in Req
    BY <1>1, <2>1, HeadTailProperties
  <2>3. QED BY <2>1, <2>2 DEF Req
<1>4. Works(o)' \subseteq Works(o) /\ (o # p => Works(o)' = Works(o))
      /\ (o = p => Works(o) = Works(o)' \cup {text})
  <2>1. DOMAIN work = 1..Len(work) /\ Len(work) \in Nat \ {0} /\ Head(work) = work[1]
    BY <1>1, <1>3, LenProperties, EmptySeq
  <2>2. DOMAIN work' = 1..(Len(work) - 1) /\ \A i \in DOMAIN work' : work'[i] = work[i + 1]
    BY <1>1, <1>3, HeadTailProperties, LenProperties
  <2>3. \A i \in DOMAIN work : i = 1 \/ (i - 1 \in DOMAIN work' /\ work'[i - 1] = work[i])
    BY <2>1, <2>2
  <2>4. \A i \in DOMAIN work' : i + 1 \in DOMAIN work
    BY <2>1, <2>2
  <2>5. ASSUME NEW t
        PROVE  t \in Works(o) <=> (o = p /\ t = text) \/ t \in Works(o)'
    <3>1. t \in Works(o) <=> \E i \in DOMAIN work : work[i].op = o /\ work[i].text = t
      BY DEF Works
    <3>2. t \in Works(o)' <=> \E i \in DOMAIN work' : work'[i].op = o /\ work'[i].text = t
      BY DEF Works
    <3>3. 1 \in DOMAIN work /\ work[1].op = p /\ work[1].text = text
      BY <2>1
    <3> HIDE DEF p, text
    <3>4. QED BY <2>2, <2>3, <2>4, <3>1, <3>2, <3>3
  <2>6. QED BY <2>5
<1> HIDE DEF p, text, g
<1>5. /\ Unreached(o)' <=> Unreached(o)
      /\ AtLoop(o)' <=> AtLoop(o)
      /\ Unannounced(o)' <=> Unannounced(o)
      /\ Undecided(o)' <=> Undecided(o)
      /\ OnAir(o)' <=> OnAir(o)
      /\ clock.slot \in Nat
  BY <1>1, <1>2 DEF Unreached, AtLoop, Unannounced, Undecided, OnAir, TypeOK, Clocks
<1>6. Plain(o) \/ o \in disturbed
  BY DEF FlowInv
<1>7. \/ ~station[p].on /\ UNCHANGED <<station, queue, latest, guard, stamp, disturbed>>
      \/ /\ g.count > MaxSame
         /\ station' = [station EXCEPT ![p].on = FALSE]
         /\ latest' = [latest EXCEPT ![p] = None]
         /\ guard' = [guard EXCEPT ![p] = None]
         /\ UNCHANGED <<queue, stamp, disturbed>>
      \/ \E ms \in {stamp[p], stamp[p] + 1} :
           /\ stamp' = [stamp EXCEPT ![p] = ms]
           /\ latest' = [latest EXCEPT ![p] = [slot |-> clock.slot, ms |-> ms]]
           /\ queue' = Append(queue, [op |-> p, text |-> text,
                                      id |-> [slot |-> clock.slot, ms |-> ms]])
           /\ disturbed' = disturbed \cup
                (IF latest[p] = [slot |-> clock.slot, ms |-> ms] THEN {p} ELSE {})
           /\ guard' = [guard EXCEPT ![p] = g]
           /\ UNCHANGED station
  BY DEF Request, Disturb, p, text, g
<1>8. CASE ~station[p].on /\ UNCHANGED <<station, queue, latest, guard, stamp, disturbed>>
  <2>1. Same(o) /\ Plain(o)
    BY <1>1, <1>6, <1>8 DEF Same
  <2>2. CASE o # p
    BY <1>1, <1>4, <1>5, <1>8, <2>1, <2>2, Elsewhere
  <2>3. CASE o = p
    <3>1. ~station'[o].on
      BY <1>8, <2>3
    <3>2. Numbered(o)' /\ (InQueue(o)' <=> InQueue(o))
      BY <2>1, SameNumbers DEF Plain
    <3>3. InTxCycle(o)' <=> InTxCycle(o)
      BY <1>1, <1>8 DEF InTxCycle
    <3>4. QED BY <1>1, <1>4, <1>5, <1>8, <2>1, <3>1, <3>2, <3>3
           DEF Plain, Untouched, InCycle, Remembered, Announced
  <2>4. QED BY <2>2, <2>3
<1>9. CASE /\ g.count > MaxSame
           /\ station' = [station EXCEPT ![p].on = FALSE]
           /\ latest' = [latest EXCEPT ![p] = None]
           /\ guard' = [guard EXCEPT ![p] = None]
           /\ UNCHANGED <<queue, stamp, disturbed>>
  <2>1. Plain(o)
    BY <1>6, <1>9
  <2>2. station \in [Present -> Stations] /\ latest \in [Present -> Id \cup {None}]
        /\ guard \in [Present -> Guards \cup {None}]
    BY DEF TypeOK
  <2>3. CASE o # p
    <3>1. Same(o) /\ station'[o] = station[o]
      BY <1>1, <1>9, <2>2, <2>3 DEF Same
    <3>2. QED BY <1>1, <1>4, <1>5, <2>1, <2>3, <3>1, Elsewhere
  <2>4. CASE o = p
    <3>1. latest'[o] = None /\ guard'[o] = None /\ ~station'[o].on
          /\ station'[o].cycle = station[o].cycle
      BY <1>9, <2>2, <2>4 DEF Stations
    <3>2. guard[o] # None => guard[o].slot # clock.slot
      <4>1. guard[o] # None => guard[o] \in Guards /\ guard[o].count <= MaxSame
        BY <2>2 DEF FlowInv, Bounded
      <4>2. g.count > MaxSame /\ MaxSame \in Nat \ {0}
        BY <1>9, FlowAssumption
      <4>3. QED BY <2>4, <4>1, <4>2 DEF g, Counted, Guards
    <3>3. ~Asked(o)
      BY <2>1, <3>2 DEF Plain, Numbered
    <3>4. ~InQueue(o) /\ ~OnAir(o)
      BY <2>1, <3>3 DEF Plain, Numbered
    <3>5. ~Asked(o)'
      <4>1. [slot |-> clock.slot, ms |-> stamp[o]] \in Id
        BY <1>5 DEF TypeOK, Id
      <4>2. [slot |-> clock.slot, ms |-> stamp[o]] # None
        BY <4>1, FlowAssumption
      <4>3. QED BY <1>1, <1>9, <3>1, <4>2 DEF Asked
    <3>6. ~InQueue(o)'
      BY <1>9, <3>4 DEF InQueue
    <3>7. InTxCycle(o)' <=> InTxCycle(o)
      BY <1>1, <3>1 DEF InTxCycle
    <3>8. Numbered(o)'
      <4>1. clock.ready => air[o] = None
        BY <2>1, <3>4 DEF Plain, Numbered
      <4>2. QED BY <1>1, <1>5, <3>1, <3>4, <3>5, <3>6, <4>1 DEF Numbered, InQueue
    <3>9. Untouched(o)'
      BY <1>1, <1>4, <1>5, <2>1, <3>1, <3>4, <3>6 DEF Untouched, Plain
    <3>10. InCycle(o)'
      BY <1>4, <1>5, <2>1, <3>4, <3>6, <3>7 DEF InCycle, Plain
    <3>11. Remembered(o)' /\ Announced(o)'
      BY <3>1 DEF Remembered, Announced
    <3>12. QED BY <3>8, <3>9, <3>10, <3>11 DEF Plain
  <2>5. QED BY <2>3, <2>4
<1>10. ASSUME NEW ms \in {stamp[p], stamp[p] + 1},
              /\ stamp' = [stamp EXCEPT ![p] = ms]
              /\ latest' = [latest EXCEPT ![p] = [slot |-> clock.slot, ms |-> ms]]
              /\ queue' = Append(queue, [op |-> p, text |-> text,
                                         id |-> [slot |-> clock.slot, ms |-> ms]])
              /\ disturbed' = disturbed \cup
                   (IF latest[p] = [slot |-> clock.slot, ms |-> ms] THEN {p} ELSE {})
              /\ guard' = [guard EXCEPT ![p] = g]
              /\ UNCHANGED station
       PROVE  Plain(o)'
  <2> DEFINE id == [slot |-> clock.slot, ms |-> ms]
             new == [op |-> p, text |-> text, id |-> id]
  <2>1. Plain(o)
    BY <1>6, <1>10
  <2>2. /\ queue \in Seq(Queued) /\ latest \in [Present -> Id \cup {None}]
        /\ guard \in [Present -> Guards \cup {None}] /\ stamp \in [Present -> Nat]
    BY DEF TypeOK
  <2>3. ms \in Nat /\ id.slot = clock.slot /\ id.ms = ms /\ id \in Id
    BY <1>3, <1>5, <2>2 DEF Id
  <2>4. new \in Queued /\ new.op = p /\ new.text = text /\ new.id = id
    BY <1>3, <2>3 DEF Queued
  <2>5. /\ stamp' = [stamp EXCEPT ![p] = ms] /\ latest' = [latest EXCEPT ![p] = id]
        /\ queue' = Append(queue, new) /\ guard' = [guard EXCEPT ![p] = g]
        /\ latest[p] = id => p \in disturbed'
        /\ UNCHANGED station
    BY <1>10
  <2> HIDE DEF id, new
  <2>6. /\ DOMAIN queue = 1..Len(queue) /\ Len(queue) \in Nat
        /\ DOMAIN queue' = 1..(Len(queue) + 1)
        /\ \A i \in 1..Len(queue) : queue'[i] = queue[i]
        /\ queue'[Len(queue) + 1] = new
    BY <2>2, <2>4, <2>5, AppendProperties, LenProperties
  <2>7. \A i \in DOMAIN queue : queue[i] \in Queued
    BY <2>2, ElementOfSeq, LenProperties
  <2>8. InTxCycle(o)' <=> InTxCycle(o)
    BY <1>1, <2>5 DEF InTxCycle
  <2>9. CASE o # p
    <3>1. latest'[o] = latest[o] /\ guard'[o] = guard[o] /\ stamp'[o] = stamp[o]
      BY <2>2, <2>5, <2>9
    <3>2. \A i \in DOMAIN queue' : queue'[i].op = o => i \in DOMAIN queue /\ queue'[i] = queue[i]
      BY <2>4, <2>6, <2>9
    <3>3. \A i \in DOMAIN queue : i \in DOMAIN queue' /\ queue'[i] = queue[i]
      BY <2>6
    <3>4. (InQueue(o)' <=> InQueue(o)) /\ (Asked(o)' <=> Asked(o))
      BY <1>1, <3>1, <3>2, <3>3 DEF InQueue, Asked
    <3>5. Numbered(o)'
      BY <1>1, <1>5, <2>1, <3>1, <3>2, <3>4 DEF Numbered, Plain
    <3>6. \A text1 : Awaited(o, text1) => Awaited(o, text1)'
      BY <1>1, <1>5, <3>1, <3>3, <3>4 DEF Awaited
    <3>7. Works(o)' = Works(o)
      BY <1>4, <2>9
    <3>8. Untouched(o)'
      BY <1>1, <1>5, <2>1, <3>1, <3>4, <3>7 DEF Untouched, Plain
    <3>9. InCycle(o)'
      BY <1>5, <2>1, <2>8, <3>4, <3>7 DEF InCycle, Plain
    <3>10. Remembered(o)'
      BY <1>1, <1>5, <2>1, <2>5, <2>8 DEF Remembered, Decided, Plain
    <3>11. Announced(o)'
      BY <1>1, <1>5, <2>1, <2>5, <2>8, <3>6, <3>7 DEF Announced, Carried, Noted, Plain
    <3>12. QED BY <3>5, <3>8, <3>9, <3>10, <3>11 DEF Plain
  <2>10. CASE o = p
    <3>1. latest'[o] = id /\ guard'[o] = g /\ stamp'[o] = ms /\ latest[o] # id
      BY <2>2, <2>5, <2>10
    <3>2. Asked(o)'
      BY <1>1, <3>1 DEF Asked, id
    <3>3. Asked(o) => stamp[o] < ms
      <4>1. Asked(o) => stamp[o] # ms
        BY <3>1 DEF Asked, id
      <4>2. ms = stamp[o] \/ ms = stamp[o] + 1
        BY <1>10, <2>10
      <4>3. stamp[o] \in Nat
        BY <2>2
      <4>4. QED BY <4>1, <4>2, <4>3
    <3>4. g # None /\ g.slot = clock.slot
      <4>1. g \in Guards /\ g.slot = clock.slot
        BY <1>3, CountedFacts DEF g
      <4>2. QED BY <4>1, FlowAssumption DEF Guards
    <3>5. \A i \in DOMAIN queue : queue[i].op = o => queue[i].id.ms < ms /\ queue[i].id.slot = clock.slot
      <4>1. \A i \in DOMAIN queue : queue[i].op = o => Asked(o) /\ queue[i].id.ms <= stamp[o]
                                       /\ queue[i].id.slot = clock.slot
        BY <2>1 DEF Plain, Numbered, InQueue
      <4>2. \A i \in DOMAIN queue : queue[i].id.ms \in Nat
        BY <2>7 DEF Queued, Id
      <4>3. stamp[o] \in Nat
        BY <2>2
      <4>4. QED BY <2>3, <3>3, <4>1, <4>2, <4>3
    <3>6. OnAir(o) => air[o].id.ms < ms /\ air[o].id.slot = clock.slot
      <4>1. OnAir(o) => Asked(o) /\ air[o].id.ms <= stamp[o] /\ air[o].id.slot = clock.slot
        BY <2>1 DEF Plain, Numbered
      <4>2. OnAir(o) => air[o].id.ms \in Nat /\ stamp[o] \in Nat
        BY DEF OnAir, TypeOK, Answer, Id
      <4>3. QED BY <2>3, <3>3, <4>1, <4>2
    <3>7. Numbered(o)'
      <4>1. \A i \in DOMAIN queue' : queue'[i].op = o =>
               /\ queue'[i].id.slot = clock'.slot /\ queue'[i].id.ms <= stamp'[o]
               /\ OnAir(o)' => air'[o].id.ms < queue'[i].id.ms
        <5>1. ASSUME NEW i \in DOMAIN queue, queue[i].op = o
              PROVE  /\ queue[i].id.slot = clock.slot /\ queue[i].id.ms <= ms
                     /\ OnAir(o) => air[o].id.ms < queue[i].id.ms
          <6>1. queue[i].id.ms \in Nat
            BY <2>7 DEF Queued, Id
          <6>2. QED BY <2>1, <2>3, <3>5, <5>1, <6>1 DEF Plain, Numbered
        <5>2. \A i \in DOMAIN queue' : i = Len(queue) + 1 \/ (i \in DOMAIN queue /\ queue'[i] = queue[i])
          BY <2>6
        <5>3. QED BY <1>1, <1>5, <2>3, <2>4, <2>6, <3>1, <3>6, <5>1, <5>2
      <4>2. \A i, j \in DOMAIN queue' :
               i < j /\ queue'[i].op = o /\ queue'[j].op = o => queue'[i].id.ms < queue'[j].id.ms
        <5>1. ASSUME NEW i \in DOMAIN queue', NEW j \in DOMAIN queue',
                     i < j, queue'[i].op = o, queue'[j].op = o
              PROVE  queue'[i].id.ms < queue'[j].id.ms
          <6>1. i \in DOMAIN queue /\ queue'[i] = queue[i]
            BY <2>6, <5>1
          <6>2. CASE j = Len(queue) + 1
            BY <2>3, <2>4, <2>6, <3>5, <5>1, <6>1, <6>2
          <6>3. CASE j # Len(queue) + 1
            <7>1. j \in DOMAIN queue /\ queue'[j] = queue[j]
              BY <2>6, <6>3
            <7>2. QED BY <2>1, <5>1, <6>1, <7>1 DEF Plain, Numbered
          <6>4. QED BY <6>2, <6>3
        <5>2. QED BY <5>1
      <4>3. OnAir(o)' => air'[o].id.slot = clock'.slot /\ air'[o].id.ms <= stamp'[o]
        <5>1. OnAir(o) => air[o].id.ms \in Nat
          BY DEF OnAir, TypeOK, Answer, Id
        <5>2. QED BY <1>1, <1>5, <2>3, <3>1, <3>6, <5>1
      <4>4. clock.ready /\ air[o] # None => OnAir(o)
        BY <2>1 DEF Plain, Numbered
      <4>5. QED BY <1>1, <1>5, <3>1, <3>2, <3>4, <4>1, <4>2, <4>3, <4>4 DEF Numbered
    <3>8. Works(o) # {}
      BY <1>4, <2>10
    <3>9. ~Unreached(o) /\ InTxCycle(o)
      BY <2>1, <3>8 DEF Plain, Untouched, InCycle
    <3>10. Untouched(o)' /\ InCycle(o)'
      BY <1>5, <2>1, <2>8, <3>9 DEF Untouched, Plain, InCycle
    <3>11. Remembered(o)'
      BY <1>1, <1>5, <2>1, <2>5, <2>8 DEF Remembered, Decided, Plain
    <3>12. \A t : Carried(o, t) => Carried(o, t)'
      <4>1. ASSUME NEW t, Carried(o, t)
            PROVE  t = text /\ (Works(o)' = {} \/ Works(o)' = {t})
        BY <1>4, <2>10, <3>8, <4>1 DEF Carried
      <4>2. ASSUME NEW t, t = text
            PROVE  Awaited(o, t)'
        <5>1. Len(queue) + 1 \in DOMAIN queue'
          BY <2>6
        <5>2. queue'[Len(queue) + 1].op = o /\ queue'[Len(queue) + 1].text = text
              /\ queue'[Len(queue) + 1].id = latest'[o]
          BY <2>4, <2>6, <2>10, <3>1
        <5>3. QED BY <3>2, <4>2, <5>1, <5>2 DEF Awaited
      <4>3. QED BY <4>1, <4>2 DEF Carried
    <3>13. Announced(o)'
      BY <1>1, <1>5, <2>1, <2>5, <2>8, <3>12 DEF Announced, Noted, Plain
    <3>14. QED BY <3>7, <3>10, <3>11, <3>13 DEF Plain
  <2>11. QED BY <2>9, <2>10
<1>11. QED BY <1>7, <1>8, <1>9, <1>10

(* What the queue is after its first entry has been answered.                *)
LEMMA TailFacts ==
  ASSUME TypeOK, queue # <<>>, queue' = Tail(queue)
  PROVE  /\ 1 \in DOMAIN queue /\ Head(queue) = queue[1] /\ queue[1] \in Queued
         /\ \A i \in DOMAIN queue : i \in Nat /\ queue[i] \in Queued
         /\ \A i \in DOMAIN queue' :
              i \in Nat \ {0} /\ i + 1 \in DOMAIN queue /\ queue'[i] = queue[i + 1]
         /\ \A i \in DOMAIN queue : i = 1 \/ (i - 1 \in DOMAIN queue' /\ queue'[i - 1] = queue[i])
<1>1. queue \in Seq(Queued)
  BY DEF TypeOK
<1>2. DOMAIN queue = 1..Len(queue) /\ Len(queue) \in Nat \ {0} /\ Head(queue) = queue[1]
  BY <1>1, LenProperties, EmptySeq
<1>3. DOMAIN queue' = 1..(Len(queue) - 1) /\ \A i \in DOMAIN queue' : queue'[i] = queue[i + 1]
  BY <1>1, HeadTailProperties, LenProperties
<1>4. \A i \in DOMAIN queue : queue[i] \in Queued
  BY <1>1, <1>2, ElementOfSeq
<1>5. QED BY <1>2, <1>3, <1>4

(* The answer of another operator, or of none that reaches the mixer: what   *)
(* is on its way for this one stays so.                                      *)
LEMMA OthersAnswer ==
  ASSUME TypeOK, TypeOK', bound' = bound, NEW o \in Present, Plain(o),
         UNCHANGED <<clock, loop, redo, station, session, work, latest, guard, stamp>>,
         queue # <<>>, queue' = Tail(queue), Head(queue).op # o,
         OnAir(o) => air'[o] = air[o],
         ~OnAir(o) => air'[o] = air[o] \/ air'[o] = None
  PROVE  Plain(o)'
<1>1. /\ \A i \in DOMAIN queue' : i + 1 \in DOMAIN queue /\ queue'[i] = queue[i + 1]
      /\ \A i \in DOMAIN queue : i = 1 \/ (i - 1 \in DOMAIN queue' /\ queue'[i - 1] = queue[i])
      /\ Head(queue) = queue[1]
      /\ \A i \in DOMAIN queue' : i \in Nat
  BY TailFacts
<1>2. Order' = Order
  BY Fixed
<1>3. /\ Unreached(o)' <=> Unreached(o)
      /\ AtLoop(o)' <=> AtLoop(o)
      /\ Unannounced(o)' <=> Unannounced(o)
      /\ Undecided(o)' <=> Undecided(o)
      /\ InTxCycle(o)' <=> InTxCycle(o)
      /\ Works(o)' = Works(o)
  BY <1>2 DEF Unreached, AtLoop, Unannounced, Undecided, InTxCycle, Works
<1>4. Asked(o)' <=> Asked(o)
  BY DEF Asked
<1>5. /\ OnAir(o)' <=> OnAir(o)
      /\ OnAir(o) => air'[o] = air[o]
  BY DEF OnAir
<1>6. \A i \in DOMAIN queue : queue[i].op = o => i - 1 \in DOMAIN queue' /\ queue'[i - 1] = queue[i]
  BY <1>1
<1>7. InQueue(o)' <=> InQueue(o)
  BY <1>1, <1>6 DEF InQueue
<1>8. Numbered(o)'
  <2>1. \A i, j \in DOMAIN queue' : i < j => i + 1 < j + 1
    BY <1>1
  <2>2. \A i, j \in DOMAIN queue' :
           i < j /\ queue'[i].op = o /\ queue'[j].op = o => queue'[i].id.ms < queue'[j].id.ms
    BY <1>1, <2>1 DEF Plain, Numbered
  <2>3. \A i \in DOMAIN queue' : queue'[i].op = o =>
           /\ queue'[i].id.slot = clock.slot /\ queue'[i].id.ms <= stamp[o]
           /\ OnAir(o) => air[o].id.ms < queue'[i].id.ms
    BY <1>1 DEF Plain, Numbered
  <2>4. clock.ready /\ air'[o] # None => OnAir(o)
    BY DEF Plain, Numbered
  <2>5. QED BY <1>4, <1>5, <1>7, <2>2, <2>3, <2>4 DEF Plain, Numbered
<1>9. \A text : Awaited(o, text) => Awaited(o, text)'
  BY <1>4, <1>5, <1>6 DEF Awaited
<1>10. Untouched(o)'
  BY <1>3, <1>5, <1>7 DEF Plain, Untouched
<1>11. InCycle(o)'
  BY <1>3, <1>5, <1>7 DEF Plain, InCycle
<1>12. Remembered(o)'
  BY <1>3 DEF Plain, Remembered, Decided
<1>13. Announced(o)'
  BY <1>3, <1>9 DEF Plain, Announced, Carried, Noted
<1>14. QED BY <1>8, <1>10, <1>11, <1>12, <1>13 DEF Plain

(* An answer for the operator itself: it is of this slot, newer than what    *)
(* the mixer holds, and the newest unless it is dropped.                     *)
LEMMA OwnAnswer ==
  ASSUME TypeOK, NEW o \in Present, Plain(o), queue # <<>>, queue' = Tail(queue),
         Head(queue).op = o
  PROVE  /\ Asked(o) /\ ~Unreached(o) /\ clock.ready /\ InTxCycle(o)
         /\ latest[o] # None /\ latest[o].ms = stamp[o] /\ latest[o].slot = clock.slot
         /\ Head(queue).id.slot = clock.slot /\ Head(queue).id.ms <= stamp[o]
         /\ OnAir(o) => air[o].id.ms < Head(queue).id.ms
         /\ air[o] # None => air[o].id # Head(queue).id
         /\ Head(queue).id.ms \in Nat /\ stamp[o] \in Nat
<1>1. /\ 1 \in DOMAIN queue /\ Head(queue) = queue[1] /\ queue[1] \in Queued
  BY TailFacts
<1>2. InQueue(o)
  BY <1>1 DEF InQueue
<1>3. Asked(o) /\ ~Unreached(o) /\ InTxCycle(o)
  BY <1>2 DEF Plain, Numbered, Untouched, InCycle
<1>4. clock.ready
  BY <1>3 DEF Unreached
<1>5. /\ Head(queue).id.slot = clock.slot /\ Head(queue).id.ms <= stamp[o]
      /\ OnAir(o) => air[o].id.ms < Head(queue).id.ms
  BY <1>1 DEF Plain, Numbered
<1>6. Head(queue).id.ms \in Nat /\ stamp[o] \in Nat
  BY <1>1 DEF Queued, Id, TypeOK
<1>7. latest[o] # None
  <2>1. latest[o] \in Id
    BY <1>3 DEF Asked, TypeOK, Clocks, Id
  <2>2. QED BY <2>1, FlowAssumption
<1>8. latest[o].ms = stamp[o] /\ latest[o].slot = clock.slot
  BY <1>3 DEF Asked
<1>9. air[o] # None => OnAir(o) /\ air[o].id.ms \in Nat
  <2>1. air[o] # None => air[o] \in Answer
    BY DEF TypeOK
  <2>2. QED BY <1>4, <2>1 DEF Plain, Numbered, Answer, Id
<1>10. air[o] # None => air[o].id # Head(queue).id
  BY <1>5, <1>6, <1>9
<1>11. QED BY <1>3, <1>4, <1>5, <1>6, <1>7, <1>8, <1>10

(* Which answers the mixer takes.                                            *)
LEMMA AnswerFacts ==
  ASSUME TypeOK, EncodeComplete
  PROVE  /\ queue # <<>> /\ queue' = Tail(queue) /\ Quiet /\ Head(queue) \in Queued
         /\ UNCHANGED <<clock, loop, redo, station, session, work, latest, guard, stamp, disturbed>>
         /\ \A o \in Present : o # Head(queue).op =>
              /\ OnAir(o) => air'[o] = air[o]
              /\ ~OnAir(o) => air'[o] = air[o] \/ air'[o] = None
         /\ LET q == Head(queue)
                dropped == Stale(q) \/ (air[q.op] # None /\ air[q.op].id = q.id)
            IN /\ dropped => air' = air
               /\ ~dropped => air'[q.op] = [text |-> q.text, id |-> q.id, at |-> clock.slot]
<1> DEFINE q == Head(queue)
           fresh == [o \in Present |-> IF air[o] # None /\ air[o].at = clock.slot
                                       THEN air[o] ELSE None]
           held == [text |-> q.text, id |-> q.id, at |-> clock.slot]
           known == air[q.op] # None /\ air[q.op].id = q.id
<1>1. queue # <<>> /\ queue' = Tail(queue) /\ Quiet
      /\ UNCHANGED <<clock, loop, redo, station, session, work, latest, guard, stamp, disturbed>>
  BY DEF EncodeComplete, deciding
<1>2. q \in Queued
  BY <1>1, TailFacts
<1>3. air' = IF Stale(q) \/ known THEN air ELSE [fresh EXCEPT ![q.op] = held]
  BY DEF EncodeComplete
<1>4. \A o \in Present : fresh[o] = IF OnAir(o) THEN air[o] ELSE None
  BY DEF OnAir
<1>5. fresh = [o \in Present |-> fresh[o]]
  OBVIOUS
<1>6. q.op \in Present
  BY <1>2 DEF Queued
<1> HIDE DEF q, fresh, held
<1>7. CASE Stale(q) \/ known
  BY <1>1, <1>2, <1>3, <1>7 DEF q
<1>8. CASE ~(Stale(q) \/ known)
  <2>1. air' = [fresh EXCEPT ![q.op] = held]
    BY <1>3, <1>8
  <2>2. air'[q.op] = held /\ \A o \in Present : o # q.op => air'[o] = fresh[o]
    BY <1>5, <1>6, <2>1
  <2>3. QED BY <1>1, <1>2, <1>4, <1>6, <1>8, <2>2 DEF q, held
<1>9. QED BY <1>7, <1>8

(* An answer comes.                                                          *)
LEMMA PlainEncodeComplete ==
  ASSUME TypeOK, TypeOK', bound' = bound, FlowInv, EncodeComplete,
         NEW o \in Present, o \notin disturbed'
  PROVE  Plain(o)'
<1>1. /\ queue # <<>> /\ queue' = Tail(queue) /\ Quiet /\ Head(queue) \in Queued
      /\ UNCHANGED <<clock, loop, redo, station, session, work, latest, guard, stamp, disturbed>>
  BY AnswerFacts
<1>2. Plain(o)
  BY <1>1 DEF FlowInv
<1>3. CASE o # Head(queue).op
  <2>1. /\ OnAir(o) => air'[o] = air[o]
        /\ ~OnAir(o) => air'[o] = air[o] \/ air'[o] = None
    BY <1>3, AnswerFacts
  <2>2. QED BY <1>1, <1>2, <1>3, <2>1, OthersAnswer
<1>4. CASE o = Head(queue).op
  <2>1. /\ Asked(o) /\ ~Unreached(o) /\ clock.ready /\ InTxCycle(o)
        /\ latest[o] # None /\ latest[o].ms = stamp[o] /\ latest[o].slot = clock.slot
        /\ Head(queue).id.slot = clock.slot /\ Head(queue).id.ms <= stamp[o]
        /\ OnAir(o) => air[o].id.ms < Head(queue).id.ms
        /\ air[o] # None => air[o].id # Head(queue).id
        /\ Head(queue).id.ms \in Nat /\ stamp[o] \in Nat
    BY <1>1, <1>2, <1>4, OwnAnswer
  <2>2. /\ \A i \in DOMAIN queue' :
             i \in Nat \ {0} /\ i + 1 \in DOMAIN queue /\ queue'[i] = queue[i + 1]
        /\ \A i \in DOMAIN queue : i \in Nat /\ queue[i] \in Queued
        /\ \A i \in DOMAIN queue : i = 1 \/ (i - 1 \in DOMAIN queue' /\ queue'[i - 1] = queue[i])
        /\ Head(queue) = queue[1] /\ 1 \in DOMAIN queue
    BY <1>1, TailFacts
  <2>3. Order' = Order
    BY Fixed
  <2>4. /\ Unreached(o)' <=> Unreached(o)
        /\ AtLoop(o)' <=> AtLoop(o)
        /\ Unannounced(o)' <=> Unannounced(o)
        /\ Undecided(o)' <=> Undecided(o)
        /\ InTxCycle(o)' <=> InTxCycle(o)
        /\ Asked(o)' <=> Asked(o)
    BY <1>1, <2>3 DEF Unreached, AtLoop, Unannounced, Undecided, InTxCycle, Asked
  <2>4a. Works(o) = {} /\ Works(o)' = {}
    <3>1. Works(o) = {}
      BY <1>1, QuietWorks
    <3>2. Works(o)' = Works(o)
      BY <1>1 DEF Works
    <3>3. QED BY <3>1, <3>2
  <2>5. Untouched(o)' /\ InCycle(o)' /\ Remembered(o)'
    BY <1>1, <1>2, <2>1, <2>4, <2>4a DEF Plain, Untouched, InCycle, Remembered, Decided
  <2>6. \A i, j \in DOMAIN queue' :
           i < j /\ queue'[i].op = o /\ queue'[j].op = o => queue'[i].id.ms < queue'[j].id.ms
    <3>1. \A i, j \in DOMAIN queue' : i < j => i + 1 < j + 1
      BY <2>2
    <3>2. QED BY <1>2, <2>2, <3>1 DEF Plain, Numbered
  <2>7. \A i \in DOMAIN queue' : queue'[i].op = o =>
           /\ queue'[i].id.slot = clock.slot /\ queue'[i].id.ms <= stamp[o]
           /\ Head(queue).id.ms < queue'[i].id.ms
           /\ OnAir(o) => air[o].id.ms < queue'[i].id.ms
    <3>1. \A i \in DOMAIN queue' : 1 < i + 1
      BY <2>2
    <3>2. QED BY <1>2, <1>4, <2>2, <3>1 DEF Plain, Numbered
  <2>8. CASE Stale(Head(queue))
    <3>1. air' = air
      BY <2>8, AnswerFacts
    <3>1a. OnAir(o)' <=> OnAir(o)
      BY <1>1, <3>1 DEF OnAir
    <3>2. Numbered(o)'
      BY <1>1, <1>2, <2>1, <2>4, <2>6, <2>7, <3>1, <3>1a DEF Plain, Numbered
    <3>3. Head(queue).id # latest[o]
      BY <1>4, <2>8 DEF Stale
    <3>4. ASSUME NEW text, Awaited(o, text)
          PROVE  Awaited(o, text)'
      <4>1. CASE OnAir(o) /\ air[o].id = latest[o] /\ air[o].text = text
        BY <1>1, <2>1, <2>4, <3>1, <3>1a, <4>1 DEF Awaited
      <4>2. CASE \E i \in DOMAIN queue :
                   queue[i].op = o /\ queue[i].id = latest[o] /\ queue[i].text = text
        <5>1. PICK i \in DOMAIN queue :
                     queue[i].op = o /\ queue[i].id = latest[o] /\ queue[i].text = text
          BY <4>2
        <5>2. i - 1 \in DOMAIN queue' /\ queue'[i - 1] = queue[i]
          BY <2>2, <3>3, <5>1
        <5>3. QED BY <1>1, <2>1, <2>4, <5>1, <5>2 DEF Awaited
      <4>3. QED BY <3>4, <4>1, <4>2 DEF Awaited
    <3>5. Announced(o)'
      BY <1>1, <1>2, <2>4, <2>4a, <3>4 DEF Plain, Announced, Carried, Noted
    <3>6. QED BY <2>5, <3>2, <3>5 DEF Plain
  <2>9. CASE ~Stale(Head(queue))
    <3>0. air'[o] = [text |-> Head(queue).text, id |-> Head(queue).id, at |-> clock.slot]
      BY <1>4, <2>1, <2>9, AnswerFacts
    <3>1. latest[o] = Head(queue).id
      BY <1>4, <2>1, <2>9 DEF Stale
    <3>2. air'[o] # None
      <4>1. air'[o] \in Answer
        BY <1>1, <3>0 DEF Queued, Answer, TypeOK, Clocks
      <4>2. QED BY <4>1, FlowAssumption
    <3>3. OnAir(o)'
      BY <1>1, <3>2, <3>0 DEF OnAir
    <3>4. \A i \in DOMAIN queue' : queue'[i].op # o
      <4>1. \A i \in DOMAIN queue' : queue'[i].id.ms \in Nat
        BY <2>2 DEF Queued, Id
      <4>2. QED BY <2>1, <2>7, <3>1, <4>1
    <3>5. Numbered(o)'
      <4>1. air'[o].id.slot = clock.slot /\ air'[o].id.ms <= stamp[o]
        BY <2>1, <3>0
      <4>2. QED BY <1>1, <1>2, <2>1, <2>4, <3>3, <3>4, <4>1 DEF Plain, Numbered
    <3>6. \A text : Awaited(o, text) => Awaited(o, text)'
      <4>1. ASSUME NEW text, Awaited(o, text)
            PROVE  Head(queue).text = text
        <5>1. ~(OnAir(o) /\ air[o].id = latest[o])
          BY <2>1, <3>1
        <5>2. PICK i \in DOMAIN queue :
                     queue[i].op = o /\ queue[i].id = latest[o] /\ queue[i].text = text
          BY <4>1, <5>1 DEF Awaited
        <5>3. i = 1
          <6>1. i # 1 => i - 1 \in DOMAIN queue' /\ queue'[i - 1].op = o
            BY <2>2, <5>2
          <6>2. QED BY <3>4, <6>1
        <5>4. QED BY <2>2, <5>2, <5>3
      <4>2. air'[o].id = latest'[o] /\ air'[o].text = Head(queue).text
        BY <1>1, <3>1, <3>0
      <4>3. QED BY <2>1, <2>4, <3>3, <4>1, <4>2 DEF Awaited
    <3>7. Announced(o)'
      BY <1>1, <1>2, <2>4, <2>4a, <3>6 DEF Plain, Announced, Carried, Noted
    <3>8. QED BY <2>5, <3>5, <3>7 DEF Plain
  <2>10. QED BY <2>8, <2>9
<1>5. QED BY <1>3, <1>4

(* The encoder fails: its operator's slot does not take its plain course.    *)
LEMMA PlainEncodeError ==
  ASSUME TypeOK, TypeOK', bound' = bound, FlowInv, EncodeError,
         NEW o \in Present, o \notin disturbed'
  PROVE  Plain(o)'
<1>1. /\ queue # <<>> /\ queue' = Tail(queue)
      /\ disturbed' = disturbed \cup {Head(queue).op}
      /\ UNCHANGED <<clock, loop, redo, station, session, work, latest, guard, stamp, air>>
  BY DEF EncodeError, deciding, Disturb
<1>2. Plain(o) /\ Head(queue).op # o
  BY <1>1 DEF FlowInv
<1>3. QED BY <1>1, <1>2, OthersAnswer

(* A slot begins: nothing has been asked for in it, and what the mixer and   *)
(* the request ids say is of an older slot.                                  *)
LEMMA PlainSlotTick ==
  ASSUME TypeOK, TypeOK', bound' = bound, FlowInv, SlotTick,
         NEW o \in Present, o \notin disturbed'
  PROVE  Plain(o)'
<1>1. /\ work = <<>> /\ UNCHANGED <<loop, redo, session, station, work, queue, latest, guard, air>>
      /\ loop.pc = "idle" /\ \A r \in Redos : redo[r].pc = "idle"
      /\ clock'.slot = clock.slot + 1 /\ ~clock'.ready /\ ~clock'.encoded
      /\ stamp' = [p \in Present |-> 0]
      /\ disturbed' = {queue[i].op : i \in DOMAIN queue}
  BY DEF SlotTick, Quiet, IdleLoop, IdleRedo
<1>2. clock.slot \in Nat
  BY DEF TypeOK, Clocks
<1>3. ~InQueue(o)
  BY <1>1 DEF InQueue
<1>4. ~InQueue(o)'
  BY <1>1, <1>3 DEF InQueue
<1>5. Works(o)' = {}
  BY <1>1 DEF Works
<1>6. ~Unannounced(o)'
  BY <1>1 DEF Unannounced
<1>7. Unreached(o)'
  BY <1>1 DEF Unreached
<1>8. ~OnAir(o)'
  <2>1. air[o] # None => air[o].at <= clock.slot /\ air[o].at \in Nat
    BY DEF FlowInv, Bounded, TypeOK, Answer
  <2>2. QED BY <1>1, <1>2, <2>1 DEF OnAir
<1>9. ~Asked(o)'
  <2>1. latest[o] # None => latest[o].slot <= clock.slot /\ latest[o].slot \in Nat
    BY DEF FlowInv, Bounded, TypeOK, Id
  <2>2. [slot |-> clock'.slot, ms |-> stamp'[o]] \in Id
    BY <1>1, <1>2 DEF Id
  <2>3. [slot |-> clock'.slot, ms |-> stamp'[o]] # None
    BY <2>2, FlowAssumption
  <2>4. QED BY <1>1, <1>2, <2>1, <2>3 DEF Asked
<1>10. Untouched(o)'
  BY <1>1, <1>4, <1>5, <1>6, <1>8 DEF Untouched
<1>11. Numbered(o)'
  BY <1>1, <1>4, <1>8, <1>9 DEF Numbered, InQueue
<1>12. InCycle(o)' /\ Remembered(o)' /\ Announced(o)'
  BY <1>1, <1>4, <1>5, <1>7, <1>8 DEF InCycle, Remembered, Announced
<1>13. QED BY <1>10, <1>11, <1>12 DEF Plain

(* Its handler runs: every operator is still to be reached.                  *)
LEMMA PlainSlotStart ==
  ASSUME TypeOK, TypeOK', bound' = bound, FlowInv, SlotStart,
         NEW o \in Present, o \notin disturbed'
  PROVE  Plain(o)'
<1>1. /\ Quiet /\ ~clock.ready
      /\ clock'.slot = clock.slot /\ clock'.ready /\ clock'.encoded = clock.encoded
      /\ air' = [p \in Present |-> None] /\ latest' = [p \in Present |-> None]
      /\ loop'.pc = "hooks" /\ loop'.i = 1
      /\ UNCHANGED <<redo, session, station, work, queue, guard, stamp, disturbed>>
  BY DEF SlotStart, IdleLoop, TypeOK, Clocks
<1>2. Plain(o)
  BY <1>1 DEF FlowInv
<1>3. Unreached(o)
  BY <1>1 DEF Unreached
<1>4. ~clock.encoded /\ Works(o) = {} /\ ~InQueue(o) /\ ~Unannounced(o)
  BY <1>2, <1>3 DEF Plain, Untouched, Undecided
<1>5. Order' = Order
  BY Fixed
<1>6. Works(o)' = {} /\ ~InQueue(o)' /\ ~Unannounced(o)'
  BY <1>1, <1>4, <1>5 DEF Works, InQueue, Unannounced
<1>7. Unreached(o)'
  <2>1. PICK k \in DOMAIN Order : Order[k] = o
    BY DEF Present
  <2>2. k \in Nat \ {0}
    BY OrderFacts
  <2>3. k > 1 \/ k = 1
    BY <2>2
  <2>4. QED BY <1>1, <2>1, <2>3, PlaceNext
<1>8. latest'[o] = None /\ air'[o] = None
  BY <1>1
<1>9. ~OnAir(o)'
  BY <1>8 DEF OnAir
<1>10. ~Asked(o)'
  <2>1. [slot |-> clock'.slot, ms |-> stamp'[o]] \in Id
    BY <1>1 DEF TypeOK, Clocks, Id
  <2>2. [slot |-> clock'.slot, ms |-> stamp'[o]] # None
    BY <2>1, FlowAssumption
  <2>3. QED BY <1>8, <2>2 DEF Asked
<1>11. Untouched(o)'
  BY <1>1, <1>4, <1>6, <1>8, <1>9 DEF Untouched
<1>12. Numbered(o)'
  BY <1>6, <1>8, <1>9, <1>10 DEF Numbered, InQueue
<1>13. InCycle(o)' /\ Remembered(o)' /\ Announced(o)'
  <2>1. ~clock'.encoded
    BY <1>1, <1>4
  <2>2. QED BY <1>6, <1>7, <1>9, <2>1 DEF InCycle, Remembered, Announced
<1>14. QED BY <1>11, <1>12, <1>13 DEF Plain

(* The encodes of the slot are asked for: with the text of the operator's    *)
(* last decision, which is noted as long as that is not announced.           *)
LEMMA PlainEncodeStart ==
  ASSUME TypeOK, TypeOK', bound' = bound, FlowInv, EncodeStart,
         NEW o \in Present, o \notin disturbed'
  PROVE  Plain(o)'
<1>1. /\ Quiet
      /\ clock'.slot = clock.slot /\ clock'.ready = clock.ready /\ clock'.encoded
      /\ UNCHANGED <<loop, redo, station, queue, latest, guard, stamp, air>>
      /\ disturbed' = disturbed \cup ({p \in Present : Unreached(p) \/ Unannounced(p) \/ Unnoted(p)}
                                  \cup PendingOps)
      /\ session' = [p \in Present |-> IF Sends(p) /\ station[p].text # None
                                       THEN [session[p] EXCEPT !.pre = station[p].text] ELSE session[p]]
  BY DEF EncodeStart, encoding, Disturb, PendingOps, TypeOK, Clocks
<1>2. /\ Plain(o) /\ ~clock.encoded
      /\ ~Unreached(o) /\ ~Unannounced(o) /\ ~Unnoted(o) /\ o \notin PendingOps
  BY <1>1 DEF FlowInv, EncodeStart
<1>3. Order' = Order
  BY Fixed
<1>4. /\ Unreached(o)' <=> Unreached(o)
      /\ AtLoop(o)' <=> AtLoop(o)
      /\ Unannounced(o)' <=> Unannounced(o)
      /\ Undecided(o)' <=> Undecided(o)
      /\ InTxCycle(o)' <=> InTxCycle(o)
  BY <1>1, <1>3 DEF Unreached, AtLoop, Unannounced, Undecided, InTxCycle
<1>5. /\ session'[o].last = session[o].last
      /\ session'[o].pre = IF Sends(o) /\ station[o].text # None THEN station[o].text
                           ELSE session[o].pre
  <2>1. session[o] \in Sessions /\ station[o] \in Stations
    BY DEF TypeOK
  <2>2. session'[o] = IF Sends(o) /\ station[o].text # None
                      THEN [session[o] EXCEPT !.pre = station[o].text] ELSE session[o]
    BY <1>1
  <2>3. QED BY <2>1, <2>2 DEF Sessions, Stations
<1>6. AtLoop(o) /\ Sends(o) /\ station[o].text = None => Decided(o)
  <2>1. loop.pc # "hooks" \/ ~AtLoop(o)
    <3>1. loop.i \in DOMAIN Order
      BY DEF TypeOK, Loops
    <3>2. QED BY <1>2, <3>1 DEF Unreached, AtLoop
  <2>2. loop.pc \in {"idle", "hooks", "scoring", "deciding", "notifying", "stop"}
    BY DEF TypeOK, Loops
  <2>3. QED BY <1>2, <2>1, <2>2 DEF Unnoted, AtLoop, Decided
<1>7. Works(o)' = IF Sends(o) /\ station[o].text # None THEN {station[o].text} ELSE {}
  BY <1>2, StartWorks
<1>8. /\ Numbered(o)' <=> Numbered(o)
      /\ InQueue(o)' <=> InQueue(o)
      /\ OnAir(o)' <=> OnAir(o)
  <2>1. Same(o)
    BY <1>1 DEF Same
  <2>2. QED BY <2>1, SameNumbers
<1>9. Untouched(o)'
  BY <1>2, <1>4 DEF Plain, Untouched
<1>10. InCycle(o)'
  BY <1>2, <1>4, <1>7, <1>8 DEF Plain, InCycle, Sends
<1>11. Remembered(o)'
  <2>1. Decided(o) /\ ~Unannounced(o) /\ station[o].on => session[o].last = station[o].text
    BY <1>2 DEF Plain, Remembered
  <2>2. (Decided(o)' <=> Decided(o)) /\ (Sends(o) <=> station[o].on /\ InTxCycle(o))
    BY <1>1, <1>4 DEF Decided, Sends
  <2>3. QED BY <1>1, <1>2, <1>4, <1>5, <1>6, <2>1, <2>2 DEF Remembered
<1>12. Announced(o)'
  <2>1. SUFFICES ASSUME Sends(o), Noted(o)' # None
                 PROVE  Works(o)' = {Noted(o)'}
    BY <1>1, <1>4 DEF Announced, Carried, Sends
  <2>2. ~(AtLoop(o) /\ loop.pc # "stop") => session[o].last = station[o].text
    BY <1>2, <2>1 DEF Plain, Remembered, Decided, Sends
  <2>3. AtLoop(o) /\ loop.pc # "stop" => session[o].pre = None
    BY <1>2, <2>1 DEF Plain, Remembered, Sends
  <2>4. Noted(o)' = station[o].text
    BY <1>1, <1>4, <1>5, <2>1, <2>2, <2>3 DEF Noted
  <2>5. QED BY <1>7, <2>1, <2>4
<1>13. QED BY <1>2, <1>8, <1>9, <1>10, <1>11, <1>12 DEF Plain

(* The loop, past the hooks of an operator.                                  *)
LEMMA PlainLoopHooks ==
  ASSUME TypeOK, TypeOK', bound' = bound, FlowInv, LoopHooks,
         NEW o \in Present, o \notin disturbed'
  PROVE  Plain(o)'
<1> DEFINE p == Order[loop.i]
<1>1. /\ Quiet /\ loop.pc = "hooks"
      /\ UNCHANGED <<clock, redo, station, work, queue, latest, guard, stamp, air, disturbed>>
      /\ \/ /\ loop'.pc = "scoring" /\ loop'.i = loop.i
            /\ session' = [session EXCEPT ![p].seen = None, ![p].last = None, ![p].pre = None]
         \/ ~station[p].on /\ loop' = Following(loop) /\ session' = session
  BY DEF LoopHooks, encoding, TypeOK, Loops
<1>2. Plain(o) /\ clock.ready
  BY <1>1 DEF FlowInv, Bounded
<1>3. Order' = Order /\ session \in [Present -> Sessions] /\ p \in Present
  BY Fixed, OrderFacts DEF TypeOK, Loops
<1>4. Same(o) /\ Works(o)' = Works(o) /\ (Unannounced(o)' <=> Unannounced(o))
  BY <1>1, <1>3 DEF Same, Works, Unannounced
<1>5. CASE o # p
  <2>1. session'[o] = session[o]
    BY <1>1, <1>3, <1>5
  <2>2. Unreached(o)' <=> Unreached(o)
    BY <1>1, <1>5, Passing
  <2>3. ~AtLoop(o) /\ (AtLoop(o)' => Unreached(o))
    BY <1>1, <1>5, Passing
  <2>4. QED BY <1>1, <1>2, <1>4, <2>1, <2>2, <2>3, Elsewhere
<1>6. CASE o = p
  <2>1. Unreached(o) /\ AtLoop(o)
    BY <1>1, <1>2, <1>3, <1>6 DEF Unreached, AtLoop, TypeOK, Loops
  <2>2. ~clock.encoded /\ Works(o) = {} /\ ~InQueue(o) /\ ~OnAir(o) /\ ~Unannounced(o)
    BY <1>2, <2>1 DEF Plain, Untouched, Undecided
  <2>3. Numbered(o)' /\ ~InQueue(o)' /\ ~OnAir(o)' /\ latest'[o] = None
    BY <1>1, <1>2, <1>4, <2>1, <2>2, SameNumbers DEF Plain, Untouched
  <2>4. Untouched(o)' /\ InCycle(o)' /\ Announced(o)'
    BY <1>1, <1>4, <2>2, <2>3 DEF Untouched, InCycle, Announced
  <2>5. Remembered(o)'
    <3>1. CASE ~station[p].on
      BY <1>1, <1>6, <3>1 DEF Remembered
    <3>2. CASE loop'.pc = "scoring" /\ loop'.i = loop.i
      <4>1. AtLoop(o)'
        BY <1>3, <1>6, <3>2 DEF AtLoop
      <4>2. session'[o].pre = None
        <5>1. Following(loop).pc # "scoring"
          BY DEF Following, IdleLoop
        <5>2. session' = [session EXCEPT ![p].seen = None, ![p].last = None, ![p].pre = None]
          BY <1>1, <3>2, <5>1
        <5>3. session'[p].pre = None
          <6> HIDE DEF p
          <6>1. QED BY <1>3, <5>2 DEF Sessions
        <5>4. QED BY <1>6, <5>3
      <4>3. QED BY <1>1, <2>2, <3>2, <4>1, <4>2 DEF Remembered, Decided
    <3>3. QED BY <1>1, <3>1, <3>2
  <2>6. QED BY <2>3, <2>4, <2>5 DEF Plain
<1>7. QED BY <1>5, <1>6

(* The gate wakes an operator, whose slot does not take its plain course.    *)
LEMMA PlainLoopWake ==
  ASSUME TypeOK, TypeOK', bound' = bound, FlowInv, LoopWake,
         NEW o \in Present, o \notin disturbed'
  PROVE  Plain(o)'
<1> DEFINE p == Order[loop.i]
<1>1. /\ Quiet /\ loop.pc = "hooks" /\ loop' = Following(loop)
      /\ UNCHANGED <<clock, redo, queue, latest, guard, stamp, air>>
      /\ disturbed' = disturbed \cup ({p} \cup PendingOps)
      /\ session' = [session EXCEPT ![p].seen = None]
  BY DEF LoopWake, encoding, Disturb, PendingOps
<1>2. PICK text \in Texts : CheckAndTrigger(p, Called(p, text))
                            /\ station' = [station EXCEPT ![p] = Called(p, text)]
  BY DEF LoopWake
<1>3. Plain(o) /\ o # p /\ o \notin PendingOps
  BY <1>1 DEF FlowInv
<1>4. Order' = Order /\ p \in Present
  BY Fixed, OrderFacts DEF TypeOK, Loops
<1>5. session'[o] = session[o] /\ station'[o] = station[o]
  BY <1>1, <1>2, <1>3 DEF TypeOK
<1>6. Works(o)' = Works(o)
  <2>1. Called(p, text) \in Stations
    BY <1>4, PartFacts
  <2> HIDE DEF p
  <2>2. Works(o)' = {}
    BY <1>1, <1>2, <1>3, <1>4, <2>1, TriggerWorks
  <2>3. QED BY <1>1, <2>2, QuietWorks
<1>7. Same(o) /\ (Unannounced(o)' <=> Unannounced(o))
  BY <1>1, <1>4 DEF Same, Unannounced
<1>8. Unreached(o)' <=> Unreached(o)
  BY <1>1, <1>3, Passing
<1>9. ~AtLoop(o) /\ (AtLoop(o)' => Unreached(o))
  BY <1>1, <1>3, Passing
<1>10. QED BY <1>1, <1>3, <1>5, <1>6, <1>7, <1>8, <1>9, Elsewhere

(* An auto call: the operator is switched on before its encodes have been    *)
(* asked for, or its slot has been disturbed.                                *)
LEMMA PlainLoopAutoCall ==
  ASSUME TypeOK, TypeOK', bound' = bound, FlowInv, LoopAutoCall,
         NEW o \in Present, o \notin disturbed'
  PROVE  Plain(o)'
<1> DEFINE p == Order[loop.i]
<1>1. /\ Quiet /\ loop.pc = "hooks" /\ loop'.pc = "deciding" /\ loop'.i = loop.i
      /\ UNCHANGED <<clock, redo, queue, latest, guard, stamp, air>>
      /\ disturbed' = disturbed \cup PendingOps
      /\ session' = [session EXCEPT ![p] = [NewSession EXCEPT !.busy = TRUE]]
  BY DEF LoopAutoCall, encoding, Disturb, PendingOps, TypeOK, Loops
<1>2. PICK text \in Texts : CheckAndTrigger(p, Called(p, text))
                            /\ station' = [station EXCEPT ![p] = Called(p, text)]
  BY DEF LoopAutoCall
<1>3. Plain(o) /\ o \notin PendingOps /\ clock.ready
  BY <1>1 DEF FlowInv, Bounded
<1>4. Order' = Order /\ p \in Present /\ clock.slot \in Nat
  BY Fixed, OrderFacts DEF TypeOK, Loops, Clocks
<1>5. Works(o)' = IF o = p THEN {text} ELSE {}
  <2>1. Called(p, text) \in Stations
    BY <1>4, PartFacts
  <2>2. Speaks(Called(p, text)) /\ Called(p, text).text = text
    BY FlowAssumption DEF Called, Speaks
  <2> HIDE DEF p
  <2>3. QED BY <1>1, <1>2, <1>3, <1>4, <2>1, <2>2, TriggerWorks
<1>6. Same(o) /\ (Unannounced(o)' <=> Unannounced(o))
  BY <1>1, <1>4 DEF Same, Unannounced
<1>7. CASE o # p
  <2>1. session'[o] = session[o] /\ station'[o] = station[o]
    BY <1>1, <1>2, <1>7 DEF TypeOK
  <2>2. Works(o)' = Works(o)
    BY <1>1, <1>5, <1>7, QuietWorks
  <2>3. Unreached(o)' <=> Unreached(o)
    BY <1>1, <1>7, Passing
  <2>4. ~AtLoop(o) /\ (AtLoop(o)' => Unreached(o))
    BY <1>1, <1>7, Passing
  <2>5. QED BY <1>1, <1>3, <1>6, <2>1, <2>2, <2>3, <2>4, Elsewhere
<1>8. CASE o = p
  <2>1. Unreached(o) /\ AtLoop(o) /\ AtLoop(o)'
    BY <1>1, <1>3, <1>4, <1>8 DEF Unreached, AtLoop, TypeOK, Loops
  <2>2. ~Unreached(o)'
    <3>1. loop.i \in DOMAIN Order /\ loop.i \in Nat
      BY OrderFacts DEF TypeOK, Loops
    <3>2. QED BY <1>1, <1>3, <1>8, <3>1, PlaceNext
  <2>3. ~clock.encoded /\ ~InQueue(o) /\ ~OnAir(o) /\ ~Unannounced(o)
    BY <1>3, <2>1 DEF Plain, Untouched, Undecided
  <2>4. Numbered(o)' /\ ~InQueue(o)' /\ ~OnAir(o)'
    BY <1>3, <1>6, <2>3, SameNumbers DEF Plain
  <2>5. InTxCycle(o)'
    <3>1. station'[o] = Called(p, text)
      BY <1>2, <1>8 DEF TypeOK
    <3>2. QED BY <1>1, <3>1 DEF InTxCycle, Called
  <2>6. Untouched(o)' /\ InCycle(o)' /\ Announced(o)'
    BY <1>1, <1>6, <2>2, <2>3, <2>5 DEF Untouched, InCycle, Announced
  <2>7. Remembered(o)'
    <3>1. session'[o].pre = None
      BY <1>1, <1>8 DEF TypeOK, NewSession
    <3>2. QED BY <1>1, <2>1, <2>3, <3>1 DEF Remembered, Decided
  <2>8. QED BY <2>4, <2>6, <2>7 DEF Plain
<1>9. QED BY <1>7, <1>8

(* The scores for an operator are there.                                     *)
LEMMA PlainLoopScored ==
  ASSUME TypeOK, TypeOK', bound' = bound, FlowInv, LoopScored,
         NEW o \in Present, o \notin disturbed'
  PROVE  Plain(o)'
<1>1. /\ loop.pc = "scoring" /\ loop'.pc = "deciding" /\ loop'.i = loop.i
      /\ UNCHANGED <<clock, redo, station, work, queue, latest, guard, stamp, air, disturbed>>
      /\ session' = [session EXCEPT ![Order[loop.i]].busy = TRUE]
  BY DEF LoopScored, encoding, TypeOK, Loops
<1>2. Plain(o)
  BY <1>1 DEF FlowInv
<1>3. Order' = Order
  BY Fixed
<1>4. session'[o].last = session[o].last /\ session'[o].pre = session[o].pre
  <2>1. session \in [Present -> Sessions]
    BY DEF TypeOK
  <2>2. QED BY <1>1, <2>1 DEF Sessions
<1>5. /\ Unreached(o)' <=> Unreached(o)
      /\ AtLoop(o)' <=> AtLoop(o)
      /\ Unannounced(o)' <=> Unannounced(o)
      /\ Undecided(o)' <=> Undecided(o)
      /\ InTxCycle(o)' <=> InTxCycle(o)
      /\ Works(o)' = Works(o)
  BY <1>1, <1>3 DEF Unreached, AtLoop, Unannounced, Undecided, InTxCycle, Works
<1>6. Same(o)
  BY <1>1 DEF Same
<1>7. /\ Numbered(o)' <=> Numbered(o)
      /\ InQueue(o)' <=> InQueue(o)
      /\ OnAir(o)' <=> OnAir(o)
      /\ \A text : Awaited(o, text)' <=> Awaited(o, text)
  BY <1>6, SameNumbers
<1>8. Decided(o)' <=> Decided(o)
  BY <1>1, <1>5 DEF Decided
<1>9. Untouched(o)' /\ InCycle(o)'
  BY <1>1, <1>2, <1>5, <1>7 DEF Plain, Untouched, InCycle
<1>10. Remembered(o)'
  BY <1>1, <1>2, <1>4, <1>5, <1>8 DEF Plain, Remembered
<1>11. Announced(o)'
  BY <1>1, <1>2, <1>4, <1>5, <1>7 DEF Plain, Announced, Carried, Noted
<1>12. QED BY <1>2, <1>7, <1>9, <1>10, <1>11 DEF Plain

(* The slot's decision: the text noted at encodeStart stays asked for until  *)
(* the plugins have been told.                                               *)
LEMMA PlainLoopDecided ==
  ASSUME TypeOK, TypeOK', bound' = bound, FlowInv, LoopDecided,
         NEW o \in Present, o \notin disturbed'
  PROVE  Plain(o)'
<1> DEFINE p == Order[loop.i]
           now == [slot |-> clock.slot, ver |-> 0]
<1>1. /\ loop.pc = "deciding" /\ loop'.pc = "notifying" /\ loop'.i = loop.i
      /\ UNCHANGED <<clock, redo, work, queue, latest, guard, stamp, air, disturbed>>
  BY DEF LoopDecided, encoding, TypeOK, Loops
<1>2. PICK text \in Texts \cup {None}, seen \in {now, session[p].seen} :
        /\ station' = [station EXCEPT ![p].text = text]
        /\ session' = [session EXCEPT ![p].busy = FALSE, ![p].seen = seen, ![p].last = text]
  BY DEF LoopDecided
<1>3. Plain(o) /\ clock.ready
  BY <1>1 DEF FlowInv, Bounded
<1>4. Order' = Order
  BY Fixed
<1> HIDE DEF now
<1>5. station \in [Present -> Stations] /\ session \in [Present -> Sessions]
  BY DEF TypeOK
<1>6. /\ station'[o].on = station[o].on /\ station'[o].cycle = station[o].cycle
      /\ session'[o].pre = session[o].pre
      /\ o # p => session'[o].last = session[o].last /\ station'[o] = station[o]
      /\ o = p => session'[o].last = text /\ station'[o].text = text
  <2> HIDE DEF p
  <2>1. QED BY <1>2, <1>5 DEF Stations, Sessions
<1>7. /\ Unreached(o)' <=> Unreached(o)
      /\ AtLoop(o)' <=> AtLoop(o)
      /\ AtLoop(o) => o = p
      /\ Unannounced(o)' <=> Unannounced(o)
      /\ Undecided(o)' <=> Undecided(o)
      /\ Works(o)' = Works(o)
  BY <1>1, <1>4 DEF Unreached, AtLoop, Unannounced, Undecided, Works
<1>8. Same(o) /\ (InTxCycle(o)' <=> InTxCycle(o))
  BY <1>1, <1>6 DEF Same, InTxCycle
<1>9. /\ Numbered(o)' <=> Numbered(o)
      /\ InQueue(o)' <=> InQueue(o)
      /\ OnAir(o)' <=> OnAir(o)
      /\ \A t : Awaited(o, t)' <=> Awaited(o, t)
  BY <1>8, SameNumbers
<1>10. Untouched(o)' /\ InCycle(o)'
  BY <1>1, <1>3, <1>7, <1>8, <1>9 DEF Plain, Untouched, InCycle
<1>11. (o = p => AtLoop(o)) /\ Decided(o)'
  BY <1>1, <1>7 DEF AtLoop, Decided
<1>12. Remembered(o)'
  <2>1. CASE o = p
    <3>1. ~Decided(o) /\ (Unreached(o)' <=> Unreached(o))
      BY <1>1, <1>7, <1>11, <2>1 DEF Decided
    <3>2. station[o].on /\ InTxCycle(o) /\ clock.encoded => session[o].pre # None
      BY <1>1, <1>3, <1>11, <2>1, <3>1 DEF Plain, Remembered
    <3>3. station[o].on /\ ~clock.encoded /\ ~Unreached(o) => session[o].pre = None
      BY <1>1, <1>3, <1>11, <2>1 DEF Plain, Remembered
    <3>4. QED BY <1>1, <1>6, <1>8, <1>11, <2>1, <3>1, <3>2, <3>3 DEF Remembered
  <2>2. CASE o # p
    BY <1>1, <1>3, <1>6, <1>7, <1>8, <2>2 DEF Plain, Remembered, Decided
  <2>3. QED BY <2>1, <2>2
<1>13. Announced(o)'
  <2>1. Noted(o)' = Noted(o)
    <3>1. CASE AtLoop(o)
      BY <1>1, <1>6, <1>7, <3>1 DEF Noted
    <3>2. CASE ~AtLoop(o)
      BY <1>6, <1>7, <1>11, <3>2 DEF Noted
    <3>3. QED BY <3>1, <3>2
  <2>2. QED BY <1>1, <1>3, <1>6, <1>7, <1>8, <1>9, <2>1 DEF Plain, Announced, Carried
<1>14. QED BY <1>3, <1>9, <1>10, <1>12, <1>13 DEF Plain

(* The plugins have heard: if the decision has replaced the text that was    *)
(* asked for, the new one is asked for.                                      *)
LEMMA PlainLoopNotified ==
  ASSUME TypeOK, TypeOK', bound' = bound, FlowInv, LoopNotified,
         NEW o \in Present, o \notin disturbed'
  PROVE  Plain(o)'
<1> DEFINE p == Order[loop.i]
<1>1. /\ Quiet /\ loop.pc = "notifying"
      /\ (loop'.pc = "stop" /\ loop'.i = loop.i) \/ loop' = Following(loop)
      /\ UNCHANGED <<clock, redo, station, queue, latest, guard, stamp, air>>
      /\ session' = [session EXCEPT ![p].pre = None]
  BY DEF LoopNotified, encoding, TypeOK, Loops
<1>2. IF Outdated(p) THEN CheckAndTrigger(p, station[p]) /\ disturbed' = disturbed \cup PendingOps
      ELSE work' = work /\ disturbed' = disturbed
  BY DEF LoopNotified, Disturb, PendingOps
<1>3. Plain(o) /\ clock.ready /\ (Outdated(p) => o \notin PendingOps)
  BY <1>1, <1>2 DEF FlowInv, Bounded
<1>4. Order' = Order /\ p \in Present /\ loop.i \in DOMAIN Order
  BY Fixed, OrderFacts DEF TypeOK, Loops
<1>5. station[p] \in Stations
  BY <1>4 DEF TypeOK
<1>6. Works(o) = {}
  BY <1>1, QuietWorks
<1> DEFINE asks == Outdated(p) /\ o = p /\ Speaks(station[p])
<1>7. Works(o)' = IF asks THEN {station[p].text} ELSE {}
  <2>1. CASE Outdated(p)
    <3> HIDE DEF p
    <3>1. Works(o)' = IF o = p /\ Speaks(station[p]) THEN {station[p].text} ELSE {}
      BY <1>1, <1>2, <1>3, <1>4, <1>5, <2>1, TriggerWorks
    <3>2. QED BY <2>1, <3>1
  <2>2. CASE ~Outdated(p)
    <3>1. Works(o)' = Works(o)
      BY <1>2, <2>2 DEF Works
    <3>2. QED BY <1>6, <2>2, <3>1
  <2>3. QED BY <2>1, <2>2
<1>8. Same(o) /\ (Unannounced(o)' <=> Unannounced(o)) /\ (InTxCycle(o)' <=> InTxCycle(o))
  BY <1>1, <1>4 DEF Same, Unannounced, InTxCycle
<1>9. session \in [Present -> Sessions]
  BY DEF TypeOK
<1>10. /\ session'[o].last = session[o].last
       /\ o # p => session'[o] = session[o]
  BY <1>1, <1>9 DEF Sessions
<1>11. CASE o # p
  <2>1. Works(o)' = Works(o)
    BY <1>6, <1>7, <1>11
  <2>2. Unreached(o)' <=> Unreached(o)
    BY <1>1, <1>11, Passing
  <2>3. ~AtLoop(o) /\ (AtLoop(o)' => Unreached(o))
    BY <1>1, <1>11, Passing
  <2>4. QED BY <1>1, <1>3, <1>8, <1>10, <1>11, <2>1, <2>2, <2>3, Elsewhere
<1>12. CASE o = p
  <2>1. AtLoop(o) /\ ~Unreached(o) /\ Decided(o)
    <3>1. ~Unreached(o)
      BY <1>1, <1>3, <1>4, <1>12, OrderFacts, PlaceOf
    <3>2. QED BY <1>1, <1>12, <3>1 DEF AtLoop, Decided
  <2>2. ~Unannounced(o)
    BY <1>3, <2>1 DEF Plain, Untouched, Undecided, AtLoop
  <2>3. ~Unreached(o)' /\ (AtLoop(o)' => loop'.pc = "stop")
    <3>1. CASE loop' = Following(loop)
      BY <1>1, <1>3, <1>12, <3>1, Passed
    <3>2. CASE loop'.pc = "stop" /\ loop'.i = loop.i
      <4>1. ~Unreached(o)'
        <5>1. loop.i \in Nat
          BY <1>4, OrderFacts
        <5>2. QED BY <1>1, <1>3, <1>4, <1>12, <3>2, <5>1, PlaceNext
      <4>2. QED BY <3>2, <4>1
    <3>3. QED BY <1>1, <3>1, <3>2
  <2>4. /\ Numbered(o)' <=> Numbered(o)
        /\ InQueue(o)' <=> InQueue(o)
        /\ OnAir(o)' <=> OnAir(o)
        /\ \A t : Awaited(o, t)' <=> Awaited(o, t)
    BY <1>8, SameNumbers
  <2>5. Untouched(o)'
    BY <1>8, <2>2, <2>3 DEF Untouched
  <2>6. InCycle(o)'
    BY <1>3, <1>6, <1>7, <1>8, <1>12, <2>4 DEF Plain, InCycle, InTxCycle, Speaks
  <2>7. station[o].on => session[o].last = station[o].text
    BY <1>3, <2>1, <2>2 DEF Plain, Remembered
  <2>8. Remembered(o)'
    BY <1>1, <1>10, <2>3, <2>7 DEF Remembered
  <2>9. Announced(o)'
    <3>1. Noted(o)' = session[o].last
      BY <1>10, <2>3 DEF Noted
    <3>2. SUFFICES ASSUME station[o].on, InTxCycle(o), clock.encoded, session[o].last # None
                   PROVE  Carried(o, Noted(o))'
      BY <1>1, <1>8, <3>1 DEF Announced
    <3>3. session[o].pre # None /\ Awaited(o, session[o].pre)
      BY <1>1, <1>3, <1>6, <2>1, <3>2 DEF Plain, Remembered, Announced, Carried, Noted
    <3>4. CASE Outdated(p)
      <4>1. Works(o)' = {station[o].text}
        BY <1>7, <1>12, <2>7, <3>2, <3>4 DEF InTxCycle, Speaks
      <4>2. QED BY <2>7, <3>1, <3>2, <4>1 DEF Carried
    <3>5. CASE ~Outdated(p)
      <4>1. session[o].last = session[o].pre
        BY <1>12, <2>7, <3>2, <3>3, <3>5 DEF Outdated
      <4>2. Works(o)' = {}
        BY <1>7, <3>5
      <4>3. Awaited(o, session[o].last)
        BY <3>3, <4>1
      <4>4. QED BY <2>4, <3>1, <4>2, <4>3 DEF Carried
    <3>6. QED BY <3>4, <3>5
  <2>10. QED BY <1>3, <2>4, <2>5, <2>6, <2>8, <2>9 DEF Plain
<1>13. QED BY <1>11, <1>12

(* A strategy stops its operator.                                            *)
LEMMA PlainLoopStop ==
  ASSUME TypeOK, TypeOK', bound' = bound, FlowInv, LoopStop,
         NEW o \in Present, o \notin disturbed'
  PROVE  Plain(o)'
<1> DEFINE p == Order[loop.i]
<1>1. /\ loop.pc = "stop" /\ loop' = Following(loop)
      /\ UNCHANGED <<clock, redo, session, work, queue, latest, guard, stamp, air, disturbed>>
      /\ station' = [station EXCEPT ![p].on = FALSE]
  BY DEF LoopStop, encoding
<1>2. Plain(o) /\ clock.ready
  BY <1>1 DEF FlowInv, Bounded
<1>3. Order' = Order /\ p \in Present /\ loop.i \in DOMAIN Order
  BY Fixed, OrderFacts DEF TypeOK, Loops
<1>4. station \in [Present -> Stations]
  BY DEF TypeOK
<1>5. /\ station'[o].cycle = station[o].cycle
      /\ o # p => station'[o] = station[o]
      /\ o = p => ~station'[o].on
  BY <1>1, <1>4 DEF Stations
<1>6. Same(o) /\ (Unannounced(o)' <=> Unannounced(o)) /\ (InTxCycle(o)' <=> InTxCycle(o))
      /\ Works(o)' = Works(o)
  BY <1>1, <1>3, <1>5 DEF Same, Unannounced, InTxCycle, Works
<1>7. CASE o # p
  <2>1. Unreached(o)' <=> Unreached(o)
    BY <1>1, <1>7, Passing
  <2>2. ~AtLoop(o) /\ (AtLoop(o)' => Unreached(o))
    BY <1>1, <1>7, Passing
  <2>3. QED BY <1>1, <1>2, <1>5, <1>6, <1>7, <2>1, <2>2, Elsewhere
<1>8. CASE o = p
  <2>1. ~Unannounced(o)
    BY <1>1, <1>2, <1>8 DEF Plain, Untouched, Undecided
  <2>2. ~Unreached(o)'
    BY <1>1, <1>2, <1>8, Passed
  <2>3. /\ Numbered(o)' <=> Numbered(o)
        /\ InQueue(o)' <=> InQueue(o)
        /\ OnAir(o)' <=> OnAir(o)
    BY <1>6, SameNumbers
  <2>4. Untouched(o)' /\ InCycle(o)'
    BY <1>2, <1>6, <2>1, <2>2, <2>3 DEF Plain, Untouched, InCycle
  <2>5. Remembered(o)' /\ Announced(o)'
    BY <1>5, <1>8 DEF Remembered, Announced
  <2>6. QED BY <1>2, <2>3, <2>4, <2>5 DEF Plain
<1>9. QED BY <1>7, <1>8

(* A step that neither moves the loop nor concerns the operator.             *)
LEMMA Bystander ==
  ASSUME bound' = bound, NEW o, Plain(o), UNCHANGED <<clock, loop, queue>>,
         latest'[o] = latest[o], guard'[o] = guard[o], stamp'[o] = stamp[o], air'[o] = air[o],
         station'[o] = station[o], session'[o].last = session[o].last,
         session'[o].pre = session[o].pre, Works(o)' = Works(o),
         Unannounced(o)' <=> Unannounced(o)
  PROVE  Plain(o)'
<1>1. Order' = Order
  BY Fixed
<1>2. (Unreached(o)' <=> Unreached(o)) /\ (AtLoop(o)' <=> AtLoop(o)) /\ Same(o)
  BY <1>1 DEF Unreached, AtLoop, Same
<1>3. QED BY <1>2, Elsewhere

(* Late decodes arrive.                                                      *)
LEMMA PlainLateDecode ==
  ASSUME TypeOK, TypeOK', bound' = bound, FlowInv, LateDecode,
         NEW o \in Present, o \notin disturbed'
  PROVE  Plain(o)'
<1>1. UNCHANGED <<clock, loop, session, station, work, queue, latest, guard, stamp, air, disturbed>>
  BY DEF LateDecode, encoding
<1>2. Plain(o)
  BY <1>1 DEF FlowInv
<1>3. Unannounced(o)' <=> Unannounced(o)
  <2> DEFINE begun == [IdleRedo EXCEPT !.pc = "next", !.ver = decodes + 1]
  <2>1. PICK r \in Redos : redo[r].pc = "idle" /\ redo' = [redo EXCEPT ![r] = begun]
    BY DEF LateDecode
  <2>2. begun.pc # "notifying"
    BY DEF IdleRedo
  <2> HIDE DEF begun
  <2>3. QED BY <2>1, <2>2, NoticeFacts
<1>4. Works(o)' = Works(o)
  BY <1>1 DEF Works
<1>5. QED BY <1>1, <1>2, <1>3, <1>4, Bystander

(* A re-decision looks at the next operator.                                 *)
LEMMA PlainRedoNext ==
  ASSUME TypeOK, TypeOK', bound' = bound, FlowInv, NEW r \in Redos, RedoNext(r),
         NEW o \in Present, o \notin disturbed'
  PROVE  Plain(o)'
<1>1. UNCHANGED <<clock, loop, session, station, work, queue, latest, guard, stamp, air, disturbed>>
      /\ redo[r].pc = "next"
  BY DEF RedoNext, encoding
<1>2. Plain(o)
  BY <1>1 DEF FlowInv
<1>3. PICK d : redo' = [redo EXCEPT ![r] = d] /\ d.pc # "notifying"
  <2>1. Advance(redo[r]).pc # "notifying"
    BY PlaceFacts
  <2>2. redo[r] \in RedoRuns
    BY DEF TypeOK
  <2>3. [redo[r] EXCEPT !.pc = "scoring"].pc # "notifying"
        /\ [redo[r] EXCEPT !.pc = "waking"].pc # "notifying"
    BY <2>2 DEF RedoRuns
  <2>4. \/ redo' = [redo EXCEPT ![r] = [redo[r] EXCEPT !.pc = "scoring"]]
        \/ redo' = [redo EXCEPT ![r] = Advance(redo[r])]
        \/ redo' = [redo EXCEPT ![r] = [redo[r] EXCEPT !.pc = "waking"]]
    BY DEF RedoNext
  <2>5. QED BY <2>1, <2>3, <2>4
<1>4. Unannounced(o)' <=> Unannounced(o)
  BY <1>1, <1>3, NoticeFacts
<1>5. Works(o)' = Works(o)
  BY <1>1 DEF Works
<1>6. QED BY <1>1, <1>2, <1>4, <1>5, Bystander

(* The gate, asked by a re-decision, wakes a stopped operator or does not.   *)
LEMMA PlainRedoWake ==
  ASSUME TypeOK, TypeOK', bound' = bound, FlowInv, NEW r \in Redos, RedoWake(r),
         NEW o \in Present, o \notin disturbed'
  PROVE  Plain(o)'
<1> DEFINE p == Order[redo[r].i]
<1>1. /\ Quiet /\ redo[r].pc = "waking" /\ redo' = [redo EXCEPT ![r] = Advance(redo[r])]
      /\ UNCHANGED <<clock, loop, queue, latest, guard, stamp, air>>
  BY DEF RedoWake, encoding
<1>2. \/ UNCHANGED <<session, station, work, disturbed>>
      \/ \E text \in Texts :
           /\ station' = [station EXCEPT ![p] = Called(p, text)]
           /\ session' = [session EXCEPT ![p].seen = None]
           /\ work' = Unique(Append(pending, Wanted(p, text))) \o <<Wanted(p, text)>>
           /\ disturbed' = disturbed \cup ({p} \cup PendingOps)
  BY DEF RedoWake, Disturb, PendingOps
<1>3. Plain(o)
  BY <1>2 DEF FlowInv
<1>4. p \in Present
  BY OrderFacts DEF TypeOK, RedoRuns
<1>5. Unannounced(o)' <=> Unannounced(o)
  <2>1. Advance(redo[r]).pc # "notifying"
    BY PlaceFacts
  <2>2. QED BY <1>1, <2>1, NoticeFacts
<1>6. Works(o) = {}
  BY <1>1, QuietWorks
<1>7. CASE UNCHANGED <<session, station, work, disturbed>>
  <2>1. Works(o)' = Works(o)
    BY <1>7 DEF Works
  <2>2. QED BY <1>1, <1>3, <1>5, <1>7, <2>1, Bystander
<1>8. ASSUME NEW text \in Texts,
             /\ station' = [station EXCEPT ![p] = Called(p, text)]
             /\ session' = [session EXCEPT ![p].seen = None]
             /\ work' = Unique(Append(pending, Wanted(p, text))) \o <<Wanted(p, text)>>
             /\ disturbed' = disturbed \cup ({p} \cup PendingOps)
      PROVE  Plain(o)'
  <2>1. o # p /\ o \notin PendingOps
    BY <1>8
  <2>2. station'[o] = station[o] /\ session'[o] = session[o]
    BY <1>8, <2>1 DEF TypeOK
  <2>3. Works(o)' = {}
    <3> HIDE DEF p
    <3>1. QED BY <1>4, <1>8, <2>1, WakeWorks
  <2>4. QED BY <1>1, <1>3, <1>5, <1>6, <2>2, <2>3, Bystander
<1>9. QED BY <1>2, <1>7, <1>8

(* A re-decision has its scores.                                             *)
LEMMA PlainRedoScored ==
  ASSUME TypeOK, TypeOK', bound' = bound, FlowInv, NEW r \in Redos, RedoScored(r),
         NEW o \in Present, o \notin disturbed'
  PROVE  Plain(o)'
<1>1. /\ redo[r].pc = "scoring"
      /\ redo' = [redo EXCEPT ![r] = [redo[r] EXCEPT !.pc = "deciding"]]
      /\ session' = [session EXCEPT ![Order[redo[r].i]].busy = TRUE]
      /\ UNCHANGED <<clock, loop, station, work, queue, latest, guard, stamp, air, disturbed>>
  BY DEF RedoScored, encoding
<1>2. Plain(o)
  BY <1>1 DEF FlowInv
<1>3. Unannounced(o)' <=> Unannounced(o)
  <2>1. [redo[r] EXCEPT !.pc = "deciding"].pc # "notifying"
    BY DEF TypeOK, RedoRuns
  <2>2. QED BY <1>1, <2>1, NoticeFacts
<1>4. session'[o].last = session[o].last /\ session'[o].pre = session[o].pre
  <2>1. session \in [Present -> Sessions]
    BY DEF TypeOK
  <2>2. QED BY <1>1, <2>1 DEF Sessions
<1>5. Works(o)' = Works(o)
  BY <1>1 DEF Works
<1>6. QED BY <1>1, <1>2, <1>3, <1>4, <1>5, Bystander

(* A late decision, after that of the slot itself: the text asked for stays  *)
(* that of the earlier one until the plugins have been told.                 *)
LEMMA PlainRedoDecided ==
  ASSUME TypeOK, TypeOK', bound' = bound, FlowInv, NEW r \in Redos, RedoDecided(r),
         NEW o \in Present, o \notin disturbed'
  PROVE  Plain(o)'
<1> DEFINE p == Order[redo[r].i]
<1>1. /\ redo[r].pc = "deciding" /\ session' = [session EXCEPT ![p].busy = FALSE]
      /\ disturbed' = disturbed \cup (IF Undecided(p) THEN {p} ELSE {})
      /\ UNCHANGED <<clock, loop, work, queue, latest, guard, stamp, air>>
  BY DEF RedoDecided, encoding, Disturb
<1>2. PICK text \in Texts \cup {None}, stop \in BOOLEAN :
        /\ station' = [station EXCEPT ![p].text = text]
        /\ redo' = [redo EXCEPT ![r].pc = "notifying", ![r].stop = stop]
  BY DEF RedoDecided
<1>3. Plain(o)
  BY <1>1 DEF FlowInv
<1>4. /\ redo \in [Redos -> RedoRuns] /\ station \in [Present -> Stations]
      /\ session \in [Present -> Sessions] /\ Order' = Order
  BY Fixed DEF TypeOK
<1>5. Works(o)' = Works(o)
  BY <1>1 DEF Works
<1>6. /\ redo' = [redo EXCEPT ![r] = [redo[r] EXCEPT !.pc = "notifying", !.stop = stop]]
      /\ redo'[r].pc = "notifying" /\ redo'[r].i = redo[r].i
      /\ [redo[r] EXCEPT !.pc = "notifying", !.stop = stop].i = redo[r].i
  BY <1>2, <1>4 DEF RedoRuns
<1>7. /\ session'[o].last = session[o].last /\ session'[o].pre = session[o].pre
      /\ station'[o].on = station[o].on /\ station'[o].cycle = station[o].cycle
      /\ o # p => station'[o] = station[o]
  <2> HIDE DEF p
  <2>1. QED BY <1>1, <1>2, <1>4 DEF Stations, Sessions
<1>8. CASE o # p
  <2>1. Unannounced(o)' <=> Unannounced(o)
    <3> DEFINE d == [redo[r] EXCEPT !.pc = "notifying", !.stop = stop]
    <3>1. redo' = [redo EXCEPT ![r] = d] /\ d.i = redo[r].i
      BY <1>6
    <3> HIDE DEF d
    <3>2. QED BY <1>8, <3>1, NoticeFacts
  <2>2. QED BY <1>1, <1>3, <1>5, <1>7, <1>8, <2>1, Bystander
<1>9. CASE o = p
  <2>1. ~Undecided(o)
    BY <1>1, <1>9
  <2>2. Unannounced(o)'
    BY <1>4, <1>6, <1>9 DEF Unannounced
  <2>3. /\ Unreached(o)' <=> Unreached(o)
        /\ AtLoop(o)' <=> AtLoop(o)
        /\ Undecided(o)' <=> Undecided(o)
        /\ InTxCycle(o)' <=> InTxCycle(o)
    BY <1>1, <1>4, <1>7 DEF Unreached, AtLoop, Undecided, InTxCycle
  <2>4. Same(o) /\ ~AtLoop(o)
    BY <1>1, <2>1 DEF Same, Undecided, AtLoop
  <2>5. /\ Numbered(o)' <=> Numbered(o)
        /\ InQueue(o)' <=> InQueue(o)
        /\ OnAir(o)' <=> OnAir(o)
        /\ \A t : Awaited(o, t)' <=> Awaited(o, t)
    BY <2>4, SameNumbers
  <2>6. Untouched(o)' /\ InCycle(o)'
    BY <1>1, <1>3, <1>5, <2>1, <2>3, <2>5 DEF Plain, Untouched, InCycle
  <2>7. Remembered(o)'
    BY <1>3, <1>7, <2>2, <2>3, <2>4 DEF Plain, Remembered, Decided
  <2>8. Announced(o)'
    BY <1>1, <1>3, <1>5, <1>7, <2>3, <2>4, <2>5 DEF Plain, Announced, Carried, Noted
  <2>9. QED BY <1>3, <2>5, <2>6, <2>7, <2>8 DEF Plain
<1>10. QED BY <1>8, <1>9

(* The plugins have heard of a late decision: a stopped operator's audio     *)
(* leaves the mixer, a new text is asked for.                                *)
LEMMA PlainRedoNotified ==
  ASSUME TypeOK, TypeOK', bound' = bound, FlowInv, NEW r \in Redos, RedoNotified(r),
         NEW o \in Present, o \notin disturbed'
  PROVE  Plain(o)'
<1> DEFINE p == Order[redo[r].i]
           now == [slot |-> clock.slot, ver |-> redo[r].ver]
           asks == station[p].text # session[p].last
<1>1. /\ Quiet /\ redo[r].pc = "notifying" /\ redo' = [redo EXCEPT ![r] = Advance(redo[r])]
      /\ UNCHANGED <<clock, loop, queue, latest, guard, stamp>>
  BY DEF RedoNotified
<1>2. \/ /\ station' = [station EXCEPT ![p].on = FALSE]
         /\ air' = [air EXCEPT ![p] = None]
         /\ UNCHANGED <<session, work, disturbed>>
      \/ /\ session' = [session EXCEPT ![p].last = station[p].text, ![p].seen = now]
         /\ asks => CheckAndTrigger(p, station[p]) /\ disturbed' = disturbed \cup PendingOps
         /\ ~asks => UNCHANGED <<work, disturbed>>
         /\ UNCHANGED <<station, air>>
  BY DEF RedoNotified, Disturb, PendingOps
<1> HIDE DEF now
<1>3. Plain(o)
  BY <1>2 DEF FlowInv
<1>4. /\ redo \in [Redos -> RedoRuns] /\ station \in [Present -> Stations]
      /\ session \in [Present -> Sessions] /\ air \in [Present -> Answer \cup {None}]
      /\ Order' = Order /\ p \in Present
  BY Fixed, OrderFacts DEF TypeOK, RedoRuns
<1>5. Works(o) = {}
  BY <1>1, QuietWorks
<1>6. Advance(redo[r]).pc # "notifying"
  BY PlaceFacts
<1>7. o # p => (Unannounced(o)' <=> Unannounced(o))
  BY <1>1, <1>6, NoticeFacts
<1>8. o = p => ~Unreached(o) /\ ~AtLoop(o) /\ ~Undecided(o)
  <2>1. o = p => Unannounced(o)
    BY <1>1 DEF Unannounced
  <2>2. QED BY <1>3, <2>1 DEF Plain, Untouched, Undecided, AtLoop
<1>9. /\ Unreached(o)' <=> Unreached(o)
      /\ AtLoop(o)' <=> AtLoop(o)
      /\ Undecided(o)' <=> Undecided(o)
  BY <1>1, <1>4 DEF Unreached, AtLoop, Undecided
<1>10. CASE /\ station' = [station EXCEPT ![p].on = FALSE]
            /\ air' = [air EXCEPT ![p] = None]
            /\ UNCHANGED <<session, work, disturbed>>
  <2>1. Works(o)' = Works(o)
    BY <1>10 DEF Works
  <2>2. CASE o # p
    <3>1. station'[o] = station[o] /\ air'[o] = air[o]
      BY <1>4, <1>10, <2>2
    <3>2. QED BY <1>1, <1>3, <1>7, <1>10, <2>1, <2>2, <3>1, Bystander
  <2>3. CASE o = p
    <3>1. air'[o] = None /\ ~station'[o].on /\ station'[o].cycle = station[o].cycle
      BY <1>4, <1>10, <2>3 DEF Stations
    <3>2. ~OnAir(o)' /\ (InQueue(o)' <=> InQueue(o)) /\ (Asked(o)' <=> Asked(o))
          /\ (InTxCycle(o)' <=> InTxCycle(o))
      BY <1>1, <3>1 DEF OnAir, InQueue, Asked, InTxCycle
    <3>3. Numbered(o)'
      BY <1>1, <1>3, <3>1, <3>2 DEF Plain, Numbered
    <3>4. Untouched(o)' /\ InCycle(o)' /\ Remembered(o)' /\ Announced(o)'
      BY <1>3, <1>8, <1>9, <2>1, <2>3, <3>1, <3>2
         DEF Plain, Untouched, InCycle, Remembered, Announced
    <3>5. QED BY <3>3, <3>4 DEF Plain
  <2>4. QED BY <2>2, <2>3
<1>11. CASE /\ session' = [session EXCEPT ![p].last = station[p].text, ![p].seen = now]
            /\ asks => CheckAndTrigger(p, station[p]) /\ disturbed' = disturbed \cup PendingOps
            /\ ~asks => UNCHANGED <<work, disturbed>>
            /\ UNCHANGED <<station, air>>
  <2>1. Works(o)' = IF asks /\ o = p /\ Speaks(station[p]) THEN {station[p].text} ELSE {}
    <3>1. CASE asks
      <4>1. station[p] \in Stations /\ CheckAndTrigger(p, station[p]) /\ o \notin PendingOps
        BY <1>4, <1>11, <3>1
      <4> HIDE DEF p
      <4>2. Works(o)' = IF o = p /\ Speaks(station[p]) THEN {station[p].text} ELSE {}
        BY <1>1, <1>4, <4>1, TriggerWorks
      <4>3. QED BY <3>1, <4>2
    <3>2. CASE ~asks
      <4>1. Works(o)' = Works(o)
        BY <1>11, <3>2 DEF Works
      <4>2. QED BY <1>5, <3>2, <4>1
    <3>3. QED BY <3>1, <3>2
  <2>2. CASE o # p
    <3>1. session'[o] = session[o] /\ Works(o)' = Works(o)
      BY <1>4, <1>5, <1>11, <2>1, <2>2
    <3>2. QED BY <1>1, <1>3, <1>7, <1>11, <2>2, <3>1, Bystander
  <2>3. CASE o = p
    <3>1. session'[o].last = station[o].text /\ session'[o].pre = session[o].pre
      <4>1. session' = [session EXCEPT ![o].last = station[o].text, ![o].seen = now]
        BY <1>11, <2>3
      <4>2. QED BY <1>4, <4>1 DEF Sessions
    <3>2. Same(o) /\ (InTxCycle(o)' <=> InTxCycle(o))
      BY <1>1, <1>11 DEF Same, InTxCycle
    <3>3. /\ Numbered(o)' <=> Numbered(o)
          /\ InQueue(o)' <=> InQueue(o)
          /\ OnAir(o)' <=> OnAir(o)
          /\ \A t : Awaited(o, t)' <=> Awaited(o, t)
      BY <3>2, SameNumbers
    <3>4. Untouched(o)'
      BY <1>8, <1>9, <2>3 DEF Untouched
    <3>5. InCycle(o)'
      BY <1>1, <1>3, <1>5, <2>1, <2>3, <3>2, <3>3 DEF Plain, InCycle, InTxCycle, Speaks
    <3>6. Remembered(o)'
      BY <1>8, <1>9, <1>11, <2>3, <3>1 DEF Remembered
    <3>7. Announced(o)'
      <4>1. Noted(o)' = station[o].text
        BY <1>8, <1>9, <2>3, <3>1 DEF Noted
      <4>2. SUFFICES ASSUME station[o].on, InTxCycle(o), clock.encoded, station[o].text # None
                     PROVE  Carried(o, Noted(o))'
        BY <1>1, <1>11, <3>2, <4>1 DEF Announced
      <4>3. session[o].last # None => Awaited(o, session[o].last)
        BY <1>3, <1>5, <1>8, <2>3, <4>2 DEF Plain, Announced, Carried, Noted
      <4>4. CASE asks
        <5>1. Works(o)' = {station[o].text}
          BY <2>1, <2>3, <4>2, <4>4 DEF InTxCycle, Speaks
        <5>2. QED BY <4>1, <5>1 DEF Carried
      <4>5. CASE ~asks
        <5>1. Works(o)' = {} /\ session[o].last = station[o].text
          BY <2>1, <2>3, <4>5
        <5>2. QED BY <3>3, <4>1, <4>2, <4>3, <5>1 DEF Carried
      <4>6. QED BY <4>4, <4>5
    <3>8. QED BY <1>3, <3>3, <3>4, <3>5, <3>6, <3>7 DEF Plain
  <2>4. QED BY <2>2, <2>3
<1>12. QED BY <1>2, <1>10, <1>11

(* Users and plugins disturb the slot of the operator that they act on.      *)
LEMMA PlainStartOperator ==
  ASSUME TypeOK, TypeOK', bound' = bound, FlowInv, NEW p \in Present, StartOperator(p),
         NEW o \in Present, o \notin disturbed'
  PROVE  Plain(o)'
<1> DEFINE st == [station[p] EXCEPT !.on = TRUE]
<1>1. /\ Quiet /\ CheckAndTrigger(p, st)
      /\ UNCHANGED <<clock, loop, redo, session, queue, latest, stamp, air>>
      /\ guard' = [guard EXCEPT ![p] = None] /\ station' = [station EXCEPT ![p].on = TRUE]
      /\ disturbed' = disturbed \cup ({p} \cup PendingOps)
  BY DEF StartOperator, Event, deciding, Disturb, PendingOps
<1>2. Plain(o) /\ o # p /\ o \notin PendingOps
  BY <1>1 DEF FlowInv
<1>3. guard'[o] = guard[o] /\ station'[o] = station[o] /\ Order' = Order
  BY <1>1, <1>2, Fixed DEF TypeOK
<1>4. Works(o)' = Works(o)
  <2>1. st \in Stations
    <3>1. station[p] \in Stations
      BY DEF TypeOK
    <3>2. QED BY <3>1 DEF Stations
  <2> HIDE DEF st
  <2>2. Works(o)' = {}
    BY <1>1, <1>2, <2>1, TriggerWorks
  <2>3. QED BY <1>1, <2>2, QuietWorks
<1>5. Unannounced(o)' <=> Unannounced(o)
  BY <1>1, <1>3 DEF Unannounced
<1>6. QED BY <1>1, <1>2, <1>3, <1>4, <1>5, Bystander

LEMMA PlainStopOperator ==
  ASSUME TypeOK, TypeOK', bound' = bound, FlowInv, NEW p \in Present, StopOperator(p),
         NEW o \in Present, o \notin disturbed'
  PROVE  Plain(o)'
<1>1. /\ UNCHANGED <<clock, loop, redo, session, work, queue, latest, stamp, air>>
      /\ guard' = [guard EXCEPT ![p] = None] /\ station' = [station EXCEPT ![p].on = FALSE]
      /\ disturbed' = disturbed \cup {p}
  BY DEF StopOperator, deciding, Disturb
<1>2. Plain(o) /\ o # p
  BY <1>1 DEF FlowInv
<1>3. guard'[o] = guard[o] /\ station'[o] = station[o] /\ Order' = Order
  BY <1>1, <1>2, Fixed DEF TypeOK
<1>4. Works(o)' = Works(o) /\ (Unannounced(o)' <=> Unannounced(o))
  BY <1>1, <1>3 DEF Works, Unannounced
<1>5. QED BY <1>1, <1>2, <1>3, <1>4, Bystander

LEMMA PlainRevise ==
  ASSUME TypeOK, TypeOK', bound' = bound, FlowInv, NEW p \in Present, NEW st \in Stations,
         Revise(p, st), NEW o \in Present, o \notin disturbed'
  PROVE  Plain(o)'
<1>1. /\ Quiet /\ CheckAndTrigger(p, st)
      /\ UNCHANGED <<clock, loop, redo, queue, latest, guard, stamp, air>>
      /\ session' = [session EXCEPT ![p].seen = None] /\ station' = [station EXCEPT ![p] = st]
      /\ disturbed' = disturbed \cup ({p} \cup PendingOps)
  BY DEF Revise, Event, encoding, Disturb, PendingOps
<1>2. Plain(o) /\ o # p /\ o \notin PendingOps
  BY <1>1 DEF FlowInv
<1>3. session'[o] = session[o] /\ station'[o] = station[o] /\ Order' = Order
  BY <1>1, <1>2, Fixed DEF TypeOK
<1>4. Works(o)' = Works(o)
  <2>1. Works(o)' = {}
    BY <1>1, <1>2, TriggerWorks
  <2>2. QED BY <1>1, <2>1, QuietWorks
<1>5. Unannounced(o)' <=> Unannounced(o)
  BY <1>1, <1>3 DEF Unannounced
<1>6. QED BY <1>1, <1>2, <1>3, <1>4, <1>5, Bystander

LEMMA PlainSendFreeText ==
  ASSUME TypeOK, TypeOK', bound' = bound, FlowInv, NEW p \in Present, SendFreeText(p),
         NEW o \in Present, o \notin disturbed'
  PROVE  Plain(o)'
<1>1. UNCHANGED <<clock, loop, redo, session, station, work, queue, latest, guard, stamp, air,
                  disturbed>>
  BY DEF SendFreeText, deciding, encoding
<1>2. Plain(o) /\ Order' = Order
  BY <1>1, Fixed DEF FlowInv
<1>3. Works(o)' = Works(o) /\ (Unannounced(o)' <=> Unannounced(o))
  BY <1>1, <1>2 DEF Works, Unannounced
<1>4. QED BY <1>1, <1>2, <1>3, Bystander

-----------------------------------------------------------------------------
(* The bounds of what the mixer, the guard and the request ids say.          *)

LEMMA BoundedLoop ==
  ASSUME TypeOK, FlowInv, [Next]_vars
  PROVE  loop'.pc # "idle" => clock'.ready
<1>1. loop.pc # "idle" => clock.ready
  BY DEF FlowInv, Bounded
<1>2. CASE UNCHANGED vars
  BY <1>1, <1>2 DEF vars, deciding
<1>3. CASE Loop
  <2>1. clock' = clock /\ loop.pc # "idle"
    BY <1>3 DEF Loop, LoopHooks, LoopWake, LoopAutoCall, LoopScored, LoopDecided,
                LoopNotified, LoopStop
  <2>2. QED BY <1>1, <2>1
<1>4. CASE SlotTick
  BY <1>4 DEF SlotTick, IdleLoop
<1>5. CASE SlotStart
  BY <1>5 DEF SlotStart, TypeOK, Clocks
<1>6. CASE EncodeStart
  BY <1>1, <1>6 DEF EncodeStart, TypeOK, Clocks
<1>7. CASE Request \/ EncodeComplete \/ EncodeError \/ LateDecode
  BY <1>1, <1>7 DEF Request, EncodeComplete, EncodeError, LateDecode, deciding
<1>8. ASSUME NEW r \in Redos, Redo(r)
      PROVE  UNCHANGED <<clock, loop>>
  BY <1>8 DEF Redo, RedoNext, RedoWake, RedoScored, RedoDecided, RedoNotified
<1>9. ASSUME NEW o \in Present, Acts(o)
      PROVE  UNCHANGED <<clock, loop>>
  BY <1>9 DEF Acts, StartOperator, StopOperator, RequestCall, ChangeText, ChangeCycle, Revise,
              SendFreeText, deciding
<1>10. QED BY <1>1, <1>2, <1>3, <1>4, <1>5, <1>6, <1>7, <1>8, <1>9 DEF Next, Step

(* What a step leaves of them, and what it sets.                             *)
LEMMA BoundedRequest ==
  ASSUME TypeOK, TypeOK', bound' = bound, FlowInv, Request, NEW o \in Present
  PROVE  /\ guard'[o] # None => guard'[o].count <= MaxSame
         /\ latest'[o] # None => latest'[o].slot <= clock'.slot
         /\ air'[o] # None => air'[o].at <= clock'.slot
<1> DEFINE p == Head(work).op
           g == Counted(guard[p], Head(work).text)
<1>1. clock' = clock /\ air' = air /\ clock.slot \in Nat
  BY DEF Request, TypeOK, Clocks
<1>2. /\ guard[o] # None => guard[o].count <= MaxSame
      /\ latest[o] # None => latest[o].slot <= clock.slot
      /\ air[o] # None => air[o].at <= clock.slot
  BY DEF FlowInv, Bounded
<1>3. \/ guard' = guard
      \/ guard' = [guard EXCEPT ![p] = None]
      \/ guard' = [guard EXCEPT ![p] = g] /\ g.count <= MaxSame
  BY DEF Request
<1>4. \/ latest' = latest
      \/ latest' = [latest EXCEPT ![p] = None]
      \/ \E ms : latest' = [latest EXCEPT ![p] = [slot |-> clock.slot, ms |-> ms]]
  BY DEF Request
<1>5. guard \in [Present -> Guards \cup {None}] /\ latest \in [Present -> Id \cup {None}]
  BY DEF TypeOK
<1> HIDE DEF p, g
<1>6. guard'[o] # None => guard'[o].count <= MaxSame
  BY <1>2, <1>3, <1>5
<1>7. latest'[o] # None => latest'[o].slot <= clock.slot
  BY <1>1, <1>2, <1>4, <1>5
<1>8. QED BY <1>1, <1>2, <1>6, <1>7

LEMMA BoundedComplete ==
  ASSUME TypeOK, TypeOK', bound' = bound, FlowInv, EncodeComplete, NEW o \in Present
  PROVE  /\ guard'[o] # None => guard'[o].count <= MaxSame
         /\ latest'[o] # None => latest'[o].slot <= clock'.slot
         /\ air'[o] # None => air'[o].at <= clock'.slot
<1>1. UNCHANGED <<clock, latest, guard>> /\ clock.slot \in Nat
  BY DEF EncodeComplete, TypeOK, Clocks
<1>2. /\ guard[o] # None => guard[o].count <= MaxSame
      /\ latest[o] # None => latest[o].slot <= clock.slot
      /\ air[o] # None => air[o].at <= clock.slot
  BY DEF FlowInv, Bounded
<1>3. air'[o] = air[o] \/ air'[o] = None \/ air'[o].at = clock.slot
  <2>1. CASE o = Head(queue).op
    BY <2>1, AnswerFacts
  <2>2. CASE o # Head(queue).op
    BY <2>2, AnswerFacts
  <2>3. QED BY <2>1, <2>2
<1>4. QED BY <1>1, <1>2, <1>3

LEMMA BoundedSlot ==
  ASSUME TypeOK, TypeOK', bound' = bound, FlowInv, SlotTick \/ SlotStart, NEW o \in Present
  PROVE  /\ guard'[o] # None => guard'[o].count <= MaxSame
         /\ latest'[o] # None => latest'[o].slot <= clock'.slot
         /\ air'[o] # None => air'[o].at <= clock'.slot
<1>1. /\ guard[o] # None => guard[o].count <= MaxSame
      /\ latest[o] # None => latest[o].slot <= clock.slot /\ latest[o].slot \in Nat
      /\ air[o] # None => air[o].at <= clock.slot /\ air[o].at \in Nat
      /\ clock.slot \in Nat
  BY DEF FlowInv, Bounded, TypeOK, Id, Answer, Clocks
<1>2. CASE SlotTick
  BY <1>1, <1>2 DEF SlotTick
<1>3. CASE SlotStart
  BY <1>1, <1>3 DEF SlotStart
<1>4. QED BY <1>2, <1>3

(* The rest at most takes something away.                                    *)
LEMMA BoundedRest ==
  ASSUME TypeOK, TypeOK', bound' = bound, FlowInv,
         clock'.slot = clock.slot, latest' = latest, NEW o \in Present,
         guard'[o] = guard[o] \/ guard'[o] = None,
         air'[o] = air[o] \/ air'[o] = None
  PROVE  /\ guard'[o] # None => guard'[o].count <= MaxSame
         /\ latest'[o] # None => latest'[o].slot <= clock'.slot
         /\ air'[o] # None => air'[o].at <= clock'.slot
BY DEF FlowInv, Bounded

LEMMA BoundedNext ==
  ASSUME TypeOK, TypeOK', FlowInv, [Next]_vars
  PROVE  Bounded'
<1>1. bound' = bound
  BY DEF Next, vars
<1>2. Present' = Present
  BY <1>1, Fixed
<1> DEFINE Within(o) == /\ guard'[o] # None => guard'[o].count <= MaxSame
                        /\ latest'[o] # None => latest'[o].slot <= clock'.slot
                        /\ air'[o] # None => air'[o].at <= clock'.slot
<1>3. ASSUME NEW o \in Present
      PROVE  Within(o)
  <2>1. CASE UNCHANGED vars
    <3>1. clock' = clock /\ latest' = latest /\ guard' = guard /\ air' = air
      BY <2>1 DEF vars, encoding
    <3>2. QED BY <1>1, <3>1, BoundedRest
  <2>2. CASE Request
    BY <1>1, <2>2, BoundedRequest
  <2>3. CASE EncodeComplete
    BY <1>1, <2>3, BoundedComplete
  <2>4. CASE SlotTick \/ SlotStart
    BY <1>1, <2>4, BoundedSlot
  <2>5. CASE EncodeError \/ LateDecode \/ Loop
    <3>1. UNCHANGED <<clock, latest, guard, air>>
      BY <2>5 DEF EncodeError, LateDecode, Loop, LoopHooks, LoopWake, LoopAutoCall,
         LoopScored, LoopDecided, LoopNotified, LoopStop, encoding
    <3>2. QED BY <1>1, <3>1, BoundedRest
  <2>6. CASE EncodeStart
    <3>1. clock'.slot = clock.slot /\ UNCHANGED <<latest, guard, air>>
      BY <2>6 DEF EncodeStart, encoding, TypeOK, Clocks
    <3>2. QED BY <1>1, <3>1, BoundedRest
  <2>7. ASSUME NEW r \in Redos, Redo(r)
        PROVE  Within(o)
    <3>1. UNCHANGED <<clock, latest, guard>>
          /\ (air' = air \/ air' = [air EXCEPT ![Order[redo[r].i]] = None])
      BY <2>7 DEF Redo, RedoNext, RedoWake, RedoScored, RedoDecided, RedoNotified, encoding
    <3>2. air'[o] = air[o] \/ air'[o] = None
      BY <3>1 DEF TypeOK
    <3>3. QED BY <1>1, <3>1, <3>2, BoundedRest
  <2>8. ASSUME NEW p \in Present, Acts(p)
        PROVE  Within(o)
    <3>1. UNCHANGED <<clock, latest, air>> /\ (guard' = guard \/ guard' = [guard EXCEPT ![p] = None])
      BY <2>8 DEF Acts, StartOperator, StopOperator, RequestCall, ChangeText, ChangeCycle,
                     Revise, SendFreeText, encoding
    <3>2. guard'[o] = guard[o] \/ guard'[o] = None
      BY <3>1 DEF TypeOK
    <3>3. QED BY <1>1, <3>1, <3>2, BoundedRest
  <2> HIDE DEF Within
  <2>9. QED BY <2>1, <2>2, <2>3, <2>4, <2>5, <2>6, <2>7, <2>8 DEF Next, Step
<1>4. QED BY <1>2, <1>3, BoundedLoop DEF Bounded

-----------------------------------------------------------------------------
(* The invariant, and what follows from it.                                  *)

LEMMA FlowInit == Init => FlowInv
<1> SUFFICES ASSUME Init PROVE FlowInv
  OBVIOUS
<1>1. /\ loop.pc = "idle" /\ ~clock.ready /\ ~clock.encoded /\ clock.slot = 1
      /\ work = <<>> /\ queue = <<>> /\ \A r \in Redos : redo[r].pc = "idle"
      /\ \A o \in Present : latest[o] = None /\ guard[o] = None /\ air[o] = None /\ stamp[o] = 0
  BY DEF Init, IdleLoop, IdleRedo
<1>2. Bounded
  BY <1>1 DEF Bounded
<1>3. ASSUME NEW o \in Present
      PROVE  Plain(o)
  <2>1. ~InQueue(o) /\ ~OnAir(o) /\ Works(o) = {} /\ Unreached(o) /\ ~Unannounced(o)
    BY <1>1 DEF InQueue, OnAir, Works, Unreached, Unannounced
  <2>2. ~Asked(o)
    <3>1. [slot |-> clock.slot, ms |-> stamp[o]] \in Id
      BY <1>1 DEF Id
    <3>2. QED BY <1>1, <3>1, FlowAssumption DEF Asked
  <2>3. QED BY <1>1, <2>1, <2>2
         DEF Plain, Untouched, Numbered, InCycle, Remembered, Announced, InQueue
<1>4. QED BY <1>2, <1>3 DEF FlowInv

LEMMA FlowNext == TypeOK /\ TypeOK' /\ FlowInv /\ [Next]_vars => FlowInv'
<1> SUFFICES ASSUME TypeOK, TypeOK', FlowInv, [Next]_vars PROVE FlowInv'
  OBVIOUS
<1>1. bound' = bound
  BY DEF Next, vars
<1>2. Present' = Present /\ Order' = Order
  BY <1>1, Fixed
<1>3. ASSUME NEW o \in Present, o \notin disturbed'
      PROVE  Plain(o)'
  <2>1. CASE UNCHANGED vars
    <3>1. Plain(o)
      BY <1>3, <2>1 DEF vars, FlowInv
    <3>2. UNCHANGED <<clock, loop, redo, session, station, work, queue, latest, guard, stamp, air>>
      BY <2>1 DEF vars, deciding, encoding
    <3>3. Works(o)' = Works(o) /\ (Unannounced(o)' <=> Unannounced(o))
      BY <1>2, <3>2 DEF Works, Unannounced
    <3>4. QED BY <1>1, <3>1, <3>2, <3>3, Bystander
  <2>2. CASE Request \/ EncodeComplete \/ EncodeError
    BY <1>1, <1>3, <2>2, PlainRequest, PlainEncodeComplete, PlainEncodeError
  <2>3. CASE SlotTick \/ SlotStart \/ EncodeStart \/ LateDecode
    BY <1>1, <1>3, <2>3, PlainSlotTick, PlainSlotStart, PlainEncodeStart, PlainLateDecode
  <2>4. CASE Loop
    BY <1>1, <1>3, <2>4, PlainLoopHooks, PlainLoopWake, PlainLoopAutoCall, PlainLoopScored,
       PlainLoopDecided, PlainLoopNotified, PlainLoopStop DEF Loop
  <2>5. ASSUME NEW r \in Redos, Redo(r)
        PROVE  Plain(o)'
    BY <1>1, <1>3, <2>5, PlainRedoNext, PlainRedoWake, PlainRedoScored, PlainRedoDecided,
       PlainRedoNotified DEF Redo
  <2>6. ASSUME NEW p \in Present, Acts(p)
        PROVE  Plain(o)'
    BY <1>1, <1>3, <2>6, PlainStartOperator, PlainStopOperator, RevisedFacts, PlainRevise,
       PlainSendFreeText DEF Acts
  <2>7. QED BY <2>1, <2>2, <2>3, <2>4, <2>5, <2>6 DEF Next, Step
<1>4. QED BY <1>2, <1>3, BoundedNext DEF FlowInv

LEMMA FlowAlways == Spec => [](TypeOK /\ FlowInv)
<1>1. QED BY TypeInit, TypeNext, FlowInit, FlowNext, PTL DEF Spec

(* In the end an operator that sends in the slot has the text of its last    *)
(* decision in the mixer: when nothing is on its way, the newest request is  *)
(* answered, and the text asked for in it is that of the last decision.      *)
THEOREM LastDecisionAlwaysSent == Spec => []LastDecisionSent
<1>1. TypeOK /\ FlowInv => LastDecisionSent
  <2> SUFFICES ASSUME TypeOK, FlowInv, Settled,
                      NEW o \in Present, o \notin disturbed, Speaks(station[o])
               PROVE  air[o] # None /\ air[o].text = station[o].text
    BY DEF LastDecisionSent
  <2>1. Plain(o)
    BY DEF FlowInv
  <2>2. /\ Quiet /\ queue = <<>> /\ clock.ready /\ clock.encoded
        /\ loop.pc = "idle" /\ \A r \in Redos : redo[r].pc = "idle"
    BY DEF Settled, IdleLoop, IdleRedo
  <2>3. ~AtLoop(o) /\ ~Unannounced(o) /\ ~Unreached(o) /\ Works(o) = {}
    BY <2>2, QuietWorks DEF AtLoop, Unannounced, Unreached
  <2>4. station[o].on /\ InTxCycle(o) /\ station[o].text # None
    BY DEF Speaks, InTxCycle
  <2>5. session[o].last = station[o].text
    BY <2>1, <2>3, <2>4 DEF Plain, Remembered, Decided
  <2>6. Awaited(o, session[o].last)
    BY <2>1, <2>2, <2>3, <2>4, <2>5 DEF Plain, Announced, Carried, Noted
  <2>7. QED BY <2>2, <2>5, <2>6 DEF Awaited, OnAir
<1>2. QED BY <1>1, FlowAlways, PTL

(* Audio in the mixer is of the slot it was asked for, and its operator      *)
(* sends in that slot.                                                       *)
THEOREM AudioInOwnSlot == Spec => []InOwnSlot
<1>1. TypeOK /\ FlowInv => InOwnSlot
  <2> SUFFICES ASSUME FlowInv, NEW o \in Present, o \notin disturbed,
                      air[o] # None, clock.ready \/ air[o].at = clock.slot
               PROVE  air[o].at = clock.slot /\ air[o].id.slot = clock.slot /\ InTxCycle(o)
    BY DEF InOwnSlot
  <2>1. Plain(o)
    BY DEF FlowInv
  <2>2. OnAir(o)
    BY <2>1 DEF Plain, Numbered, OnAir
  <2>3. QED BY <2>1, <2>2 DEF Plain, Numbered, InCycle, OnAir
<1>2. QED BY <1>1, FlowAlways, PTL

(* An answer that reaches the mixer is that of the newest request of its     *)
(* operator, of which no other is on its way.                                *)
THEOREM NewestAnswerWins == Spec => NewestWins
<1> DEFINE Wins == \A o \in Present \ disturbed' :
                      air'[o] # air[o] /\ air'[o] # None =>
                         /\ \A i \in DOMAIN queue' : queue'[i].op # o
                         /\ latest[o] = air'[o].id
<1>1. TypeOK /\ TypeOK' /\ FlowInv /\ FlowInv' /\ [Next]_vars => [Wins]_vars
  <2> SUFFICES ASSUME TypeOK, TypeOK', FlowInv, FlowInv', Next
               PROVE  Wins
    OBVIOUS
  <2> SUFFICES ASSUME NEW o \in Present, o \notin disturbed', air'[o] # air[o], air'[o] # None
               PROVE  /\ \A i \in DOMAIN queue' : queue'[i].op # o
                      /\ latest[o] = air'[o].id
    OBVIOUS
  <2>1. bound' = bound /\ Present' = Present
    BY Fixed DEF Next
  <2>2. EncodeComplete
    <3>1. CASE Request \/ EncodeError \/ SlotTick \/ EncodeStart \/ LateDecode \/ Loop
      BY <3>1 DEF Request, EncodeError, SlotTick, EncodeStart, LateDecode, Loop, LoopHooks,
         LoopWake, LoopAutoCall, LoopScored, LoopDecided, LoopNotified, LoopStop, encoding
    <3>2. CASE SlotStart
      BY <3>2 DEF SlotStart
    <3>3. ASSUME NEW r \in Redos, Redo(r)
          PROVE  FALSE
      <4>1. air' = air \/ air' = [air EXCEPT ![Order[redo[r].i]] = None]
        BY <3>3 DEF Redo, RedoNext, RedoWake, RedoScored, RedoDecided, RedoNotified, encoding
      <4>2. QED BY <4>1 DEF TypeOK
    <3>4. ASSUME NEW p \in Present, Acts(p)
          PROVE  FALSE
      BY <3>4 DEF Acts, StartOperator, StopOperator, RequestCall, ChangeText, ChangeCycle,
                     Revise, SendFreeText, encoding
    <3>5. QED BY <3>1, <3>2, <3>3, <3>4 DEF Next, Step
  <2>3. /\ queue # <<>> /\ queue' = Tail(queue) /\ UNCHANGED <<clock, latest, stamp, disturbed>>
    BY <2>2, AnswerFacts
  <2>4. Plain(o) /\ Plain(o)'
    BY <2>1, <2>3 DEF FlowInv
  <2>5. o = Head(queue).op
    <3>1. o # Head(queue).op => air'[o] = air[o] \/ air'[o] = None
      BY <2>2, AnswerFacts
    <3>2. QED BY <3>1
  <2>6. ~Stale(Head(queue)) /\ air'[o].id = Head(queue).id /\ air'[o].at = clock.slot
    BY <2>2, <2>5, AnswerFacts
  <2>7. latest[o] # None /\ latest[o].ms = stamp[o]
    BY <2>3, <2>4, <2>5, OwnAnswer
  <2>8. latest[o] = air'[o].id
    BY <2>5, <2>6, <2>7 DEF Stale
  <2>9. OnAir(o)'
    BY <2>3, <2>6 DEF OnAir
  <2>10. ASSUME NEW i \in DOMAIN queue', queue'[i].op = o
         PROVE  FALSE
    <3>1. queue'[i].id.ms <= stamp'[o] /\ air'[o].id.ms < queue'[i].id.ms
      BY <2>4, <2>9, <2>10 DEF Plain, Numbered
    <3>2. air'[o].id.ms = stamp'[o]
      BY <2>3, <2>7, <2>8
    <3>3. queue'[i].id.ms \in Nat /\ stamp'[o] \in Nat
      <4>1. queue' \in Seq(Queued) /\ stamp'[o] \in Nat
        BY <2>1, Fixed DEF TypeOK
      <4>2. queue'[i] \in Queued
        BY <4>1, <2>10, ElementOfSeq, LenProperties
      <4>3. QED BY <4>1, <4>2 DEF Queued, Id
    <3>4. QED BY <3>1, <3>2, <3>3
  <2>11. QED BY <2>8, <2>10
<1>2. QED BY <1>1, FlowAlways, PTL DEF Spec, NewestWins
================================================================================
