--------------------------- MODULE MCRadioIoQueue ---------------------------
(* Instances of RadioIoQueue for TLC: two critical callers (PTT and        *)
(* frequency), two normal callers that share the id `getFrequency', and a  *)
(* low-priority poller.                                                    *)
EXTENDS RadioIoQueue

CONSTANTS ptt, freq, reader1, reader2, poller, getFrequency, pollMeters

MCCaller == {ptt, freq, reader1, reader2, poller}
MCCritical == {ptt, freq}
MCLowPriority == {poller}
MCIds == {getFrequency, pollMeters}
MCId == [c \in MCCaller |->
           CASE c \in {reader1, reader2} -> getFrequency
             [] c = poller -> pollMeters
             [] OTHER -> NoId]

(* The serial queue of HamlibConnection and the wider one of               *)
(* IcomWlanConnection.                                                     *)
MCSerial ==
  [maxConcurrent |-> 1, lowPrioritySkipsWhenBusy |-> TRUE,
   criticalBackpressure |-> TRUE, busyBackpressure |-> TRUE]
MCParallel ==
  [maxConcurrent |-> 2, lowPrioritySkipsWhenBusy |-> FALSE,
   criticalBackpressure |-> FALSE, busyBackpressure |-> FALSE]
MCOptions == {MCSerial, MCParallel}
=============================================================================
