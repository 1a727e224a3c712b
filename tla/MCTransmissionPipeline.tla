----------------------- MODULE MCTransmissionPipeline -----------------------
(* Instances of TransmissionPipeline for TLC: the slot handler and a few   *)
(* interchangeable handlers, two operators.                                *)
EXTENDS TransmissionPipeline, TLC

CONSTANTS slot, h1, h2, op1, op2

MCHandler == {slot, h1, h2}
MCOperators == {op1, op2}
MCOneOperator == {op1}

(* Handlers other than the slot's, and operators, are interchangeable. *)
MCSymmetry == Permutations({h1, h2}) \cup Permutations(MCOperators)

(* Overlapping events at a station with the ICOM release, and events that  *)
(* come one after another at one that polls.                               *)
MCSurroundings == {{"overlap", "icom"}, {}}
MCOverlap == {{"overlap"}}
=============================================================================
