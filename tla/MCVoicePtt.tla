----------------------------- MODULE MCVoicePtt -----------------------------
(* Instances of VoicePtt for TLC: two clients and the keyer.               *)
EXTENDS VoicePtt
CONSTANTS c1, c2, k1

MCClients == {c1, c2, k1}
MCKeyers == {k1}

(* Everything at once, and for each property that needs it the largest     *)
(* surroundings it survives.                                               *)
MCAll ==
  {Surroundings, {"engineStop", "preempt"},
   Surroundings \ {"engineStop", "refuse"}, Surroundings \ {"preempt"}}
MCTimeout == {{"timeout"}}
=============================================================================
