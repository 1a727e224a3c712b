-------------------------- MODULE MCEngineLifecycle --------------------------
(* Instances of EngineLifecycle for TLC.                                   *)
EXTENDS EngineLifecycle, EnginePlans

(* One resource of each kind: the radio, an optional one, a chain of two   *)
(* required ones in the digital mode, and one that only voice has.         *)
MCModes == {"digital", "voice", "cw"}
MCKeyed == {"voice", "cw"}
MCNames ==
  {"radio", "openwebrxAudioAdapter", "decodeWorkerPool", "clock", "voiceSessionManager"}
MCPlan == [m \in MCModes |-> SelectSeq(EnginePlan[m], LAMBDA e : e.name \in MCNames)]

(* The largest surroundings each property survives.                        *)
MCOverlap == {"overlap", "switch", "fail"}
MCFaults == Surroundings \ {"overlap"}
MCTidy == Surroundings \ {"overlap", "jam", "hang"}
MCRadio == Surroundings \ {"overlap", "early", "hang"}
MCResume == Surroundings \ {"overlap", "hasty", "hang", "stop"}
MCJam == {"fail", "jam", "hang", "stop"}
MCAll == {MCOverlap, MCFaults, MCTidy, MCRadio, MCResume, MCJam}
MCSwitch == {{"overlap", "switch"}}

(* A second fault has its consequences in all but the largest surroundings. *)
MCMaxFaults == [e \in Scenarios |-> IF e = MCFaults THEN 1 ELSE 2]
=============================================================================
