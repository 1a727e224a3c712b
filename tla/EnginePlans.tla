----------------------------- MODULE EnginePlans -----------------------------
(* The resources EngineLifecycle registers for each engine mode.           *)
EXTENDS Integers, Sequences

Resource(name, priority, deps, optional) ==
  [name |-> name, priority |-> priority, deps |-> deps, optional |-> optional]

(* The radio and the two audio adapters; CW does without the radio.        *)
Core(inCw) ==
  << Resource("radio", 1, <<>>, inCw),
     Resource("icomWlanAudioAdapter", 2, <<>>, TRUE),
     Resource("openwebrxAudioAdapter", 2, <<>>, TRUE) >>

Voice ==
  << Resource("spectrumScheduler", 6, <<>>, FALSE),
     Resource("voiceSessionManager", 7, <<>>, FALSE) >>

CW == << Resource("spectrumScheduler", 6, <<>>, FALSE) >>

Digital ==
  << Resource("decodeWorkerPool", 5, <<>>, FALSE),
     Resource("clock", 6, <<"decodeWorkerPool">>, FALSE),
     Resource("slotScheduler", 7, <<"decodeWorkerPool", "clock">>, FALSE),
     Resource("spectrumScheduler", 8, <<"clock">>, FALSE),
     Resource("operatorManager", 9, <<"clock">>, FALSE) >>

(* buildResourcePlan.                                                      *)
EngineModes == {"digital", "voice", "cw"}
EnginePlan ==
  [m \in EngineModes |->
     CASE m = "digital" -> Core(FALSE) \o Digital
       [] m = "voice" -> Core(FALSE) \o Voice
       [] m = "cw" -> Core(TRUE) \o CW]
=============================================================================
