--------------------------- MODULE MCDecisionFlow ---------------------------
(* Instances of DecisionFlow for TLC. *)
EXTENDS DecisionFlow, TLC

CONSTANTS a, b, m1, m2, r1, r2

(* Texts, and the runs of re-decisions, are interchangeable. *)
MCSymmetry == Permutations({m1, m2}) \cup Permutations({r1, r2})

(* One operator with much going on around it, two operators with less.      *)
Behaviour(ops, s, d, c, e) ==
    [order |-> ops, slots |-> s, decodes |-> d, calls |-> c, events |-> e]

MCBounds ==
    { Behaviour(<<a>>, 3, 1, 0, 0), Behaviour(<<a>>, 3, 0, 0, 1), Behaviour(<<a>>, 1, 2, 0, 0),
      Behaviour(<<a>>, 2, 0, 1, 1), Behaviour(<<a>>, 1, 1, 1, 0), Behaviour(<<a>>, 1, 1, 0, 1),
      Behaviour(<<a, b>>, 2, 0, 0, 0), Behaviour(<<a, b>>, 1, 0, 1, 0) }
=============================================================================
