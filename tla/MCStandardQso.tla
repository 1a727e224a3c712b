--------------------------- MODULE MCStandardQso ---------------------------
(* Instances of StandardQso for TLC. *)
EXTENDS StandardQso, TLC

CONSTANTS a, b, c, d

MCOrder == <<a, b, c>>

Set(reply, again, afterFail, afterSuccess, skip) ==
    [reply |-> reply, again |-> again, afterFail |-> afterFail,
     afterSuccess |-> afterSuccess, skip |-> skip]
Caller == Set(FALSE, TRUE, TRUE, TRUE, FALSE)
Eager == Set(TRUE, TRUE, TRUE, TRUE, TRUE)
Modest == Set(TRUE, FALSE, FALSE, FALSE, FALSE)
MCSettings == {Caller, Eager, Modest}

(* a hears the others, and they hear a.                                     *)
Scene(on, x, y, clear, kinds, n) ==
    [settings |-> (a :> x @@ b :> y @@ c :> y), on |-> on, clear |-> clear,
     cycle |-> (a :> 0 @@ b :> 1 @@ c :> 1 @@ d :> 1), kinds |-> kinds, events |-> n]
MCScenarios ==
    { Scene({a, b, c}, Caller, Eager, TRUE, {}, 0), Scene({a, b, c}, Caller, Eager, FALSE, {}, 0),
      Scene({a, b}, Caller, Eager, FALSE, Kinds, 0), Scene({a, b}, Eager, Modest, FALSE, Kinds, 0),
      Scene({a, b}, Modest, Modest, FALSE, Kinds, 0), Scene({a, b}, Caller, Eager, FALSE, {}, 1),
      Scene({a, b}, Modest, Modest, FALSE, {}, 1),
      Scene({a}, Modest, Modest, FALSE, {"CALL", "REPORT", "RRR", "73"}, 1) }
=============================================================================
