---------------------------- MODULE MCLogJournal ----------------------------
(* Instances of LogJournal for TLC: two keys, and for each property the     *)
(* surroundings it survives that TLC can finish.                            *)
EXTENDS LogJournal, TLC

CONSTANTS k, l

(* Keys are interchangeable. *)
MCSymmetry == Permutations({k, l})

MCScenarios ==
    {{"crash", "fail", "voice"}, {"crash", "import"}, {"crash", "edit"},
     {"damage", "edit", "old", "voice"}, {"damage", "ruin", "edit"},
     {"damage", "ruin", "crash"}, {"damage", "fail"},
     {"twice", "edit"}, {"twice", "import"}, {"import", "voice"}, {"torn", "import"}}

(* No fault at all: a foreign record that is edited and imported again, and  *)
(* records of different keys whose lines give the same id.                   *)
MCReimport == {{"old", "edit", "import"}, {"import", "alike"}}
=============================================================================
