------------------------------ MODULE LogJournal ------------------------------
(* The logbook of ADIFLogProvider on disk: a snapshot in ADIF, the journal   *)
(* of the operations since, archived journals, temporary files and backups;  *)
(* and the program that appends, takes checkpoints, stops at any point and   *)
(* recovers at the next start.                                               *)
EXTENDS Naturals, FiniteSets, Sequences, SequencesExt

CONSTANTS
    Keys,       \* what records are matched by (buildImportedQsoFingerprint)
    Backups,    \* backups of the snapshot that are kept
    MaxOps,     \* bound: operations
    MaxFaults,  \* bound: crashes, failures and damaged files
    Scenarios   \* the surroundings a behaviour may have

(* "crash"    the program dies at any point                                  *)
(* "fail"     writing a snapshot or moving a file fails                      *)
(* "torn"     an append fails after a part of its line is written            *)
(* "damage"   the snapshot is found unreadable at a start                    *)
(* "ruin"     and so are some of its spares                                  *)
(* "old"      the log begins with records of another program                 *)
(* "voice"    lines tell a voice mode in an old way                          *)
(* "import"   records of other programs are imported                         *)
(* "alike"    their lines give records that do not match the same id         *)
(* "edit"     what a record is matched by is edited                          *)
(* "twice"    records match each other                                       *)
Surroundings == {"crash", "fail", "torn", "damage", "ruin", "old", "voice",
                 "import", "alike", "edit", "twice"}

ASSUME LogAssumption ==
    /\ Backups \in Nat \ {0} /\ {MaxOps, MaxFaults} \subseteq Nat
    /\ Scenarios \subseteq SUBSET Surroundings

VARIABLES
    env,       \* the surroundings
    main,      \* the snapshot, see Snapshot
    spares,    \* the temporary files and backups of it, the last written first
    journal,   \* a sequence of operations, see Entry
    archives,  \* the journals before, the oldest first
    cache,     \* the records in memory
    job,       \* what the program is doing
    promised,  \* history: the log as it was last in use
    ops,       \* operations so far
    faults     \* faults so far

vars == <<env, main, spares, journal, archives, cache, job, promised, ops, faults>>
disk == <<main, spares, journal, archives>>
counts == <<ops, faults>>

-----------------------------------------------------------------------------
(* A snapshot holds records, or cannot be read, or is not there.             *)
Snapshot(S) == [is |-> "whole", has |-> S]
Broken == [is |-> "broken", has |-> {}]
Missing == [is |-> "missing", has |-> {}]

(* A line of a journal says what is done with a record, or has no end.       *)
Entry(what, r) == [is |-> what, rec |-> {r}]
Torn == [is |-> "torn", rec |-> {}]

(* Records. An id is made from the key and the time of entry, and written to *)
(* the record's line; another program's line is kept as it is. An id that is *)
(* read from such a line is one that it carries or is made from its call and *)
(* time, which is less than what records are matched by.                     *)
Ids == Keys \X (0..MaxOps)
Notes == {"none", "note"}
Records == [id : Ids, key : Keys, note : Notes, line : Ids]
Foreign(k, i) == [id |-> i, key |-> k, note |-> "none", line |-> i]

(* The ids a line of another program may give a record, after n operations.  *)
Marks(k, n) == (IF "alike" \in env THEN Keys ELSE {k}) \X (0..n)
OldLogs ==
    {S \in SUBSET {Foreign(k, i) : k \in Keys, i \in Keys \X {0}} :
        /\ IsFiniteSet(S) /\ \A r \in S : r.id \in Marks(r.key, 0)
        /\ \A r1, r2 \in S : r1.key = r2.key => r1 = r2}

(* What is read back from a snapshot of S: a record has the id its line      *)
(* gives, and of records with the same id one is left.                       *)
Named(S) == {[r EXCEPT !.id = r.line] : r \in S}
Load(S) == {CHOOSE r \in Named(S) : r.id = i : i \in {r.line : r \in S}}

(* applyJournalEntry: a record replaces the one with its id, and those that  *)
(* match it. (Mutants, here and below, are named after their definition.)    *)
Apply_KeepMatch(S, e) ==
    IF e.is = "delete" THEN {x \in S : \A r \in e.rec : x.id # r.id}
    ELSE {x \in S : \A r \in e.rec : x.id # r.id} \cup e.rec
Apply(S, e) ==
    IF e.is = "delete" THEN {x \in S : \A r \in e.rec : x.id # r.id}
    ELSE {x \in S : \A r \in e.rec : x.id # r.id /\ x.key # r.key} \cup e.rec

(* The lines of a journal up to the first that is not whole.                 *)
Sound(file, i) == \A j \in 1..i : file[j].is # "torn"
Whole(file) == SubSeq(file, 1, Cardinality({i \in DOMAIN file : Sound(file, i)}))

Replay(S, file) ==
    LET lines == Whole(file)
        after[n \in 0..Len(lines)] ==
            IF n = 0 THEN S ELSE Apply(after[n - 1], lines[n])
    IN after[Len(lines)]
ReplayAll(S, files) ==
    LET after[n \in 0..Len(files)] ==
            IF n = 0 THEN S ELSE Replay(after[n - 1], files[n])
    IN after[Len(files)]

-----------------------------------------------------------------------------
(* The program. A safe write has a goal and goes through "tmp", "rotate" and *)
(* "rename".                                                                 *)
Phases == {"down", "load", "archives", "journal", "tmp", "rotate", "rename", "up",
           "archive", "failed"}
Goals == {"none", "create", "normalise", "restore", "renormalise", "rewrite",
          "checkpoint"}
At(phase) == [at |-> phase, goal |-> "none", data |-> {}]
Write(goal, S) == [at |-> "tmp", goal |-> goal, data |-> S]

InUse == job.at = "up" \/ job.goal = "checkpoint"
Unclosed == [At("up") EXCEPT !.goal = "checkpoint"]

Init ==
    /\ env \in Scenarios
    /\ main \in {Missing, Snapshot({})}
              \cup (IF "old" \in env THEN {Snapshot(S) : S \in OldLogs} ELSE {})
    /\ spares = <<>> /\ journal = <<>> /\ archives = <<>>
    /\ cache = {} /\ job = At("down")
    /\ promised = main.has
    /\ ops = 0 /\ faults = 0

Without(what) == env \cap what = {}
May(what) == what \in env /\ faults < MaxFaults
Fault == faults' = faults + 1

(* initialize: without a file an empty one is written first. (Metadata that  *)
(* cannot be read lets the start fail before, and everything as it is.)      *)
Start ==
    /\ job.at = "down"
    /\ job' = IF main.is = "missing" THEN Write("create", {}) ELSE At("load")
    /\ UNCHANGED <<env, disk, cache, promised, counts>>

Readable == {i \in DOMAIN spares : spares[i].of.is # "broken"}
Transactions_Current == Whole(journal) # <<>>
Transactions == \E file \in Range(archives) \cup {journal} : Whole(file) # <<>>

(* Lines of old voice modes are put right: the snapshot is written anew.     *)
(* (Over-approximation: any record may have such a line.)                    *)
Normalised(S, goal, phase) ==
    {At(phase)} \cup (IF "voice" \in env /\ S # {} THEN {Write(goal, S)} ELSE {})

(* loadCache: the snapshot, the last readable spare, or the journals alone.  *)
LoadMain ==
    /\ job.at = "load" /\ main.is # "broken"
    /\ cache' = Load(main.has)
    /\ job' \in Normalised(cache', "normalise", "journal")
    /\ UNCHANGED <<env, disk, promised, counts>>

LoadSpare ==
    /\ job.at = "load" /\ main.is = "broken" /\ Readable # {}
    /\ main' \in {Missing} \cup (IF "fail" \in env THEN {Broken} ELSE {})
    /\ job' = Write("restore", spares[Min(Readable)].of.has)
    /\ UNCHANGED <<env, spares, journal, archives, cache, promised, counts>>

LoadNothing ==
    /\ job.at = "load" /\ main.is = "broken" /\ Readable = {}
    /\ job' = At(IF Transactions THEN "archives" ELSE "failed")
    /\ UNCHANGED <<env, disk, cache, promised, counts>>

(* replayArchivedJournals, when the snapshot had to be recovered.            *)
ReplayArchives ==
    /\ job.at = "archives"
    /\ cache' = ReplayAll(cache, archives)
    /\ archives' = [i \in DOMAIN archives |-> Whole(archives[i])]
    /\ job' = [At("journal") EXCEPT !.goal = "rewrite"]
    /\ UNCHANGED <<env, main, spares, journal, promised, counts>>

(* replayJournal; a recovered snapshot is then written anew.                 *)
ReplayJournal ==
    /\ job.at = "journal"
    /\ cache' = Replay(cache, journal)
    /\ journal' = Whole(journal)
    /\ job' = IF job.goal = "rewrite" THEN Write("rewrite", cache') ELSE At("up")
    /\ UNCHANGED <<env, main, spares, archives, promised, counts>>

-----------------------------------------------------------------------------
(* SafeFileWriter *)

File(tmp, snapshot) == [tmp |-> tmp, of |-> snapshot]

WriteTmp ==
    /\ job.at = "tmp"
    /\ spares' = <<File(TRUE, Snapshot(job.data))>> \o spares
    /\ job' = [job EXCEPT !.at = IF main.is = "missing" THEN "rename" ELSE "rotate"]
    /\ UNCHANGED <<env, main, journal, archives, cache, promised, counts>>

(* rotateBackups: the oldest goes, the others move up and main is copied.    *)
(* What cannot be moved is overwritten and leaves a gap, as a crash does,    *)
(* which costs another one later. (Over-approximation: a gap anywhere may.)  *)
Backup(files) == {i \in DOMAIN files : ~files[i].tmp}
Kept(files) ==
    IF Cardinality(Backup(files)) < Backups THEN files
    ELSE RemoveAt(files, Max(Backup(files)))
Moved ==
    {Kept(spares)} \cup
    (IF Without({"crash", "fail"}) THEN {}
     ELSE {RemoveAt(Kept(spares), i) : i \in Backup(Kept(spares))})
Copied_KeepAll(files, snapshot) == <<File(FALSE, snapshot)>> \o spares
Copied(files, snapshot) == <<File(FALSE, snapshot)>> \o files

(* A copy that fails is passed over.                                         *)
Left_Moved == Missing
Left == main
Rotate ==
    /\ job.at = "rotate"
    /\ \E files \in Moved :
         \/ spares' = Copied(files, main) /\ UNCHANGED faults
         \/ May("fail") /\ Fault /\ spares' = files
    /\ main' = Left /\ job' = [job EXCEPT !.at = "rename"]
    /\ UNCHANGED <<env, journal, archives, cache, promised, ops>>

(* The temporary file is the last one written.                               *)
Tmp == Min({i \in DOMAIN spares : spares[i].tmp})

Rename ==
    /\ job.at = "rename"
    /\ main' = Snapshot(job.data) /\ spares' = RemoveAt(spares, Tmp)
    /\ cache' = IF job.goal = "restore" THEN Load(job.data) ELSE cache
    /\ job' \in CASE job.goal = "create" -> {At("load")}
                  [] job.goal = "normalise" -> {At("journal")}
                  [] job.goal = "restore" -> Normalised(cache', "renormalise", "archives")
                  [] job.goal = "renormalise" -> {At("archives")}
                  [] job.goal = "rewrite" -> {At("up")}
                  [] job.goal = "checkpoint" -> {[job EXCEPT !.at = "archive"]}
    /\ UNCHANGED <<env, journal, archives, promised, counts>>

(* The temporary file is removed again, and the caller fails.                *)
WriteFails ==
    /\ May("fail") /\ Fault
    /\ job.at \in {"tmp", "rotate", "rename"}
    /\ spares' = IF job.at = "tmp" THEN spares ELSE RemoveAt(spares, Tmp)
    /\ job' = IF job.goal = "checkpoint" THEN Unclosed ELSE At("down")
    /\ cache' = IF job.goal = "checkpoint" THEN cache ELSE {}
    /\ UNCHANGED <<env, main, journal, archives, promised, ops>>

-----------------------------------------------------------------------------
(* Operations, which are queued: one at a time, and none in a checkpoint.    *)

Matches(k) == {r \in cache : r.key = k}
Fits(k) == Matches(k) = {} \/ "twice" \in env
New(k, note, i) == [id |-> <<k, ops + 1>>, key |-> k, note |-> note, line |-> i]

(* addQSO, updateQSO and importRecords; a known record that is imported has  *)
(* what is missing filled in.                                                *)
Adds == {New(k, "none", <<k, ops + 1>>) : k \in {k \in Keys : Fits(k)}}
Updates ==
    LET edits == {u \in cache \X Keys \X Notes :
                    u[2] = u[1].key \/ ("edit" \in env /\ Fits(u[2]))}
    IN {[u[1] EXCEPT !.key = u[2], !.note = u[3], !.line = u[1].id] : u \in edits}
Imports ==
    IF "import" \notin env THEN {}
    ELSE {New(m[1], "note", m[2]) :
            m \in {m \in Keys \X Ids : Matches(m[1]) = {} /\ m[2] \in Marks(m[1], ops)}}
         \cup {[r EXCEPT !.note = "note", !.line = r.id] : r \in {r \in cache : r.note = "none"}}

Entries == {Entry("put", r) : r \in Adds \cup Updates \cup Imports}
           \cup {Entry("delete", r) : r \in cache}
After(e) ==
    IF e.is = "delete" THEN cache \ e.rec
    ELSE {x \in cache : \A r \in e.rec : x.id # r.id} \cup e.rec

(* appendJournal, then the change in memory.                                 *)
Commit ==
    /\ job.at = "up" /\ ops < MaxOps
    /\ ops' = ops + 1
    /\ \E e \in Entries :
         /\ journal' = Append(journal, e)
         /\ cache' = After(e) /\ promised' = After(e)
    /\ UNCHANGED <<env, main, spares, archives, job, faults>>

(* The append fails: the caller is told so and the memory is as before.      *)
AppendFails ==
    /\ job.at = "up" /\ ops < MaxOps
    /\ May("torn") /\ Fault
    /\ ops' = ops + 1
    /\ \E line \in Entries \cup {Torn} : journal' = Append(journal, line)
    /\ UNCHANGED <<env, main, spares, archives, cache, job, promised>>

(* close: a checkpoint, which writes the snapshot and then puts the journal  *)
(* away. (The metadata it writes in between changes nothing at a later start *)
(* that can read it.)                                                        *)
Close ==
    /\ job.at = "up"
    /\ IF journal = <<>> THEN job' = At("down") /\ cache' = {}
       ELSE job' = Write("checkpoint", cache) /\ UNCHANGED cache
    /\ UNCHANGED <<env, disk, promised, counts>>

(* A journal that cannot be moved is truncated.                              *)
Archived_Lost == archives
Archived == Append(archives, journal)
Archive ==
    /\ job.at = "archive" /\ job' = At("down") /\ cache' = {}
    /\ journal' = <<>>
    /\ \/ archives' = Archived /\ UNCHANGED faults
       \/ May("fail") /\ Fault /\ UNCHANGED archives
    /\ UNCHANGED <<env, main, spares, promised, ops>>

(* The metadata cannot be written: close fails.                              *)
ArchiveFails ==
    /\ May("fail") /\ Fault
    /\ job.at = "archive" /\ job' = Unclosed
    /\ UNCHANGED <<env, disk, cache, promised, ops>>

(* The program ends without the checkpoint it could not take.                *)
Exit ==
    /\ job = Unclosed /\ job' = At("down") /\ cache' = {}
    /\ UNCHANGED <<env, disk, promised, counts>>

-----------------------------------------------------------------------------
(* Faults *)

(* A file whose writing is cut off: its header is missing, or records are.   *)
CutOff(S) == {Broken} \cup {Snapshot(T) : T \in SUBSET S}

(* The program dies. What it was writing may be there in part or as a whole. *)
Crash ==
    /\ May("crash") /\ Fault
    /\ job.at \notin {"down", "failed"}
    /\ job' = At("down") /\ cache' = {}
    /\ \/ UNCHANGED <<spares, journal, ops, promised>>
       \/ /\ job.at = "tmp"
          /\ \E p \in CutOff(job.data) : spares' = <<File(TRUE, p)>> \o spares
          /\ UNCHANGED <<journal, ops, promised>>
       \/ /\ job.at = "rotate"
          /\ \E files \in Moved :
               \/ spares' = files
               \/ \E p \in IF main.is = "broken" THEN {Broken} ELSE CutOff(main.has) :
                    spares' = Copied(files, p)
          /\ UNCHANGED <<journal, ops, promised>>
       \/ /\ job.at = "up" /\ ops < MaxOps /\ ops' = ops + 1
          /\ \/ journal' = Append(journal, Torn) /\ UNCHANGED promised
             \/ \E e \in Entries : journal' = Append(journal, e) /\ promised' = After(e)
          /\ UNCHANGED spares
    /\ UNCHANGED <<env, main, archives>>

Damage ==
    /\ May("damage") /\ Fault
    /\ job.at = "down" /\ main.is = "whole"
    /\ main' = Broken
    /\ \E lost \in IF "ruin" \in env THEN SUBSET DOMAIN spares ELSE {{}} :
          spares' = [i \in DOMAIN spares |->
                       IF i \in lost THEN [spares[i] EXCEPT !.of = Broken] ELSE spares[i]]
    /\ UNCHANGED <<env, journal, archives, cache, job, promised, ops>>

-----------------------------------------------------------------------------
Next ==
    \/ Start \/ LoadMain \/ LoadSpare \/ LoadNothing \/ ReplayArchives \/ ReplayJournal
    \/ WriteTmp \/ Rotate \/ Rename \/ WriteFails
    \/ Commit \/ AppendFails \/ Close \/ Archive \/ ArchiveFails \/ Exit
    \/ Crash \/ Damage

Spec == Init /\ [][Next]_vars

-----------------------------------------------------------------------------
(* Properties *)

Snapshots == [is : {"whole"}, has : SUBSET Records] \cup {Missing, Broken}
Lines == {Entry(what, r) : what \in {"put", "delete"}, r \in Records} \cup {Torn}

TypeOK ==
    /\ env \in Scenarios
    /\ main \in Snapshots /\ spares \in Seq([tmp : BOOLEAN, of : Snapshots])
    /\ Cardinality(Backup(spares)) <= Backups
    /\ journal \in Seq(Lines) /\ archives \in Seq(Seq(Lines))
    /\ {cache, promised} \subseteq SUBSET Records
    /\ job \in [at : Phases, goal : Goals, data : SUBSET Records]
    /\ ops \in 0..MaxOps /\ faults \in 0..MaxFaults

Contents == [key : Keys, note : Notes]
Book(S) == [c \in Contents |-> Cardinality({r \in S : r.key = c.key /\ r.note = c.note})]

(* A stop of any kind keeps what was acknowledged, no more and no less: the  *)
(* program implements the logbook, whatever point it dies at, whatever       *)
(* writing fails and, if it recovers undisturbed, after the snapshot is      *)
(* damaged. Excepted is what the code does not withstand: lines of other     *)
(* programs that give records the same id, and edited records that are       *)
(* imported again (NothingLost, for both); records that match each other and *)
(* appends that fail halfway, when the journal is then replayed; and         *)
(* recoveries from damage that are cut off, that meet imported records or    *)
(* that have only journals to go by when there were records before them.     *)
Durable ==
    /\ "alike" \notin env /\ ~({"edit", "import"} \subseteq env)
    /\ Without({"twice", "torn"}) \/ Without({"crash", "fail", "damage"})
    /\ Without({"damage"}) \/ Without({"crash", "fail", "import"})
    /\ Without({"ruin"}) \/ Without({"old"})
L == INSTANCE Logbook WITH
       book <- Book(IF ~Durable THEN {} ELSE IF InUse THEN cache ELSE promised),
       open <- InUse
ImplementsLogbook == L!Spec

(* The journals hold the whole history of a log that began here: replayed    *)
(* from nothing they give it, which is what a recovery without any readable  *)
(* snapshot counts on, and what makes any older snapshot good enough.        *)
HistoryComplete ==
    InUse /\ (env \subseteq {"crash", "edit"} \/ env \subseteq {"damage", "ruin", "edit"})
        => Book(ReplayAll({}, Append(archives, journal))) = Book(cache)

(* An empty log is only written where there never was one (the promise of    *)
(* docs/persistence-durability.md that defaults never replace data), unless  *)
(* a recovery is cut off after it moved the damaged snapshot aside.          *)
NeverBlank ==
    [][job'.goal = "create" /\ (Without({"damage"}) \/ Without({"crash", "fail"}))
         => promised = {}]_vars

(* The program refuses to start, on a snapshot that is unreadable with all   *)
(* its spares, only when nothing was ever logged: else journals have it, if  *)
(* the log began here and no append and no writing of a file ever failed.    *)
FailsOnlyEmpty ==
    job.at = "failed" /\ Without({"old", "torn", "fail"}) => promised = {}

(* What docs/persistence-durability.md says: a mutation that succeeded       *)
(* survives a normal restart.                                                *)
NothingLost == InUse => Book(cache) = Book(promised)
=============================================================================
