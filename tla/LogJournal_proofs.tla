--------------------------- MODULE LogJournal_proofs ---------------------------
(* Proofs about LogJournal, for any keys, bounds and surroundings: that no     *)
(* empty log replaces a logged one, that no start is refused when a journal    *)
(* holds an operation, that the state is well-formed, that the journals hold   *)
(* the whole history, and that the program implements the Logbook. A replay    *)
(* recurs over a journal. Induction unfolds it; StepsSplit then says what it   *)
(* does to any log: it spares some records, whatever the others are, and what  *)
(* it puts does not depend on them.                                            *)
EXTENDS LogJournal, Induction, SequenceTheorems, FiniteSetTheorems

-----------------------------------------------------------------------------
(* What the program is doing.                                                *)
Opening == {"down", "load", "archives", "failed"}
Writing == {"tmp", "rotate", "rename"}
JobInv ==
    /\ job = [at |-> job.at, goal |-> job.goal, data |-> job.data]
    /\ job.at \in Phases
    /\ job.at \in Opening => job.goal = "none"
    /\ job.at \in Writing => job.goal \in Goals \ {"none"}
    /\ job.at = "up" => job.goal \in {"none", "checkpoint"}
    /\ job.at = "journal" => job.goal \in {"none", "rewrite"}
    /\ job.at = "archive" => job.goal = "checkpoint"

(* What comes after a load and after a snapshot is in place.                 *)
LEMMA LoadJob ==
  LoadMain => \/ job' = At("journal")
              \/ "voice" \in env /\ job' = Write("normalise", cache')
BY DEF LoadMain, Normalised

LEMMA RenameJob ==
  ASSUME JobInv, Rename
  PROVE  \/ job.goal = "create" /\ job' = At("load")
         \/ job.goal = "normalise" /\ job' = At("journal")
         \/ /\ job.goal = "restore"
            /\ job' = At("archives") \/ job' = Write("renormalise", cache')
         \/ job.goal = "renormalise" /\ job' = At("archives")
         \/ job.goal = "rewrite" /\ job' = At("up")
         \/ job.goal = "checkpoint" /\ job' = [job EXCEPT !.at = "archive"]
<1>1. job.goal \in Goals \ {"none"}
  BY DEF Rename, JobInv, Writing
<1> QED BY <1>1 DEF Rename, Goals, Normalised

LEMMA JobInit == Init => JobInv
BY DEF Init, JobInv, At, Phases, Opening, Writing, Goals

LEMMA JobNext == JobInv /\ [Next]_vars => JobInv'
<1> SUFFICES ASSUME JobInv, [Next]_vars PROVE JobInv'
  OBVIOUS
<1> USE DEF JobInv, At, Phases, Opening, Writing, Goals, Write, Unclosed
<1>1. CASE Start
  BY <1>1 DEF Start
<1>2. CASE LoadMain
  BY <1>2, LoadJob DEF LoadMain
<1>3. CASE LoadSpare
  BY <1>3 DEF LoadSpare
<1>4. CASE LoadNothing
  BY <1>4 DEF LoadNothing
<1>5. CASE ReplayArchives
  BY <1>5 DEF ReplayArchives
<1>6. CASE ReplayJournal
  BY <1>6 DEF ReplayJournal
<1>7. CASE WriteTmp
  BY <1>7 DEF WriteTmp
<1>8. CASE Rotate
  BY <1>8 DEF Rotate
<1>9. CASE Rename
  BY <1>9, RenameJob DEF Rename
<1>10. CASE WriteFails
  BY <1>10 DEF WriteFails
<1>11. CASE Commit
  BY <1>11 DEF Commit
<1>12. CASE AppendFails
  BY <1>12 DEF AppendFails
<1>13. CASE Close
  BY <1>13 DEF Close
<1>14. CASE Archive
  BY <1>14 DEF Archive
<1>15. CASE ArchiveFails
  BY <1>15 DEF ArchiveFails
<1>16. CASE Exit
  BY <1>16 DEF Exit
<1>17. CASE Crash
  BY <1>17 DEF Crash
<1>18. CASE Damage
  BY <1>18 DEF Damage
<1>19. CASE UNCHANGED vars
  BY <1>19 DEF vars
<1> QED
  BY <1>1, <1>2, <1>3, <1>4, <1>5, <1>6, <1>7, <1>8, <1>9, <1>10, <1>11, <1>12,
     <1>13, <1>14, <1>15, <1>16, <1>17, <1>18, <1>19 DEF Next

-----------------------------------------------------------------------------
(* There is a snapshot whenever the log is open or was loaded from one; it   *)
(* is missing at a start only if nothing was ever logged, or in the middle   *)
(* of a recovery, which nothing cuts off in these surroundings.              *)
Undisturbed == Without({"damage"}) \/ Without({"crash", "fail"})
SnapInv ==
    /\ job.at \in {"load", "archives", "journal", "up", "archive"} => main.is # "missing"
    /\ job.goal \in {"normalise", "renormalise", "rewrite", "checkpoint"} =>
         main.is # "missing"
    /\ main.is = "broken" \/ job.goal \in {"restore", "renormalise"} => "damage" \in env
    /\ Undisturbed => /\ job.goal = "create" => promised = {}
                      /\ main.is = "missing" => job.goal = "restore" \/ promised = {}

LEMMA SnapInit == Init => SnapInv
BY DEF Init, SnapInv, At, Snapshot, Missing

LEMMA SameSurroundings == [Next]_vars => env' = env /\ Undisturbed' = Undisturbed
<1>1. [Next]_vars => env' = env
  BY DEF Next, vars, Start, LoadMain, LoadSpare, LoadNothing, ReplayArchives,
         ReplayJournal, WriteTmp, Rotate, Rename, WriteFails, Commit, AppendFails,
         Close, Archive, ArchiveFails, Exit, Crash, Damage
<1> QED BY <1>1 DEF Undisturbed, Without

LEMMA SnapNext == JobInv /\ SnapInv /\ [Next]_vars => SnapInv'
<1> SUFFICES ASSUME JobInv, SnapInv, [Next]_vars PROVE SnapInv'
  OBVIOUS
<1> USE DEF JobInv, SnapInv, Opening, Writing, Phases, Goals, At, Write, Unclosed
<1>a. env' = env /\ Undisturbed' = Undisturbed
  BY SameSurroundings
<1>b. Undisturbed /\ "damage" \in env => "crash" \notin env /\ "fail" \notin env
  BY DEF Undisturbed, Without
<1> USE <1>a, <1>b
<1>1. CASE Start
  BY <1>1 DEF Start, disk
<1>2. CASE LoadMain
  BY <1>2, LoadJob DEF LoadMain, disk
<1>3. CASE LoadSpare
  BY <1>3 DEF LoadSpare, Missing, Broken
<1>4. CASE LoadNothing
  BY <1>4 DEF LoadNothing, disk
<1>5. CASE ReplayArchives
  BY <1>5 DEF ReplayArchives
<1>6. CASE ReplayJournal
  <2>1. job.at = "journal" /\ main' = main /\ promised' = promised
    BY <1>6 DEF ReplayJournal
  <2>2. \/ job'.at = "tmp" /\ job'.goal = "rewrite"
        \/ job'.at = "up" /\ job'.goal = "none"
    <3>1. CASE job.goal = "rewrite"
      BY <1>6, <3>1 DEF ReplayJournal
    <3>2. CASE job.goal # "rewrite"
      BY <1>6, <3>2 DEF ReplayJournal
    <3> QED BY <3>1, <3>2
  <2>3. main.is # "missing" /\ (main.is = "broken" => "damage" \in env)
    BY <2>1
  <2> QED BY <2>1, <2>2, <2>3
<1>7. CASE WriteTmp
  BY <1>7 DEF WriteTmp
<1>8. CASE Rotate
  BY <1>8 DEF Rotate, Left
<1>9. CASE Rename
  <2>1. main'.is = "whole" /\ promised' = promised
    BY <1>9 DEF Rename, Snapshot
  <2> QED BY <1>9, <2>1, RenameJob
<1>10. CASE WriteFails
  BY <1>10 DEF WriteFails, May
<1>11. CASE Commit
  <2>1. job.at = "up" /\ job' = job /\ main' = main
    BY <1>11 DEF Commit
  <2>2. main.is # "missing" /\ job.goal # "create" /\ job.goal # "restore"
    BY <2>1
  <2> QED BY <2>1, <2>2
<1>12. CASE AppendFails
  BY <1>12 DEF AppendFails
<1>13. CASE Close
  <2>1. job.at = "up" /\ main' = main /\ promised' = promised
    BY <1>13 DEF Close, disk
  <2>2. job'.goal \in {"none", "checkpoint"}
    <3>1. CASE journal = <<>>
      BY <1>13, <3>1 DEF Close
    <3>2. CASE journal # <<>>
      BY <1>13, <3>2 DEF Close
    <3> QED BY <3>1, <3>2
  <2>3. main.is # "missing" /\ (main.is = "broken" => "damage" \in env)
    BY <2>1
  <2> QED BY <2>1, <2>2, <2>3
<1>14. CASE Archive
  BY <1>14 DEF Archive
<1>15. CASE ArchiveFails
  BY <1>15 DEF ArchiveFails, disk
<1>16. CASE Exit
  BY <1>16 DEF Exit, disk
<1>17. CASE Crash
  <2>1. "crash" \in env /\ job.at # "down" /\ job.at # "failed"
    BY <1>17 DEF Crash, May
  <2>2. /\ main' = main /\ env' = env /\ job' = At("down")
        /\ promised' = promised \/ job.at = "up"
    BY <1>17 DEF Crash
  <2>3. CASE job.at = "up"
    <3>1. main.is # "missing" /\ (main.is = "broken" => "damage" \in env)
      BY <2>3
    <3> QED BY <2>2, <3>1
  <2>4. CASE job.at # "up"
    <3>1. promised' = promised
      BY <2>2, <2>4
    <3>2. main.is = "broken" => "damage" \in env
      OBVIOUS
    <3>3. Undisturbed /\ main.is = "missing" => promised = {}
      BY <2>1
    <3> QED BY <2>2, <3>1, <3>2, <3>3
  <2> QED BY <2>3, <2>4
<1>18. CASE Damage
  BY <1>18 DEF Damage, May, Broken
<1>19. CASE UNCHANGED vars
  BY <1>19 DEF vars
<1> QED
  BY <1>1, <1>2, <1>3, <1>4, <1>5, <1>6, <1>7, <1>8, <1>9, <1>10, <1>11, <1>12,
     <1>13, <1>14, <1>15, <1>16, <1>17, <1>18, <1>19 DEF Next

(* A write of an empty log begins at a start without a snapshot, which is a  *)
(* start of a log that is empty.                                             *)
LEMMA BlankStep ==
  ASSUME JobInv, SnapInv, Next, Undisturbed, job'.goal = "create"
  PROVE  promised = {}
<1> USE DEF JobInv, SnapInv, Opening, Writing, Phases, Goals, At, Write, Unclosed
<1>1. CASE Start
  BY <1>1 DEF Start
<1>2. CASE WriteTmp \/ Rotate
  BY <1>2 DEF WriteTmp, Rotate
<1>3. CASE WriteFails \/ Rename \/ Close \/ Archive \/ ArchiveFails \/ Exit
  BY <1>3, RenameJob DEF WriteFails, Close, Archive, ArchiveFails, Exit
<1>4. CASE LoadMain \/ LoadSpare \/ LoadNothing
  BY <1>4, LoadJob DEF LoadSpare, LoadNothing
<1>5. CASE ReplayArchives \/ ReplayJournal
  <2>1. job'.goal # "create"
    <3>1. CASE job.goal = "rewrite"
      <4>1. CASE ReplayArchives
        BY <4>1 DEF ReplayArchives
      <4>2. CASE ReplayJournal
        BY <3>1, <4>2 DEF ReplayJournal
      <4> QED BY <1>5, <4>1, <4>2
    <3>2. CASE job.goal # "rewrite"
      <4>1. CASE ReplayArchives
        BY <4>1 DEF ReplayArchives
      <4>2. CASE ReplayJournal
        BY <3>2, <4>2 DEF ReplayJournal
      <4> QED BY <1>5, <4>1, <4>2
    <3> QED BY <3>1, <3>2
  <2> QED BY <2>1
<1>6. CASE Commit \/ AppendFails \/ Damage
  BY <1>6 DEF Commit, AppendFails, Damage
<1>7. CASE Crash
  BY <1>7 DEF Crash
<1> QED BY <1>1, <1>2, <1>3, <1>4, <1>5, <1>6, <1>7 DEF Next

(* A start that finds no logbook, as after a recovery that moved the damaged *)
(* file away, writes an empty one only if nothing was ever acknowledged.     *)
THEOREM NoBlankLog == Spec => NeverBlank
<1>1. Init => JobInv /\ SnapInv
  BY JobInit, SnapInit
<1>2. JobInv /\ SnapInv /\ [Next]_vars => (JobInv /\ SnapInv)'
  BY JobNext, SnapNext
<1>3. JobInv /\ SnapInv /\ [Next]_vars =>
        [job'.goal = "create" /\ (Without({"damage"}) \/ Without({"crash", "fail"}))
           => promised = {}]_vars
  BY BlankStep DEF Undisturbed
<1> QED BY <1>1, <1>2, <1>3, PTL DEF Spec, NeverBlank

-----------------------------------------------------------------------------
(* Journals that a replay finds something in begin with a whole line.        *)
IsSeq(file) == \E S : file \in Seq(S)
Begun(file) == file # <<>> /\ file[1].is # "torn"
Clean(file) == file # <<>> => file[1].is # "torn"

(* Whole keeps a first line that is whole, and nothing of what follows a     *)
(* torn one.                                                                 *)
LEMMA WholeFacts ==
  ASSUME NEW file, IsSeq(file)
  PROVE  /\ IsSeq(Whole(file))
         /\ Whole(file) # <<>> <=> Begun(file)
         /\ Begun(file) => Begun(Whole(file))
         /\ Clean(Whole(file))
<1> DEFINE n == Len(file)
           sound == {i \in DOMAIN file : Sound(file, i)}
           k == Cardinality(sound)
<1>1. PICK S : file \in Seq(S)
  BY DEF IsSeq
<1>2. n \in Nat /\ DOMAIN file = 1 .. n /\ \A i \in 1 .. n : file[i] \in S
  BY <1>1, LenProperties, ElementOfSeq
<1>3. IsFiniteSet(1 .. n) /\ Cardinality(1 .. n) = n
  BY <1>2, FS_Interval
<1>4. sound \in SUBSET (1 .. n)
  BY <1>2
<1>5. IsFiniteSet(sound) /\ k <= n
  BY <1>3, <1>4, FS_Subset
<1>6. k \in Nat
  BY <1>5, FS_CardinalityType
<1>7. k = 0 <=> sound = {}
  BY <1>5, FS_EmptySet
<1> HIDE DEF k
<1>8. /\ SubSeq(file, 1, k) \in Seq(S)
      /\ Len(SubSeq(file, 1, k)) = k
      /\ \A i \in 1 .. k : SubSeq(file, 1, k)[i] = file[i]
  <2>1. \A i \in 1 .. k : file[i] \in S
    BY <1>2, <1>5, <1>6
  <2> QED BY <1>6, <2>1, SubSeqProperties
<1>9. Whole(file) = SubSeq(file, 1, k)
  BY DEF Whole, k
<1>10. file # <<>> <=> n > 0
  BY <1>1, <1>2, EmptySeq
<1>11. sound # {} <=> Begun(file)
  <2>1. ASSUME NEW i \in sound PROVE Begun(file)
    <3>1. i \in 1 .. n /\ Sound(file, i)
      BY <1>2
    <3>2. 1 \in 1 .. i /\ n > 0
      BY <1>2, <3>1
    <3> QED BY <3>1, <3>2, <1>10 DEF Sound, Begun
  <2>2. ASSUME Begun(file) PROVE 1 \in sound
    <3>1. 1 \in DOMAIN file
      BY <1>2, <1>10, <2>2 DEF Begun
    <3>2. \A j \in 1 .. 1 : file[j].is # "torn"
      BY <2>2 DEF Begun
    <3> QED BY <3>1, <3>2 DEF Sound
  <2> QED BY <2>1, <2>2
<1>12. Whole(file) # <<>> <=> k > 0
  <2>1. Whole(file) \in Seq(S) /\ Len(Whole(file)) = k
    BY <1>8, <1>9
  <2> QED BY <1>6, <2>1, EmptySeq
<1>13. Whole(file) # <<>> <=> Begun(file)
  BY <1>6, <1>7, <1>11, <1>12
<1>14. ASSUME Whole(file) # <<>> PROVE Whole(file)[1] = file[1]
  BY <1>6, <1>8, <1>9, <1>12, <1>14
<1>15. Whole(file) # <<>> => Whole(file)[1].is # "torn"
  BY <1>13, <1>14 DEF Begun
<1>16. IsSeq(Whole(file))
  BY <1>8, <1>9 DEF IsSeq
<1> HIDE DEF sound
<1> QED BY <1>13, <1>15, <1>16 DEF Begun, Clean

(* Appending keeps the first line, or makes one.                             *)
LEMMA AppendFacts ==
  ASSUME NEW file, IsSeq(file), NEW e
  PROVE  /\ IsSeq(Append(file, e))
         /\ Append(file, e) # <<>>
         /\ Begun(file) => Begun(Append(file, e))
         /\ Clean(file) /\ e.is # "torn" => Begun(Append(file, e))
<1>1. PICK S : file \in Seq(S)
  BY DEF IsSeq
<1> DEFINE T == S \cup {e}
<1>2. file \in Seq(T)
  BY <1>1, SeqMonotonic
<1>3. e \in T
  OBVIOUS
<1> HIDE DEF T
<1>4. /\ Append(file, e) \in Seq(T)
      /\ Len(Append(file, e)) = Len(file) + 1
      /\ \A i \in 1 .. Len(file) : Append(file, e)[i] = file[i]
      /\ Append(file, e)[Len(file) + 1] = e
  BY <1>2, <1>3, AppendProperties
<1>5. Len(file) \in Nat /\ (file # <<>> => Len(file) > 0) /\ Len(<<>>) = 0
  BY <1>2, EmptySeq, LenProperties
<1>6. Append(file, e) # <<>>
  BY <1>4, <1>5
<1>7. file # <<>> => Append(file, e)[1] = file[1]
  BY <1>4, <1>5
<1>8. file = <<>> => Append(file, e)[1] = e
  BY <1>4, <1>5
<1>9. IsSeq(Append(file, e))
  BY <1>4 DEF IsSeq
<1> QED BY <1>6, <1>7, <1>8, <1>9 DEF Begun, Clean

-----------------------------------------------------------------------------
(* The journals are sequences.                                               *)
SeqInv ==
    /\ IsSeq(journal) /\ IsSeq(archives)
    /\ \A i \in DOMAIN archives : IsSeq(archives[i])

LEMMA EmptyIsSeq == IsSeq(<<>>)
BY EmptySeq DEF IsSeq

LEMMA SeqInit == Init => SeqInv
<1> SUFFICES ASSUME Init PROVE SeqInv
  OBVIOUS
<1>1. journal = <<>> /\ archives = <<>>
  BY DEF Init
<1>2. DOMAIN archives = {}
  BY <1>1
<1> QED BY <1>1, <1>2, EmptyIsSeq DEF SeqInv

(* An archived journal is one more, the others stay.                         *)
LEMMA ArchivedFacts ==
  ASSUME SeqInv
  PROVE  /\ IsSeq(Archived)
         /\ \A i \in DOMAIN Archived : IsSeq(Archived[i])
         /\ journal \in Range(Archived) /\ Range(archives) \subseteq Range(Archived)
<1>1. PICK S : archives \in Seq(S)
  BY DEF SeqInv, IsSeq
<1> DEFINE T == S \cup {journal}
<1>2. archives \in Seq(T)
  BY <1>1, SeqMonotonic
<1>3. journal \in T
  OBVIOUS
<1> HIDE DEF T
<1>4. /\ Archived \in Seq(T)
      /\ Len(Archived) = Len(archives) + 1
      /\ \A i \in 1 .. Len(archives) : Archived[i] = archives[i]
      /\ Archived[Len(archives) + 1] = journal
  BY <1>2, <1>3, AppendProperties DEF Archived
<1>5. /\ Len(archives) \in Nat /\ DOMAIN archives = 1 .. Len(archives)
      /\ DOMAIN Archived = 1 .. (Len(archives) + 1)
  BY <1>2, <1>4, LenProperties
<1>6. \A i \in DOMAIN Archived : i \in DOMAIN archives \/ i = Len(archives) + 1
  BY <1>5
<1>7. \A i \in DOMAIN Archived : IsSeq(Archived[i])
  BY <1>4, <1>5, <1>6 DEF SeqInv
<1>8. journal \in Range(Archived)
  <2>1. Len(archives) + 1 \in DOMAIN Archived
    BY <1>5
  <2> QED BY <1>4, <2>1 DEF Range
<1>9. ASSUME NEW f \in Range(archives) PROVE f \in Range(Archived)
  <2>1. PICK i \in DOMAIN archives : f = archives[i]
    BY DEF Range
  <2>2. i \in DOMAIN Archived /\ Archived[i] = f
    BY <1>4, <1>5, <2>1
  <2> QED BY <2>2 DEF Range
<1> QED BY <1>4, <1>7, <1>8, <1>9 DEF IsSeq

(* Where nothing but crashes disturbs it, the log can always be told from an *)
(* empty one: a journal begins with an operation if any was acknowledged,    *)
(* and what is appended to is not behind a torn line.                        *)
Steady == Without({"old", "torn", "fail"})
Recorded == \E f \in Range(archives) \cup {journal} : Begun(f)
JournalInv ==
    Steady =>
      /\ promised # {} => Recorded
      /\ job.at = "up" \/ job.goal = "checkpoint" => Clean(journal)
      /\ job.goal = "rewrite" /\ job.at # "journal" => Clean(journal)
      /\ job.at = "failed" => promised = {}

LEMMA JournalInit == Init => JournalInv
<1> SUFFICES ASSUME Init, Steady PROVE JournalInv
  BY DEF JournalInv
<1>1. "old" \notin env
  BY DEF Steady, Without
<1>2. promised = {}
  BY <1>1 DEF Init, Snapshot, Missing
<1> QED BY <1>2 DEF Init, JournalInv, At

LEMMA SeqNext == SeqInv /\ [Next]_vars => SeqInv'
<1> SUFFICES ASSUME SeqInv, [Next]_vars PROVE SeqInv'
  OBVIOUS
<1>1. CASE UNCHANGED <<journal, archives>>
  BY <1>1 DEF SeqInv
<1>2. CASE ReplayArchives
  <2>1. IsSeq(archives')
    <3>1. PICK S : archives \in Seq(S)
      BY DEF SeqInv, IsSeq
    <3>2. Len(archives) \in Nat /\ DOMAIN archives = 1 .. Len(archives)
      BY <3>1, LenProperties
    <3> DEFINE T == {Whole(archives[i]) : i \in DOMAIN archives}
    <3>3. archives' \in [1 .. Len(archives) -> T]
      BY <1>2, <3>2 DEF ReplayArchives
    <3> HIDE DEF T
    <3>4. archives' \in Seq(T)
      BY <3>2, <3>3, SeqDef
    <3> QED BY <3>4 DEF IsSeq
  <2>2. \A i \in DOMAIN archives' : IsSeq(archives'[i])
    <3>1. DOMAIN archives' = DOMAIN archives
      BY <1>2 DEF ReplayArchives
    <3>2. ASSUME NEW i \in DOMAIN archives PROVE IsSeq(archives'[i])
      <4>1. IsSeq(archives[i]) /\ archives'[i] = Whole(archives[i])
        BY <1>2 DEF ReplayArchives, SeqInv
      <4> QED BY <4>1, WholeFacts
    <3> QED BY <3>1, <3>2
  <2> QED BY <1>2, <2>1, <2>2 DEF ReplayArchives, SeqInv
<1>3. CASE ReplayJournal
  BY <1>3, WholeFacts DEF ReplayJournal, SeqInv
<1>4. CASE Archive
  BY <1>4, ArchivedFacts, EmptyIsSeq DEF Archive, SeqInv
<1>5. CASE archives' = archives /\ \E e : journal' = Append(journal, e)
  BY <1>5, AppendFacts DEF SeqInv
<1> QED
  BY <1>1, <1>2, <1>3, <1>4, <1>5
     DEF Next, vars, disk, Start, LoadMain, LoadSpare, LoadNothing, WriteTmp, Rotate,
         Rename, WriteFails, Commit, AppendFails, Close, ArchiveFails, Exit, Crash, Damage

(* A step that changes no journal and no promise keeps the invariant if what *)
(* the program does next needs no more of the journals.                      *)
LEMMA JournalsKept ==
  ASSUME JournalInv, Steady' = Steady, UNCHANGED <<journal, archives, promised>>,
         job'.at = "up" \/ job'.goal = "checkpoint" => job.at = "up" \/ job.goal = "checkpoint"
           \/ (job.goal = "rewrite" /\ job.at # "journal"),
         job'.goal = "rewrite" /\ job'.at # "journal" =>
           job.goal = "rewrite" /\ job.at # "journal",
         job'.at = "failed" => promised = {} \/ job.at = "failed"
  PROVE  JournalInv'
BY DEF JournalInv, Recorded

LEMMA JournalNext == JobInv /\ SeqInv /\ JournalInv /\ [Next]_vars => JournalInv'
<1> SUFFICES ASSUME JobInv, SeqInv, JournalInv, [Next]_vars, Steady PROVE JournalInv'
  <2>1. [Next]_vars => Steady' = Steady
    BY SameSurroundings DEF Steady, Without
  <2> QED BY <2>1 DEF JournalInv
<1>a. Steady' = Steady /\ "torn" \notin env /\ "fail" \notin env
  BY SameSurroundings DEF Steady, Without
<1> USE DEF JobInv, Opening, Writing, Phases, Goals, At, Write, Unclosed
<1>1. CASE Start
  BY <1>a, <1>1, JournalsKept DEF Start, disk
<1>2. CASE LoadMain
  BY <1>a, <1>2, LoadJob, JournalsKept DEF LoadMain, disk
<1>3. CASE LoadSpare
  BY <1>a, <1>3, JournalsKept DEF LoadSpare
<1>4. CASE LoadNothing
  <2>1. UNCHANGED <<journal, archives, promised>>
    BY <1>4 DEF LoadNothing, disk
  <2>2. Recorded => Transactions
    <3>1. ASSUME NEW f \in Range(archives) \cup {journal} PROVE IsSeq(f)
      BY DEF SeqInv, Range
    <3> QED BY <3>1, WholeFacts DEF Recorded, Transactions
  <2>3. CASE Transactions
    <3>1. job' = At("archives")
      BY <1>4, <2>3 DEF LoadNothing
    <3> QED BY <1>a, <2>1, <3>1, JournalsKept
  <2>4. CASE ~Transactions
    <3>1. job' = At("failed")
      BY <1>4, <2>4 DEF LoadNothing
    <3>2. promised = {}
      BY <2>2, <2>4 DEF JournalInv
    <3> QED BY <1>a, <2>1, <3>1, <3>2, JournalsKept
  <2> QED BY <2>3, <2>4
<1>5. CASE ReplayArchives
  <2>1. job'.at = "journal" /\ job'.goal = "rewrite" /\ promised' = promised
        /\ journal' = journal
    BY <1>5 DEF ReplayArchives
  <2>2. Recorded => Recorded'
    <3>1. ASSUME NEW f \in Range(archives), Begun(f)
          PROVE  \E g \in Range(archives') : Begun(g)
      <4>1. PICK i \in DOMAIN archives : f = archives[i]
        BY DEF Range
      <4>2. i \in DOMAIN archives' /\ archives'[i] = Whole(f)
        BY <1>5, <4>1 DEF ReplayArchives
      <4>3. Begun(Whole(f))
        BY <3>1, <4>1, WholeFacts DEF SeqInv
      <4> QED BY <4>2, <4>3 DEF Range
    <3> QED BY <2>1, <3>1 DEF Recorded
  <2> QED BY <1>a, <2>1, <2>2 DEF JournalInv
<1>6. CASE ReplayJournal
  <2>1. journal' = Whole(journal) /\ archives' = archives /\ promised' = promised
    BY <1>6 DEF ReplayJournal
  <2>2. Clean(journal') /\ (Begun(journal) => Begun(journal'))
    BY <2>1, WholeFacts DEF SeqInv
  <2>3. Recorded => Recorded'
    BY <2>1, <2>2 DEF Recorded
  <2>4. job'.at # "failed"
    <3>1. CASE job.goal = "rewrite"
      BY <1>6, <3>1 DEF ReplayJournal
    <3>2. CASE job.goal # "rewrite"
      BY <1>6, <3>2 DEF ReplayJournal
    <3> QED BY <3>1, <3>2
  <2> QED BY <1>a, <2>1, <2>2, <2>3, <2>4 DEF JournalInv
<1>7. CASE WriteTmp
  BY <1>a, <1>7, JournalsKept DEF WriteTmp
<1>8. CASE Rotate
  BY <1>a, <1>8, JournalsKept DEF Rotate
<1>9. CASE Rename
  <2>1. UNCHANGED <<journal, archives, promised>> /\ job.at = "rename"
    BY <1>9 DEF Rename
  <2> QED BY <1>a, <1>9, <2>1, RenameJob, JournalsKept
<1>10. CASE WriteFails \/ AppendFails \/ ArchiveFails
  BY <1>a, <1>10 DEF WriteFails, AppendFails, ArchiveFails, May
<1>11. CASE Commit
  <2>1. PICK e \in Entries : journal' = Append(journal, e)
    BY <1>11 DEF Commit
  <2>2. e.is # "torn"
    BY DEF Entries, Entry
  <2>3. job.at = "up" /\ job' = job /\ archives' = archives /\ Clean(journal)
    BY <1>11 DEF Commit, JournalInv
  <2>4. Begun(journal')
    BY <2>1, <2>2, <2>3, AppendFacts DEF SeqInv
  <2>5. Recorded'
    BY <2>4 DEF Recorded
  <2> QED BY <2>3, <2>4, <2>5 DEF JournalInv, Begun, Clean
<1>12. CASE Close
  <2>1. job.at = "up" /\ UNCHANGED <<journal, archives, promised>>
    BY <1>12 DEF Close, disk
  <2>2. job'.at # "failed" /\ job'.goal # "rewrite"
    <3>1. CASE journal = <<>>
      BY <1>12, <3>1 DEF Close
    <3>2. CASE journal # <<>>
      BY <1>12, <3>2 DEF Close
    <3> QED BY <3>1, <3>2
  <2> QED BY <1>a, <2>1, <2>2, JournalsKept
<1>13. CASE Archive
  <2>1. /\ job' = At("down") /\ journal' = <<>> /\ promised' = promised
        /\ archives' = Archived
    BY <1>a, <1>13 DEF Archive, May
  <2>2. Recorded => Recorded'
    BY <2>1, ArchivedFacts DEF Recorded
  <2> QED BY <1>a, <2>1, <2>2 DEF JournalInv
<1>14. CASE Exit
  BY <1>a, <1>14, JournalsKept DEF Exit, disk
<1>15. CASE Crash
  <2>1. job' = At("down") /\ archives' = archives
    BY <1>15 DEF Crash
  <2>2. CASE UNCHANGED <<journal, promised>>
    BY <1>a, <2>1, <2>2, JournalsKept
  <2>3. CASE job.at = "up" /\ journal' = Append(journal, Torn) /\ promised' = promised
    <3>1. Begun(journal) => Begun(journal')
      BY <2>3, AppendFacts DEF SeqInv
    <3>2. Recorded => Recorded'
      BY <2>1, <3>1 DEF Recorded
    <3> QED BY <1>a, <2>1, <2>3, <3>2 DEF JournalInv
  <2>4. CASE job.at = "up" /\ \E e \in Entries : journal' = Append(journal, e)
    <3>1. PICK e \in Entries : journal' = Append(journal, e)
      BY <2>4
    <3>2. e.is # "torn"
      BY DEF Entries, Entry
    <3>3. Clean(journal)
      BY <2>4 DEF JournalInv
    <3>4. Begun(journal')
      BY <3>1, <3>2, <3>3, AppendFacts DEF SeqInv
    <3>5. Recorded'
      BY <3>4 DEF Recorded
    <3> QED BY <2>1, <3>5 DEF JournalInv
  <2> QED BY <1>15, <2>2, <2>3, <2>4 DEF Crash
<1>16. CASE Damage
  BY <1>a, <1>16, JournalsKept DEF Damage
<1>17. CASE UNCHANGED vars
  BY <1>a, <1>17, JournalsKept DEF vars
<1> QED
  BY <1>1, <1>2, <1>3, <1>4, <1>5, <1>6, <1>7, <1>8, <1>9, <1>10, <1>11, <1>12,
     <1>13, <1>14, <1>15, <1>16, <1>17 DEF Next

(* A start that finds the snapshot and all its spares unreadable gives up    *)
(* only if no operation was ever acknowledged: any other log is in journals. *)
THEOREM NoLogRefused == Spec => []FailsOnlyEmpty
<1>1. Init => JobInv /\ SeqInv /\ JournalInv
  BY JobInit, SeqInit, JournalInit
<1>2. JobInv /\ SeqInv /\ JournalInv /\ [Next]_vars => (JobInv /\ SeqInv /\ JournalInv)'
  BY JobNext, SeqNext, JournalNext
<1>3. JournalInv => FailsOnlyEmpty
  BY DEF JournalInv, FailsOnlyEmpty, Steady
<1> QED BY <1>1, <1>2, <1>3, PTL DEF Spec

-----------------------------------------------------------------------------
(* Lines that are whole, and the part of a journal before the first that is  *)
(* not.                                                                      *)
Ops == {Entry(what, r) : what \in {"put", "delete"}, r \in Records}
AllWhole(file) == \A i \in DOMAIN file : file[i].is # "torn"

LEMMA LineFacts ==
  /\ Lines = Ops \cup {Torn} /\ Torn.is = "torn"
  /\ \A e \in Ops : /\ e.is \in {"put", "delete"} /\ e.is # "torn"
                    /\ \E r \in Records : e.rec = {r}
                    /\ e.rec \subseteq Records
BY DEF Lines, Ops, Torn, Entry

LEMMA WholeLength ==
  ASSUME NEW file \in Seq(Lines)
  PROVE  \E k \in 0..Len(file) :
            /\ Whole(file) = SubSeq(file, 1, k)
            /\ \A i \in 1..k : file[i].is # "torn"
            /\ k < Len(file) => file[k + 1].is = "torn"
<1> DEFINE n == Len(file)
           sound == {i \in DOMAIN file : Sound(file, i)}
           T == (1..(n + 1)) \ sound
<1>1. n \in Nat /\ DOMAIN file = 1..n
  BY LenProperties
<1>2. n + 1 \in T /\ T \subseteq Nat
  BY <1>1
<1> HIDE DEF T
<1>3. PICK m \in T : \A x \in T : m <= x
  BY <1>2, LeastElement
<1> USE DEF T
<1>4. m \in 1..(n + 1) /\ m \notin sound /\ m - 1 \in 0..n
  BY <1>1, <1>3
<1>5. ASSUME NEW i \in 1..(m - 1) PROVE i \in sound
  BY <1>1, <1>3, <1>4
<1>6. ASSUME NEW i \in sound PROVE i \in 1..(m - 1)
  <2>1. i \in 1..n /\ \A j \in 1..i : file[j].is # "torn"
    BY <1>1 DEF Sound
  <2>2. CASE i >= m
    <3>1. m \in 1..n /\ \A j \in 1..m : file[j].is # "torn"
      BY <1>1, <1>4, <2>1, <2>2
    <3>2. m \in sound
      BY <1>1, <3>1 DEF Sound
    <3> QED BY <3>2, <1>4
  <2> QED BY <1>1, <1>4, <2>1, <2>2
<1>7. sound = 1..(m - 1)
  BY <1>5, <1>6
<1>8. Cardinality(sound) = m - 1
  <2>1. 1 \in Int /\ m - 1 \in Int /\ m - 1 \in Nat
    BY <1>1, <1>4
  <2>2. Cardinality(1..(m - 1)) = IF 1 > m - 1 THEN 0 ELSE (m - 1) - 1 + 1
    BY <2>1, FS_Interval
  <2>3. Cardinality(1..(m - 1)) = m - 1
    BY <2>1, <2>2
  <2> HIDE DEF sound
  <2> QED BY <1>7, <2>3
<1>9. Whole(file) = SubSeq(file, 1, m - 1)
  BY <1>8 DEF Whole
<1>10. ASSUME NEW i \in 1..(m - 1) PROVE file[i].is # "torn"
  <2>1. Sound(file, i) /\ i \in 1..i
    BY <1>7, <1>1, <1>4
  <2> QED BY <2>1 DEF Sound
<1>11. ASSUME m - 1 < n PROVE file[m].is = "torn"
  <2>1. m \in 1..n
    BY <1>1, <1>4, <1>11
  <2>2. ~Sound(file, m)
    BY <1>1, <1>4, <2>1
  <2>3. PICK j \in 1..m : file[j].is = "torn"
    BY <2>2 DEF Sound
  <2>4. j = m
    BY <1>10, <2>3, <1>4, <1>1
  <2> QED BY <2>3, <2>4
<1> QED BY <1>1, <1>4, <1>9, <1>10, <1>11

LEMMA WholeLines ==
  ASSUME NEW file \in Seq(Lines)
  PROVE  /\ Whole(file) \in Seq(Ops) /\ Whole(file) \in Seq(Lines)
         /\ AllWhole(Whole(file))
         /\ AllWhole(file) => Whole(file) = file
         /\ Whole(Whole(file)) = Whole(file)
<1>1. \A f \in Seq(Lines) : AllWhole(f) => Whole(f) = f
  <2> SUFFICES ASSUME NEW f \in Seq(Lines), AllWhole(f) PROVE Whole(f) = f
    OBVIOUS
  <2>1. PICK k \in 0..Len(f) : Whole(f) = SubSeq(f, 1, k) /\ (k < Len(f) => f[k + 1].is = "torn")
    BY WholeLength
  <2>2. Len(f) \in Nat /\ DOMAIN f = 1..Len(f)
    BY LenProperties
  <2>3. k = Len(f)
    <3>1. CASE k < Len(f)
      <4>1. k + 1 \in DOMAIN f
        BY <2>2, <3>1
      <4>2. f[k + 1].is # "torn"
        BY <4>1 DEF AllWhole
      <4> QED BY <2>1, <3>1, <4>2
    <3>2. ~(k < Len(f))
      BY <3>1
    <3>3. \A n \in Nat : \A m \in 0..n : ~(m < n) => m = n
      OBVIOUS
    <3>4. Len(f) \in Nat
      BY <2>2
    <3> QED BY <3>2, <3>3, <3>4
  <2> QED BY <2>1, <2>3, SubSeqFull
<1>2. PICK k \in 0..Len(file) : Whole(file) = SubSeq(file, 1, k) /\ \A i \in 1..k : file[i].is # "torn"
  BY WholeLength
<1>3. Len(file) \in Nat /\ DOMAIN file = 1..Len(file) /\ \A i \in 1..Len(file) : file[i] \in Lines
  BY LenProperties, ElementOfSeq
<1>4. \A i \in 1..k : file[i] \in Ops
  BY <1>2, <1>3, LineFacts
<1>5. /\ Whole(file) \in Seq(Ops) /\ Len(Whole(file)) = k
      /\ \A i \in 1..k : Whole(file)[i] = file[i]
  <2>1. 1 \in Int /\ k \in Int /\ k \in Nat
    BY <1>3
  <2>2. /\ SubSeq(file, 1, k) \in Seq(Ops)
        /\ Len(SubSeq(file, 1, k)) = IF 1 <= k THEN k - 1 + 1 ELSE 0
        /\ \A i \in 1..(k - 1 + 1) : SubSeq(file, 1, k)[i] = file[1 + i - 1]
    BY <1>4, <2>1, SubSeqProperties
  <2> QED BY <1>2, <2>1, <2>2
<1>6. Whole(file) \in Seq(Lines)
  BY <1>5, SeqMonotonic, LineFacts
<1>7. AllWhole(Whole(file))
  BY <1>2, <1>5, LenProperties DEF AllWhole
<1> QED BY <1>1, <1>5, <1>6, <1>7

(* A torn line at the end is as good as none.                                *)
LEMMA TornTail ==
  ASSUME NEW file \in Seq(Lines), AllWhole(file)
  PROVE  Whole(Append(file, Torn)) = file
<1>1. Torn \in Lines
  BY DEF Lines
<1>2. /\ Append(file, Torn) \in Seq(Lines) /\ Len(Append(file, Torn)) = Len(file) + 1
      /\ \A i \in 1..Len(file) : Append(file, Torn)[i] = file[i]
      /\ Append(file, Torn)[Len(file) + 1] = Torn
  BY <1>1, AppendProperties
<1>3. Len(file) \in Nat /\ DOMAIN file = 1..Len(file)
  BY LenProperties
<1> DEFINE longer == Append(file, Torn)
<1>4. PICK k \in 0..Len(longer) : /\ Whole(longer) = SubSeq(longer, 1, k)
                                  /\ \A i \in 1..k : longer[i].is # "torn"
                                  /\ k < Len(longer) => longer[k + 1].is = "torn"
  BY <1>2, WholeLength
<1>5. k <= Len(file)
  <2>1. CASE k = Len(file) + 1
    BY <1>2, <1>3, <1>4, <2>1, LineFacts
  <2> QED BY <1>2, <1>3, <2>1
<1>6. k = Len(file)
  <2>1. CASE k < Len(file)
    <3>1. k + 1 \in 1..Len(file)
      BY <1>3, <2>1
    <3>2. longer[k + 1] = file[k + 1] /\ file[k + 1].is # "torn"
      BY <1>2, <1>3, <3>1 DEF AllWhole
    <3>3. k < Len(longer)
      BY <1>2, <1>3, <2>1
    <3> HIDE DEF longer
    <3> QED BY <1>4, <3>2, <3>3
  <2>2. ~(k < Len(file))
    BY <2>1
  <2> HIDE DEF longer
  <2>3. \A n \in Nat : \A m \in Nat : m <= n /\ ~(m < n) => m = n
    OBVIOUS
  <2>4. k \in Nat /\ Len(file) \in Nat
    BY <1>2, <1>3
  <2> QED BY <1>5, <2>2, <2>3, <2>4
<1>7. SubSeq(longer, 1, k) = file
  <2>1. /\ SubSeq(longer, 1, k) \in Seq(Lines) /\ Len(SubSeq(longer, 1, k)) = IF 1 <= k THEN k - 1 + 1 ELSE 0
        /\ \A i \in 1..(k - 1 + 1) : SubSeq(longer, 1, k)[i] = longer[1 + i - 1]
    <3>1. \A i \in 1..k : longer[i] \in Lines
      BY <1>2, <1>3, <1>6, ElementOfSeq
    <3> QED BY <1>3, <1>6, <3>1, SubSeqProperties
  <2>2. Len(SubSeq(longer, 1, k)) = Len(file) /\ \A i \in 1..Len(file) : SubSeq(longer, 1, k)[i] = file[i]
    BY <1>2, <1>3, <1>6, <2>1
  <2> HIDE DEF longer
  <2> QED BY <2>1, <2>2, SeqEqual
<1> QED BY <1>4, <1>7

LEMMA WholeAppend ==
  ASSUME NEW file \in Seq(Lines), AllWhole(file), NEW e \in Ops
  PROVE  /\ Append(file, e) \in Seq(Lines) /\ AllWhole(Append(file, e))
         /\ Whole(file) = file /\ Whole(Append(file, e)) = Append(file, e)
<1>1. e \in Lines /\ e.is # "torn"
  BY LineFacts
<1>2. /\ Append(file, e) \in Seq(Lines) /\ Len(Append(file, e)) = Len(file) + 1
      /\ \A i \in 1..Len(file) : Append(file, e)[i] = file[i]
      /\ Append(file, e)[Len(file) + 1] = e
  BY <1>1, AppendProperties
<1>3. Len(file) \in Nat /\ DOMAIN file = 1..Len(file) /\ DOMAIN Append(file, e) = 1..(Len(file) + 1)
  BY <1>2, LenProperties
<1>4. AllWhole(Append(file, e))
  <2>1. \A i \in 1..(Len(file) + 1) : i \in 1..Len(file) \/ i = Len(file) + 1
    BY <1>3
  <2> QED BY <1>1, <1>2, <1>3, <2>1 DEF AllWhole
<1> QED BY <1>2, <1>4, WholeLines

-----------------------------------------------------------------------------
(* An operation spares some records and puts others, whatever else there is; *)
(* so does a sequence of operations, and a sequence of journals.             *)
Steps(n, kept, put, S, f) ==
  /\ f \in [0..n -> SUBSET Records] /\ f[0] = S
  /\ \A i \in 1..n : f[i] = (f[i - 1] \cap kept[i]) \cup put[i]

LEMMA StepsExist ==
  \A n, kept, put, S :
    n \in Nat /\ put \in [1..n -> SUBSET Records] /\ S \in SUBSET Records
      => \E f : Steps(n, kept, put, S, f)
<1> SUFFICES ASSUME NEW n \in Nat, NEW kept, NEW put \in [1..n -> SUBSET Records],
                    NEW S \in SUBSET Records
             PROVE  \E f : Steps(n, kept, put, S, f)
  OBVIOUS
<1> DEFINE D == SUBSET Records
           step == [i \in 1..n |-> [X \in D |-> (X \cap kept[i]) \cup put[i]]]
<1>1. step \in [1..n -> [D -> D]]
  <2> SUFFICES ASSUME NEW i \in 1..n, NEW X \in D PROVE (X \cap kept[i]) \cup put[i] \in D
    OBVIOUS
  <2>1. put[i] \in SUBSET Records
    OBVIOUS
  <2> QED BY <2>1
<1>2. \E f : StepByStep(n, D, S, step, f)
  <2>1. S \in D
    OBVIOUS
  <2> HIDE DEF step, D
  <2> QED BY <1>1, <2>1, DefinedStepByStep, Zenon
<1>3. PICK f : StepByStep(n, D, S, step, f)
  BY <1>2
<1>4. f \in [0..n -> D] /\ f[0] = S /\ \A i \in 1..n : f[i] = step[i][f[i - 1]]
  BY <1>3, Zenon DEF StepByStep
<1>5. ASSUME NEW i \in 1..n PROVE f[i] = (f[i - 1] \cap kept[i]) \cup put[i]
  <2>1. i - 1 \in 0..n
    OBVIOUS
  <2>2. f[i - 1] \in D
    BY <1>4, <2>1
  <2> QED BY <1>4, <2>2
<1> QED BY <1>4, <1>5 DEF Steps

LEMMA StepsSplit ==
  ASSUME NEW n \in Nat, NEW kept, NEW put, NEW S, NEW f, NEW g,
         Steps(n, kept, put, S, f), Steps(n, kept, put, {}, g)
  PROVE  f[n] = {x \in S : \A i \in 1..n : x \in kept[i]} \cup g[n]
<1> DEFINE Good == {m \in 0..n : f[m] = {x \in S : \A i \in 1..m : x \in kept[i]} \cup g[m]}
<1> USE DEF Steps
<1>1. 0 \in Good
  OBVIOUS
<1>2. ASSUME NEW m \in 0..(n - 1), m \in Good
      PROVE  m + 1 \in Good
  <2>1. m + 1 \in 1..n /\ (m + 1) - 1 = m /\ m + 1 \in 0..n
    OBVIOUS
  <2>2. f[m + 1] = (f[m] \cap kept[m + 1]) \cup put[m + 1]
    BY <2>1
  <2>3. g[m + 1] = (g[m] \cap kept[m + 1]) \cup put[m + 1]
    BY <2>1
  <2>4. f[m] = {x \in S : \A i \in 1..m : x \in kept[i]} \cup g[m]
    BY <1>2
  <2>5. \A i : i \in 1..(m + 1) <=> i \in 1..m \/ i = m + 1
    OBVIOUS
  <2>6. f[m + 1] = {x \in S : \A i \in 1..(m + 1) : x \in kept[i]} \cup g[m + 1]
    BY <2>2, <2>3, <2>4, <2>5
  <2> QED BY <2>1, <2>6
<1>3. 0..n \subseteq Good
  <2> HIDE DEF Good
  <2> QED BY <1>1, <1>2, UpTo
<1> QED BY <1>3

LEMMA StepsSame ==
  ASSUME NEW n \in Nat, NEW N \in Nat, n <= N, NEW kept, NEW put, NEW Kept2, NEW put2,
         NEW S, NEW f, NEW g,
         Steps(n, kept, put, S, f), Steps(N, Kept2, put2, S, g),
         \A i \in 1..n : kept[i] = Kept2[i] /\ put[i] = put2[i]
  PROVE  f[n] = g[n]
<1> DEFINE Good == {m \in 0..n : f[m] = g[m]}
<1> USE DEF Steps
<1>1. 0 \in Good
  OBVIOUS
<1>2. ASSUME NEW m \in 0..(n - 1), m \in Good
      PROVE  m + 1 \in Good
  <2>1. m + 1 \in 1..n /\ m + 1 \in 1..N /\ (m + 1) - 1 = m /\ m + 1 \in 0..n
    OBVIOUS
  <2>2. f[m + 1] = (f[m] \cap kept[m + 1]) \cup put[m + 1]
    BY <2>1
  <2>3. g[m + 1] = (g[m] \cap Kept2[m + 1]) \cup put2[m + 1]
    BY <2>1
  <2> QED BY <1>2, <2>1, <2>2, <2>3
<1>3. 0..n \subseteq Good
  <2> HIDE DEF Good
  <2> QED BY <1>1, <1>2, UpTo
<1> QED BY <1>3

-----------------------------------------------------------------------------
(* One operation.                                                            *)
Leaves(e) == {x \in Records : \A r \in e.rec : x.id # r.id /\ (e.is = "delete" \/ x.key # r.key)}
Puts(e) == IF e.is = "delete" THEN {} ELSE e.rec

LEMMA ApplyFacts ==
  ASSUME NEW S \in SUBSET Records, NEW e
  PROVE  Apply(S, e) = (S \cap Leaves(e)) \cup Puts(e)
BY DEF Apply, Leaves, Puts

(* A whole journal.                                                          *)
Spared(file) == [i \in DOMAIN Whole(file) |-> Leaves(Whole(file)[i])]
Written(file) == [i \in DOMAIN Whole(file) |-> Puts(Whole(file)[i])]
Leftover(file) == {x \in Records : \A i \in DOMAIN Whole(file) : x \in Leaves(Whole(file)[i])}

LEMMA ReplaySteps ==
  ASSUME NEW S \in SUBSET Records, NEW file \in Seq(Lines)
  PROVE  /\ Len(Whole(file)) \in Nat
         /\ \E f : /\ Steps(Len(Whole(file)), Spared(file), Written(file), S, f)
                   /\ Replay(S, file) = f[Len(Whole(file))]
<1> DEFINE lines == Whole(file)
           n == Len(lines)
           after[i \in 0..n] == IF i = 0 THEN S ELSE Apply(after[i - 1], lines[i])
<1>1. n \in Nat /\ DOMAIN lines = 1..n /\ \A i \in 1..n : lines[i] \in Ops
  BY WholeLines, LenProperties, ElementOfSeq
<1>2. Written(file) \in [1..n -> SUBSET Records]
  <2>1. \A i \in 1..n : lines[i].rec \subseteq Records
    BY <1>1, LineFacts
  <2> QED BY <1>1, <2>1 DEF Written, Puts
<1>3. PICK f : Steps(n, Spared(file), Written(file), S, f)
  BY <1>1, <1>2, StepsExist, Zenon
<1>4. /\ f \in [0..n -> SUBSET Records] /\ f[0] = S
      /\ \A i \in 1..n : f[i] = (f[i - 1] \cap Leaves(lines[i])) \cup Puts(lines[i])
  BY <1>1, <1>3 DEF Steps, Spared, Written
<1>5. f = [i \in 0..n |-> IF i = 0 THEN S ELSE Apply(f[i - 1], lines[i])]
  <2>1. ASSUME NEW i \in 1..n PROVE f[i] = Apply(f[i - 1], lines[i])
    <3>1. i - 1 \in 0..n
      BY <1>1
    <3>2. f[i - 1] \in SUBSET Records
      BY <1>4, <3>1
    <3> QED BY <1>4, <3>2, ApplyFacts
  <2>2. \A i \in 0..n : f[i] = IF i = 0 THEN S ELSE Apply(f[i - 1], lines[i])
    <3>1. \A i \in 0..n : i = 0 \/ i \in 1..n
      BY <1>1
    <3> QED BY <1>4, <2>1, <3>1
  <2> HIDE DEF lines, n
  <2> QED BY <1>4, <2>2
<1>6. after = [i \in 0..n |-> IF i = 0 THEN S ELSE Apply(after[i - 1], lines[i])]
  <2> HIDE DEF lines, n
  <2> QED BY <1>5
<1>7. after[n] = f[n]
  <2> DEFINE Good == {i \in 0..n : after[i] = f[i]}
  <2> HIDE DEF after, lines, n
  <2>1. 0 \in Good
    BY <1>1, <1>4, <1>6
  <2>2. ASSUME NEW i \in 0..(n - 1), i \in Good PROVE i + 1 \in Good
    <3>1. i + 1 \in 0..n /\ i + 1 # 0 /\ (i + 1) - 1 = i
      BY <1>1
    <3>2. after[i + 1] = Apply(after[i], lines[i + 1])
      BY <1>6, <3>1
    <3>3. f[i + 1] = Apply(f[i], lines[i + 1])
      BY <1>5, <3>1
    <3> QED BY <2>2, <3>1, <3>2, <3>3
  <2>3. 0..n \subseteq Good
    <3> HIDE DEF Good
    <3> QED BY <1>1, <2>1, <2>2, UpTo
  <2> QED BY <1>1, <2>3
<1>8. Replay(S, file) = f[n]
  BY <1>7 DEF Replay
<1> QED BY <1>1, <1>3, <1>8

(* What a replay gives: the records that no operation touches, and what the  *)
(* journal itself puts, the same for any log it is replayed over.            *)
LEMMA ReplayParts ==
  ASSUME NEW S \in SUBSET Records, NEW file \in Seq(Lines)
  PROVE  /\ Replay(S, file) \in SUBSET Records
         /\ Replay(S, file) = (S \cap Leftover(file)) \cup Replay({}, file)
<1> DEFINE n == Len(Whole(file))
<1>1. n \in Nat /\ DOMAIN Whole(file) = 1..n
  BY WholeLines, LenProperties
<1>2. PICK f : Steps(n, Spared(file), Written(file), S, f) /\ Replay(S, file) = f[n]
  BY ReplaySteps
<1>3. {} \in SUBSET Records
  OBVIOUS
<1>4. PICK g : Steps(n, Spared(file), Written(file), {}, g) /\ Replay({}, file) = g[n]
  BY <1>3, ReplaySteps
<1>5. f[n] = {x \in S : \A i \in 1..n : x \in Spared(file)[i]} \cup g[n]
  <2> HIDE DEF n
  <2> QED BY <1>1, <1>2, <1>4, StepsSplit
<1>6. {x \in S : \A i \in 1..n : x \in Spared(file)[i]} = S \cap Leftover(file)
  BY <1>1 DEF Spared, Leftover
<1>7. f[n] \in SUBSET Records
  BY <1>1, <1>2 DEF Steps
<1> QED BY <1>2, <1>4, <1>5, <1>6, <1>7

(* What it puts is put by one of its operations, which leaves no other       *)
(* record with that key.                                                     *)
LEMMA ReplayPuts ==
  ASSUME NEW file \in Seq(Lines), NEW x \in Replay({}, file),
         NEW y \in Leftover(file)
  PROVE  y.key # x.key
<1> DEFINE n == Len(Whole(file))
           w == Whole(file)
<1>1. n \in Nat /\ DOMAIN w = 1..n /\ \A i \in 1..n : w[i] \in Ops
  BY WholeLines, LenProperties, ElementOfSeq
<1>2. {} \in SUBSET Records
  OBVIOUS
<1>3. PICK g : Steps(n, Spared(file), Written(file), {}, g) /\ Replay({}, file) = g[n]
  BY <1>2, ReplaySteps
<1> DEFINE Good == {m \in 0..n : \A z \in g[m] : \E i \in 1..m : z \in Puts(w[i])}
<1>4. 0 \in Good
  BY <1>1, <1>3 DEF Steps
<1>5. ASSUME NEW m \in 0..(n - 1), m \in Good PROVE m + 1 \in Good
  <2>1. m + 1 \in 1..n /\ (m + 1) - 1 = m /\ m + 1 \in 0..n
    BY <1>1
  <2>2. g[m + 1] = (g[m] \cap Spared(file)[m + 1]) \cup Written(file)[m + 1]
    BY <1>3, <2>1 DEF Steps
  <2>3. Written(file)[m + 1] = Puts(w[m + 1])
    BY <1>1, <2>1 DEF Written
  <2>4. ASSUME NEW z \in g[m + 1] PROVE \E i \in 1..(m + 1) : z \in Puts(w[i])
    <3>1. CASE z \in g[m]
      <4>1. PICK i \in 1..m : z \in Puts(w[i])
        BY <1>5, <3>1
      <4>2. i \in 1..(m + 1)
        OBVIOUS
      <4> QED BY <4>1, <4>2
    <3>2. CASE z \in Puts(w[m + 1])
      <4>1. m + 1 \in 1..(m + 1)
        OBVIOUS
      <4> QED BY <3>2, <4>1
    <3> QED BY <2>2, <2>3, <3>1, <3>2
  <2> QED BY <2>1, <2>4
<1>6. n \in Good
  <2> HIDE DEF Good, n, w
  <2>1. 0..n \subseteq Good
    BY <1>1, <1>4, <1>5, UpTo
  <2> QED BY <1>1, <2>1
<1>7. PICK i \in 1..n : x \in Puts(w[i])
  BY <1>3, <1>6
<1>8. w[i].is # "delete" /\ x \in w[i].rec
  BY <1>7 DEF Puts
<1>9. y \in Leaves(w[i])
  BY <1>1 DEF Leftover
<1> QED BY <1>8, <1>9 DEF Leaves

LEMMA ReplayWhole ==
  ASSUME NEW S, NEW file \in Seq(Lines)
  PROVE  Replay(S, Whole(file)) = Replay(S, file)
<1>1. Whole(Whole(file)) = Whole(file)
  BY WholeLines
<1> QED BY <1>1, Zenon DEF Replay

LEMMA ReplayNothing ==
  ASSUME NEW S \in SUBSET Records
  PROVE  Replay(S, <<>>) = S
<1>1. <<>> \in Seq(Lines) /\ Len(<<>>) = 0 /\ AllWhole(<<>>)
  BY EmptySeq DEF AllWhole
<1>2. Whole(<<>>) = <<>>
  BY <1>1, WholeLines
<1>3. PICK f : Steps(Len(Whole(<<>>)), Spared(<<>>), Written(<<>>), S, f)
                /\ Replay(S, <<>>) = f[Len(Whole(<<>>))]
  BY <1>1, ReplaySteps
<1> QED BY <1>1, <1>2, <1>3 DEF Steps

LEMMA ReplayAppend ==
  ASSUME NEW S \in SUBSET Records, NEW file \in Seq(Lines), AllWhole(file), NEW e \in Ops
  PROVE  Replay(S, Append(file, e)) = Apply(Replay(S, file), e)
<1> DEFINE longer == Append(file, e)
           n == Len(file)
<1>1. longer \in Seq(Lines) /\ Whole(file) = file /\ Whole(longer) = longer
  BY WholeAppend
<1>2. e \in Lines
  BY LineFacts
<1>3. /\ n \in Nat /\ DOMAIN file = 1..n /\ Len(longer) = n + 1 /\ DOMAIN longer = 1..(n + 1)
      /\ \A i \in 1..n : longer[i] = file[i]
      /\ longer[n + 1] = e
  BY <1>1, <1>2, AppendProperties, LenProperties
<1> HIDE DEF longer, n
<1>4. PICK f : Steps(n, Spared(file), Written(file), S, f) /\ Replay(S, file) = f[n]
  BY <1>1, ReplaySteps DEF n
<1>5. PICK g : Steps(n + 1, Spared(longer), Written(longer), S, g) /\ Replay(S, longer) = g[n + 1]
  <2>1. Len(Whole(longer)) = n + 1
    BY <1>1, <1>3
  <2> QED BY <1>1, <2>1, ReplaySteps
<1>6. /\ \A i \in 1..n : /\ Spared(file)[i] = Spared(longer)[i]
                         /\ Written(file)[i] = Written(longer)[i]
      /\ Spared(longer)[n + 1] = Leaves(e) /\ Written(longer)[n + 1] = Puts(e)
  <2>1. n + 1 \in 1..(n + 1) /\ \A i \in 1..n : i \in 1..(n + 1)
    BY <1>3
  <2> QED BY <1>1, <1>3, <2>1 DEF Spared, Written
<1>7. n + 1 \in Nat /\ n <= n + 1
  BY <1>3
<1>8. f[n] = g[n]
  BY <1>3, <1>4, <1>5, <1>6, <1>7, StepsSame
<1>9. n + 1 \in 1..(n + 1) /\ (n + 1) - 1 = n
  BY <1>3
<1>10. g[n + 1] = (g[n] \cap Leaves(e)) \cup Puts(e)
  BY <1>5, <1>6, <1>9 DEF Steps
<1>11. f[n] \in SUBSET Records
  BY <1>3, <1>4 DEF Steps
<1>12. Apply(f[n], e) = (f[n] \cap Leaves(e)) \cup Puts(e)
  BY <1>11, ApplyFacts
<1> QED BY <1>4, <1>5, <1>8, <1>10, <1>12 DEF longer

-----------------------------------------------------------------------------
(* The same of a sequence of journals.                                       *)
SparedAll(files) == [i \in DOMAIN files |-> Leftover(files[i])]
WrittenAll(files) == [i \in DOMAIN files |-> Replay({}, files[i])]
LeftoverAll(files) == {x \in Records : \A i \in DOMAIN files : x \in Leftover(files[i])}

LEMMA ReplayAllSteps ==
  ASSUME NEW S \in SUBSET Records, NEW files \in Seq(Seq(Lines))
  PROVE  /\ Len(files) \in Nat
         /\ \E f : /\ Steps(Len(files), SparedAll(files), WrittenAll(files), S, f)
                   /\ ReplayAll(S, files) = f[Len(files)]
<1> DEFINE n == Len(files)
           after[i \in 0..n] == IF i = 0 THEN S ELSE Replay(after[i - 1], files[i])
<1>1. n \in Nat /\ DOMAIN files = 1..n /\ \A i \in 1..n : files[i] \in Seq(Lines)
  BY LenProperties, ElementOfSeq
<1>2. WrittenAll(files) \in [1..n -> SUBSET Records]
  <2>1. ASSUME NEW i \in 1..n PROVE Replay({}, files[i]) \in SUBSET Records
    <3>1. {} \in SUBSET Records
      OBVIOUS
    <3> QED BY <1>1, <3>1, ReplayParts
  <2> QED BY <1>1, <2>1 DEF WrittenAll
<1>3. PICK f : Steps(n, SparedAll(files), WrittenAll(files), S, f)
  BY <1>1, <1>2, StepsExist, Zenon
<1>4. /\ f \in [0..n -> SUBSET Records] /\ f[0] = S
      /\ \A i \in 1..n : f[i] = (f[i - 1] \cap Leftover(files[i])) \cup Replay({}, files[i])
  BY <1>1, <1>3 DEF Steps, SparedAll, WrittenAll
<1>5. f = [i \in 0..n |-> IF i = 0 THEN S ELSE Replay(f[i - 1], files[i])]
  <2>1. ASSUME NEW i \in 1..n PROVE f[i] = Replay(f[i - 1], files[i])
    <3>1. i - 1 \in 0..n
      BY <1>1
    <3>2. f[i - 1] \in SUBSET Records
      BY <1>4, <3>1
    <3>3. files[i] \in Seq(Lines)
      BY <1>1
    <3>4. Replay(f[i - 1], files[i]) = (f[i - 1] \cap Leftover(files[i])) \cup Replay({}, files[i])
      BY <3>2, <3>3, ReplayParts
    <3> QED BY <1>4, <3>4
  <2>2. \A i \in 0..n : f[i] = IF i = 0 THEN S ELSE Replay(f[i - 1], files[i])
    <3>1. \A i \in 0..n : i = 0 \/ i \in 1..n
      BY <1>1
    <3> QED BY <1>4, <2>1, <3>1
  <2> HIDE DEF n
  <2> QED BY <1>4, <2>2
<1>6. after = [i \in 0..n |-> IF i = 0 THEN S ELSE Replay(after[i - 1], files[i])]
  <2> HIDE DEF n
  <2> QED BY <1>5
<1>7. after[n] = f[n]
  <2> DEFINE Good == {i \in 0..n : after[i] = f[i]}
  <2> HIDE DEF after, n
  <2>1. 0 \in Good
    BY <1>1, <1>4, <1>6
  <2>2. ASSUME NEW i \in 0..(n - 1), i \in Good PROVE i + 1 \in Good
    <3>1. i + 1 \in 0..n /\ i + 1 # 0 /\ (i + 1) - 1 = i
      BY <1>1
    <3>2. after[i + 1] = Replay(after[i], files[i + 1])
      BY <1>6, <3>1
    <3>3. f[i + 1] = Replay(f[i], files[i + 1])
      BY <1>5, <3>1
    <3> QED BY <2>2, <3>1, <3>2, <3>3
  <2>3. 0..n \subseteq Good
    <3> HIDE DEF Good
    <3> QED BY <1>1, <2>1, <2>2, UpTo
  <2> QED BY <1>1, <2>3
<1>8. ReplayAll(S, files) = f[n]
  BY <1>7 DEF ReplayAll
<1> QED BY <1>1, <1>3, <1>8

LEMMA ReplayAllParts ==
  ASSUME NEW S \in SUBSET Records, NEW files \in Seq(Seq(Lines))
  PROVE  /\ ReplayAll(S, files) \in SUBSET Records
         /\ ReplayAll(S, files) = (S \cap LeftoverAll(files)) \cup ReplayAll({}, files)
<1> DEFINE n == Len(files)
<1>1. n \in Nat /\ DOMAIN files = 1..n
  BY LenProperties
<1>2. PICK f : Steps(n, SparedAll(files), WrittenAll(files), S, f) /\ ReplayAll(S, files) = f[n]
  BY ReplayAllSteps
<1>3. {} \in SUBSET Records
  OBVIOUS
<1>4. PICK g : Steps(n, SparedAll(files), WrittenAll(files), {}, g) /\ ReplayAll({}, files) = g[n]
  BY <1>3, ReplayAllSteps
<1>5. f[n] = {x \in S : \A i \in 1..n : x \in SparedAll(files)[i]} \cup g[n]
  <2> HIDE DEF n
  <2> QED BY <1>1, <1>2, <1>4, StepsSplit
<1>6. {x \in S : \A i \in 1..n : x \in SparedAll(files)[i]} = S \cap LeftoverAll(files)
  BY <1>1 DEF SparedAll, LeftoverAll
<1>7. f[n] \in SUBSET Records
  BY <1>1, <1>2 DEF Steps
<1> QED BY <1>2, <1>4, <1>5, <1>6, <1>7

LEMMA ReplayAllAppend ==
  ASSUME NEW S \in SUBSET Records, NEW files \in Seq(Seq(Lines)), NEW file \in Seq(Lines)
  PROVE  ReplayAll(S, Append(files, file)) = Replay(ReplayAll(S, files), file)
<1> DEFINE longer == Append(files, file)
           n == Len(files)
<1>1. /\ longer \in Seq(Seq(Lines))
      /\ n \in Nat /\ DOMAIN files = 1..n /\ Len(longer) = n + 1 /\ DOMAIN longer = 1..(n + 1)
      /\ \A i \in 1..n : longer[i] = files[i]
      /\ longer[n + 1] = file
  BY AppendProperties, LenProperties
<1> HIDE DEF longer, n
<1>2. PICK f : Steps(n, SparedAll(files), WrittenAll(files), S, f) /\ ReplayAll(S, files) = f[n]
  BY ReplayAllSteps DEF n
<1>3. PICK g : Steps(n + 1, SparedAll(longer), WrittenAll(longer), S, g) /\ ReplayAll(S, longer) = g[n + 1]
  BY <1>1, ReplayAllSteps
<1>4. /\ \A i \in 1..n : /\ SparedAll(files)[i] = SparedAll(longer)[i]
                         /\ WrittenAll(files)[i] = WrittenAll(longer)[i]
      /\ SparedAll(longer)[n + 1] = Leftover(file) /\ WrittenAll(longer)[n + 1] = Replay({}, file)
  <2>1. n + 1 \in 1..(n + 1) /\ \A i \in 1..n : i \in 1..(n + 1)
    BY <1>1
  <2> QED BY <1>1, <2>1 DEF SparedAll, WrittenAll
<1>5. n \in Nat /\ n + 1 \in Nat /\ n <= n + 1
  BY <1>1
<1>6. f[n] = g[n]
  BY <1>2, <1>3, <1>4, <1>5, StepsSame
<1>7. n + 1 \in 1..(n + 1) /\ (n + 1) - 1 = n
  BY <1>1
<1>8. g[n + 1] = (g[n] \cap Leftover(file)) \cup Replay({}, file)
  BY <1>3, <1>4, <1>7 DEF Steps
<1>9. f[n] \in SUBSET Records
  BY <1>1, <1>2 DEF Steps
<1>10. Replay(f[n], file) = (f[n] \cap Leftover(file)) \cup Replay({}, file)
  BY <1>9, ReplayParts
<1> QED BY <1>2, <1>3, <1>6, <1>8, <1>10 DEF longer

LEMMA ReplayAllNothing ==
  ASSUME NEW S \in SUBSET Records
  PROVE  ReplayAll(S, <<>>) = S
<1>1. <<>> \in Seq(Seq(Lines)) /\ Len(<<>>) = 0
  BY EmptySeq
<1>2. PICK f : Steps(0, SparedAll(<<>>), WrittenAll(<<>>), S, f) /\ ReplayAll(S, <<>>) = f[0]
  BY <1>1, ReplayAllSteps
<1> QED BY <1>2 DEF Steps

(* Any state of a log that its journals go beyond is as good as the first:   *)
(* replaying the journals again over what they gave changes nothing.         *)
LEMMA ReplayAgain ==
  ASSUME NEW S \in SUBSET Records, NEW files \in Seq(Seq(Lines)), NEW file \in Seq(Lines),
         NEW T, T = Replay(ReplayAll(S, files), file)
  PROVE  Replay(ReplayAll(T, files), file) = T
<1> DEFINE A == LeftoverAll(files)
           P == ReplayAll({}, files)
           B == Leftover(file)
           Q == Replay({}, file)
<1>1. ReplayAll(S, files) \in SUBSET Records /\ ReplayAll(S, files) = (S \cap A) \cup P
  BY ReplayAllParts
<1>2. T \in SUBSET Records /\ T = (ReplayAll(S, files) \cap B) \cup Q
  BY <1>1, ReplayParts
<1>3. ReplayAll(T, files) \in SUBSET Records /\ ReplayAll(T, files) = (T \cap A) \cup P
  BY <1>2, ReplayAllParts
<1>4. Replay(ReplayAll(T, files), file) = (ReplayAll(T, files) \cap B) \cup Q
  BY <1>3, ReplayParts
<1> HIDE DEF A, B, P, Q
<1> QED BY <1>1, <1>2, <1>3, <1>4

-----------------------------------------------------------------------------
(* Logs whose records can be told apart, here and after they are read back.  *)
Read(r) == [r EXCEPT !.id = r.line]
Proper(S, n, E) ==
  /\ IsFiniteSet(S) /\ S \in SUBSET Records
  /\ \A x, y \in S : x.id = y.id \/ x.line = y.line \/ x.line = y.id => x = y
  /\ \A x \in S : x.id[2] <= n /\ x.line[2] <= n
  /\ "twice" \notin E => \A x, y \in S : x.key = y.key => x = y
  /\ "edit" \notin E => \A x \in S : x.id[1] = x.key /\ x.line[1] = x.key
  /\ "import" \notin E => \A x \in S : x.line = x.id

LEMMA ReadFacts ==
  ASSUME NEW r \in Records
  PROVE  /\ Read(r) \in Records
         /\ Read(r).key = r.key /\ Read(r).note = r.note /\ Read(r).line = r.line
         /\ Read(r).id = r.line
         /\ Read(Read(r)) = Read(r)
         /\ r.line = r.id => Read(r) = r
BY DEF Read, Records, Ids

LEMMA LoadFacts ==
  ASSUME NEW S \in SUBSET Records, \A x, y \in S : x.line = y.line => x = y
  PROVE  Load(S) = {Read(x) : x \in S}
<1>1. Load(S) = {CHOOSE r \in Named(S) : r.id = i : i \in {x.line : x \in S}}
  BY DEF Load
<1>2. \A z : z \in Named(S) <=> \E x \in S : z = Read(x)
  BY DEF Named, Read
<1>3. ASSUME NEW x \in S PROVE (CHOOSE q \in Named(S) : q.id = x.line) = Read(x)
  <2> DEFINE c == CHOOSE q \in Named(S) : q.id = x.line
  <2>1. Read(x) \in Named(S) /\ Read(x).id = x.line
    BY <1>2, ReadFacts
  <2>2. c \in Named(S) /\ c.id = x.line
    BY <2>1
  <2> HIDE DEF c
  <2>3. PICK y \in S : c = Read(y)
    BY <1>2, <2>2
  <2>4. y.line = x.line
    BY <2>2, <2>3, ReadFacts
  <2>5. y = x
    BY <2>4
  <2> QED BY <2>3, <2>5 DEF c
<1>4. ASSUME NEW z \in Load(S) PROVE \E x \in S : z = Read(x)
  <2>1. PICK x \in S : z = CHOOSE r \in Named(S) : r.id = x.line
    BY <1>1
  <2> QED BY <1>3, <2>1
<1>5. ASSUME NEW x \in S PROVE Read(x) \in Load(S)
  <2>1. (CHOOSE r \in Named(S) : r.id = x.line) \in Load(S)
    BY <1>1
  <2> QED BY <1>3, <2>1
<1> QED BY <1>4, <1>5

LEMMA SameSize ==
  ASSUME NEW S, NEW T, IsFiniteSet(S), NEW f \in [S -> T],
         \A x, y \in S : f[x] = f[y] => x = y, \A z \in T : \E x \in S : f[x] = z
  PROVE  IsFiniteSet(T) /\ Cardinality(T) = Cardinality(S)
<1>1. f \in Bijection(S, T)
  BY DEF Bijection, Injection, Surjection, IsInjective
<1>2. ExistsBijection(S, T)
  BY <1>1 DEF ExistsBijection
<1> QED BY <1>2, FS_Bijection

Part(S, c) == {r \in S : r.key = c.key /\ r.note = c.note}

(* Reading a log back keeps it in order, and what it says.                   *)
LEMMA LoadProper ==
  ASSUME NEW S, NEW n \in Nat, NEW E, Proper(S, n, E)
  PROVE  /\ Load(S) = {Read(x) : x \in S}
         /\ Proper(Load(S), n, E)
         /\ Book(Load(S)) = Book(S)
         /\ "import" \notin E => Load(S) = S
<1>0. S \in SUBSET Records /\ IsFiniteSet(S)
  BY DEF Proper
<1>1. Load(S) = {Read(x) : x \in S}
  BY <1>0, LoadFacts DEF Proper
<1>2. \A z \in Load(S) : \E x \in S : z = Read(x)
  BY <1>1
<1>3. \A x \in S : Read(x) \in Load(S)
  BY <1>1
<1>5. ASSUME NEW x \in S
      PROVE  /\ Read(x) \in Records /\ Read(x).key = x.key /\ Read(x).note = x.note
             /\ Read(x).line = x.line /\ Read(x).id = x.line /\ Read(Read(x)) = Read(x)
  BY <1>0, ReadFacts
<1>4. IsFiniteSet(Load(S))
  <2> DEFINE f == [x \in S |-> Read(x)]
  <2>1. f \in [S -> Load(S)]
    BY <1>3
  <2>2. \A x, y \in S : f[x] = f[y] => x = y
    <3> SUFFICES ASSUME NEW x \in S, NEW y \in S, Read(x) = Read(y) PROVE x = y
      OBVIOUS
    <3>1. x.line = y.line
      BY <1>5
    <3> QED BY <3>1 DEF Proper
  <2>3. \A z \in Load(S) : \E x \in S : f[x] = z
    BY <1>2
  <2> HIDE DEF f
  <2> QED BY <1>0, <2>1, <2>2, <2>3, SameSize
<1>6. Proper(Load(S), n, E)
  <2>1. Load(S) \in SUBSET Records
    BY <1>2, <1>5
  <2>2. \A x \in Load(S) : x.line = x.id
    BY <1>2, <1>5
  <2>3. \A x, y \in Load(S) : x.line = y.line => x = y
    <3> SUFFICES ASSUME NEW a \in S, NEW b \in S, Read(a).line = Read(b).line
                 PROVE  Read(a) = Read(b)
      BY <1>2
    <3>1. a.line = b.line
      BY <1>5
    <3>2. a = b
      BY <3>1 DEF Proper
    <3> QED BY <3>2
  <2>4. \A x \in Load(S) : x.line[2] <= n
    <3> SUFFICES ASSUME NEW a \in S PROVE Read(a).line[2] <= n
      BY <1>2
    <3>1. Read(a).line = a.line
      BY <1>5
    <3> QED BY <3>1 DEF Proper
  <2>5. "twice" \notin E => \A x, y \in Load(S) : x.key = y.key => x = y
    <3> SUFFICES ASSUME "twice" \notin E, NEW a \in S, NEW b \in S, Read(a).key = Read(b).key
                 PROVE  Read(a) = Read(b)
      BY <1>2
    <3>1. a.key = b.key
      BY <1>5
    <3>2. a = b
      BY <3>1 DEF Proper
    <3> QED BY <3>2
  <2>6. "edit" \notin E => \A x \in Load(S) : x.line[1] = x.key
    <3> SUFFICES ASSUME "edit" \notin E, NEW a \in S PROVE Read(a).line[1] = Read(a).key
      BY <1>2
    <3>1. a.line[1] = a.key
      BY DEF Proper
    <3> QED BY <1>5, <3>1
  <2> QED BY <1>4, <2>1, <2>2, <2>3, <2>4, <2>5, <2>6 DEF Proper
<1>7. ASSUME NEW c \in Contents
      PROVE  Cardinality(Part(Load(S), c)) = Cardinality(Part(S, c))
  <2> DEFINE f == [x \in Part(S, c) |-> Read(x)]
  <2>1. Part(S, c) \subseteq S /\ IsFiniteSet(Part(S, c))
    BY <1>0, FS_Subset DEF Part
  <2>2. f \in [Part(S, c) -> Part(Load(S), c)]
    BY <1>3, <1>5 DEF Part
  <2>3. \A x, y \in Part(S, c) : f[x] = f[y] => x = y
    <3> SUFFICES ASSUME NEW x \in S, NEW y \in S, Read(x) = Read(y) PROVE x = y
      BY <2>1
    <3>1. x.line = y.line
      BY <1>5
    <3> QED BY <3>1 DEF Proper
  <2>4. \A z \in Part(Load(S), c) : \E x \in Part(S, c) : f[x] = z
    <3> SUFFICES ASSUME NEW z \in Part(Load(S), c) PROVE \E x \in Part(S, c) : f[x] = z
      OBVIOUS
    <3>1. PICK x \in S : z = Read(x)
      BY <1>2 DEF Part
    <3>2. x.key = c.key /\ x.note = c.note
      BY <1>5, <3>1 DEF Part
    <3>3. x \in Part(S, c)
      BY <3>2 DEF Part
    <3>4. f[x] = z
      BY <3>1, <3>3
    <3> QED BY <3>3, <3>4
  <2> HIDE DEF f
  <2> QED BY <2>1, <2>2, <2>3, <2>4, SameSize
<1>8. Book(Load(S)) = Book(S)
  BY <1>7 DEF Book, Part
<1>9. ASSUME "import" \notin E PROVE Load(S) = S
  <2>1. \A x \in S : Read(x) = x
    BY <1>0, <1>9, ReadFacts DEF Proper
  <2> QED BY <1>1, <2>1
<1> QED BY <1>1, <1>6, <1>8, <1>9

(* The same of a snapshot that is ahead of the beginning of its journal.     *)
LEMMA ReplayAfterCheckpoint ==
  ASSUME NEW S \in SUBSET Records, NEW n \in Nat, NEW E, NEW file \in Seq(Lines), NEW T,
         \A x \in S : Read(x) = x,
         T = Replay(S, file), Proper(T, n, E)
  PROVE  Replay(Load(T), file) = T
<1>1. T \in SUBSET Records /\ T = (S \cap Leftover(file)) \cup Replay({}, file)
  BY ReplayParts
<1>2. Load(T) = {Read(x) : x \in T} /\ Load(T) \in SUBSET Records
  BY LoadProper DEF Proper
<1>3. Replay(Load(T), file) = (Load(T) \cap Leftover(file)) \cup Replay({}, file)
  BY <1>2, ReplayParts
<1>4. ASSUME NEW y \in Load(T), y \in Leftover(file) PROVE y \in T
  <2>1. PICK x \in T : y = Read(x)
    BY <1>2
  <2>2. CASE x \in S
    BY <2>1, <2>2
  <2>3. CASE x \in Replay({}, file)
    <3>1. y.key = x.key
      BY <1>1, <2>1, ReadFacts
    <3>2. y.key # x.key
      BY <1>4, <2>3, ReplayPuts
    <3> QED BY <3>1, <3>2
  <2> QED BY <1>1, <2>2, <2>3
<1>5. ASSUME NEW x \in S \cap Leftover(file) PROVE x \in Load(T) \cap Leftover(file)
  <2>1. x \in T /\ Read(x) = x
    BY <1>1
  <2> QED BY <1>2, <2>1
<1> QED BY <1>1, <1>3, <1>4, <1>5

-----------------------------------------------------------------------------
(* What one operation does to the contents of a log.                         *)
Says(r) == [key |-> r.key, note |-> r.note]
Singles == {{}} \cup {{c} : c \in Contents}
Num(c, S) == IF c \in S THEN 1 ELSE 0
OneChange(b, d) ==
  \E old, new \in Singles :
    /\ \A c \in old : b[c] > 0
    /\ d = [c \in Contents |-> (b[c] + Num(c, new)) - Num(c, old)]

LEMMA PartFacts ==
  ASSUME NEW S \in SUBSET Records, IsFiniteSet(S), NEW c \in Contents
  PROVE  /\ Book(S)[c] = Cardinality(Part(S, c)) /\ Book(S)[c] \in Nat
         /\ IsFiniteSet(Part(S, c))
         /\ \A r \in S : r \in Part(S, c) <=> c = Says(r)
<1>1. Book(S)[c] = Cardinality(Part(S, c))
  BY DEF Book, Part
<1>2. IsFiniteSet(Part(S, c))
  BY FS_Subset DEF Part
<1>3. Book(S)[c] \in Nat
  BY <1>1, <1>2, FS_CardinalityType
<1>4. \A r \in S : r \in Part(S, c) <=> c = Says(r)
  BY DEF Part, Says, Contents
<1> QED BY <1>1, <1>2, <1>3, <1>4

LEMMA BookChange ==
  ASSUME NEW S \in SUBSET Records, IsFiniteSet(S),
         NEW X, X = {} \/ \E o \in S : X = {o},
         NEW R, R = {} \/ \E r \in Records : R = {r} /\ r \notin S \ X
  PROVE  /\ IsFiniteSet((S \ X) \cup R) /\ (S \ X) \cup R \in SUBSET Records
         /\ OneChange(Book(S), Book((S \ X) \cup R))
<1> DEFINE T == (S \ X) \cup R
           old == {Says(o) : o \in X}
           new == {Says(r) : r \in R}
<1>1. IsFiniteSet(S \ X)
  BY FS_Subset
<1>2. IsFiniteSet(T) /\ T \in SUBSET Records
  <2>1. T \in SUBSET Records
    OBVIOUS
  <2>2. CASE R = {}
    BY <1>1, <2>1, <2>2
  <2>3. CASE \E r \in Records : R = {r}
    BY <1>1, <2>1, <2>3, FS_AddElement
  <2> QED BY <2>2, <2>3
<1>3. \A r \in Records : Says(r) \in Contents
  BY DEF Says, Contents, Records
<1>4. old \in Singles /\ new \in Singles
  <2>1. old \in Singles
    <3>1. CASE X = {}
      BY <3>1 DEF Singles
    <3>2. CASE \E o \in S : X = {o}
      <4>1. PICK o \in S : X = {o}
        BY <3>2
      <4>2. old = {Says(o)} /\ Says(o) \in Contents
        BY <1>3, <4>1
      <4> HIDE DEF old
      <4> QED BY <4>2 DEF Singles
    <3> QED BY <3>1, <3>2
  <2>2. new \in Singles
    <3>1. CASE R = {}
      BY <3>1 DEF Singles
    <3>2. CASE \E r \in Records : R = {r}
      <4>1. PICK r \in Records : R = {r}
        BY <3>2
      <4>2. new = {Says(r)} /\ Says(r) \in Contents
        BY <1>3, <4>1
      <4> HIDE DEF new
      <4> QED BY <4>2 DEF Singles
    <3> QED BY <3>1, <3>2
  <2> QED BY <2>1, <2>2
<1>5. ASSUME NEW c \in old PROVE Book(S)[c] > 0
  <2>1. PICK o \in X : c = Says(o)
    OBVIOUS
  <2>2. o \in S /\ c \in Contents
    BY <1>3, <2>1
  <2>3. o \in Part(S, c) /\ IsFiniteSet(Part(S, c)) /\ Book(S)[c] = Cardinality(Part(S, c))
        /\ Book(S)[c] \in Nat
    BY <2>1, <2>2, PartFacts
  <2>4. Cardinality(Part(S, c)) # 0
    BY <2>3, FS_EmptySet
  <2> QED BY <2>3, <2>4
<1>6. ASSUME NEW c \in Contents
      PROVE  Book(T)[c] = (Book(S)[c] + Num(c, new)) - Num(c, old)
  <2> DEFINE P == Part(S, c)
             n == Cardinality(P)
  <2>1. /\ Book(S)[c] = n /\ n \in Nat /\ IsFiniteSet(P)
        /\ \A r \in S : r \in P <=> c = Says(r)
    BY PartFacts
  <2>2. /\ Book(T)[c] = Cardinality(Part(T, c)) /\ IsFiniteSet(Part(T, c))
        /\ \A r \in T : r \in Part(T, c) <=> c = Says(r)
    <3> HIDE DEF T
    <3> QED BY <1>2, PartFacts
  <2>3. P \subseteq S /\ Part(T, c) \subseteq T
    BY DEF Part
  <2>4. IsFiniteSet(P \ X) /\ Cardinality(P \ X) = n - Num(c, old)
    <3>1. CASE X = {}
      <4>1. P \ X = P /\ Num(c, old) = 0
        BY <3>1 DEF Num
      <4> HIDE DEF P, old
      <4>2. n - 0 = n
        BY <2>1
      <4>3. IsFiniteSet(P \ X) /\ Cardinality(P \ X) = n
        BY <2>1, <4>1
      <4> QED BY <4>1, <4>2, <4>3
    <3>2. CASE \E o \in S : X = {o}
      <4>1. PICK o \in S : X = {o}
        BY <3>2
      <4>2. Num(c, old) = IF o \in P THEN 1 ELSE 0
        BY <2>1, <4>1 DEF Num
      <4> HIDE DEF P, old
      <4>3. IsFiniteSet(P \ {o}) /\ Cardinality(P \ {o}) = IF o \in P THEN n - 1 ELSE n
        BY <2>1, FS_RemoveElement
      <4> HIDE DEF n
      <4>4. n - Num(c, old) = IF o \in P THEN n - 1 ELSE n
        BY <2>1, <4>2
      <4> QED BY <4>1, <4>3, <4>4
    <3>3. X = {} \/ \E o \in S : X = {o}
      OBVIOUS
    <3> HIDE DEF P, n, old
    <3> QED BY <3>1, <3>2, <3>3
  <2>5. Cardinality(P \ X) \in Nat
    BY <2>4, FS_CardinalityType
  <2>6. Cardinality(Part(T, c)) = Cardinality(P \ X) + Num(c, new)
    <3>1. CASE R = {}
      <4>1. Part(T, c) = P \ X /\ Num(c, new) = 0
        BY <2>1, <2>2, <2>3, <3>1 DEF Num
      <4> HIDE DEF P, T, new
      <4> QED BY <2>5, <4>1
    <3>2. CASE \E r \in Records : R = {r} /\ r \notin S \ X
      <4>1. PICK r \in Records : R = {r} /\ r \notin S \ X
        BY <3>2
      <4>2. CASE c = Says(r)
        <5>1. Part(T, c) = (P \ X) \cup {r} /\ Num(c, new) = 1 /\ r \notin P \ X
          BY <2>1, <2>2, <2>3, <4>1, <4>2 DEF Num
        <5> HIDE DEF P, T, new
        <5> QED BY <2>4, <2>5, <5>1, FS_AddElement
      <4>3. CASE c # Says(r)
        <5>1. Part(T, c) = P \ X /\ Num(c, new) = 0
          BY <2>1, <2>2, <2>3, <4>1, <4>3 DEF Num
        <5> HIDE DEF P, T, new
        <5> QED BY <2>5, <5>1
      <4> QED BY <4>2, <4>3
    <3> QED BY <3>1, <3>2
  <2>7. Num(c, old) \in Nat /\ Num(c, new) \in Nat
    BY DEF Num
  <2> HIDE DEF P, T, new, old
  <2> QED BY <2>1, <2>2, <2>4, <2>5, <2>6, <2>7
<1>7. Book(T) = [c \in Contents |-> (Book(S)[c] + Num(c, new)) - Num(c, old)]
  <2>1. Book(T) = [c \in Contents |-> Book(T)[c]]
    BY DEF Book
  <2> HIDE DEF T, new, old
  <2> QED BY <1>6, <2>1
<1>8. OneChange(Book(S), Book(T))
  <2> HIDE DEF T, new, old
  <2> QED BY <1>4, <1>5, <1>7 DEF OneChange
<1> QED BY <1>2, <1>8

-----------------------------------------------------------------------------
(* What an operation writes: a new record, or a known one changed.           *)
Fresh(r) ==
  /\ r.id = <<r.key, ops + 1>> /\ Fits(r.key)
  /\ \/ r.line = r.id
     \/ "import" \in env /\ Matches(r.key) = {} /\ r.line \in Marks(r.key, ops)
Changed(r) ==
  /\ r.line = r.id
  /\ \E q \in cache : r.id = q.id /\ (r.key = q.key \/ ("edit" \in env /\ Fits(r.key)))

LEMMA EntryFacts ==
  ASSUME cache \in SUBSET Records, ops \in Nat, ops < MaxOps, NEW e \in Entries
  PROVE  \/ \E r \in cache : e = Entry("delete", r) /\ r \in Records
         \/ \E r \in Records : e = Entry("put", r) /\ (Fresh(r) \/ Changed(r))
<1>0. ops + 1 \in 0..MaxOps
  BY LogAssumption
<1>1. ASSUME NEW k \in Keys, NEW note \in Notes, NEW i \in Ids
      PROVE  /\ New(k, note, i) \in Records /\ New(k, note, i).id = <<k, ops + 1>>
             /\ New(k, note, i).key = k /\ New(k, note, i).line = i
  BY <1>0 DEF New, Records, Ids
<1>2. ASSUME NEW r \in Adds PROVE r \in Records /\ Fresh(r)
  <2>1. PICK k \in Keys : Fits(k) /\ r = New(k, "none", <<k, ops + 1>>)
    BY DEF Adds
  <2>2. "none" \in Notes /\ <<k, ops + 1>> \in Ids
    BY <1>0 DEF Notes, Ids
  <2> QED BY <1>1, <2>1, <2>2 DEF Fresh
<1>3. ASSUME NEW r \in Updates PROVE r \in Records /\ Changed(r)
  <2>1. PICK u \in cache \X Keys \X Notes :
               /\ u[2] = u[1].key \/ ("edit" \in env /\ Fits(u[2]))
               /\ r = [u[1] EXCEPT !.key = u[2], !.note = u[3], !.line = u[1].id]
    BY DEF Updates
  <2>2. PICK q \in cache, k \in Keys, n \in Notes :
               /\ k = q.key \/ ("edit" \in env /\ Fits(k))
               /\ r = [q EXCEPT !.key = k, !.note = n, !.line = q.id]
    BY <2>1
  <2>3. q \in Records /\ k \in Keys
    BY <2>2 DEF Records
  <2>4. r \in Records /\ r.id = q.id /\ r.key = k /\ r.line = q.id
    BY <2>2, <2>3 DEF Records
  <2>5. k = q.key \/ ("edit" \in env /\ Fits(k))
    BY <2>2
  <2> QED BY <2>4, <2>5 DEF Changed
<1>4. ASSUME NEW r \in Imports PROVE r \in Records /\ (Fresh(r) \/ Changed(r))
  <2> DEFINE news == {m \in Keys \X Ids : Matches(m[1]) = {} /\ m[2] \in Marks(m[1], ops)}
             filled == {[q EXCEPT !.note = "note", !.line = q.id] :
                          q \in {x \in cache : x.note = "none"}}
  <2>1. "import" \in env
    BY DEF Imports
  <2>2. r \in {New(m[1], "note", m[2]) : m \in news} \/ r \in filled
    BY <2>1 DEF Imports
  <2>3. CASE r \in {New(m[1], "note", m[2]) : m \in news}
    <3>1. PICK m \in news : r = New(m[1], "note", m[2])
      BY <2>3
    <3>2. m[1] \in Keys /\ m[2] \in Ids /\ "note" \in Notes
      BY DEF Notes
    <3>3. r \in Records /\ r.id = <<m[1], ops + 1>> /\ r.key = m[1] /\ r.line = m[2]
      BY <1>1, <3>1, <3>2
    <3>4. Matches(m[1]) = {} /\ m[2] \in Marks(m[1], ops)
      BY <3>1
    <3> QED BY <2>1, <3>3, <3>4 DEF Fresh, Fits
  <2>4. CASE r \in filled
    <3>1. PICK q \in cache : r = [q EXCEPT !.note = "note", !.line = q.id]
      BY <2>4
    <3>2. q \in Records /\ "note" \in Notes
      BY DEF Notes
    <3>3. r \in Records /\ r.id = q.id /\ r.key = q.key /\ r.line = q.id
      BY <3>1, <3>2 DEF Records
    <3> QED BY <3>3 DEF Changed
  <2> QED BY <2>2, <2>3, <2>4
<1>5. CASE e \in {Entry("put", r) : r \in Adds \cup Updates \cup Imports}
  <2>1. PICK r \in Adds \cup Updates \cup Imports : e = Entry("put", r)
    BY <1>5
  <2> QED BY <1>2, <1>3, <1>4, <2>1
<1>6. CASE e \in {Entry("delete", r) : r \in cache}
  BY <1>6
<1> QED BY <1>5, <1>6 DEF Entries

-----------------------------------------------------------------------------
(* The spares of the snapshot, and how many of them are backups.             *)
Files == [tmp : BOOLEAN, of : Snapshots]

LEMMA MinMax ==
  ASSUME NEW n \in Nat, NEW S \in SUBSET (1..n), S # {}
  PROVE  Min(S) \in S /\ Max(S) \in S
<1>0. S \subseteq Nat
  OBVIOUS
<1>1. \E x \in S : \A y \in S : x <= y
  BY <1>0, LeastElement
<1> DEFINE T == {n - x : x \in S}
<1>2. T \subseteq Nat /\ T # {}
  <2>1. \A x \in S : n - x \in Nat
    OBVIOUS
  <2>2. PICK x \in S : TRUE
    OBVIOUS
  <2>3. n - x \in T
    OBVIOUS
  <2> QED BY <2>1, <2>3
<1> HIDE DEF T
<1>3. PICK z \in T : \A y \in T : z <= y
  BY <1>2, LeastElement
<1> USE DEF T
<1>4. PICK x \in S : z = n - x
  OBVIOUS
<1>5. \A y \in S : n - x <= n - y
  BY <1>3, <1>4
<1>6. \A y \in S : x >= y
  BY <1>5
<1>7. \E y \in S : \A z2 \in S : y >= z2
  BY <1>6
<1> QED BY <1>1, <1>7 DEF Min, Max

LEMMA BackupFinite ==
  ASSUME NEW files \in Seq(Files)
  PROVE  /\ IsFiniteSet(Backup(files)) /\ Cardinality(Backup(files)) \in Nat
         /\ Backup(files) \in SUBSET (1..Len(files)) /\ Len(files) \in Nat
<1>1. Len(files) \in Nat /\ DOMAIN files = 1..Len(files)
  BY LenProperties
<1>2. IsFiniteSet(1..Len(files)) /\ Backup(files) \in SUBSET (1..Len(files))
  BY <1>1, FS_Interval DEF Backup
<1>3. IsFiniteSet(Backup(files))
  BY <1>2, FS_Subset
<1> QED BY <1>1, <1>2, <1>3, FS_CardinalityType

(* A file written before the others.                                         *)
LEMMA PrependFacts ==
  ASSUME NEW files \in Seq(Files), NEW f \in Files
  PROVE  /\ <<f>> \o files \in Seq(Files)
         /\ Len(<<f>> \o files) = Len(files) + 1
         /\ (<<f>> \o files)[1] = f
         /\ \A i \in DOMAIN files : (<<f>> \o files)[i + 1] = files[i]
         /\ Cardinality(Backup(<<f>> \o files)) =
              Cardinality(Backup(files)) + (IF f.tmp THEN 0 ELSE 1)
<1> DEFINE n == Len(files)
           longer == <<f>> \o files
           moved == {i + 1 : i \in Backup(files)}
<1>1. n \in Nat /\ DOMAIN files = 1..n /\ <<f>> \in Seq(Files) /\ Len(<<f>>) = 1 /\ <<f>>[1] = f
  BY LenProperties
<1>2. /\ longer \in Seq(Files) /\ Len(longer) = 1 + n
      /\ \A i \in 1..(1 + n) : longer[i] = IF i <= 1 THEN <<f>>[i] ELSE files[i - 1]
  BY <1>1, ConcatProperties
<1>3. DOMAIN longer = 1..(1 + n)
  BY <1>2, LenProperties
<1>4. longer[1] = f /\ \A i \in 1..n : longer[i + 1] = files[i]
  <2> HIDE DEF longer
  <2>1. longer[1] = f
    BY <1>1, <1>2
  <2>2. ASSUME NEW i \in 1..n PROVE longer[i + 1] = files[i]
    <3>1. i + 1 \in 1..(1 + n) /\ ~(i + 1 <= 1) /\ (i + 1) - 1 = i
      BY <1>1
    <3> QED BY <1>2, <3>1
  <2> QED BY <2>1, <2>2
<1> HIDE DEF longer
<1>5. Backup(longer) = IF f.tmp THEN moved ELSE moved \cup {1}
  <2>1. ASSUME NEW i \in 2..(1 + n) PROVE i \in Backup(longer) <=> i \in moved
    <3>1. i - 1 \in 1..n /\ longer[i] = files[i - 1]
      BY <1>1, <1>2
    <3>2. i \in Backup(longer) <=> ~files[i - 1].tmp
      BY <1>3, <3>1 DEF Backup
    <3>3. i \in moved <=> i - 1 \in Backup(files)
      BY <1>1 DEF Backup
    <3> QED BY <1>1, <3>1, <3>2, <3>3 DEF Backup
  <2>2. 1 \in Backup(longer) <=> ~f.tmp
    BY <1>1, <1>3, <1>4 DEF Backup
  <2>3. moved \subseteq 2..(1 + n) /\ Backup(longer) \subseteq {1} \cup 2..(1 + n)
    BY <1>1, <1>3 DEF Backup
  <2>4. 1 \notin 2..(1 + n)
    OBVIOUS
  <2> DEFINE V == 2..(1 + n)
             O == Backup(longer)
  <2> HIDE DEF moved, V, O
  <2>5. \A i \in V : i \in O <=> i \in moved
    BY <2>1 DEF V, O
  <2>6. (1 \in O <=> ~f.tmp) /\ moved \subseteq V /\ O \subseteq {1} \cup V /\ 1 \notin V
    BY <2>2, <2>3, <2>4 DEF V, O
  <2>7. ASSUME f.tmp PROVE O = moved
    BY <2>5, <2>6, <2>7
  <2>8. ASSUME ~f.tmp PROVE O = moved \cup {1}
    BY <2>5, <2>6, <2>8
  <2> QED BY <2>7, <2>8 DEF O
<1>6. /\ IsFiniteSet(Backup(files)) /\ Cardinality(Backup(files)) \in Nat
      /\ Backup(files) \in SUBSET (1..n)
  BY BackupFinite
<1>7. IsFiniteSet(moved) /\ Cardinality(moved) = Cardinality(Backup(files)) /\ 1 \notin moved
  <2> DEFINE shift == [i \in Backup(files) |-> i + 1]
  <2>1. shift \in [Backup(files) -> moved]
    OBVIOUS
  <2>2. \A x, y \in Backup(files) : shift[x] = shift[y] => x = y
    BY <1>6
  <2>3. \A z \in moved : \E x \in Backup(files) : shift[x] = z
    OBVIOUS
  <2>4. 1 \notin moved
    BY <1>6
  <2> HIDE DEF shift, moved
  <2> QED BY <1>6, <2>1, <2>2, <2>3, <2>4, SameSize
<1>8. Cardinality(moved \cup {1}) = Cardinality(Backup(files)) + 1
  <2> HIDE DEF moved
  <2> QED BY <1>6, <1>7, FS_AddElement
<1> HIDE DEF moved
<1>9. Cardinality(Backup(longer)) = Cardinality(Backup(files)) + (IF f.tmp THEN 0 ELSE 1)
  BY <1>5, <1>6, <1>7, <1>8
<1> QED BY <1>1, <1>2, <1>4, <1>9 DEF longer

(* A file taken out.                                                         *)
LEMMA RemoveFacts ==
  ASSUME NEW files \in Seq(Files), NEW k \in DOMAIN files
  PROVE  /\ RemoveAt(files, k) \in Seq(Files)
         /\ \A j \in DOMAIN files \ {k} :
              \E i \in DOMAIN RemoveAt(files, k) : RemoveAt(files, k)[i] = files[j]
         /\ \A i \in DOMAIN RemoveAt(files, k) :
              \E j \in DOMAIN files : RemoveAt(files, k)[i] = files[j]
         /\ Cardinality(Backup(RemoveAt(files, k))) =
              Cardinality(Backup(files)) - (IF files[k].tmp THEN 0 ELSE 1)
<1> DEFINE n == Len(files)
           a == SubSeq(files, 1, k - 1)
           b == SubSeq(files, k + 1, n)
           rest == RemoveAt(files, k)
           down == [j \in DOMAIN files \ {k} |-> IF j < k THEN j ELSE j - 1]
           D == DOMAIN files \ {k}
<1>1. n \in Nat /\ DOMAIN files = 1..n /\ k \in 1..n /\ \A i \in 1..n : files[i] \in Files
  BY LenProperties, ElementOfSeq
<1>2. a \in Seq(Files) /\ Len(a) = k - 1 /\ \A i \in 1..(k - 1) : a[i] = files[i]
  <2>1. k - 1 \in Int /\ \A i \in 1..(k - 1) : files[i] \in Files
    BY <1>1
  <2>2. /\ a \in Seq(Files) /\ Len(a) = IF 1 <= k - 1 THEN (k - 1) - 1 + 1 ELSE 0
        /\ \A i \in 1..((k - 1) - 1 + 1) : a[i] = files[1 + i - 1]
    BY <2>1, SubSeqProperties
  <2> HIDE DEF a
  <2>3. (k - 1) - 1 + 1 = k - 1 /\ \A i \in 1..(k - 1) : 1 + i - 1 = i
    BY <1>1
  <2>4. (IF 1 <= k - 1 THEN (k - 1) - 1 + 1 ELSE 0) = k - 1
    BY <1>1
  <2> QED BY <2>2, <2>3, <2>4
<1>3. b \in Seq(Files) /\ Len(b) = n - k /\ \A i \in 1..(n - k) : b[i] = files[k + i]
  <2>1. k + 1 \in Int /\ n \in Int /\ \A i \in (k + 1)..n : files[i] \in Files
    BY <1>1
  <2>2. /\ b \in Seq(Files) /\ Len(b) = IF k + 1 <= n THEN n - (k + 1) + 1 ELSE 0
        /\ \A i \in 1..(n - (k + 1) + 1) : b[i] = files[(k + 1) + i - 1]
    BY <2>1, SubSeqProperties
  <2> HIDE DEF b
  <2>3. n - (k + 1) + 1 = n - k /\ \A i \in 1..(n - k) : (k + 1) + i - 1 = k + i
    BY <1>1
  <2>4. (IF k + 1 <= n THEN n - (k + 1) + 1 ELSE 0) = n - k
    BY <1>1
  <2> QED BY <2>2, <2>3, <2>4
<1>4. /\ rest \in Seq(Files) /\ Len(rest) = n - 1 /\ DOMAIN rest = 1..(n - 1)
      /\ \A i \in 1..(n - 1) : rest[i] = IF i <= k - 1 THEN a[i] ELSE b[i - (k - 1)]
  <2>1. rest = a \o b
    BY DEF RemoveAt
  <2> HIDE DEF a, b, rest
  <2>2. /\ rest \in Seq(Files) /\ Len(rest) = Len(a) + Len(b)
        /\ \A i \in 1..(Len(a) + Len(b)) : rest[i] = IF i <= Len(a) THEN a[i] ELSE b[i - Len(a)]
    BY <1>2, <1>3, <2>1, ConcatProperties
  <2>3. (k - 1) + (n - k) = n - 1
    BY <1>1
  <2>4. Len(rest) = n - 1 /\ DOMAIN rest = 1..Len(rest)
    BY <1>2, <1>3, <2>2, <2>3, LenProperties
  <2> QED BY <1>2, <1>3, <2>2, <2>3, <2>4
<1> HIDE DEF rest, a, b
<1>5. \A i \in 1..(n - 1) : rest[i] = IF i < k THEN files[i] ELSE files[i + 1]
  <2> SUFFICES ASSUME NEW i \in 1..(n - 1)
               PROVE  rest[i] = IF i < k THEN files[i] ELSE files[i + 1]
    OBVIOUS
  <2>1. CASE i < k
    <3>1. i <= k - 1 /\ i \in 1..(k - 1)
      BY <1>1, <2>1
    <3> QED BY <1>2, <1>4, <2>1, <3>1
  <2>2. CASE ~(i < k)
    <3>1. ~(i <= k - 1) /\ i - (k - 1) \in 1..(n - k) /\ k + (i - (k - 1)) = i + 1
      BY <1>1, <2>2
    <3> QED BY <1>3, <1>4, <2>2, <3>1
  <2> QED BY <2>1, <2>2
<1>6. \A j \in D : down[j] \in 1..(n - 1) /\ rest[down[j]] = files[j]
  <2> SUFFICES ASSUME NEW j \in D PROVE down[j] \in 1..(n - 1) /\ rest[down[j]] = files[j]
    OBVIOUS
  <2>1. CASE j < k
    BY <1>1, <1>5, <2>1
  <2>2. CASE ~(j < k)
    <3>1. down[j] = j - 1 /\ j - 1 \in 1..(n - 1) /\ ~(j - 1 < k) /\ (j - 1) + 1 = j
      BY <1>1, <2>2
    <3> QED BY <1>5, <3>1
  <2> QED BY <2>1, <2>2
<1>7. \A i \in 1..(n - 1) : \E j \in D : down[j] = i
  <2> SUFFICES ASSUME NEW i \in 1..(n - 1) PROVE \E j \in D : down[j] = i
    OBVIOUS
  <2>1. CASE i < k
    <3>1. i \in D /\ down[i] = i
      BY <1>1, <2>1
    <3> QED BY <3>1
  <2>2. CASE ~(i < k)
    <3>1. i + 1 \in D /\ ~(i + 1 < k) /\ (i + 1) - 1 = i
      BY <1>1, <2>2
    <3>2. down[i + 1] = i
      BY <3>1
    <3> HIDE DEF down, D
    <3> QED BY <3>1, <3>2
  <2> QED BY <2>1, <2>2
<1>8. \A x, y \in D : down[x] = down[y] => x = y
  BY <1>1
<1> HIDE DEF down
<1>9. \A j \in D : \E i \in DOMAIN rest : rest[i] = files[j]
  BY <1>4, <1>6
<1>10. \A i \in DOMAIN rest : \E j \in DOMAIN files : rest[i] = files[j]
  <2>1. ASSUME NEW i \in DOMAIN rest PROVE \E j \in DOMAIN files : rest[i] = files[j]
    <3>1. PICK j \in D : down[j] = i
      BY <1>4, <1>7
    <3> QED BY <1>6, <3>1
  <2> QED BY <2>1
<1>11. Cardinality(Backup(rest)) = Cardinality(Backup(files) \ {k})
  <2> DEFINE f == [j \in Backup(files) \ {k} |-> down[j]]
  <2>1. IsFiniteSet(Backup(files) \ {k})
    BY BackupFinite, FS_RemoveElement
  <2>2. Backup(files) \ {k} \subseteq D
    BY DEF Backup
  <2>3. \A j \in Backup(files) \ {k} : down[j] \in Backup(rest)
    BY <1>4, <1>6, <2>2 DEF Backup
  <2>4. f \in [Backup(files) \ {k} -> Backup(rest)]
    BY <2>3
  <2>5. \A x, y \in Backup(files) \ {k} : f[x] = f[y] => x = y
    BY <1>8, <2>2
  <2>6. ASSUME NEW z \in Backup(rest) PROVE \E x \in Backup(files) \ {k} : f[x] = z
    <3>1. z \in 1..(n - 1) /\ ~rest[z].tmp
      BY <1>4 DEF Backup
    <3>2. PICK j \in D : down[j] = z
      BY <1>7, <3>1
    <3>3. j \in Backup(files) \ {k}
      BY <1>6, <3>1, <3>2 DEF Backup
    <3> QED BY <3>2, <3>3
  <2>7. \A z \in Backup(rest) : \E x \in Backup(files) \ {k} : f[x] = z
    BY <2>6
  <2> DEFINE X == Backup(files) \ {k}
             Y == Backup(rest)
  <2> HIDE DEF f, D
  <2>8. /\ IsFiniteSet(X) /\ f \in [X -> Y]
        /\ \A x, y \in X : f[x] = f[y] => x = y
        /\ \A z \in Y : \E x \in X : f[x] = z
    BY <2>1, <2>4, <2>5, <2>7
  <2> HIDE DEF X, Y
  <2>9. Cardinality(Y) = Cardinality(X)
    BY <2>8, SameSize
  <2> QED BY <2>9 DEF X, Y
<1>12. Cardinality(Backup(rest)) = Cardinality(Backup(files)) - (IF files[k].tmp THEN 0 ELSE 1)
  <2>1. k \in Backup(files) <=> ~files[k].tmp
    BY DEF Backup
  <2>2. IsFiniteSet(Backup(files)) /\ Cardinality(Backup(files)) \in Nat
    BY BackupFinite
  <2>3. Cardinality(Backup(files)) - 0 = Cardinality(Backup(files))
    BY <2>2
  <2>4. Cardinality(Backup(files) \ {k}) =
          IF k \in Backup(files) THEN Cardinality(Backup(files)) - 1 ELSE Cardinality(Backup(files))
    BY <2>2, FS_RemoveElement
  <2> QED BY <1>11, <2>1, <2>3, <2>4
<1> QED BY <1>4, <1>9, <1>10, <1>12 DEF rest

LEMMA LoadRead ==
  ASSUME NEW S \in SUBSET Records
  PROVE  /\ Load(S) \in SUBSET Records
         /\ \A x \in Load(S) : Read(x) = x
         /\ S = {} => Load(S) = {}
         /\ Load(Load(S)) = Load(S)
<1> DEFINE ids == {r.line : r \in S}
           Chosen(i) == CHOOSE r \in Named(S) : r.id = i
<1>1. Load(S) = {Chosen(i) : i \in ids}
  BY DEF Load
<1>2. \A x \in Named(S) : x \in Records /\ Read(x) = x /\ x.line = x.id
  <2>1. \A r \in S : Read(r) \in Records /\ Read(Read(r)) = Read(r) /\ Read(r).line = Read(r).id
    BY ReadFacts
  <2>2. \A x \in Named(S) : \E r \in S : x = Read(r)
    BY DEF Named, Read
  <2> QED BY <2>1, <2>2
<1>3. ASSUME NEW i \in ids PROVE Chosen(i) \in Named(S) /\ Chosen(i).id = i
  <2>1. PICK x \in S : i = x.line
    OBVIOUS
  <2>2. Read(x) \in Named(S) /\ Read(x).id = i
    BY <2>1, ReadFacts DEF Named, Read
  <2> QED BY <2>2
<1>4. S = {} => ids = {}
  OBVIOUS
<1> HIDE DEF ids, Chosen
<1>5. Load(S) \in SUBSET Records /\ (\A x \in Load(S) : Read(x) = x) /\ (S = {} => Load(S) = {})
  BY <1>1, <1>2, <1>3, <1>4
<1>6. \A x, y \in Load(S) : x.line = y.line => x = y
  <2> SUFFICES ASSUME NEW i \in ids, NEW j \in ids, Chosen(i).line = Chosen(j).line
               PROVE  Chosen(i) = Chosen(j)
    BY <1>1
  <2>1. i = j
    BY <1>2, <1>3
  <2> QED BY <2>1
<1>7. Load(Load(S)) = {Read(x) : x \in Load(S)}
  BY <1>5, <1>6, LoadFacts
<1>8. Load(Load(S)) = Load(S)
  BY <1>5, <1>7
<1> QED BY <1>5, <1>8

LEMMA EntriesTyped ==
  ASSUME cache \in SUBSET Records, ops \in Nat, ops < MaxOps, NEW e \in Entries
  PROVE  /\ e \in Ops /\ e \in Lines /\ e.is # "torn"
         /\ After(e) \in SUBSET Records
<1>1. e \in Ops
  <2>1. \/ \E r \in Records : e = Entry("delete", r)
        \/ \E r \in Records : e = Entry("put", r)
    BY EntryFacts
  <2> QED BY <2>1 DEF Ops
<1>2. e \in Lines /\ e.is # "torn" /\ e.rec \subseteq Records
  BY <1>1, LineFacts
<1>3. After(e) \in SUBSET Records
  BY <1>2 DEF After
<1> QED BY <1>1, <1>2, <1>3

(* What rotateBackups keeps: a backup fewer than may be kept, and every      *)
(* temporary file.                                                           *)
LEMMA KeptFacts ==
  ASSUME NEW files \in Seq(Files), Cardinality(Backup(files)) <= Backups
  PROVE  /\ Kept(files) \in Seq(Files)
         /\ Cardinality(Backup(Kept(files))) < Backups
         /\ \A i \in DOMAIN Kept(files) : \E j \in DOMAIN files : Kept(files)[i] = files[j]
         /\ \A j \in DOMAIN files : files[j].tmp =>
              \E i \in DOMAIN Kept(files) : Kept(files)[i] = files[j]
<1> DEFINE n == Cardinality(Backup(files))
           k == Max(Backup(files))
<1>1. /\ IsFiniteSet(Backup(files)) /\ n \in Nat
      /\ Backup(files) \in SUBSET (1..Len(files)) /\ Len(files) \in Nat
  BY BackupFinite
<1>2. Kept(files) = IF n < Backups THEN files ELSE RemoveAt(files, k)
  BY DEF Kept, Backup
<1>3. CASE n < Backups
  BY <1>2, <1>3
<1>4. CASE ~(n < Backups)
  <2>1. n = Backups /\ Backups > 0 /\ Backups \in Nat
    BY <1>1, <1>4, LogAssumption
  <2>2. Backup(files) # {}
    BY <1>1, <2>1, FS_EmptySet
  <2>3. k \in Backup(files)
    BY <1>1, <2>2, MinMax
  <2>4. k \in DOMAIN files /\ ~files[k].tmp
    BY <2>3 DEF Backup
  <2>5. /\ RemoveAt(files, k) \in Seq(Files)
        /\ \A j \in DOMAIN files \ {k} :
              \E i \in DOMAIN RemoveAt(files, k) : RemoveAt(files, k)[i] = files[j]
        /\ \A i \in DOMAIN RemoveAt(files, k) :
              \E j \in DOMAIN files : RemoveAt(files, k)[i] = files[j]
        /\ Cardinality(Backup(RemoveAt(files, k))) = n - 1
    <3> HIDE DEF k
    <3> QED BY <2>4, RemoveFacts
  <2>6. Kept(files) = RemoveAt(files, k)
    BY <1>2, <1>4
  <2>7. n - 1 < Backups
    BY <2>1
  <2> HIDE DEF k, n
  <2> QED BY <2>4, <2>5, <2>6, <2>7
<1> QED BY <1>3, <1>4

LEMMA MovedFacts ==
  ASSUME spares \in Seq(Files), Cardinality(Backup(spares)) <= Backups,
         NEW files \in Moved
  PROVE  /\ files \in Seq(Files) /\ Cardinality(Backup(files)) < Backups
         /\ \A i \in DOMAIN files : \E j \in DOMAIN spares : files[i] = spares[j]
         /\ \A j \in DOMAIN spares : spares[j].tmp =>
              \E i \in DOMAIN files : files[i] = spares[j]
<1> DEFINE kept == Kept(spares)
<1>1. /\ kept \in Seq(Files) /\ Cardinality(Backup(kept)) < Backups
      /\ \A i \in DOMAIN kept : \E j \in DOMAIN spares : kept[i] = spares[j]
      /\ \A j \in DOMAIN spares : spares[j].tmp => \E i \in DOMAIN kept : kept[i] = spares[j]
  BY KeptFacts
<1> HIDE DEF kept
<1>2. CASE files = kept
  BY <1>1, <1>2
<1>3. CASE \E k \in Backup(kept) : files = RemoveAt(kept, k)
  <2>1. PICK k \in Backup(kept) : files = RemoveAt(kept, k)
    BY <1>3
  <2>2. k \in DOMAIN kept /\ ~kept[k].tmp
    BY <2>1 DEF Backup
  <2>3. /\ files \in Seq(Files)
        /\ \A j \in DOMAIN kept \ {k} : \E i \in DOMAIN files : files[i] = kept[j]
        /\ \A i \in DOMAIN files : \E j \in DOMAIN kept : files[i] = kept[j]
        /\ Cardinality(Backup(files)) = Cardinality(Backup(kept)) - 1
    BY <1>1, <2>1, <2>2, RemoveFacts
  <2>4. Cardinality(Backup(kept)) \in Nat
    BY <1>1, BackupFinite
  <2>5. Cardinality(Backup(files)) < Backups
    BY <1>1, <2>3, <2>4, LogAssumption
  <2>6. ASSUME NEW j \in DOMAIN spares, spares[j].tmp
        PROVE  \E i \in DOMAIN files : files[i] = spares[j]
    <3>1. PICK m \in DOMAIN kept : kept[m] = spares[j]
      BY <1>1, <2>6
    <3>2. m # k
      BY <2>2, <2>6, <3>1
    <3> QED BY <2>3, <3>1, <3>2
  <2> QED BY <1>1, <2>3, <2>5, <2>6
<1> QED BY <1>2, <1>3 DEF Moved, kept

(* What is written, when the snapshot is put in its place, when the log is   *)
(* in use and when it is not.                                                *)
HasTmp == \E i \in DOMAIN spares : spares[i].tmp
ShapeInv ==
  /\ job.at \in Writing /\ job.goal \notin {"create", "restore"} => job.data = cache
  /\ job.goal \in {"normalise", "renormalise"} =>
       main.is = "whole" /\ cache = Load(main.has)
  /\ job.goal = "create" => job.data = {} /\ main.is = "missing"
  /\ job.at = "journal" /\ job.goal = "none" => main.is = "whole" /\ cache = Load(main.has)
  /\ job.at = "archive" => main.has = cache
  /\ main.is # "whole" => main.has = {}
  /\ job.at \in {"rotate", "rename"} => HasTmp
  /\ job.at = "rotate" => main.is # "missing"
  /\ InUse => main.is = "whole"
  /\ job.at = "up" /\ job.goal = "checkpoint" => "fail" \in env
  /\ job.at \in {"down", "load", "failed"} \/ job.goal = "create" => cache = {}
  /\ job.at = "archives" \/ job.goal \in {"restore", "renormalise", "rewrite"}
     \/ main.is = "broken" => "damage" \in env

(* The spares, in all of their changes.                                      *)
SparesOK(files) == files \in Seq(Files) /\ Cardinality(Backup(files)) <= Backups

LEMMA PrependOK ==
  ASSUME SparesOK(spares), NEW p \in Snapshots
  PROVE  /\ SparesOK(<<File(TRUE, p)>> \o spares)
         /\ \A files \in Moved : SparesOK(files) /\ SparesOK(Copied(files, p))
<1>1. File(TRUE, p) \in Files /\ File(FALSE, p) \in Files /\ File(TRUE, p).tmp /\ ~File(FALSE, p).tmp
  BY DEF File, Files
<1>2. SparesOK(<<File(TRUE, p)>> \o spares)
  <2>1. /\ <<File(TRUE, p)>> \o spares \in Seq(Files)
        /\ Cardinality(Backup(<<File(TRUE, p)>> \o spares)) = Cardinality(Backup(spares)) + 0
    BY <1>1, PrependFacts DEF SparesOK
  <2>2. Cardinality(Backup(spares)) \in Nat
    BY BackupFinite DEF SparesOK
  <2>3. Cardinality(Backup(spares)) + 0 = Cardinality(Backup(spares))
    BY <2>2
  <2> QED BY <2>1, <2>3 DEF SparesOK
<1>3. ASSUME NEW files \in Moved PROVE SparesOK(files) /\ SparesOK(Copied(files, p))
  <2>1. files \in Seq(Files) /\ Cardinality(Backup(files)) < Backups
    BY MovedFacts DEF SparesOK
  <2>2. Cardinality(Backup(files)) \in Nat
    BY <2>1, BackupFinite
  <2>3. /\ Copied(files, p) \in Seq(Files)
        /\ Cardinality(Backup(Copied(files, p))) = Cardinality(Backup(files)) + 1
    BY <1>1, <2>1, PrependFacts DEF Copied
  <2>4. \A n \in Nat : n < Backups => n <= Backups /\ n + 1 <= Backups
    BY LogAssumption
  <2> QED BY <2>1, <2>2, <2>3, <2>4 DEF SparesOK
<1> QED BY <1>2, <1>3

LEMMA TmpOK ==
  ASSUME SparesOK(spares), HasTmp
  PROVE  SparesOK(RemoveAt(spares, Tmp)) /\ Tmp \in DOMAIN spares /\ spares[Tmp].tmp
<1> DEFINE S == {i \in DOMAIN spares : spares[i].tmp}
<1>1. Len(spares) \in Nat /\ DOMAIN spares = 1..Len(spares)
  BY LenProperties DEF SparesOK
<1>2. S \in SUBSET (1..Len(spares)) /\ S # {}
  BY <1>1 DEF HasTmp
<1>3. Tmp \in S
  <2> HIDE DEF S
  <2>1. Min(S) \in S
    BY <1>1, <1>2, MinMax
  <2> QED BY <2>1 DEF Tmp, S
<1>4. /\ RemoveAt(spares, Tmp) \in Seq(Files)
      /\ Cardinality(Backup(RemoveAt(spares, Tmp))) = Cardinality(Backup(spares)) - 0
  <2> HIDE DEF Tmp
  <2> QED BY <1>3, RemoveFacts DEF SparesOK
<1>5. Cardinality(Backup(spares)) \in Nat
  BY BackupFinite DEF SparesOK
<1> QED BY <1>3, <1>4, <1>5 DEF SparesOK

(* A damaged spare is a spare.                                               *)
LEMMA DamagedOK ==
  ASSUME SparesOK(spares), NEW lost,
         spares' = [i \in DOMAIN spares |->
                       IF i \in lost THEN [spares[i] EXCEPT !.of = Broken] ELSE spares[i]]
  PROVE  SparesOK(spares')
<1>1. Len(spares) \in Nat /\ DOMAIN spares = 1..Len(spares)
      /\ \A i \in DOMAIN spares : spares[i] \in Files
  BY LenProperties, ElementOfSeq DEF SparesOK
<1>2. Broken \in Snapshots
  BY DEF Snapshots
<1>3. DOMAIN spares' = DOMAIN spares
  OBVIOUS
<1>4. ASSUME NEW i \in DOMAIN spares
      PROVE  spares'[i] \in Files /\ spares'[i].tmp = spares[i].tmp
  <2>1. spares[i] \in Files
    BY <1>1
  <2>2. [spares[i] EXCEPT !.of = Broken] \in Files
        /\ [spares[i] EXCEPT !.of = Broken].tmp = spares[i].tmp
    BY <1>2, <2>1 DEF Files
  <2> QED BY <2>1, <2>2
<1>5. spares' \in [1..Len(spares) -> Files]
  BY <1>1, <1>3, <1>4
<1>6. spares' \in Seq(Files)
  BY <1>1, <1>5, SeqDef
<1>7. Backup(spares') = Backup(spares)
  BY <1>3, <1>4 DEF Backup
<1> QED BY <1>6, <1>7 DEF SparesOK

-----------------------------------------------------------------------------
(* The types.                                                                *)
LEMMA TypeParts ==
  TypeOK <=> /\ SparesOK(spares)
             /\ journal \in Seq(Lines) /\ archives \in Seq(Seq(Lines))
             /\ env \in Scenarios /\ main \in Snapshots
             /\ {cache, promised} \subseteq SUBSET Records
             /\ job \in [at : Phases, goal : Goals, data : SUBSET Records]
             /\ ops \in 0..MaxOps /\ faults \in 0..MaxFaults
BY DEF TypeOK, SparesOK, Files, Backup

LEMMA SnapshotsTyped ==
  /\ \A s \in Snapshots : s.has \in SUBSET Records /\ s.is \in {"whole", "broken", "missing"}
  /\ \A S \in SUBSET Records : Snapshot(S) \in Snapshots
  /\ Broken \in Snapshots /\ Missing \in Snapshots
BY DEF Snapshots, Snapshot, Broken, Missing

LEMMA CutOffTyped ==
  ASSUME NEW S \in SUBSET Records, NEW p \in CutOff(S)
  PROVE  p \in Snapshots
<1>1. p = Broken \/ \E T \in SUBSET S : p = Snapshot(T)
  BY DEF CutOff
<1>2. \A T \in SUBSET S : T \in SUBSET Records
  OBVIOUS
<1> QED BY <1>1, <1>2, SnapshotsTyped

LEMMA SparesNext ==
  ASSUME TypeOK, ShapeInv, JobInv, [Next]_vars
  PROVE  SparesOK(spares)' /\ SparesOK(spares')
<1> SUFFICES SparesOK(spares')
  BY DEF SparesOK, Backup
<1>0. SparesOK(spares) /\ main \in Snapshots /\ job.data \in SUBSET Records
  BY TypeParts
<1>1. CASE UNCHANGED spares
  BY <1>0, <1>1
<1>2. CASE \E p \in Snapshots :
             \/ spares' = <<File(TRUE, p)>> \o spares
             \/ \E files \in Moved : spares' = files \/ spares' = Copied(files, p)
  BY <1>0, <1>2, PrependOK
<1>3. CASE spares' = RemoveAt(spares, Tmp) /\ HasTmp
  BY <1>0, <1>3, TmpOK
<1>4. CASE Damage
  <2>1. PICK lost : spares' = [i \in DOMAIN spares |->
                       IF i \in lost THEN [spares[i] EXCEPT !.of = Broken] ELSE spares[i]]
    BY <1>4 DEF Damage
  <2> QED BY <1>0, <2>1, DamagedOK
<1>5. CASE WriteTmp
  BY <1>0, <1>2, <1>5, SnapshotsTyped DEF WriteTmp
<1>6. CASE Rotate
  BY <1>0, <1>2, <1>6 DEF Rotate
<1>7. CASE Rename
  BY <1>3, <1>7 DEF Rename, ShapeInv
<1>8. CASE WriteFails
  BY <1>1, <1>3, <1>8 DEF WriteFails, ShapeInv
<1>9. CASE Crash
  <2>1. main.has \in SUBSET Records
    BY <1>0, SnapshotsTyped
  <2>2. \/ UNCHANGED spares
        \/ \E p \in CutOff(job.data) : spares' = <<File(TRUE, p)>> \o spares
        \/ \E files \in Moved :
             \/ spares' = files
             \/ \E p \in {Broken} \cup CutOff(main.has) : spares' = Copied(files, p)
    BY <1>9 DEF Crash
  <2>3. \A p \in {Broken} \cup CutOff(main.has) : p \in Snapshots
    BY <2>1, CutOffTyped, SnapshotsTyped
  <2> QED BY <1>0, <1>1, <1>2, <2>2, <2>3, CutOffTyped
<1> QED
  BY <1>1, <1>4, <1>5, <1>6, <1>7, <1>8, <1>9
     DEF Next, vars, disk, Start, LoadMain, LoadSpare, LoadNothing, ReplayArchives,
         ReplayJournal, Commit, AppendFails, Close, Archive, ArchiveFails, Exit

LEMMA JournalsTyped ==
  ASSUME TypeOK, [Next]_vars
  PROVE  journal' \in Seq(Lines) /\ archives' \in Seq(Seq(Lines))
<1>0. /\ journal \in Seq(Lines) /\ archives \in Seq(Seq(Lines))
      /\ cache \in SUBSET Records /\ ops \in Nat
  BY TypeParts, LogAssumption
<1>1. CASE UNCHANGED <<journal, archives>>
  BY <1>0, <1>1
<1>2. CASE ReplayArchives
  <2>1. Len(archives) \in Nat /\ DOMAIN archives = 1..Len(archives)
        /\ \A i \in DOMAIN archives : archives[i] \in Seq(Lines)
    BY <1>0, LenProperties, ElementOfSeq
  <2>2. \A i \in DOMAIN archives : Whole(archives[i]) \in Seq(Lines)
    BY <2>1, WholeLines
  <2>3. archives' \in [1..Len(archives) -> Seq(Lines)]
    BY <1>2, <2>1, <2>2 DEF ReplayArchives
  <2>4. archives' \in Seq(Seq(Lines))
    BY <2>1, <2>3, SeqDef
  <2> QED BY <1>0, <1>2, <2>4 DEF ReplayArchives
<1>3. CASE ReplayJournal
  BY <1>0, <1>3, WholeLines DEF ReplayJournal
<1>4. CASE Archive
  <2>1. <<>> \in Seq(Lines)
    BY EmptySeq
  <2>2. Append(archives, journal) \in Seq(Seq(Lines))
    BY <1>0, AppendProperties
  <2> QED BY <1>0, <1>4, <2>1, <2>2 DEF Archive, Archived
<1>5. CASE archives' = archives /\ ops < MaxOps
           /\ \E e \in Entries \cup {Torn} : journal' = Append(journal, e)
  <2>1. PICK e \in Entries \cup {Torn} : journal' = Append(journal, e)
    BY <1>5
  <2>2. e \in Lines
    BY <1>0, <1>5, EntriesTyped, LineFacts
  <2> QED BY <1>0, <1>5, <2>1, <2>2, AppendProperties
<1> QED
  BY <1>1, <1>2, <1>3, <1>4, <1>5
     DEF Next, vars, disk, Start, LoadMain, LoadSpare, LoadNothing, WriteTmp, Rotate,
         Rename, WriteFails, Commit, AppendFails, Close, ArchiveFails, Exit, Crash, Damage

LEMMA RestTyped ==
  ASSUME TypeOK, JobInv, ShapeInv, [Next]_vars
  PROVE  /\ env' \in Scenarios /\ main' \in Snapshots
         /\ cache' \in SUBSET Records /\ promised' \in SUBSET Records
         /\ job' \in [at : Phases, goal : Goals, data : SUBSET Records]
         /\ ops' \in 0..MaxOps /\ faults' \in 0..MaxFaults
<1>0. /\ SparesOK(spares)
      /\ journal \in Seq(Lines) /\ archives \in Seq(Seq(Lines))
      /\ env \in Scenarios /\ main \in Snapshots
      /\ cache \in SUBSET Records /\ promised \in SUBSET Records
      /\ job \in [at : Phases, goal : Goals, data : SUBSET Records]
      /\ ops \in 0..MaxOps /\ faults \in 0..MaxFaults
  BY TypeParts
<1>1. main.has \in SUBSET Records /\ job.data \in SUBSET Records /\ ops \in Nat
      /\ job.at \in Phases /\ job.goal \in Goals
  BY <1>0, SnapshotsTyped, LogAssumption
<1>2. /\ \A n \in 0..MaxOps : n < MaxOps => n + 1 \in 0..MaxOps
      /\ \A n \in 0..MaxFaults : n < MaxFaults => n + 1 \in 0..MaxFaults
  BY LogAssumption
<1>3. env' \in Scenarios
  BY <1>0, SameSurroundings
<1>4. main' \in Snapshots
  BY <1>0, <1>1, SnapshotsTyped
     DEF Next, vars, disk, Start, LoadMain, LoadSpare, LoadNothing, ReplayArchives,
         ReplayJournal, WriteTmp, Rotate, Left, Rename, WriteFails, Commit, AppendFails,
         Close, Archive, ArchiveFails, Exit, Crash, Damage
<1>5. Load(main.has) \in SUBSET Records /\ Load(job.data) \in SUBSET Records
  BY <1>1, LoadRead
<1>6. Replay(cache, journal) \in SUBSET Records /\ ReplayAll(cache, archives) \in SUBSET Records
  BY <1>0, ReplayParts, ReplayAllParts
<1>7. ASSUME ops < MaxOps, NEW e \in Entries PROVE After(e) \in SUBSET Records
  BY <1>0, <1>1, <1>7, EntriesTyped
<1>8. cache' \in SUBSET Records
  BY <1>0, <1>5, <1>6, <1>7
     DEF Next, vars, disk, Start, LoadMain, LoadSpare, LoadNothing, ReplayArchives,
         ReplayJournal, WriteTmp, Rotate, Left, Rename, WriteFails, Commit, AppendFails,
         Close, Archive, ArchiveFails, Exit, Crash, Damage
<1>9. promised' \in SUBSET Records
  BY <1>0, <1>7
     DEF Next, vars, disk, Start, LoadMain, LoadSpare, LoadNothing, ReplayArchives,
         ReplayJournal, WriteTmp, Rotate, Left, Rename, WriteFails, Commit, AppendFails,
         Close, Archive, ArchiveFails, Exit, Crash, Damage
<1>10. ops' \in 0..MaxOps /\ faults' \in 0..MaxFaults
  BY <1>0, <1>2
     DEF Next, vars, disk, counts, May, Fault, Start, LoadMain, LoadSpare, LoadNothing,
         ReplayArchives, ReplayJournal, WriteTmp, Rotate, Left, Rename, WriteFails, Commit,
         AppendFails, Close, Archive, ArchiveFails, Exit, Crash, Damage
<1>11. job' \in [at : Phases, goal : Goals, data : SUBSET Records]
  <2>1. ASSUME NEW p \in Phases PROVE At(p) \in [at : Phases, goal : Goals, data : SUBSET Records]
    BY DEF At, Goals
  <2>2. ASSUME NEW g \in Goals, NEW S \in SUBSET Records
        PROVE  Write(g, S) \in [at : Phases, goal : Goals, data : SUBSET Records]
    BY DEF Write, Phases
  <2>3. Unclosed \in [at : Phases, goal : Goals, data : SUBSET Records]
    BY DEF Unclosed, At, Phases, Goals
  <2>4. ASSUME NEW p \in Phases
        PROVE  [job EXCEPT !.at = p] \in [at : Phases, goal : Goals, data : SUBSET Records]
    BY <1>0
  <2>5. [At("journal") EXCEPT !.goal = "rewrite"] \in [at : Phases, goal : Goals, data : SUBSET Records]
    BY DEF At, Phases, Goals
  <2>6. {"down", "load", "archives", "journal", "tmp", "rotate", "rename", "up",
           "archive", "failed"} \subseteq Phases
        /\ {"none", "create", "normalise", "restore", "renormalise", "rewrite",
            "checkpoint"} \subseteq Goals
    BY DEF Phases, Goals
  <2>7. CASE Start
    BY <2>1, <2>2, <2>6, <2>7 DEF Start
  <2>8. CASE LoadMain
    BY <1>8, <2>1, <2>2, <2>6, <2>8, LoadJob
  <2>9. CASE LoadSpare
    <3>1. Min(Readable) \in DOMAIN spares
      <4>1. Len(spares) \in Nat /\ DOMAIN spares = 1..Len(spares)
        BY <1>0, LenProperties DEF SparesOK
      <4>2. Readable \in SUBSET (1..Len(spares)) /\ Readable # {}
        BY <2>9, <4>1 DEF LoadSpare, Readable
      <4>3. Min(Readable) \in Readable
        BY <4>1, <4>2, MinMax
      <4> QED BY <4>1, <4>2, <4>3
    <3>2. spares[Min(Readable)] \in Files
      BY <1>0, <3>1, LenProperties, ElementOfSeq DEF SparesOK
    <3>3. spares[Min(Readable)].of.has \in SUBSET Records
      BY <3>2, SnapshotsTyped DEF Files
    <3> QED BY <2>2, <2>6, <2>9, <3>3 DEF LoadSpare
  <2>10. CASE LoadNothing
    BY <2>1, <2>6, <2>10 DEF LoadNothing
  <2>11. CASE ReplayArchives
    BY <2>5, <2>11 DEF ReplayArchives
  <2>12. CASE ReplayJournal
    BY <1>8, <2>1, <2>2, <2>6, <2>12 DEF ReplayJournal
  <2>13. CASE WriteTmp
    BY <2>4, <2>6, <2>13 DEF WriteTmp
  <2>14. CASE Rotate
    BY <2>4, <2>6, <2>14 DEF Rotate
  <2>15. CASE Rename
    BY <1>8, <2>1, <2>2, <2>4, <2>6, <2>15, RenameJob
  <2>16. CASE WriteFails
    BY <2>1, <2>3, <2>6, <2>16 DEF WriteFails
  <2>17. CASE UNCHANGED job
    BY <1>0, <2>17
  <2>18. CASE Close
    BY <1>0, <2>1, <2>2, <2>6, <2>18 DEF Close
  <2>19. CASE Archive \/ Exit \/ Crash
    BY <2>1, <2>6, <2>19 DEF Archive, Exit, Crash
  <2>20. CASE ArchiveFails
    BY <2>3, <2>20 DEF ArchiveFails
  <2> QED
    BY <2>7, <2>8, <2>9, <2>10, <2>11, <2>12, <2>13, <2>14, <2>15, <2>16, <2>17, <2>18,
       <2>19, <2>20 DEF Next, vars, Commit, AppendFails, Damage
<1> QED BY <1>3, <1>4, <1>8, <1>9, <1>10, <1>11

LEMMA TypeNext == TypeOK /\ JobInv /\ ShapeInv /\ [Next]_vars => TypeOK'
<1> SUFFICES ASSUME TypeOK, JobInv, ShapeInv, [Next]_vars PROVE TypeOK'
  OBVIOUS
<1>1. SparesOK(spares')
  BY SparesNext
<1>2. journal' \in Seq(Lines) /\ archives' \in Seq(Seq(Lines))
  BY JournalsTyped
<1>3. /\ env' \in Scenarios /\ main' \in Snapshots
      /\ cache' \in SUBSET Records /\ promised' \in SUBSET Records
      /\ job' \in [at : Phases, goal : Goals, data : SUBSET Records]
      /\ ops' \in 0..MaxOps /\ faults' \in 0..MaxFaults
  BY RestTyped
<1> QED BY <1>1, <1>2, <1>3 DEF TypeOK, SparesOK, Backup, Files

(* The logs that other programs leave.                                       *)
LEMMA OldFacts ==
  ASSUME NEW S \in OldLogs
  PROVE  S \in SUBSET Records /\ IsFiniteSet(S) /\ ("alike" \notin env => Proper(S, 0, env))
<1>1. /\ IsFiniteSet(S) /\ \A r \in S : r.id \in Marks(r.key, 0)
      /\ \A x, y \in S : x.key = y.key => x = y
  BY DEF OldLogs
<1>2. ASSUME NEW r \in S
      PROVE  r \in Records /\ r.line = r.id /\ r.id[2] = 0
  <2>1. PICK k \in Keys, i \in Keys \X {0} : r = Foreign(k, i)
    BY DEF OldLogs
  <2>2. i \in Ids /\ "none" \in Notes
    BY LogAssumption DEF Ids, Notes
  <2> QED BY <2>1, <2>2 DEF Foreign, Records
<1>3. ASSUME "alike" \notin env, NEW r \in S PROVE r.id = <<r.key, 0>>
  <2>1. r.id \in {r.key} \X (0..0)
    BY <1>1, <1>3 DEF Marks
  <2> QED BY <2>1
<1>4. ASSUME "alike" \notin env PROVE Proper(S, 0, env)
  <2>1. \A x, y \in S : x.id = y.id => x = y
    BY <1>1, <1>3, <1>4
  <2>2. \A x \in S : x.id[1] = x.key
    BY <1>3, <1>4
  <2>3. \A x \in S : x.id[2] <= 0
    BY <1>2
  <2> QED BY <1>1, <1>2, <2>1, <2>2, <2>3 DEF Proper
<1> QED BY <1>1, <1>2, <1>4

LEMMA TypeInit == Init => TypeOK
<1> SUFFICES ASSUME Init PROVE TypeOK
  OBVIOUS
<1>2. main \in Snapshots
  <2>1. main = Missing \/ \E S \in SUBSET Records : main = Snapshot(S)
    BY OldFacts DEF Init
  <2> QED BY <2>1, SnapshotsTyped
<1>3. spares = <<>> /\ journal = <<>> /\ archives = <<>>
  BY DEF Init
<1>4. SparesOK(spares)
  <2>1. spares \in Seq(Files) /\ Len(spares) = 0
    BY <1>3, EmptySeq
  <2>2. Backup(spares) = {}
    <3>1. Backup(spares) \in SUBSET (1..Len(spares))
      BY <2>1, BackupFinite
    <3> QED BY <2>1, <3>1
  <2>3. Cardinality(Backup(spares)) = 0
    BY <2>2, FS_EmptySet
  <2> QED BY <2>1, <2>3, LogAssumption DEF SparesOK
<1>5. promised \in SUBSET Records
  BY <1>2, SnapshotsTyped DEF Init
<1>6. journal \in Seq(Lines) /\ archives \in Seq(Seq(Lines))
  BY <1>3, EmptySeq
<1>7. env \in Scenarios /\ cache = {} /\ ops = 0 /\ faults = 0 /\ job = At("down")
  BY DEF Init
<1>8. job \in [at : Phases, goal : Goals, data : SUBSET Records]
  BY <1>7 DEF At, Phases, Goals
<1> QED BY <1>2, <1>4, <1>5, <1>6, <1>7, <1>8, TypeParts, LogAssumption

LEMMA ShapeInit == Init => ShapeInv
<1> SUFFICES ASSUME Init PROVE ShapeInv
  OBVIOUS
<1>1. job = At("down") /\ cache = {} /\ main.is \in {"whole", "missing"}
      /\ (main.is # "whole" => main.has = {})
  BY DEF Init, Missing, Snapshot
<1> QED BY <1>1 DEF ShapeInv, At, InUse, Writing

(* There is a temporary file while it is wanted.                             *)
LEMMA TmpKept ==
  ASSUME TypeOK, JobInv, ShapeInv, [Next]_vars, job'.at \in {"rotate", "rename"}
  PROVE  HasTmp'
<1>0. SparesOK(spares) /\ main \in Snapshots /\ job.data \in SUBSET Records
  BY TypeParts
<1>1. CASE WriteTmp
  <2>1. File(TRUE, Snapshot(job.data)) \in Files /\ File(TRUE, Snapshot(job.data)).tmp
    BY <1>0, SnapshotsTyped DEF File, Files
  <2>2. spares' \in Seq(Files) /\ Len(spares') = Len(spares) + 1 /\ spares'[1].tmp
    BY <1>0, <1>1, <2>1, PrependFacts DEF WriteTmp, SparesOK
  <2>3. Len(spares) \in Nat /\ DOMAIN spares' = 1..(Len(spares) + 1)
    BY <1>0, <2>2, LenProperties DEF SparesOK
  <2>4. 1 \in DOMAIN spares'
    BY <2>3
  <2> QED BY <2>2, <2>4 DEF HasTmp
<1>2. CASE Rotate
  <2>1. HasTmp
    BY <1>2 DEF Rotate, ShapeInv
  <2>2. PICK j \in DOMAIN spares : spares[j].tmp
    BY <2>1 DEF HasTmp
  <2>3. PICK files \in Moved : spares' = files \/ spares' = Copied(files, main)
    BY <1>2 DEF Rotate
  <2>4. PICK i \in DOMAIN files : files[i] = spares[j]
    BY <1>0, <2>2, MovedFacts DEF SparesOK
  <2>5. CASE spares' = files
    BY <2>2, <2>4, <2>5 DEF HasTmp
  <2>6. CASE spares' = Copied(files, main)
    <3>1. files \in Seq(Files) /\ File(FALSE, main) \in Files
      BY <1>0, MovedFacts DEF SparesOK, File, Files
    <3>2. spares' \in Seq(Files) /\ Len(spares') = Len(files) + 1 /\ spares'[i + 1] = files[i]
      BY <2>4, <2>6, <3>1, PrependFacts DEF Copied
    <3>3. /\ Len(files) \in Nat /\ DOMAIN files = 1..Len(files)
          /\ DOMAIN spares' = 1..(Len(files) + 1)
      BY <3>1, <3>2, LenProperties
    <3>4. i + 1 \in DOMAIN spares'
      BY <2>4, <3>3
    <3> QED BY <2>2, <2>4, <3>2, <3>4 DEF HasTmp
  <2> QED BY <2>3, <2>5, <2>6
<1>3. CASE UNCHANGED <<job, spares>>
  <2>1. HasTmp
    BY <1>3 DEF ShapeInv
  <2> QED BY <1>3, <2>1 DEF HasTmp
<1> USE DEF At, Write, Unclosed
<1>4. CASE Start \/ LoadMain \/ LoadSpare \/ LoadNothing \/ ReplayArchives \/ ReplayJournal
  BY <1>4, LoadJob DEF Start, LoadSpare, LoadNothing, ReplayArchives, ReplayJournal
<1>5. CASE Rename
  <2>1. job'.at \in {"load", "journal", "archives", "tmp", "up", "archive"}
    BY <1>5, RenameJob DEF JobInv
  <2> QED BY <2>1
<1>6. CASE WriteFails \/ Close \/ ArchiveFails
  <2>1. job'.at \in {"up", "down", "tmp"}
    BY <1>6 DEF WriteFails, Close, ArchiveFails
  <2> QED BY <2>1
<1>7. CASE Archive \/ Exit \/ Crash
  <2>1. job' = At("down")
    <3>1. CASE Archive \/ Exit
      BY <3>1 DEF Archive, Exit
    <3>2. CASE Crash
      <4> HIDE DEF At
      <4> QED BY <3>2 DEF Crash
    <3> QED BY <1>7, <3>1, <3>2
  <2> QED BY <2>1
<1>9. CASE Commit \/ AppendFails \/ Damage
  BY <1>9 DEF Commit, AppendFails, Damage
<1>8. CASE UNCHANGED vars
  BY <1>3, <1>8 DEF vars
<1> QED
  BY <1>1, <1>2, <1>4, <1>5, <1>6, <1>7, <1>8, <1>9 DEF Next

LEMMA ShapeNext == TypeOK /\ JobInv /\ SnapInv /\ ShapeInv /\ [Next]_vars => ShapeInv'
<1> SUFFICES ASSUME TypeOK, JobInv, SnapInv, ShapeInv, [Next]_vars PROVE ShapeInv'
  OBVIOUS
<1>a. job'.at \in {"rotate", "rename"} => HasTmp'
  BY TmpKept
<1>b. env' = env
  BY SameSurroundings
<1>c. /\ main.is \in {"whole", "broken", "missing"}
      /\ job.at = "load" => main.is # "missing"
  BY SnapshotsTyped DEF TypeOK, SnapInv
<1> HIDE DEF HasTmp
<1> USE <1>a, <1>b, <1>c
    DEF ShapeInv, JobInv, InUse, Opening, Writing, Phases, Goals, At, Write, Unclosed
<1>1. CASE Start
  BY <1>1 DEF Start, disk
<1>2. CASE LoadMain
  BY <1>2, LoadJob DEF LoadMain, disk
<1>3. CASE LoadSpare
  BY <1>3 DEF LoadSpare, Missing, Broken
<1>4. CASE LoadNothing
  BY <1>4 DEF LoadNothing, disk
<1>5. CASE ReplayArchives
  BY <1>5 DEF ReplayArchives
<1>6. CASE ReplayJournal
  BY <1>6 DEF ReplayJournal
<1>7. CASE WriteTmp
  BY <1>7 DEF WriteTmp
<1>8. CASE Rotate
  BY <1>8 DEF Rotate, Left
<1>9. CASE Rename
  <2>1. /\ main' = Snapshot(job.data) /\ job.at = "rename"
        /\ cache' = IF job.goal = "restore" THEN Load(job.data) ELSE cache
    BY <1>9 DEF Rename
  <2>2. main'.is = "whole" /\ main'.has = job.data
    BY <2>1 DEF Snapshot
  <2>3. job.goal \in {"normalise", "renormalise"} => cache' = Load(main'.has)
    BY <2>1, <2>2, LoadRead, SnapshotsTyped DEF TypeOK
  <2> QED BY <1>9, <2>1, <2>2, <2>3, RenameJob
<1>10. CASE WriteFails
  BY <1>10 DEF WriteFails, May
<1>11. CASE Commit
  BY <1>11 DEF Commit
<1>12. CASE AppendFails
  BY <1>12 DEF AppendFails
<1>13. CASE Close
  BY <1>13 DEF Close, disk
<1>14. CASE Archive
  BY <1>14 DEF Archive
<1>15. CASE ArchiveFails
  BY <1>15 DEF ArchiveFails, disk, May
<1>16. CASE Exit
  BY <1>16 DEF Exit, disk
<1>17. CASE Crash
  BY <1>17 DEF Crash
<1>18. CASE Damage
  BY <1>18 DEF Damage, Broken, May
<1>19. CASE UNCHANGED vars
  BY <1>19 DEF vars
<1> QED
  BY <1>1, <1>2, <1>3, <1>4, <1>5, <1>6, <1>7, <1>8, <1>9, <1>10, <1>11, <1>12,
     <1>13, <1>14, <1>15, <1>16, <1>17, <1>18, <1>19 DEF Next

(* The snapshot, its spares, the journals and the records in memory are what *)
(* they are read as, and no more backups are kept than the program is to     *)
(* keep.                                                                     *)
THEOREM TypeCorrect == Spec => []TypeOK
<1>1. Init => TypeOK /\ JobInv /\ SnapInv /\ ShapeInv
  BY TypeInit, JobInit, SnapInit, ShapeInit
<1>2. TypeOK /\ JobInv /\ SnapInv /\ ShapeInv /\ [Next]_vars
        => (TypeOK /\ JobInv /\ SnapInv /\ ShapeInv)'
  BY TypeNext, JobNext, SnapNext, ShapeNext
<1> QED BY <1>1, <1>2, PTL DEF Spec

-----------------------------------------------------------------------------
(* An operation keeps a log in order, does the same when it is replayed, and *)
(* is one change of what the log says.                                       *)
LEMMA IdFacts ==
  ASSUME NEW r \in Records
  PROVE  /\ r.id = <<r.id[1], r.id[2]>> /\ r.id[1] \in Keys /\ r.id[2] \in Nat
         /\ r.line[2] \in Nat /\ r.key \in Keys
<1>1. {r.id, r.line} \subseteq Keys \X (0..MaxOps) /\ r.key \in Keys
  BY DEF Records, Ids
<1>2. MaxOps \in Nat
  BY LogAssumption
<1>3. r.id = <<r.id[1], r.id[2]>> /\ r.id[1] \in Keys /\ r.id[2] \in Nat /\ r.line[2] \in Nat
  BY <1>1, <1>2
<1> QED BY <1>1, <1>3

LEMMA ProperLater ==
  ASSUME NEW S, NEW n \in Nat, NEW m \in Nat, n <= m, NEW E, Proper(S, n, E), NEW T \in SUBSET S
  PROVE  Proper(T, m, E)
<1>1. IsFiniteSet(T)
  BY FS_Subset DEF Proper
<1>2. ASSUME NEW x \in T PROVE x.id[2] <= m /\ x.line[2] <= m
  <2>1. x \in Records /\ x.id[2] <= n /\ x.line[2] <= n
    BY DEF Proper
  <2>2. x.id[2] \in Nat /\ x.line[2] \in Nat
    BY <2>1, IdFacts
  <2>3. \A k \in Nat : k <= n => k <= m
    OBVIOUS
  <2> QED BY <2>1, <2>2, <2>3
<1> QED BY <1>1, <1>2 DEF Proper

Orderly == /\ cache \in SUBSET Records /\ ops \in Nat /\ ops < MaxOps
           /\ Proper(cache, ops, env)
           /\ "alike" \notin env /\ ~({"edit", "import"} \subseteq env)
Keeps(e) == /\ Proper(After(e), ops + 1, env)
            /\ "twice" \notin env => Apply(cache, e) = After(e)
            /\ OneChange(Book(cache), Book(After(e)))

LEMMA DeleteKeeps ==
  ASSUME Orderly, NEW r \in cache
  PROVE  Keeps(Entry("delete", r))
<1> DEFINE e == Entry("delete", r)
<1>1. e.is = "delete" /\ e.rec = {r}
  BY DEF Entry
<1> HIDE DEF e
<1>2. After(e) = cache \ {r}
  BY <1>1 DEF After
<1>3. Apply(cache, e) = cache \ {r}
  <2>1. Apply(cache, e) = {x \in cache : x.id # r.id}
    BY <1>1 DEF Apply
  <2>2. \A x \in cache : x.id = r.id => x = r
    BY DEF Orderly, Proper
  <2> QED BY <2>1, <2>2
<1>4. Proper(cache \ {r}, ops + 1, env)
  BY ProperLater DEF Orderly
<1>5. OneChange(Book(cache), Book(cache \ {r}))
  <2> DEFINE X == {r}
             R == {}
  <2>1. /\ cache \in SUBSET Records /\ IsFiniteSet(cache)
        /\ X = {} \/ \E o \in cache : X = {o}
        /\ R = {} \/ \E z \in Records : R = {z} /\ z \notin cache \ X
    BY DEF Orderly, Proper
  <2>2. (cache \ X) \cup R = cache \ {r}
    OBVIOUS
  <2> HIDE DEF X, R
  <2>3. OneChange(Book(cache), Book((cache \ X) \cup R))
    BY <2>1, BookChange
  <2> QED BY <2>2, <2>3
<1> QED BY <1>2, <1>3, <1>4, <1>5 DEF Keeps, e

LEMMA PutKeeps ==
  ASSUME Orderly, NEW r \in Records, NEW Q, Q = {} \/ \E q \in cache : Q = {q},
         \A x \in cache : x.id = r.id <=> x \in Q,
         \A x \in cache \ Q : x.line # r.line /\ x.line # r.id /\ x.id # r.line,
         r.id[2] <= ops + 1, r.line[2] <= ops + 1,
         "twice" \notin env => \A x \in cache \ Q : x.key # r.key,
         "edit" \notin env => r.id[1] = r.key /\ r.line[1] = r.key,
         "import" \notin env => r.line = r.id
  PROVE  Keeps(Entry("put", r))
<1> DEFINE e == Entry("put", r)
           T == (cache \ Q) \cup {r}
<1>1. e.is = "put" /\ e.rec = {r}
  BY DEF Entry
<1> HIDE DEF e
<1>2. After(e) = T
  <2>1. After(e) = {x \in cache : x.id # r.id} \cup {r}
    BY <1>1 DEF After
  <2> QED BY <2>1
<1>3. "twice" \notin env => Apply(cache, e) = T
  <2>1. Apply(cache, e) = {x \in cache : x.id # r.id /\ x.key # r.key} \cup {r}
    BY <1>1 DEF Apply
  <2> QED BY <2>1
<1>4. Proper(cache \ Q, ops + 1, env)
  BY ProperLater DEF Orderly
<1>5. r \notin cache \ Q
  OBVIOUS
<1>6. Proper(T, ops + 1, env)
  <2>1. IsFiniteSet(T) /\ T \in SUBSET Records
    BY <1>4, FS_AddElement DEF Proper
  <2>2. \A x, y \in T : x.id = y.id => x = y
    BY <1>4 DEF Proper
  <2>3. \A x, y \in T : x.line = y.line \/ x.line = y.id => x = y
    BY <1>4 DEF Proper
  <2>4. \A x \in T : x.id[2] <= ops + 1 /\ x.line[2] <= ops + 1
    BY <1>4 DEF Proper
  <2>5. "twice" \notin env => \A x, y \in T : x.key = y.key => x = y
    BY <1>4 DEF Proper
  <2>6. "edit" \notin env => \A x \in T : x.id[1] = x.key /\ x.line[1] = x.key
    BY <1>4 DEF Proper
  <2>7. "import" \notin env => \A x \in T : x.line = x.id
    BY <1>4 DEF Proper
  <2> HIDE DEF T
  <2> QED BY <2>1, <2>2, <2>3, <2>4, <2>5, <2>6, <2>7 DEF Proper
<1>7. OneChange(Book(cache), Book(T))
  <2> DEFINE R == {r}
  <2>1. /\ cache \in SUBSET Records /\ IsFiniteSet(cache)
        /\ R = {} \/ \E z \in Records : R = {z} /\ z \notin cache \ Q
    BY <1>5 DEF Orderly, Proper
  <2>2. T = (cache \ Q) \cup R
    OBVIOUS
  <2> HIDE DEF R, T
  <2> QED BY <2>1, <2>2, BookChange
<1> HIDE DEF T
<1> QED BY <1>2, <1>3, <1>6, <1>7 DEF Keeps, e

LEMMA CommitKeeps ==
  ASSUME Orderly, NEW e \in Entries
  PROVE  Keeps(e)
<1>0. /\ \A x, y \in cache : x.id = y.id \/ x.line = y.line \/ x.line = y.id => x = y
      /\ \A x \in cache : x.id[2] <= ops /\ x.line[2] <= ops
      /\ "twice" \notin env => \A x, y \in cache : x.key = y.key => x = y
      /\ "edit" \notin env => \A x \in cache : x.id[1] = x.key /\ x.line[1] = x.key
      /\ "edit" \notin env \/ "import" \notin env
      /\ ops \in Nat /\ "alike" \notin env
  BY DEF Orderly, Proper
<1>i. \A x \in cache : x.id[2] \in Nat /\ x.line[2] \in Nat
  BY IdFacts DEF Orderly
<1>1. ASSUME NEW r \in Records, Fresh(r) PROVE Keeps(Entry("put", r))
  <2>1. r.id = <<r.key, ops + 1>> /\ r.id[1] = r.key /\ r.id[2] = ops + 1
    BY <1>1 DEF Fresh
  <2>2. \A x \in cache : x.id # r.id /\ x.line # r.id
    <3>1. \A n \in Nat : n <= ops => n # ops + 1
      BY <1>0
    <3> QED BY <1>0, <1>i, <2>1, <3>1
  <2>3. /\ \A x \in cache : x.line # r.line /\ x.id # r.line
        /\ r.line[2] <= ops + 1 /\ r.line[1] = r.key
        /\ "import" \notin env => r.line = r.id
    <3>1. CASE r.line = r.id
      BY <1>0, <2>1, <2>2, <3>1
    <3>2. CASE r.line # r.id
      <4>1. "edit" \notin env /\ (\A x \in cache : x.key # r.key) /\ r.line \in Marks(r.key, ops)
            /\ "import" \in env
        BY <1>0, <1>1, <3>2 DEF Fresh, Matches
      <4>2. r.line \in {r.key} \X (0..ops)
        BY <1>0, <4>1 DEF Marks
      <4>3. r.line[1] = r.key /\ r.line[2] \in 0..ops
        BY <4>2
      <4>4. \A x \in cache : x.id[1] = x.key /\ x.line[1] = x.key
        BY <1>0, <4>1
      <4>5. r.line[2] <= ops + 1
        BY <1>0, <4>3
      <4> QED BY <4>1, <4>3, <4>4, <4>5
    <3> QED BY <3>1, <3>2
  <2>4. "twice" \notin env => \A x \in cache : x.key # r.key
    BY <1>1 DEF Fresh, Fits, Matches
  <2> DEFINE Q == {}
  <2>6. /\ \A x \in cache : x.id = r.id <=> x \in Q
        /\ \A x \in cache \ Q : x.line # r.line /\ x.line # r.id /\ x.id # r.line
        /\ "twice" \notin env => \A x \in cache \ Q : x.key # r.key
        /\ Q = {} \/ \E q \in cache : Q = {q}
    BY <2>2, <2>3, <2>4
  <2>7. r.id[2] <= ops + 1
    BY <1>0, <2>1
  <2> HIDE DEF Q
  <2> QED BY <2>1, <2>3, <2>6, <2>7, PutKeeps
<1>2. ASSUME NEW r \in Records, Changed(r) PROVE Keeps(Entry("put", r))
  <2>1. PICK q \in cache : /\ r.id = q.id
                           /\ r.key = q.key \/ ("edit" \in env /\ Fits(r.key))
    BY <1>2 DEF Changed
  <2>2. r.line = r.id
    BY <1>2 DEF Changed
  <2>3. \A x \in cache : x # q => x.line # r.line /\ x.line # r.id /\ x.id # r.line
    BY <1>0, <2>1, <2>2
  <2>4. "twice" \notin env => \A x \in cache : x # q => x.key # r.key
    BY <1>0, <2>1 DEF Fits, Matches
  <2>5. r.id[2] <= ops + 1 /\ r.line[2] <= ops + 1
    <3>1. q.id[2] <= ops /\ q.id[2] \in Nat
      BY <1>0, <1>i
    <3> QED BY <1>0, <2>1, <2>2, <3>1
  <2>6. "edit" \notin env => r.id[1] = r.key /\ r.line[1] = r.key
    BY <1>0, <2>1, <2>2
  <2> DEFINE Q == {q}
  <2>7. /\ \A x \in cache : x.id = r.id <=> x \in Q
        /\ \A x \in cache \ Q : x.line # r.line /\ x.line # r.id /\ x.id # r.line
        /\ "twice" \notin env => \A x \in cache \ Q : x.key # r.key
        /\ Q = {} \/ \E o \in cache : Q = {o}
    BY <1>0, <2>1, <2>3, <2>4
  <2> HIDE DEF Q
  <2> QED BY <2>2, <2>5, <2>6, <2>7, PutKeeps
<1>3. \/ \E r \in cache : e = Entry("delete", r)
      \/ \E r \in Records : e = Entry("put", r) /\ (Fresh(r) \/ Changed(r))
  BY EntryFacts DEF Orderly
<1> QED BY <1>1, <1>2, <1>3, DeleteKeeps

-----------------------------------------------------------------------------
(* What a start would read back, and what the log holds: in memory while it  *)
(* is in use, on disk when it is not.                                        *)
Logged == Replay(Load(main.has), journal)
Held == IF InUse THEN cache ELSE Logged
Strict == Without({"torn", "twice"})

LEMMA ReplayTorn ==
  ASSUME NEW S, NEW file \in Seq(Lines), AllWhole(file)
  PROVE  Replay(S, Append(file, Torn)) = Replay(S, file)
<1>1. Append(file, Torn) \in Seq(Lines)
  BY AppendProperties, LineFacts
<1>2. Whole(Append(file, Torn)) = file
  BY TornTail
<1>3. Replay(S, Whole(Append(file, Torn))) = Replay(S, Append(file, Torn))
  BY <1>1, ReplayWhole
<1> QED BY <1>2, <1>3

LEMMA ReplayCheckpoint ==
  ASSUME NEW S \in SUBSET Records, NEW n \in Nat, NEW E, NEW file \in Seq(Lines),
         Proper(Replay(Load(S), file), n, E)
  PROVE  Replay(Load(Replay(Load(S), file)), file) = Replay(Load(S), file)
<1> DEFINE T == Replay(Load(S), file)
<1>1. Load(S) \in SUBSET Records /\ \A x \in Load(S) : Read(x) = x
  BY LoadRead
<1>2. T = Replay(Load(S), file) /\ Proper(T, n, E)
  OBVIOUS
<1> HIDE DEF T
<1>3. Replay(Load(T), file) = T
  BY <1>1, <1>2, ReplayAfterCheckpoint
<1> QED BY <1>2, <1>3

(* Without damage the log on disk says what was promised, whether or not the *)
(* last checkpoint was completed, and is what there is in memory.            *)
KeepBody ==
  /\ Proper(Held, ops, env) /\ Book(Held) = Book(promised)
  /\ InUse /\ (Strict \/ journal = <<>>) => cache = Logged
  /\ InUse /\ Strict => AllWhole(journal)
  /\ Strict \/ InUse \/ journal = <<>>
KeepInv == Durable /\ "damage" \notin env => KeepBody

LEMMA KeepInit == Init => KeepInv
<1> SUFFICES ASSUME Init, Durable PROVE KeepBody
  BY DEF KeepInv
<1>1. ~InUse /\ journal = <<>> /\ ops = 0 /\ promised = main.has
  BY DEF Init, InUse, At
<1>2. main.has = {} \/ main.has \in OldLogs
  BY DEF Init, Missing, Snapshot
<1>5. Proper(main.has, 0, env)
  <2>1. Proper({}, 0, env)
    BY FS_EmptySet DEF Proper
  <2> QED BY <1>2, <2>1, OldFacts DEF Durable
<1>4. main.has \in SUBSET Records
  BY <1>5 DEF Proper
<1>6. Proper(Load(main.has), 0, env) /\ Book(Load(main.has)) = Book(main.has)
  BY <1>5, LoadProper
<1>7. Logged = Load(main.has)
  BY <1>1, <1>4, LoadRead, ReplayNothing DEF Logged
<1> QED BY <1>1, <1>6, <1>7 DEF KeepBody, Held

LEMMA LoggedTyped ==
  ASSUME TypeOK
  PROVE  /\ main.has \in SUBSET Records /\ Load(main.has) \in SUBSET Records
         /\ Logged \in SUBSET Records /\ journal \in Seq(Lines) /\ ops \in Nat
         /\ cache \in SUBSET Records
<1>1. /\ main \in Snapshots /\ journal \in Seq(Lines) /\ ops \in Nat /\ cache \in SUBSET Records
  BY LogAssumption, TypeParts
<1>2. main.has \in SUBSET Records /\ Load(main.has) \in SUBSET Records
  BY <1>1, SnapshotsTyped, LoadRead
<1>3. Logged \in SUBSET Records
  BY <1>1, <1>2, ReplayParts DEF Logged
<1> QED BY <1>1, <1>2, <1>3

(* A step that leaves the disk as good as it was keeps it, if the program    *)
(* stays in use or stays out of it, and also if it leaves with what is there.*)
LEMMA KeepQuiet ==
  ASSUME TypeOK, KeepBody, env' = env, ops' = ops,
         Load(main'.has) = Load(main.has), journal' = journal, promised' = promised,
         InUse' => InUse /\ cache' = cache,
         InUse /\ ~InUse' => Strict \/ journal = <<>>
  PROVE  KeepBody'
<1>1. Logged' = Logged /\ Strict' = Strict
  BY DEF Logged, Strict, Without
<1>2. Held' = Held
  BY <1>1 DEF Held, KeepBody
<1>3. Proper(Held, ops, env)' /\ Book(Held)' = Book(promised)'
  BY <1>2 DEF KeepBody
<1>4. (InUse /\ (Strict \/ journal = <<>>) => cache = Logged)'
  BY <1>1 DEF KeepBody
<1>5. (InUse /\ Strict => AllWhole(journal))'
  BY <1>1 DEF KeepBody
<1>6. (Strict \/ InUse \/ journal = <<>>)'
  BY <1>1 DEF KeepBody
<1> QED BY <1>3, <1>4, <1>5, <1>6 DEF KeepBody

LEMMA KeepReplay ==
  ASSUME TypeOK, ShapeInv, JobInv, KeepBody, env' = env, ReplayJournal, "damage" \notin env
  PROVE  KeepBody'
<1>1. /\ job.goal = "none" /\ ~InUse /\ cache = Load(main.has)
  BY DEF ReplayJournal, ShapeInv, JobInv, InUse
<1>2. /\ cache' = Logged /\ journal' = Whole(journal) /\ InUse'
      /\ main' = main /\ promised' = promised /\ ops' = ops
  BY <1>1 DEF ReplayJournal, Logged, At, InUse, counts
<1>3. /\ journal \in Seq(Lines) /\ AllWhole(Whole(journal))
      /\ Replay(Load(main.has), Whole(journal)) = Logged
  BY LoggedTyped, WholeLines, ReplayWhole DEF Logged
<1>4. Logged' = Logged
  BY <1>2, <1>3 DEF Logged
<1>5. Held' = Held
  BY <1>1, <1>2 DEF Held
<1>6. Proper(Held, ops, env)' /\ Book(Held)' = Book(promised)'
  BY <1>2, <1>5 DEF KeepBody
<1> QED BY <1>2, <1>3, <1>4, <1>6 DEF KeepBody

(* An operation, which is appended and then done; the program may die        *)
(* between the two.                                                          *)
LEMMA KeepCommit ==
  ASSUME TypeOK, KeepBody, Durable, env' = env, InUse, ops < MaxOps, ops' = ops + 1,
         NEW e \in Entries, journal' = Append(journal, e), promised' = After(e),
         main' = main, InUse' => cache' = After(e), InUse' \/ Strict
  PROVE  /\ KeepBody' /\ OneChange(Book(promised), Book(promised)')
         /\ Book(cache) = Book(promised)
<1>1. Orderly
  BY LoggedTyped DEF KeepBody, Held, Durable, Orderly
<1>2. Keeps(e) /\ e \in Ops /\ After(e) \in SUBSET Records
  BY <1>1, CommitKeeps, EntriesTyped DEF Orderly
<1>3. Strict => Logged' = After(e) /\ AllWhole(journal')
  <2>1. SUFFICES ASSUME Strict PROVE Logged' = After(e) /\ AllWhole(journal')
    OBVIOUS
  <2>2. AllWhole(journal) /\ journal \in Seq(Lines) /\ Load(main.has) \in SUBSET Records
        /\ cache = Logged /\ "twice" \notin env
    BY <2>1, LoggedTyped DEF KeepBody, Strict, Without
  <2>3. Replay(Load(main.has), Append(journal, e)) = Apply(Logged, e)
    BY <1>2, <2>2, ReplayAppend DEF Logged
  <2>4. Logged' = Apply(cache, e)
    BY <2>2, <2>3 DEF Logged
  <2>5. AllWhole(Append(journal, e))
    BY <1>2, <2>2, WholeAppend
  <2> QED BY <1>2, <2>2, <2>4, <2>5 DEF Keeps
<1>4. Held' = After(e)
  BY <1>3 DEF Held
<1>5. Proper(Held, ops, env)'
  BY <1>2, <1>4 DEF Keeps
<1>6. Book(Held)' = Book(promised)'
  BY <1>4
<1>7. journal' # <<>>
  <2>1. journal \in Seq(Lines) /\ e \in Lines
    BY <1>2, LoggedTyped, LineFacts
  <2> QED BY <2>1, AppendProperties
<1>8. Strict' = Strict
  BY DEF Strict, Without
<1>9. KeepBody'
  BY <1>3, <1>5, <1>6, <1>7, <1>8 DEF KeepBody
<1>10. Book(cache) = Book(promised)
  BY DEF KeepBody, Held
<1> QED BY <1>2, <1>9, <1>10 DEF Keeps

LEMMA KeepTorn ==
  ASSUME TypeOK, KeepBody, env' = env, InUse, ops' = ops + 1, promised' = promised,
         main' = main, journal' = Append(journal, Torn), ~InUse', Strict
  PROVE  KeepBody'
<1>1. /\ journal \in Seq(Lines) /\ AllWhole(journal) /\ cache = Logged /\ ops \in Nat
  BY LoggedTyped DEF KeepBody
<1>2. Logged' = Logged
  BY <1>1, ReplayTorn DEF Logged
<1>3. Held' = Held /\ Strict' = Strict
  BY <1>1, <1>2 DEF Held, Strict, Without
<1>4. Proper(Held, ops + 1, env)
  <2>1. Proper(Held, ops, env) /\ ops + 1 \in Nat /\ ops <= ops + 1 /\ Held \in SUBSET Held
    BY <1>1 DEF KeepBody
  <2> HIDE DEF Held
  <2> QED BY <1>1, <2>1, ProperLater
<1>5. Proper(Held, ops, env)' /\ Book(Held)' = Book(promised)'
  BY <1>3, <1>4 DEF KeepBody
<1> QED BY <1>3, <1>5 DEF KeepBody

LEMMA KeepAppendFails ==
  ASSUME TypeOK, KeepBody, env' = env, AppendFails
  PROVE  KeepBody'
<1>1. /\ InUse /\ InUse' /\ ops < MaxOps /\ ops' = ops + 1 /\ promised' = promised
      /\ main' = main /\ cache' = cache /\ ~Strict
  BY DEF AppendFails, InUse, May, Strict, Without
<1>2. PICK line \in Entries \cup {Torn} : journal' = Append(journal, line)
  BY DEF AppendFails
<1>3. journal \in Seq(Lines) /\ line \in Lines /\ ops \in Nat
  BY <1>1, LoggedTyped, EntriesTyped, LineFacts
<1>4. journal' # <<>>
  BY <1>2, <1>3, AppendProperties
<1>5. Strict' = Strict
  BY DEF Strict, Without
<1>6. Held' = cache /\ Held = cache
  BY <1>1 DEF Held
<1>7. Proper(cache, ops + 1, env)
  <2>1. Proper(cache, ops, env) /\ ops + 1 \in Nat /\ ops <= ops + 1 /\ cache \in SUBSET cache
    BY <1>3, <1>6 DEF KeepBody
  <2> QED BY <1>3, <2>1, ProperLater
<1>8. Proper(Held, ops, env)' /\ Book(Held)' = Book(promised)'
  BY <1>1, <1>6, <1>7 DEF KeepBody
<1> QED BY <1>1, <1>4, <1>5, <1>8 DEF KeepBody

(* A checkpoint: the snapshot is replaced, and later the journal.            *)
LEMMA KeepRename ==
  ASSUME TypeOK, JobInv, ShapeInv, KeepBody, env' = env, Rename, "damage" \notin env
  PROVE  KeepBody'
<1>1. CASE job.goal = "create"
  <2>1. main.has = {} /\ main'.has = {}
    BY <1>1 DEF Rename, ShapeInv, Snapshot
  <2>2. ~InUse /\ ~InUse' /\ journal' = journal /\ promised' = promised /\ ops' = ops
    BY <1>1 DEF Rename, InUse, At, counts
  <2> QED BY <2>1, <2>2, KeepQuiet
<1>2. CASE job.goal = "checkpoint"
  <2>1. /\ main'.has = cache /\ InUse /\ InUse' /\ cache' = cache
        /\ journal' = journal /\ promised' = promised /\ ops' = ops
    BY <1>2 DEF Rename, ShapeInv, Snapshot, InUse, counts, JobInv, Writing
  <2>2. Strict' = Strict
    BY DEF Strict, Without
  <2>3. Held' = cache /\ Held = cache
    BY <2>1 DEF Held
  <2>4. ASSUME Strict \/ journal = <<>> PROVE cache' = Logged'
    <3>1. cache = Logged /\ Proper(Logged, ops, env)
      BY <2>1, <2>3, <2>4 DEF KeepBody
    <3>2. Replay(Load(Logged), journal) = Logged
      BY <3>1, LoggedTyped, ReplayCheckpoint DEF Logged
    <3> QED BY <2>1, <3>1, <3>2 DEF Logged
  <2>5. Proper(Held, ops, env)' /\ Book(Held)' = Book(promised)'
    BY <2>1, <2>3 DEF KeepBody
  <2> QED BY <2>1, <2>2, <2>4, <2>5 DEF KeepBody
<1>3. CASE job.goal = "normalise"
  <2>1. main'.has = Load(main.has)
    BY <1>3 DEF Rename, ShapeInv, Snapshot, Writing
  <2>2. ~InUse /\ ~InUse' /\ journal' = journal /\ promised' = promised /\ ops' = ops
    BY <1>3, RenameJob DEF Rename, InUse, At, counts
  <2>3. Load(main'.has) = Load(main.has)
    BY <2>1, LoadRead, LoggedTyped
  <2> QED BY <2>2, <2>3, KeepQuiet
<1> QED
  BY <1>1, <1>2, <1>3, RenameJob DEF ShapeInv

LEMMA KeepArchive ==
  ASSUME TypeOK, JobInv, ShapeInv, KeepBody, env' = env, Archive
  PROVE  KeepBody'
<1>1. /\ main' = main /\ main.has = cache /\ InUse /\ ~InUse'
      /\ journal' = <<>> /\ promised' = promised /\ ops' = ops
  BY DEF Archive, ShapeInv, InUse, JobInv, At
<1>2. Load(cache) \in SUBSET Records /\ ops \in Nat
  BY <1>1, LoggedTyped
<1>3. Logged' = Load(cache)
  BY <1>1, <1>2, ReplayNothing DEF Logged
<1>4. Held = cache /\ Held' = Load(cache)
  BY <1>1, <1>3 DEF Held
<1>5. Proper(Load(cache), ops, env) /\ Book(Load(cache)) = Book(cache)
  BY <1>2, <1>4, LoadProper DEF KeepBody
<1>6. Proper(Held, ops, env)' /\ Book(Held)' = Book(promised)'
  BY <1>1, <1>4, <1>5 DEF KeepBody
<1> QED BY <1>1, <1>6 DEF KeepBody

LEMMA SameDurable == [Next]_vars => Durable' = Durable /\ Strict' = Strict
BY SameSurroundings DEF Durable, Strict, Without

(* The program may die between any two steps, or in one.                     *)
LEMMA CrashShape ==
  ASSUME Crash
  PROVE  /\ main' = main /\ archives' = archives /\ ~InUse' /\ cache' = {} /\ "crash" \in env
         /\ job' = At("down")
         /\ \/ UNCHANGED <<journal, ops, promised>>
            \/ /\ InUse /\ ops < MaxOps /\ ops' = ops + 1
               /\ \/ journal' = Append(journal, Torn) /\ UNCHANGED promised
                  \/ \E e \in Entries : journal' = Append(journal, e) /\ promised' = After(e)
<1>1. main' = main /\ archives' = archives /\ cache' = {} /\ "crash" \in env /\ job' = At("down")
  BY DEF Crash, May
<1>2. ~InUse'
  BY <1>1 DEF InUse, At
<1>3. \/ UNCHANGED <<journal, ops, promised>>
      \/ /\ job.at = "up" /\ ops < MaxOps /\ ops' = ops + 1
         /\ \/ journal' = Append(journal, Torn) /\ UNCHANGED promised
            \/ \E e \in Entries : journal' = Append(journal, e) /\ promised' = After(e)
  BY DEF Crash
<1> QED BY <1>1, <1>2, <1>3 DEF InUse

LEMMA KeepNext ==
  TypeOK /\ JobInv /\ SnapInv /\ ShapeInv /\ KeepInv /\ [Next]_vars => KeepInv'
<1> SUFFICES ASSUME TypeOK, JobInv, SnapInv, ShapeInv, KeepBody, [Next]_vars,
                    Durable, "damage" \notin env
             PROVE  KeepBody'
  BY SameDurable, SameSurroundings DEF KeepInv
<1>0. /\ env' = env /\ main.is # "broken" /\ job.at # "archives"
      /\ job.goal \notin {"restore", "renormalise", "rewrite"}
      /\ "crash" \in env \/ "fail" \in env => Strict
  BY SameSurroundings DEF ShapeInv, Durable, Strict, Without
<1> USE <1>0 DEF At, Write, Unclosed, counts, disk
<1>1. CASE Start
  <2>1. ~InUse /\ ~InUse'
    BY <1>1 DEF Start, InUse, JobInv, Opening
  <2> QED BY <1>1, <2>1, KeepQuiet DEF Start
<1>2. CASE LoadMain
  <2>1. ~InUse /\ ~InUse'
    BY <1>2, LoadJob DEF LoadMain, InUse, JobInv, Opening
  <2> QED BY <1>2, <2>1, KeepQuiet DEF LoadMain
<1>3. CASE LoadSpare \/ LoadNothing
  BY <1>3 DEF LoadSpare, LoadNothing
<1>4. CASE ReplayArchives
  BY <1>4 DEF ReplayArchives
<1>5. CASE ReplayJournal
  BY <1>5, KeepReplay
<1>6. CASE WriteTmp
  <2>1. InUse' <=> InUse
    BY <1>6 DEF WriteTmp, InUse, JobInv
  <2> QED BY <1>6, <2>1, KeepQuiet DEF WriteTmp
<1>7. CASE Rotate
  <2>1. InUse' <=> InUse
    BY <1>7 DEF Rotate, InUse, JobInv
  <2>2. main' = main
    BY <1>7 DEF Rotate, Left
  <2> QED BY <1>7, <2>1, <2>2, KeepQuiet DEF Rotate
<1>8. CASE Rename
  BY <1>8, KeepRename
<1>9. CASE WriteFails
  <2>1. (InUse' <=> InUse) /\ (InUse' => cache' = cache)
    BY <1>9 DEF WriteFails, InUse, JobInv
  <2> QED BY <1>9, <2>1, KeepQuiet DEF WriteFails
<1>10. CASE Commit
  <2>1. PICK e \in Entries : journal' = Append(journal, e) /\ cache' = After(e) /\ promised' = After(e)
    BY <1>10 DEF Commit
  <2>2. /\ InUse /\ InUse' /\ ops < MaxOps /\ ops' = ops + 1 /\ main' = main
    BY <1>10 DEF Commit, InUse
  <2> QED BY <2>1, <2>2, KeepCommit
<1>11. CASE AppendFails
  BY <1>11, KeepAppendFails
<1>12. CASE Close
  <2>1. /\ InUse' => cache' = cache
        /\ InUse /\ ~InUse' => journal = <<>>
        /\ InUse
    BY <1>12 DEF Close, InUse
  <2> QED BY <1>12, <2>1, KeepQuiet DEF Close
<1>13. CASE Archive
  BY <1>13, KeepArchive
<1>14. CASE ArchiveFails
  <2>1. InUse
    BY <1>14 DEF ArchiveFails, InUse, JobInv
  <2> QED BY <1>14, <2>1, KeepQuiet DEF ArchiveFails, InUse
<1>15. CASE Exit
  <2>1. InUse /\ ~InUse' /\ Strict
    BY <1>15 DEF Exit, InUse, ShapeInv
  <2> QED BY <1>15, <2>1, KeepQuiet DEF Exit
<1>16. CASE Crash
  <2>0. /\ main' = main /\ ~InUse' /\ Strict
        /\ \/ UNCHANGED <<journal, ops, promised>>
           \/ /\ InUse /\ ops < MaxOps /\ ops' = ops + 1
              /\ \/ journal' = Append(journal, Torn) /\ UNCHANGED promised
                 \/ \E e \in Entries : journal' = Append(journal, e) /\ promised' = After(e)
    BY <1>16, CrashShape
  <2>1. CASE UNCHANGED <<journal, ops, promised>>
    BY <2>0, <2>1, KeepQuiet
  <2>2. CASE InUse /\ ops' = ops + 1 /\ journal' = Append(journal, Torn) /\ UNCHANGED promised
    BY <2>0, <2>2, KeepTorn
  <2>3. CASE /\ InUse /\ ops < MaxOps /\ ops' = ops + 1
             /\ \E e \in Entries : journal' = Append(journal, e) /\ promised' = After(e)
    <3>1. PICK e \in Entries : journal' = Append(journal, e) /\ promised' = After(e)
      BY <2>3
    <3> QED BY <2>0, <2>3, <3>1, KeepCommit
  <2> QED BY <2>0, <2>1, <2>2, <2>3
<1>17. CASE Damage
  BY <1>17 DEF Damage, May
<1>18. CASE UNCHANGED vars
  BY <1>18, KeepQuiet DEF vars, InUse
<1> QED
  BY <1>1, <1>2, <1>3, <1>4, <1>5, <1>6, <1>7, <1>8, <1>9, <1>10, <1>11, <1>12,
     <1>13, <1>14, <1>15, <1>16, <1>17, <1>18 DEF Next

-----------------------------------------------------------------------------
(* Where nothing but crashes disturbs a log that began here, all of its      *)
(* journals together give what the snapshot and the last of them do.         *)
History == Replay(ReplayAll({}, archives), journal)
HistInv == env \subseteq {"crash", "edit"} => History = Logged

LEMMA HistInit == Init => HistInv
<1> SUFFICES ASSUME Init, env \subseteq {"crash", "edit"} PROVE History = Logged
  BY DEF HistInv
<1>1. main.has = {} /\ archives = <<>> /\ journal = <<>>
  BY DEF Init, Missing, Snapshot
<1>2. {} \in SUBSET Records /\ Load({}) = {}
  BY LoadRead
<1> QED BY <1>1, <1>2, ReplayAllNothing DEF History, Logged

LEMMA HistNext ==
  /\ TypeOK /\ JobInv /\ SnapInv /\ ShapeInv /\ KeepInv /\ HistInv /\ [Next]_vars
  => HistInv'
<1> SUFFICES ASSUME TypeOK, JobInv, SnapInv, ShapeInv, KeepInv, HistInv, [Next]_vars,
                    env \subseteq {"crash", "edit"}
             PROVE  History' = Logged'
  BY SameSurroundings DEF HistInv
<1>b. History = Logged
  BY DEF HistInv
<1>c. Durable /\ "damage" \notin env
  BY DEF Durable, Without
<1>d. KeepBody /\ KeepBody'
  <2>1. KeepInv' /\ env' = env /\ Durable'
    BY <1>c, KeepNext, SameDurable, SameSurroundings
  <2> QED BY <1>c, <2>1 DEF KeepInv
<1> USE <1>b, <1>d
<1>0. /\ env' = env /\ main.is # "broken" /\ job.at # "archives" /\ Strict
      /\ job.goal \notin {"restore", "renormalise", "rewrite"} 
      /\ "fail" \notin env /\ "torn" \notin env /\ "damage" \notin env /\ "import" \notin env
  BY SameSurroundings DEF ShapeInv, Strict, Without
<1>a. /\ archives \in Seq(Seq(Lines)) /\ journal \in Seq(Lines)
      /\ Load(main.has) \in SUBSET Records
      /\ ReplayAll({}, archives) \in SUBSET Records /\ ops \in Nat
  BY LoggedTyped, ReplayAllParts, TypeParts
<1>1. CASE archives' = archives /\ journal' = journal /\ Load(main'.has) = Load(main.has)
  BY <1>1 DEF History, Logged
<1>2. CASE archives' = archives /\ journal' = Whole(journal) /\ main' = main
  BY <1>2, <1>a, ReplayWhole DEF History, Logged
<1>3. ASSUME InUse, main' = main, archives' = archives, ops < MaxOps,
             NEW e \in Entries, journal' = Append(journal, e)
      PROVE  History' = Logged'
  <2>1. AllWhole(journal) /\ e \in Ops
    BY <1>0, <1>3, EntriesTyped, LoggedTyped DEF KeepBody
  <2> QED BY <1>3, <1>a, <2>1, ReplayAppend DEF History, Logged
<1>4. ASSUME InUse, main' = main, archives' = archives, journal' = Append(journal, Torn)
      PROVE  History' = Logged'
  <2>1. AllWhole(journal)
    BY <1>0, <1>4 DEF KeepBody
  <2> QED BY <1>4, <1>a, <2>1, ReplayTorn DEF History, Logged
<1>5. CASE Archive
  <2>1. InUse /\ main' = main /\ main.has = cache /\ cache = Logged /\ journal' = <<>>
        /\ archives' = Append(archives, journal)
    BY <1>0, <1>5 DEF Archive, Archived, InUse, ShapeInv, JobInv, KeepBody, May
  <2>2. ReplayAll({}, archives') = Logged
    BY <1>a, <2>1, ReplayAllAppend DEF History
  <2>3. Load(cache) = cache
    BY <1>0, <1>a, <2>1, LoadProper DEF KeepBody, Held
  <2>4. Logged \in SUBSET Records
    BY LoggedTyped
  <2>5. History' = Logged
    BY <2>1, <2>2, <2>4, ReplayNothing DEF History
  <2>6. Logged' = Logged
    BY <2>1, <2>3, <2>4, ReplayNothing DEF Logged
  <2> QED BY <2>5, <2>6
<1>6. CASE Rename
  <2>1. CASE job.goal = "create"
    BY <1>1, <1>6, <2>1 DEF Rename, ShapeInv, Snapshot
  <2>2. CASE job.goal = "checkpoint"
    <3>1. InUse /\ InUse' /\ cache' = cache /\ journal' = journal /\ archives' = archives
        BY <1>6, <2>2 DEF Rename, InUse, JobInv
    <3>2. cache = Logged /\ cache' = Logged'
      BY <1>0, <3>1, SameDurable DEF KeepBody
    <3> QED BY <3>1, <3>2 DEF History
  <2>3. CASE job.goal = "normalise"
    <3>1. main'.has = Load(main.has) /\ archives' = archives /\ journal' = journal
      BY <1>6, <2>3 DEF Rename, ShapeInv, Snapshot, Writing
    <3> QED BY <1>1, <3>1, LoadRead, LoggedTyped
  <2> QED BY <1>0, <1>6, <2>1, <2>2, <2>3, RenameJob
<1>7. CASE ReplayJournal
  BY <1>2, <1>7 DEF ReplayJournal
<1>8. CASE Commit
  BY <1>3, <1>8 DEF Commit, InUse
<1>9. CASE Crash
  <2>0. /\ main' = main /\ archives' = archives
        /\ \/ UNCHANGED <<journal, ops, promised>>
           \/ /\ InUse /\ ops < MaxOps /\ ops' = ops + 1
              /\ \/ journal' = Append(journal, Torn) /\ UNCHANGED promised
                 \/ \E e \in Entries : journal' = Append(journal, e) /\ promised' = After(e)
    BY <1>9, CrashShape
  <2> QED BY <1>1, <1>3, <1>4, <2>0
<1>10. CASE Rotate
  BY <1>1, <1>10 DEF Rotate, Left
<1> QED
  BY <1>0, <1>1, <1>5, <1>6, <1>7, <1>8, <1>9, <1>10
     DEF Next, vars, disk, May, Start, LoadMain, LoadSpare, LoadNothing, ReplayArchives,
         WriteTmp, WriteFails, AppendFails, Close, ArchiveFails, Exit, Damage

-----------------------------------------------------------------------------
(* Where the snapshot is found damaged, but recoveries are undisturbed: the  *)
(* logs from which all the journals lead to what was promised. The snapshot  *)
(* and every spare that can be read is one, and so is what was promised.     *)
Damaged == /\ Without({"crash", "fail", "import", "alike", "torn", "twice"})
           /\ Without({"ruin"}) \/ Without({"old"})
Origins == {S \in SUBSET Records : /\ Proper(S, ops, env)
                                   /\ Replay(ReplayAll(S, archives), journal) = promised}
HasBackup == \E i \in Readable : ~spares[i].tmp

JournalsGood ==
  /\ AllWhole(journal) /\ \A i \in DOMAIN archives : AllWhole(archives[i])
  /\ promised \in Origins
  /\ "old" \notin env => {} \in Origins
SparesGood == \A i \in Readable : spares[i].of.has \in Origins
JobGood ==
  /\ main.is = "whole" => main.has \in Origins
  /\ InUse => cache = promised
  /\ ~InUse => journal = <<>>
  /\ journal = <<>> /\ main.is = "whole" =>
       \/ main.has = promised \/ job.at = "archives"
       \/ job.goal \in {"renormalise", "rewrite"}
  /\ job.goal = "restore" => job.data \in Origins /\ main.is = "missing"
  /\ job.at = "archives" => cache \in Origins
  /\ job.goal = "rewrite" => cache = promised
OldGood ==
  "old" \in env =>
    /\ archives # <<>> \/ (job.at \in {"rename", "archive"} /\ job.goal = "checkpoint")
         => HasBackup
    /\ job.goal \in {"renormalise", "rewrite"} \/ job.at = "archives" => main.is = "whole"
DamageBody == JournalsGood /\ SparesGood /\ JobGood /\ OldGood
DamageInv == Damaged => DamageBody

LEMMA DamageInit == Init => DamageInv
<1> SUFFICES ASSUME Init, Damaged PROVE DamageBody
  BY DEF DamageInv
<1>1. /\ ~InUse /\ journal = <<>> /\ archives = <<>> /\ spares = <<>> /\ ops = 0
      /\ promised = main.has /\ job = At("down") /\ "import" \notin env
  BY DEF Init, InUse, At, Damaged, Without
<1>2. Proper(main.has, 0, env)
  <2>1. main.has = {} \/ main.has \in OldLogs
    BY DEF Init, Missing, Snapshot
  <2>2. Proper({}, 0, env)
    BY FS_EmptySet DEF Proper
  <2> QED BY <2>1, <2>2, OldFacts DEF Damaged, Without
<1>3. main.has \in SUBSET Records
  BY <1>2 DEF Proper
<1>4. promised \in Origins
  BY <1>1, <1>2, <1>3, ReplayAllNothing, ReplayNothing DEF Origins
<1>5. "old" \notin env => promised = {}
  BY DEF Init, Missing, Snapshot
<1>6. DOMAIN spares = {} /\ DOMAIN archives = {} /\ DOMAIN journal = {}
  BY <1>1
<1>7. JournalsGood
  BY <1>4, <1>5, <1>6 DEF JournalsGood, AllWhole
<1>8. SparesGood
  BY <1>6 DEF SparesGood, Readable
<1>9. JobGood
  BY <1>1, <1>4 DEF JobGood, At
<1>10. OldGood
  BY <1>1 DEF OldGood, At
<1> QED BY <1>7, <1>8, <1>9, <1>10 DEF DamageBody

LEMMA DamagedTyped ==
  ASSUME TypeOK
  PROVE  /\ journal \in Seq(Lines) /\ archives \in Seq(Seq(Lines))
         /\ promised \in SUBSET Records /\ cache \in SUBSET Records /\ ops \in Nat
         /\ \A S \in SUBSET Records : ReplayAll(S, archives) \in SUBSET Records
BY TypeParts, ReplayAllParts, LogAssumption

(* Whatever the program does, origins stay origins.                          *)
LEMMA OriginsKept ==
  ASSUME TypeOK, JobInv, ShapeInv, Damaged, DamageBody, [Next]_vars
  PROVE  /\ Origins \subseteq Origins' /\ JournalsGood'
<1>a. /\ journal \in Seq(Lines) /\ archives \in Seq(Seq(Lines))
      /\ promised \in SUBSET Records /\ cache \in SUBSET Records /\ ops \in Nat
      /\ \A S \in SUBSET Records : ReplayAll(S, archives) \in SUBSET Records
  BY DamagedTyped
<1>b. /\ env' = env /\ "alike" \notin env
      /\ "crash" \notin env /\ "fail" \notin env /\ "import" \notin env /\ "torn" \notin env
      /\ "twice" \notin env
  BY SameSurroundings DEF Damaged, Without
<1>c. /\ AllWhole(journal) /\ \A i \in DOMAIN archives : AllWhole(archives[i])
      /\ promised \in Origins /\ ("old" \notin env => {} \in Origins)
      /\ (InUse => cache = promised) /\ (~InUse => journal = <<>>)
  BY DEF DamageBody, JournalsGood, JobGood
<1>1. CASE UNCHANGED <<journal, archives, promised, ops>>
  <2>1. Origins' = Origins
    BY <1>1, <1>b DEF Origins
  <2> QED BY <1>1, <1>b, <1>c, <2>1 DEF JournalsGood
<1>2. CASE ReplayArchives
  <2>1. Len(archives) \in Nat /\ DOMAIN archives = 1..Len(archives)
        /\ archives \in [1..Len(archives) -> Seq(Lines)]
        /\ \A i \in DOMAIN archives : archives[i] \in Seq(Lines)
    BY <1>a, LenProperties, ElementOfSeq
  <2>2. \A i \in DOMAIN archives : Whole(archives[i]) = archives[i]
    BY <1>c, <2>1, WholeLines
  <2>3. archives' = archives
    BY <1>2, <2>1, <2>2 DEF ReplayArchives
  <2> QED BY <1>1, <1>2, <2>3 DEF ReplayArchives, counts
<1>3. CASE ReplayJournal
  <2>1. journal' = journal
    BY <1>3, <1>a, <1>c, WholeLines DEF ReplayJournal
  <2> QED BY <1>1, <1>3, <2>1 DEF ReplayJournal, counts
<1>4. CASE Commit
  <2>1. PICK e \in Entries : journal' = Append(journal, e) /\ cache' = After(e) /\ promised' = After(e)
    BY <1>4 DEF Commit
  <2>2. InUse /\ ops < MaxOps /\ ops' = ops + 1 /\ archives' = archives /\ cache = promised
    BY <1>4, <1>c DEF Commit, InUse
  <2>3. Orderly
    BY <1>a, <1>b, <1>c, <2>2 DEF Orderly, Origins
  <2>4. Keeps(e) /\ e \in Ops /\ After(e) \in SUBSET Records
    BY <2>3, CommitKeeps, EntriesTyped DEF Orderly
  <2>5. /\ AllWhole(journal') /\ journal' \in Seq(Lines)
        /\ Apply(promised, e) = promised' /\ Proper(promised', ops + 1, env)
    BY <1>a, <1>b, <1>c, <2>1, <2>2, <2>4, WholeAppend DEF Keeps
  <2>6. ASSUME NEW S \in Origins PROVE S \in Origins'
    <3>1. S \in SUBSET Records /\ Proper(S, ops, env)
          /\ Replay(ReplayAll(S, archives), journal) = promised
      BY DEF Origins
    <3>2. Replay(ReplayAll(S, archives), journal') = promised'
      <4>1. Replay(ReplayAll(S, archives), Append(journal, e)) = Apply(promised, e)
        BY <1>a, <1>c, <2>4, <3>1, ReplayAppend
      <4> QED BY <2>1, <2>5, <4>1
    <3>3. Proper(S, ops + 1, env)
      <4>1. ops \in Nat /\ ops + 1 \in Nat /\ ops <= ops + 1
        BY <1>a
      <4> QED BY <3>1, <4>1, ProperLater
    <3> QED BY <1>b, <2>2, <3>1, <3>2, <3>3 DEF Origins
  <2>7. promised' \in Origins'
    <3>1. promised \in Origins' /\ promised \in SUBSET Records
      BY <1>a, <1>c, <2>6
    <3>2. promised' = Replay(ReplayAll(promised, archives), journal')
      BY <2>2, <3>1 DEF Origins
    <3>3. Replay(ReplayAll(promised', archives), journal') = promised'
      BY <1>a, <2>5, <3>1, <3>2, ReplayAgain
    <3> QED BY <1>b, <2>1, <2>2, <2>4, <2>5, <3>3 DEF Origins
  <2> QED BY <1>b, <1>c, <2>2, <2>5, <2>6, <2>7 DEF JournalsGood
<1>5. CASE Archive
  <2>1. /\ archives' = Append(archives, journal) /\ journal' = <<>>
        /\ promised' = promised /\ ops' = ops
    BY <1>5, <1>b DEF Archive, Archived, May
  <2>2. Origins' = Origins
    <3>1. ASSUME NEW S \in SUBSET Records
          PROVE  Replay(ReplayAll(S, archives'), journal') = Replay(ReplayAll(S, archives), journal)
      <4>1. ReplayAll(S, archives') = Replay(ReplayAll(S, archives), journal)
        BY <1>a, <2>1, ReplayAllAppend
      <4>2. Replay(ReplayAll(S, archives), journal) \in SUBSET Records
        BY <1>a, ReplayParts
      <4> QED BY <2>1, <4>1, <4>2, ReplayNothing
    <3> QED BY <1>b, <2>1, <3>1 DEF Origins
  <2>3. \A i \in DOMAIN archives' : AllWhole(archives'[i])
    <3>1. /\ Len(archives) \in Nat /\ DOMAIN archives = 1..Len(archives)
          /\ archives' \in Seq(Seq(Lines)) /\ Len(archives') = Len(archives) + 1
          /\ \A i \in 1..Len(archives) : archives'[i] = archives[i]
          /\ archives'[Len(archives) + 1] = journal
      BY <1>a, <2>1, AppendProperties, LenProperties
    <3>2. DOMAIN archives' = 1..(Len(archives) + 1)
      BY <3>1, LenProperties
    <3>3. \A i \in 1..(Len(archives) + 1) : i \in 1..Len(archives) \/ i = Len(archives) + 1
      BY <3>1
    <3> QED BY <1>c, <3>1, <3>2, <3>3
  <2>4. AllWhole(journal')
    BY <2>1 DEF AllWhole
  <2> QED BY <1>b, <1>c, <2>1, <2>2, <2>3, <2>4 DEF JournalsGood
<1> QED
  BY <1>b, <1>1, <1>2, <1>3, <1>4, <1>5
     DEF Next, vars, disk, counts, May, Start, LoadMain, LoadSpare, LoadNothing, WriteTmp,
         Rotate, Rename, WriteFails, AppendFails, Close, ArchiveFails, Exit, Crash, Damage

LEMMA PrependElements ==
  ASSUME NEW files \in Seq(Files), NEW f \in Files
  PROVE  /\ \A i \in DOMAIN (<<f>> \o files) :
              (<<f>> \o files)[i] = f \/ \E j \in DOMAIN files : (<<f>> \o files)[i] = files[j]
         /\ \A j \in DOMAIN files :
              \E i \in DOMAIN (<<f>> \o files) : (<<f>> \o files)[i] = files[j]
         /\ \E i \in DOMAIN (<<f>> \o files) : (<<f>> \o files)[i] = f
<1> DEFINE longer == <<f>> \o files
           n == Len(files)
<1>1. /\ longer \in Seq(Files) /\ Len(longer) = n + 1 /\ longer[1] = f
      /\ \A i \in DOMAIN files : longer[i + 1] = files[i]
  BY PrependFacts
<1> HIDE DEF longer
<1>2. n \in Nat /\ DOMAIN files = 1..n /\ DOMAIN longer = 1..(n + 1)
  BY <1>1, LenProperties
<1>3. ASSUME NEW i \in DOMAIN longer PROVE longer[i] = f \/ \E j \in DOMAIN files : longer[i] = files[j]
  <2>1. CASE i = 1
    BY <1>1, <2>1
  <2>2. CASE i # 1
    <3>1. i - 1 \in 1..n /\ (i - 1) + 1 = i
      BY <1>2, <2>2
    <3>2. longer[i] = files[i - 1]
      BY <1>1, <1>2, <3>1
    <3> QED BY <1>2, <3>1, <3>2
  <2> QED BY <2>1, <2>2
<1>4. ASSUME NEW j \in DOMAIN files PROVE \E i \in DOMAIN longer : longer[i] = files[j]
  <2>1. j + 1 \in DOMAIN longer
    BY <1>2
  <2> QED BY <1>1, <2>1
<1>5. 1 \in DOMAIN longer
  BY <1>2
<1> QED BY <1>1, <1>3, <1>4, <1>5 DEF longer

LEMMA OriginLoads ==
  ASSUME TypeOK, Damaged, NEW S \in Origins
  PROVE  Load(S) = S
BY LoadProper, DamagedTyped DEF Origins, Damaged, Without

(* What is being written is an origin.                                       *)
LEMMA DataGood ==
  ASSUME TypeOK, JobInv, SnapInv, ShapeInv, Damaged, DamageBody, job.at \in Writing
  PROVE  job.data \in Origins
<1>1. promised \in Origins
  BY DEF DamageBody, JournalsGood
<1>2. CASE job.goal = "create"
  <2>1. job.data = {} /\ promised = {}
    BY <1>2 DEF ShapeInv, SnapInv, Undisturbed, Damaged, Without
  <2> QED BY <1>1, <2>1
<1>3. CASE job.goal = "restore"
  BY <1>3 DEF DamageBody, JobGood
<1>4. CASE job.goal \in {"rewrite", "checkpoint"}
  BY <1>1, <1>4 DEF DamageBody, JobGood, ShapeInv, InUse
<1>5. CASE job.goal \in {"normalise", "renormalise"}
  <2>1. job.data = Load(main.has) /\ main.has \in Origins
    BY <1>5 DEF DamageBody, JobGood, ShapeInv
  <2> QED BY <2>1, OriginLoads
<1> QED BY <1>2, <1>3, <1>4, <1>5 DEF JobInv, Goals

LEMMA StillKept ==
  "fail" \notin env /\ "crash" \notin env => Moved = {Kept(spares)}
BY DEF Moved, Without

LEMMA SparesGoodNext ==
  ASSUME TypeOK, JobInv, SnapInv, ShapeInv, Damaged, DamageBody, [Next]_vars
  PROVE  SparesGood'
<1>0. /\ SparesOK(spares) /\ main \in Snapshots /\ job.data \in SUBSET Records
  BY TypeParts
<1>a. Origins \subseteq Origins' /\ "fail" \notin env /\ "crash" \notin env
  BY OriginsKept DEF Damaged, Without
<1>b. \A i \in DOMAIN spares : spares[i].of.is # "broken" => spares[i].of.has \in Origins'
  BY <1>a DEF DamageBody, SparesGood, Readable
<1> SUFFICES ASSUME NEW i \in DOMAIN spares', spares'[i].of.is # "broken"
             PROVE  spares'[i].of.has \in Origins'
  BY DEF SparesGood, Readable
<1>1. CASE \E j \in DOMAIN spares : spares'[i].of = spares[j].of
  BY <1>b, <1>1
<1>2. CASE UNCHANGED spares
  BY <1>1, <1>2
<1>3. CASE WriteTmp
  <2> DEFINE f == File(TRUE, Snapshot(job.data))
  <2>1. f \in Files /\ f.of.has = job.data
    BY <1>0, SnapshotsTyped DEF File, Files, Snapshot
  <2>2. spares' = <<f>> \o spares /\ job.data \in Origins'
    BY <1>3, <1>a, DataGood DEF WriteTmp, Writing
  <2> HIDE DEF f
  <2>3. spares'[i] = f \/ \E j \in DOMAIN spares : spares'[i] = spares[j]
    BY <1>0, <2>1, <2>2, PrependElements DEF SparesOK
  <2> QED BY <1>1, <2>1, <2>2, <2>3
<1>4. CASE Rotate
  <2> DEFINE f == File(FALSE, main)
  <2>1. f \in Files /\ f.of = main
    BY <1>0 DEF File, Files
  <2>2. spares' = <<f>> \o Kept(spares)
    BY <1>4, <1>a, StillKept DEF Rotate, May, Copied
  <2> HIDE DEF f
  <2>3. Kept(spares) \in Seq(Files)
        /\ \A k \in DOMAIN Kept(spares) : \E j \in DOMAIN spares : Kept(spares)[k] = spares[j]
    BY <1>0, KeptFacts DEF SparesOK
  <2>4. spares'[i] = f \/ \E k \in DOMAIN Kept(spares) : spares'[i] = Kept(spares)[k]
    BY <2>1, <2>2, <2>3, PrependElements
  <2>5. spares'[i] = f \/ \E j \in DOMAIN spares : spares'[i] = spares[j]
    BY <2>3, <2>4
  <2>6. main.is # "broken" => main.has \in Origins'
    BY <1>0, <1>4, <1>a, SnapshotsTyped DEF Rotate, ShapeInv, DamageBody, JobGood
  <2> QED BY <1>1, <2>1, <2>5, <2>6
<1>5. CASE Rename
  <2>1. HasTmp /\ spares' = RemoveAt(spares, Tmp)
    BY <1>5 DEF Rename, ShapeInv
  <2>2. Tmp \in DOMAIN spares
    BY <1>0, <2>1, TmpOK
  <2>3. \E j \in DOMAIN spares : spares'[i] = spares[j]
    BY <1>0, <2>1, <2>2, RemoveFacts DEF SparesOK
  <2> QED BY <1>1, <2>3
<1>6. CASE Damage
  <2>1. PICK lost : spares' = [j \in DOMAIN spares |->
                       IF j \in lost THEN [spares[j] EXCEPT !.of = Broken] ELSE spares[j]]
    BY <1>6 DEF Damage
  <2>2. spares[i] \in Files /\ i \in DOMAIN spares
    BY <1>0, <2>1, LenProperties, ElementOfSeq DEF SparesOK
  <2>3. CASE i \in lost
    <3>1. spares'[i].of = Broken
      BY <2>1, <2>2, <2>3 DEF Files
    <3> QED BY <3>1 DEF Broken
  <2>4. CASE i \notin lost
    BY <1>1, <2>1, <2>2, <2>4
  <2> QED BY <2>3, <2>4
<1>7. CASE WriteFails \/ Crash
  BY <1>7, <1>a DEF WriteFails, Crash, May
<1> QED
  BY <1>2, <1>3, <1>4, <1>5, <1>6, <1>7
     DEF Next, vars, disk, Start, LoadMain, LoadSpare, LoadNothing, ReplayArchives,
         ReplayJournal, Commit, AppendFails, Close, Archive, ArchiveFails, Exit

(* In a log that did not begin here, a backup that can be read is there      *)
(* before the first journal is put away, and stays.                          *)
LEMMA BackupKept ==
  ASSUME TypeOK, JobInv, SnapInv, ShapeInv, Damaged, DamageBody, [Next]_vars, "old" \in env
  PROVE  /\ HasBackup => HasBackup'
         /\ Rotate => HasBackup'
<1>0. /\ SparesOK(spares) /\ main \in Snapshots /\ job.data \in SUBSET Records
  BY TypeParts
<1>a. "fail" \notin env /\ "crash" \notin env /\ "ruin" \notin env
  BY DEF Damaged, Without
<1>1. ASSUME NEW j \in DOMAIN spares, ~spares[j].tmp, spares[j].of.is # "broken",
             \E i \in DOMAIN spares' : spares'[i] = spares[j]
      PROVE  HasBackup'
  BY <1>1 DEF HasBackup, Readable
<1>2. Rotate => HasBackup'
  <2> SUFFICES ASSUME Rotate PROVE HasBackup'
    OBVIOUS
  <2> DEFINE f == File(FALSE, main)
  <2>1. f \in Files /\ f.of = main /\ ~f.tmp
    BY <1>0 DEF File, Files
  <2>2. spares' = <<f>> \o Kept(spares)
    BY <1>a, StillKept DEF Rotate, May, Copied
  <2> HIDE DEF f
  <2>3. Kept(spares) \in Seq(Files)
    BY <1>0, KeptFacts DEF SparesOK
  <2>4. PICK i \in DOMAIN spares' : spares'[i] = f
    BY <2>1, <2>2, <2>3, PrependElements
  <2>5. main.is = "whole"
    BY DEF Rotate, JobInv, Writing, Goals, ShapeInv, InUse, DamageBody, JobGood, OldGood
  <2> QED BY <2>1, <2>4, <2>5 DEF HasBackup, Readable
<1>3. ASSUME HasBackup PROVE HasBackup'
  <2>1. PICK j \in DOMAIN spares : ~spares[j].tmp /\ spares[j].of.is # "broken"
    BY <1>3 DEF HasBackup, Readable
  <2>2. CASE UNCHANGED spares
    BY <1>1, <2>1, <2>2
  <2>3. CASE WriteTmp
    <3> DEFINE f == File(TRUE, Snapshot(job.data))
    <3>1. f \in Files /\ spares' = <<f>> \o spares
      BY <1>0, <2>3, SnapshotsTyped DEF File, Files, WriteTmp
    <3> HIDE DEF f
    <3>2. \E i \in DOMAIN spares' : spares'[i] = spares[j]
      BY <1>0, <3>1, PrependElements DEF SparesOK
    <3> QED BY <1>1, <2>1, <3>2
  <2>4. CASE Rename
    <3>1. HasTmp /\ spares' = RemoveAt(spares, Tmp)
      BY <2>4 DEF Rename, ShapeInv
    <3>2. Tmp \in DOMAIN spares /\ spares[Tmp].tmp
      BY <1>0, <3>1, TmpOK
    <3>3. j \in DOMAIN spares \ {Tmp}
      BY <2>1, <3>2
    <3>4. \E i \in DOMAIN spares' : spares'[i] = spares[j]
      BY <1>0, <3>1, <3>2, <3>3, RemoveFacts DEF SparesOK
    <3> QED BY <1>1, <2>1, <3>4
  <2>5. CASE Damage
    <3>1. spares' = [i \in DOMAIN spares |->
                       IF i \in {} THEN [spares[i] EXCEPT !.of = Broken] ELSE spares[i]]
      BY <1>a, <2>5 DEF Damage
    <3>2. j \in DOMAIN spares' /\ spares'[j] = spares[j]
      BY <3>1
    <3> QED BY <1>1, <2>1, <3>2
  <2>6. CASE WriteFails \/ Crash
    BY <2>6, <1>a DEF WriteFails, Crash, May
  <2> QED
    BY <1>2, <2>2, <2>3, <2>4, <2>5, <2>6
       DEF Next, vars, disk, Start, LoadMain, LoadSpare, LoadNothing, ReplayArchives,
           ReplayJournal, Commit, AppendFails, Close, Archive, ArchiveFails, Exit
<1> QED BY <1>2, <1>3

LEMMA JobGoodNext ==
  ASSUME TypeOK, JobInv, SnapInv, ShapeInv, Damaged, DamageBody, [Next]_vars
  PROVE  JobGood'
<1>a. /\ Origins \subseteq Origins' /\ promised' \in Origins' /\ promised \in Origins
  BY OriginsKept DEF JournalsGood, DamageBody
<1>b. "fail" \notin env /\ "crash" \notin env /\ "torn" \notin env
  BY DEF Damaged, Without
<1>c. JobGood /\ main.is \in {"whole", "broken", "missing"}
  BY TypeParts, SnapshotsTyped DEF DamageBody
<1>d. /\ cache \in SUBSET Records /\ journal \in Seq(Lines)
      /\ archives \in Seq(Seq(Lines)) /\ promised \in SUBSET Records
  BY DamagedTyped
<1> USE <1>a, <1>b, <1>c DEF JobGood, InUse, At, Write, Unclosed, disk, counts
<1>1. CASE Start
  BY <1>1 DEF Start, JobInv, Opening
<1>2. CASE LoadMain
  BY <1>2, LoadJob DEF LoadMain, JobInv, Opening
<1>3. CASE LoadSpare
  <2>1. Min(Readable) \in Readable
    <3>1. Len(spares) \in Nat /\ DOMAIN spares = 1..Len(spares)
      BY LenProperties, TypeParts DEF SparesOK
    <3>2. Readable \in SUBSET (1..Len(spares)) /\ Readable # {}
      BY <1>3, <3>1 DEF LoadSpare, Readable
    <3> QED BY <3>1, <3>2, MinMax
  <2>2. spares[Min(Readable)].of.has \in Origins
    BY <2>1 DEF DamageBody, SparesGood
  <2>3. main'.is = "missing" /\ journal' = journal
    BY <1>3 DEF LoadSpare, Missing
  <2>4. job' = Write("restore", spares[Min(Readable)].of.has)
    BY <1>3 DEF LoadSpare
  <2>5. journal = <<>>
    BY <1>3 DEF LoadSpare, JobInv, Opening
  <2> HIDE DEF Readable
  <2> QED BY <2>2, <2>3, <2>4, <2>5
<1>4. CASE LoadNothing
  <2>1. cache' = cache /\ journal' = journal /\ main' = main /\ journal = <<>> /\ main.is = "broken"
        /\ promised' = promised
    BY <1>4 DEF LoadNothing, JobInv, Opening
  <2>2. job' = At("failed") \/ (job' = At("archives") /\ Transactions)
    BY <1>4 DEF LoadNothing
  <2>3. CASE job' = At("failed")
    BY <2>1, <2>3
  <2>4. CASE job' = At("archives") /\ Transactions
    <3>1. archives # <<>>
      <4>1. PICK file \in Range(archives) \cup {journal} : Whole(file) # <<>>
        BY <2>4 DEF Transactions
      <4>2. Whole(<<>>) = <<>>
        <5>1. <<>> \in Seq(Lines) /\ AllWhole(<<>>)
          BY EmptySeq DEF AllWhole
        <5> QED BY <5>1, WholeLines
      <4>3. file \in Range(archives)
        BY <2>1, <4>1, <4>2
      <4>4. \E i \in DOMAIN archives : TRUE
        BY <4>3 DEF Range
      <4> QED BY <4>4
    <3>2. "old" \notin env
      <4>1. ~HasBackup
        BY <1>4 DEF LoadNothing, HasBackup
      <4> QED BY <3>1, <4>1 DEF DamageBody, OldGood
    <3>3. cache = {} /\ {} \in Origins
      BY <1>4, <3>2 DEF LoadNothing, ShapeInv, DamageBody, JournalsGood
    <3> QED BY <2>1, <2>4, <3>3
  <2> QED BY <2>2, <2>3, <2>4
<1>5. CASE ReplayArchives
  <2>1. cache \in Origins /\ journal = <<>>
    BY <1>5 DEF ReplayArchives, JobInv, Opening
  <2>2. /\ Replay(ReplayAll(cache, archives), <<>>) = promised
        /\ ReplayAll(cache, archives) \in SUBSET Records
    BY <1>d, <2>1, DamagedTyped DEF Origins
  <2>3. ReplayAll(cache, archives) = promised
    BY <2>2, ReplayNothing
  <2>4. /\ cache' = promised /\ journal' = journal /\ main' = main /\ promised' = promised
        /\ job' = [At("journal") EXCEPT !.goal = "rewrite"]
    BY <1>5, <2>3 DEF ReplayArchives
  <2> QED BY <2>1, <2>4
<1>6. CASE ReplayJournal
  <2>1. journal = <<>> /\ job.goal \in {"none", "rewrite"} /\ job.at = "journal"
    BY <1>6 DEF ReplayJournal, JobInv
  <2>2. Whole(journal) = <<>>
    <3>1. <<>> \in Seq(Lines) /\ AllWhole(<<>>)
      BY EmptySeq DEF AllWhole
    <3> QED BY <2>1, <3>1, WholeLines
  <2>3. cache = promised
    <3>1. CASE job.goal = "none"
      <4>1. main.is = "whole" /\ cache = Load(main.has) /\ main.has = promised
        BY <2>1, <3>1 DEF ShapeInv
      <4> QED BY <4>1, OriginLoads
    <3>2. CASE job.goal = "rewrite"
      BY <3>2
    <3> QED BY <2>1, <3>1, <3>2
  <2>4. cache' = promised /\ journal' = <<>> /\ main' = main /\ promised' = promised
    BY <1>6, <1>d, <2>1, <2>2, <2>3, ReplayNothing DEF ReplayJournal
  <2>5. job' = IF job.goal = "rewrite" THEN Write("rewrite", cache') ELSE At("up")
    BY <1>6 DEF ReplayJournal
  <2> QED BY <2>1, <2>4, <2>5
<1>7. CASE WriteTmp
  BY <1>7 DEF WriteTmp, JobInv, Writing
<1>8. CASE Rotate
  BY <1>8 DEF Rotate, Left, JobInv, Writing
<1>9. CASE Rename
  <2>1. main' = Snapshot(job.data) /\ job.data \in Origins /\ journal' = journal
        /\ promised' = promised /\ main'.is = "whole" /\ main'.has = job.data
    BY <1>9, DataGood DEF Rename, Writing, Snapshot
  <2>2. CASE job.goal = "create"
    <3>1. job.data = {} /\ promised = {}
      BY <2>2 DEF ShapeInv, SnapInv, Undisturbed, Damaged, Without
    <3>2. job' = At("load") /\ job.at = "rename"
      BY <1>9, <2>2 DEF Rename
    <3>3. journal = <<>>
      BY <2>2, <3>2
    <3> QED BY <2>1, <3>1, <3>2, <3>3
  <2>3. CASE job.goal = "restore"
    <3>1. /\ cache' = job.data
          /\ job' = At("archives") \/ job' = Write("renormalise", cache')
      BY <1>9, <2>1, <2>3, OriginLoads, RenameJob DEF Rename
    <3>2. journal = <<>>
      BY <1>9, <2>3 DEF Rename
    <3>3. CASE job' = At("archives")
      BY <2>1, <3>1, <3>2, <3>3
    <3>4. CASE job' = Write("renormalise", cache')
      BY <2>1, <3>1, <3>2, <3>4
    <3> QED BY <3>1, <3>3, <3>4
  <2>4. CASE job.goal = "rewrite"
    <3>1. cache' = cache /\ job' = At("up") /\ job.data = promised /\ cache = promised
      BY <1>9, <2>4 DEF Rename, ShapeInv, Writing
    <3> QED BY <1>9, <2>1, <2>4, <3>1 DEF Rename
  <2>5. CASE job.goal = "checkpoint"
    <3>1. cache' = cache /\ job.data = promised /\ cache = promised
      BY <1>9, <2>5 DEF Rename, ShapeInv, Writing
    <3>2. job'.at = "archive" /\ job'.goal = "checkpoint"
      BY <1>9, <2>5 DEF Rename, JobInv
    <3> QED BY <2>1, <3>1, <3>2
  <2>6. CASE job.goal \in {"normalise", "renormalise"}
    <3>1. /\ main.is = "whole" /\ main.has \in Origins /\ job.data = cache
          /\ cache = Load(main.has) /\ cache' = cache /\ journal = <<>>
      BY <1>9, <2>6 DEF Rename, ShapeInv, Writing
    <3>2. main'.has = main.has /\ cache' = main.has
      BY <2>1, <3>1, OriginLoads
    <3>3. CASE job.goal = "normalise"
      <4>1. job' = At("journal") /\ job.at = "rename"
        BY <1>9, <3>3, RenameJob DEF Rename
      <4>2. main.has = promised
        BY <3>1, <3>3, <4>1
      <4> QED BY <2>1, <3>1, <3>2, <4>1, <4>2
    <3>4. CASE job.goal = "renormalise"
      <4>1. job' = At("archives")
        BY <1>9, <3>4, RenameJob
      <4> QED BY <2>1, <3>1, <3>2, <4>1
    <3> QED BY <2>6, <3>3, <3>4
  <2> QED BY <1>9, <2>2, <2>3, <2>4, <2>5, <2>6, RenameJob
<1>10. CASE Commit
  <2>1. PICK e \in Entries : journal' = Append(journal, e) /\ cache' = After(e) /\ promised' = After(e)
    BY <1>10 DEF Commit
  <2>2. main' = main /\ job' = job /\ ops < MaxOps /\ job.at = "up"
    BY <1>10 DEF Commit
  <2>3. journal' # <<>>
    <3>1. e \in Lines
      BY <1>d, <2>2, EntriesTyped, LoggedTyped
    <3> QED BY <1>d, <2>1, <3>1, AppendProperties
  <2> QED BY <2>1, <2>2, <2>3 DEF JobInv
<1>11. CASE Close
  <2>1. job.goal = "none" /\ job.at = "up" /\ main.is = "whole"
    BY <1>11 DEF Close, JobInv, ShapeInv
  <2>2. CASE journal = <<>>
    <3>1. job' = At("down") /\ journal' = <<>> /\ main' = main /\ promised' = promised
      BY <1>11, <2>2 DEF Close
    <3> QED BY <2>1, <2>2, <3>1
  <2>3. CASE journal # <<>>
    <3>1. job' = Write("checkpoint", cache) /\ journal' = journal /\ main' = main
          /\ promised' = promised /\ cache' = cache
      BY <1>11, <2>3 DEF Close
    <3> QED BY <2>1, <2>3, <3>1
  <2> QED BY <2>2, <2>3
<1>12. CASE Archive
  <2>1. job' = At("down") /\ journal' = <<>> /\ main' = main /\ promised' = promised
        /\ main.has = cache /\ cache = promised
    BY <1>12 DEF Archive, ShapeInv, JobInv
  <2> QED BY <2>1
<1>13. CASE Damage
  <2>1. main'.is = "broken" /\ job' = job /\ journal' = journal /\ promised' = promised
        /\ job.at = "down" /\ job.goal = "none"
    BY <1>13 DEF Damage, Broken, JobInv, Opening
  <2> QED BY <2>1
<1>14. CASE Exit
  BY <1>14 DEF Exit, ShapeInv
<1>15. CASE WriteFails \/ AppendFails \/ ArchiveFails \/ Crash
  BY <1>15 DEF WriteFails, AppendFails, ArchiveFails, Crash, May
<1>16. CASE UNCHANGED vars
  BY <1>16 DEF vars
<1> QED
  BY <1>1, <1>2, <1>3, <1>4, <1>5, <1>6, <1>7, <1>8, <1>9, <1>10, <1>11, <1>12,
     <1>13, <1>14, <1>15, <1>16 DEF Next

LEMMA OldGoodNext ==
  ASSUME TypeOK, JobInv, SnapInv, ShapeInv, Damaged, DamageBody, [Next]_vars
  PROVE  OldGood'
<1> SUFFICES ASSUME "old" \in env PROVE OldGood'
  BY SameSurroundings DEF OldGood
<1>a. /\ HasBackup => HasBackup'
      /\ Rotate => HasBackup'
      /\ "fail" \notin env /\ "crash" \notin env /\ "torn" \notin env
  BY BackupKept DEF Damaged, Without
<1>f. ~WriteFails /\ ~AppendFails /\ ~ArchiveFails /\ ~Crash
  BY <1>a DEF WriteFails, AppendFails, ArchiveFails, Crash, May
<1>b. /\ archives # <<>> \/ (job.at \in {"rename", "archive"} /\ job.goal = "checkpoint")
         => HasBackup
      /\ job.goal \in {"renormalise", "rewrite"} \/ job.at = "archives" => main.is = "whole"
  BY DEF DamageBody, OldGood
<1>c. archives \in Seq(Seq(Lines)) /\ main.is \in {"whole", "broken", "missing"}
  BY DamagedTyped, TypeParts, SnapshotsTyped
<1>1. ASSUME archives' # <<>> \/ (job'.at \in {"rename", "archive"} /\ job'.goal = "checkpoint")
      PROVE  HasBackup'
  <2>1. CASE HasBackup \/ Rotate
    BY <1>a, <2>1
  <2>2. CASE ReplayArchives
    <3>1. DOMAIN archives' = DOMAIN archives /\ job'.goal = "rewrite"
      BY <2>2 DEF ReplayArchives, At
    <3>2. archives # <<>>
      <4> SUFFICES ASSUME archives = <<>> PROVE FALSE
        OBVIOUS
      <4>1. archives' = [i \in DOMAIN archives |-> Whole(archives[i])]
        BY <2>2 DEF ReplayArchives
      <4>2. archives' \in Seq(Seq(Lines)) /\ Len(archives) = 0
        BY JournalsTyped, EmptySeq
      <4>3. DOMAIN archives = 1..0 /\ DOMAIN archives' = 1..Len(archives') /\ Len(archives') \in Nat
        BY <1>c, <4>2, LenProperties
      <4>4. Len(archives') = 0
        BY <3>1, <4>3
      <4>5. archives' = <<>>
        BY <4>2, <4>4, EmptySeq
      <4> QED BY <1>1, <3>1, <4>5
    <3> QED BY <1>a, <1>b, <3>2
  <2>3. CASE Archive
    <3>1. job.at = "archive" /\ job.goal = "checkpoint"
      BY <2>3 DEF Archive, JobInv
    <3> QED BY <1>a, <1>b, <3>1
  <2>4. CASE UNCHANGED archives /\ ~(job'.at \in {"rename", "archive"} /\ job'.goal = "checkpoint")
    BY <1>1, <1>a, <1>b, <2>4
  <2>5. CASE UNCHANGED <<archives, job>>
    BY <1>1, <1>a, <1>b, <2>5
  <2>6. CASE WriteTmp
    <3>1. job.goal = "checkpoint" => job'.at = "rotate"
      BY <2>6 DEF WriteTmp, ShapeInv, InUse, JobInv
    <3>2. job'.goal = job.goal /\ archives' = archives
      BY <2>6 DEF WriteTmp, JobInv
    <3> QED BY <2>4, <3>1, <3>2
  <2>7. CASE Rename
    <3>1. archives' = archives
      BY <2>7 DEF Rename
    <3>2. CASE job.goal = "checkpoint"
      BY <1>a, <1>b, <2>7, <3>2 DEF Rename
    <3>3. CASE job.goal # "checkpoint"
      BY <2>4, <2>7, <3>1, <3>3, RenameJob DEF At, Write
    <3> QED BY <3>2, <3>3
  <2>8. CASE Start \/ LoadMain \/ LoadSpare \/ LoadNothing \/ ReplayJournal \/ Close \/ Exit
    BY <2>4, <2>8, LoadJob DEF Start, LoadMain, LoadSpare, LoadNothing, ReplayJournal, Close, Exit,
                      At, Write, disk
  <2>9. CASE Commit \/ Damage \/ UNCHANGED vars
    BY <2>5, <2>9 DEF Commit, Damage, vars
  <2> QED
    BY <1>f, <2>1, <2>2, <2>3, <2>6, <2>7, <2>8, <2>9 DEF Next
<1>2. ASSUME job'.goal \in {"renormalise", "rewrite"} \/ job'.at = "archives" PROVE main'.is = "whole"
  <2>1. CASE LoadNothing
    <3>1. Readable = {} /\ archives = <<>> /\ journal = <<>>
      BY <1>b, <2>1 DEF LoadNothing, HasBackup, JobInv, Opening, DamageBody, JobGood, InUse
    <3>2. ~Transactions
      <4> SUFFICES ASSUME Transactions PROVE FALSE
        OBVIOUS
      <4>1. PICK file \in Range(archives) \cup {journal} : Whole(file) # <<>>
        BY DEF Transactions
      <4>2. <<>> \in Seq(Lines) /\ AllWhole(<<>>)
        BY EmptySeq DEF AllWhole
      <4>3. Whole(<<>>) = <<>>
        BY <4>2, WholeLines
      <4>4. file \in Range(archives)
        BY <3>1, <4>1, <4>3
      <4>5. \E i \in DOMAIN archives : TRUE
        BY <4>4 DEF Range
      <4> QED BY <3>1, <4>5
    <3>3. job' = At("failed")
      BY <2>1, <3>2 DEF LoadNothing
    <3> QED BY <1>2, <3>3 DEF At
  <2>2. CASE Rename
    BY <2>2 DEF Rename, Snapshot
  <2>3. CASE ReplayArchives \/ ReplayJournal
    BY <1>2, <1>b, <2>3 DEF ReplayArchives, ReplayJournal, At, Write
  <2>4. CASE WriteTmp \/ Rotate
    BY <1>2, <1>b, <2>4 DEF WriteTmp, Rotate, Left, JobInv
  <2>5. CASE Start \/ LoadMain \/ LoadSpare \/ Archive \/ Exit
    BY <1>2, <2>5, LoadJob DEF Start, LoadSpare, Archive, Exit, At, Write
  <2>6. CASE Close
    BY <1>2, <2>6 DEF Close, At, Write
  <2>7. CASE Commit \/ UNCHANGED vars
    BY <1>2, <1>b, <2>7 DEF Commit, vars
  <2>8. CASE Damage
    BY <1>2, <2>8 DEF Damage, JobInv, Opening
  <2> QED
    BY <1>f, <2>1, <2>2, <2>3, <2>4, <2>5, <2>6, <2>7, <2>8 DEF Next
<1> QED BY <1>1, <1>2 DEF OldGood

LEMMA DamageNext ==
  TypeOK /\ JobInv /\ SnapInv /\ ShapeInv /\ DamageInv /\ [Next]_vars => DamageInv'
<1> SUFFICES ASSUME TypeOK, JobInv, SnapInv, ShapeInv, Damaged, DamageBody, [Next]_vars
             PROVE  DamageBody'
  BY SameSurroundings DEF DamageInv, Damaged, Without
<1> QED BY OriginsKept, SparesGoodNext, JobGoodNext, OldGoodNext DEF DamageBody

-----------------------------------------------------------------------------
(* What is true of a log in any surroundings that it withstands.             *)
LogInv == TypeOK /\ JobInv /\ SnapInv /\ ShapeInv /\ KeepInv /\ HistInv /\ DamageInv

LEMMA LogInit == Init => LogInv
BY TypeInit, JobInit, SnapInit, ShapeInit, KeepInit, HistInit, DamageInit DEF LogInv

LEMMA LogNext == LogInv /\ [Next]_vars => LogInv'
BY TypeNext, JobNext, SnapNext, ShapeNext, KeepNext, HistNext, DamageNext DEF LogInv

LEMMA SaysPromised ==
  ASSUME LogInv, Durable, InUse
  PROVE  Book(cache) = Book(promised) /\ Proper(cache, ops, env)
<1>1. CASE "damage" \notin env
  BY <1>1 DEF LogInv, KeepInv, KeepBody, Held
<1>2. CASE "damage" \in env
  <2>1. Damaged
    BY <1>2 DEF Durable, Damaged, Without
  <2>2. cache = promised /\ promised \in Origins
    BY <2>1 DEF LogInv, DamageInv, DamageBody, JobGood, JournalsGood
  <2> QED BY <2>2 DEF Origins
<1> QED BY <1>1, <1>2

(* HistoryComplete: the archived journals and the current one, replayed from *)
(* nothing, give what the log in use says, so a recovery that has no         *)
(* snapshot to start from (replayArchivedJournals) loses nothing.            *)
THEOREM JournalsSuffice == Spec => []HistoryComplete
<1>1. LogInv => HistoryComplete
  <2> SUFFICES ASSUME LogInv, InUse,
                      env \subseteq {"crash", "edit"} \/ env \subseteq {"damage", "ruin", "edit"}
               PROVE  Book(ReplayAll({}, Append(archives, journal))) = Book(cache)
    BY DEF HistoryComplete
  <2>1. TypeOK
    BY DEF LogInv
  <2>2. ReplayAll({}, Append(archives, journal)) = History
    BY <2>1, DamagedTyped, ReplayAllAppend DEF History
  <2>3. CASE env \subseteq {"crash", "edit"}
    <3>1. Durable /\ "damage" \notin env /\ Strict
      BY <2>3 DEF Durable, Without, Strict
    <3>2. History = Logged /\ cache = Logged
      BY <2>3, <3>1 DEF LogInv, HistInv, KeepInv, KeepBody
    <3> QED BY <2>2, <3>2
  <2>4. CASE env \subseteq {"damage", "ruin", "edit"}
    <3>1. Damaged /\ "old" \notin env
      BY <2>4 DEF Damaged, Without
    <3>2. cache = promised /\ {} \in Origins
      BY <3>1 DEF LogInv, DamageInv, DamageBody, JobGood, JournalsGood
    <3> QED BY <2>2, <3>2 DEF Origins, History
  <2> QED BY <2>3, <2>4
<1> QED BY <1>1, LogInit, LogNext, PTL DEF Spec

-----------------------------------------------------------------------------
(* What the log shows, and how a step changes it: not at all, or by one      *)
(* operation while it is in use.                                             *)
Shown == Book(IF ~Durable THEN {} ELSE IF InUse THEN cache ELSE promised)

ShowInv == Durable => Shown = Book(promised)

LEMMA ShowsPromised == LogInv => ShowInv
BY SaysPromised DEF Shown, ShowInv

LEMMA PromiseStep ==
  ASSUME LogInv, Durable, [Next]_vars
  PROVE  promised' = promised \/ (InUse /\ OneChange(Book(promised), Book(promised')))
<1>1. ASSUME InUse, ops < MaxOps, NEW e \in Entries, promised' = After(e)
      PROVE  OneChange(Book(promised), Book(promised'))
  <2>1. cache \in SUBSET Records /\ ops \in Nat
    BY LoggedTyped DEF LogInv
  <2>2. Book(cache) = Book(promised) /\ Proper(cache, ops, env)
    BY <1>1, SaysPromised
  <2>3. Orderly
    BY <1>1, <2>1, <2>2 DEF Durable, Orderly
  <2>4. OneChange(Book(cache), Book(After(e)))
    BY <1>1, <2>3, CommitKeeps DEF Keeps
  <2> QED BY <1>1, <2>2, <2>4
<1>2. CASE Commit
  <2>1. InUse /\ ops < MaxOps /\ \E e \in Entries : promised' = After(e)
    BY <1>2 DEF Commit, InUse
  <2> QED BY <1>1, <2>1
<1>3. CASE Crash
  <2>1. \/ promised' = promised
        \/ InUse /\ ops < MaxOps /\ \E e \in Entries : promised' = After(e)
    BY <1>3 DEF Crash, InUse
  <2> QED BY <1>1, <2>1
<1>4. CASE Start \/ LoadMain \/ LoadSpare \/ LoadNothing \/ ReplayArchives \/ ReplayJournal
  BY <1>4 DEF Start, LoadMain, LoadSpare, LoadNothing, ReplayArchives, ReplayJournal
<1>5. CASE WriteTmp \/ Rotate \/ Rename \/ WriteFails \/ AppendFails
  BY <1>5 DEF WriteTmp, Rotate, Rename, WriteFails, AppendFails
<1>6. CASE Close \/ Archive \/ ArchiveFails \/ Exit \/ Damage \/ UNCHANGED vars
  BY <1>6 DEF Close, Archive, ArchiveFails, Exit, Damage, vars
<1> QED BY <1>2, <1>3, <1>4, <1>5, <1>6 DEF Next

LEMMA ShownInit == Init => Shown \in [Contents -> Nat]
<1> SUFFICES ASSUME Init PROVE Shown \in [Contents -> Nat]
  OBVIOUS
<1>1. ASSUME NEW S \in SUBSET Records, IsFiniteSet(S) PROVE Book(S) \in [Contents -> Nat]
  <2>1. \A c \in Contents : Book(S)[c] \in Nat
    BY <1>1, PartFacts
  <2>2. Book(S) = [c \in Contents |-> Book(S)[c]]
    BY DEF Book
  <2> QED BY <2>1, <2>2
<1>2. main.has = {} \/ main.has \in OldLogs
  BY DEF Init, Missing, Snapshot
<1>3. promised \in SUBSET Records /\ IsFiniteSet(promised) /\ ~InUse
  BY <1>2, FS_EmptySet, OldFacts DEF Init, InUse, At
<1>4. {} \in SUBSET Records /\ IsFiniteSet({})
  BY FS_EmptySet
<1> QED BY <1>1, <1>3, <1>4 DEF Shown

LEMMA OneChangeIs ==
  ASSUME Durable, Durable', Shown = Book(promised), Shown' = Book(promised'),
         OneChange(Book(promised), Book(promised'))
  PROVE  L!Operation
<1>1. PICK old, new \in Singles :
        /\ \A c \in old : Book(promised)[c] > 0
        /\ Book(promised') = [c \in Contents |-> (Book(promised)[c] + Num(c, new)) - Num(c, old)]
  BY DEF OneChange
<1>2. old \in L!Single /\ new \in L!Single
  BY <1>1 DEF Singles, L!Single
<1>3. \A c, S : L!Count(c, S) = Num(c, S)
  BY DEF L!Count, Num
<1>4. \A c \in old : Shown[c] > 0
  BY <1>1
<1>5. Shown' = [c \in Contents |-> (Shown[c] + L!Count(c, new)) - L!Count(c, old)]
  BY <1>1, <1>3
<1> QED BY <1>2, <1>4, <1>5 DEF L!Operation, Shown

(* Every step of the program is one of the logbook, or leaves it as it is.   *)
LEMMA LogbookStep ==
  ASSUME LogInv, ShowInv, ShowInv', [Next]_vars
  PROVE  [L!Next]_(L!vars)
<1>1. Durable' = Durable /\ InUse \in BOOLEAN /\ InUse' \in BOOLEAN
  BY SameDurable DEF InUse
<1>2. ASSUME Shown' = Shown PROVE [L!Next]_(L!vars)
  <2>1. CASE InUse' = InUse
    BY <1>2, <2>1 DEF L!vars, Shown
  <2>2. CASE InUse /\ ~InUse'
    BY <1>1, <1>2, <2>2 DEF L!Next, L!Stop, Shown
  <2>3. CASE ~InUse /\ InUse'
    BY <1>1, <1>2, <2>3 DEF L!Next, L!Start, Shown
  <2> QED BY <1>1, <2>1, <2>2, <2>3
<1>3. CASE ~Durable
  BY <1>1, <1>2, <1>3 DEF Shown
<1>4. CASE Durable
  <2>1. Shown = Book(promised) /\ Shown' = Book(promised')
    BY <1>1, <1>4 DEF ShowInv
  <2>2. CASE promised' = promised
    BY <1>2, <2>1, <2>2
  <2>3. CASE InUse /\ OneChange(Book(promised), Book(promised'))
    <3>1. L!Operation
      BY <1>1, <1>4, <2>1, <2>3, OneChangeIs
    <3>2. CASE InUse'
      <4>1. L!Commit
        BY <2>3, <3>1, <3>2 DEF L!Commit
      <4> QED BY <4>1 DEF L!Next
    <3>3. CASE ~InUse'
      <4>1. L!Stop
        BY <2>3, <3>1, <3>3 DEF L!Stop
      <4> QED BY <4>1 DEF L!Next
    <3> QED BY <3>2, <3>3
  <2> QED BY <1>4, <2>2, <2>3, PromiseStep
<1> QED BY <1>3, <1>4

(* ImplementsLogbook.                                                        *)
THEOREM LogKeepsBook == Spec => ImplementsLogbook
<1>1. Init => L!Init
  <2> SUFFICES ASSUME Init PROVE L!Init
    OBVIOUS
  <2>1. InUse = FALSE
    BY DEF Init, InUse, At
  <2> QED BY <2>1, ShownInit DEF L!Init, Shown
<1>2. LogInv /\ ShowInv /\ ShowInv' /\ [Next]_vars => [L!Next]_(L!vars)
  BY LogbookStep
<1> QED BY <1>1, <1>2, LogInit, LogNext, ShowsPromised, PTL DEF Spec, ImplementsLogbook, L!Spec
=============================================================================
