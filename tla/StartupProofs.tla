---------------------------- MODULE StartupProofs ----------------------------
(***************************************************************************)
(* Theorems about Startup, for any configuration files, environments and   *)
(* flags and any number of runs: no line of the log is lost, whatever      *)
(* fails and wherever the process is killed; and a miner that runs has the *)
(* enabled pools of its file, each once and by priority, with the address  *)
(* that was given.                                                         *)
(*                                                                         *)
(* The second rests on what three loops compute: the one that collects the *)
(* enabled pools and the two nested ones that sort them.  They are         *)
(* recursive functions in Startup; induction over their turns comes from   *)
(* the fact that a set of numbers has a least one, here the first turn     *)
(* that went wrong.                                                        *)
(***************************************************************************)
EXTENDS Startup, FiniteSetTheorems, FunctionTheorems, WellFoundedInduction, TLAPS

(***************************************************************************)
(* The inductive invariant of the log.                                     *)
(***************************************************************************)
\* The clock, and the lines that were logged.
TimeInv ==
    /\ clock \in 0 .. MaxTime /\ modTime \in 0 .. clock
    /\ IsFiniteSet(written) /\ written \subseteq Line
    /\ \A l \in written : l.time <= clock

\* A line is never newer than the file it is in.
FileInv ==
    file # NoFile => file \subseteq written /\ \A l \in file : l.time <= modTime

BackupInv ==
    \A b \in backups : /\ b.modTime \in Nat
                       /\ b.lines \subseteq written
                       /\ \A l \in b.lines : l.time <= b.modTime

\* A cleaner only ever falls behind.
CleanerInv ==
    /\ starting \in Nat
    /\ cutoff # Unset => cutoff \in Int /\ cutoff <= clock - MaxAge

\* The logger writes to a file only when there is one, and what it rotates
\* away exists.
WriterInv ==
    /\ phase = "rotate" => file # NoFile
    /\ phase \in {"down", "load", "open", "rotate", "create"} => writer = "stdout"
    /\ writer = "file" => file # NoFile

LogInv == TimeInv /\ FileInv /\ BackupInv /\ CleanerInv /\ WriterInv /\ LogKept

LEMMA LogInit == Init => LogInv
<1> SUFFICES ASSUME Init PROVE LogInv
  OBVIOUS
<1>1. TimeInv
  <2>1. 0 \in 0 .. MaxTime
    BY StartupAssumption
  <2> QED
    BY <2>1, FS_EmptySet DEF Init, TimeInv
<1>2. FileInv /\ BackupInv /\ CleanerInv /\ WriterInv /\ LogKept
  BY DEF Init, FileInv, BackupInv, CleanerInv, WriterInv, LogKept
<1> QED
  BY <1>1, <1>2 DEF LogInv

\* What is on disk, before and after a step.
LEMMA OnDiskMeans ==
    \A l : l \in OnDisk <=>
             \/ \E b \in backups : l \in b.lines
             \/ file # NoFile /\ l \in file
<1>1. \A l : l \in InFile <=> file # NoFile /\ l \in file
  BY DEF InFile
<1>2. \A l : l \in OnDisk <=>
                \/ \E b \in backups : l \in b.lines
                \/ l \in InFile
  BY DEF OnDisk
<1> QED
  BY <1>1, <1>2

LEMMA OnDiskMeansNext ==
    \A l : l \in OnDisk' <=>
             \/ \E b \in backups' : l \in b.lines
             \/ file' # NoFile /\ l \in file'
<1>1. \A l : l \in InFile' <=> file' # NoFile /\ l \in file'
  BY DEF InFile
<1>2. \A l : l \in OnDisk' <=>
                \/ \E b \in backups' : l \in b.lines
                \/ l \in InFile'
  BY DEF OnDisk
<1> QED
  BY <1>1, <1>2

(***************************************************************************)
(* The steps, by what they do to the directory.                            *)
(***************************************************************************)

\* A step that does not touch the directory.
LEMMA LogFrame ==
    ASSUME LogInv, UNCHANGED <<disk, clock, history>>,
           cleaner' = cleaner \/ (starting' = 0 /\ cutoff' = Unset), WriterInv'
    PROVE  LogInv'
<1>1. UNCHANGED <<file, modTime, backups, written, overwritten>>
  BY DEF disk, history
<1>2. TimeInv' /\ FileInv' /\ BackupInv' /\ LogKept'
  BY <1>1 DEF LogInv, TimeInv, FileInv, BackupInv, LogKept, OnDisk, InFile
<1>3. CleanerInv'
  <2>1. CASE cleaner' = cleaner
    BY <2>1 DEF LogInv, CleanerInv, cleaner
  <2>2. CASE starting' = 0 /\ cutoff' = Unset
    BY <2>2 DEF CleanerInv
  <2> QED
    BY <2>1, <2>2
<1> QED
  BY <1>2, <1>3 DEF LogInv

\* The process ends, by itself or killed, in any phase.
LEMMA LogEnd ==
    ASSUME LogInv, End
    PROVE  LogInv'
<1>1. WriterInv'
  <2>1. phase' = "down" /\ writer' = "stdout"
    BY DEF End
  <2> QED
    BY <2>1 DEF WriterInv
<1> QED
  BY <1>1, LogFrame DEF End

\* The configuration, and the start of the miner.
LEMMA LogMain ==
    ASSUME LogInv, Run \/ LoadFails \/ Load \/ Start \/ StartFails \/ Exit \/ Kill
    PROVE  LogInv'
<1>1. CASE LoadFails \/ StartFails \/ Exit \/ Kill
  BY <1>1, LogEnd DEF LoadFails, StartFails, Exit, Kill
<1>2. CASE Run \/ Load \/ Start
  <2>1. /\ UNCHANGED <<disk, clock, history, cleaner, writer>>
        /\ phase' \in {"load", "open", "running"}
        /\ phase' \in {"load", "open"} => phase \in {"down", "load"}
    BY <1>2 DEF Run, Load, Start
  <2>2. WriterInv'
    BY <2>1 DEF LogInv, WriterInv, disk
  <2> QED
    BY <2>1, <2>2, LogFrame
<1> QED
  BY <1>1, <1>2

\* The size of the file is looked at; or a rename or an open fails.
LEMMA LogStat ==
    ASSUME LogInv, Stat \/ OpenFails
    PROVE  LogInv'
<1>1. /\ UNCHANGED <<disk, clock, history, cleaner, writer>>
      /\ phase' = "rotate" => file # NoFile /\ phase = "open"
      /\ phase' \in {"rotate", "append", "start"}
  BY DEF Stat, OpenFails
<1>2. WriterInv'
  BY <1>1 DEF LogInv, WriterInv, disk
<1> QED
  BY <1>1, <1>2, LogFrame

\* The lines of the file move to a backup.  Those of a backup made in the
\* same second are gone, and noted.
LEMMA LogRotate ==
    ASSUME LogInv, Rotate
    PROVE  LogInv'
<1> DEFINE same == {b \in backups : b.stamp = clock}
           new  == [stamp |-> clock, lines |-> file, modTime |-> modTime]
<1>1. /\ phase = "rotate" /\ phase' = "create" /\ file # NoFile
      /\ backups' = (backups \ same) \cup {new}
      /\ overwritten' = overwritten \cup UNION {b.lines : b \in same}
      /\ file' = NoFile
      /\ UNCHANGED <<writer, cleaner, modTime, clock, written>>
  BY DEF Rotate, LogInv, WriterInv
<1>2. TimeInv'
  BY <1>1 DEF LogInv, TimeInv
<1>3. FileInv'
  BY <1>1 DEF FileInv
<1>4. BackupInv'
  <2>1. new.modTime \in Nat /\ new.lines \subseteq written
        /\ \A l \in new.lines : l.time <= new.modTime
    BY <1>1, StartupAssumption DEF LogInv, TimeInv, FileInv
  <2> HIDE DEF new, same
  <2>2. ASSUME NEW b \in backups'
        PROVE  /\ b.modTime \in Nat /\ b.lines \subseteq written'
               /\ \A l \in b.lines : l.time <= b.modTime
    <3>1. CASE b = new
      BY <1>1, <2>1, <3>1
    <3>2. CASE b \in backups
      BY <1>1, <3>2 DEF LogInv, BackupInv
    <3> QED
      BY <1>1, <2>2, <3>1, <3>2
  <2> QED
    BY <2>2 DEF BackupInv
<1>5. CleanerInv'
  BY <1>1 DEF LogInv, CleanerInv, cleaner
<1>6. WriterInv'
  BY <1>1 DEF LogInv, WriterInv
<1>7. LogKept'
  <2> SUFFICES ASSUME NEW l \in written', l \notin overwritten',
                      clock' - l.time <= MaxAge
               PROVE  l \in OnDisk'
    BY DEF LogKept
  <2>1. l \in OnDisk
    BY <1>1 DEF LogInv, LogKept
  <2>2. CASE l \in file
    <3>1. new \in backups' /\ l \in new.lines
      BY <1>1, <2>2
    <3> HIDE DEF new
    <3> QED
      BY <3>1 DEF OnDisk
  <2>3. CASE \E b \in backups : l \in b.lines
    <3>1. PICK b \in backups : l \in b.lines
      BY <2>3
    <3>2. b \notin same
      BY <1>1, <3>1
    <3>3. b \in backups'
      BY <1>1, <3>2
    <3> QED
      BY <3>1, <3>3 DEF OnDisk
  <2>4. l \in file \/ \E b \in backups : l \in b.lines
    BY <2>1, OnDiskMeans
  <2> QED
    BY <2>2, <2>3, <2>4
<1> QED
  BY <1>2, <1>3, <1>4, <1>5, <1>6, <1>7 DEF LogInv

LEMMA NoFileIsNoSet == NoFile # {} /\ \A lines \in SUBSET Line : NoFile # lines
<1>1. {} \in SUBSET Line
  OBVIOUS
<1> QED
  BY <1>1, StartupAssumption

\* A file is opened to append; a new one is empty.
LEMMA LogOpen ==
    ASSUME LogInv, OpenToAppend
    PROVE  LogInv'
<1>1. /\ file' = (IF file = NoFile THEN {} ELSE file)
      /\ modTime' = (IF file = NoFile THEN clock ELSE modTime)
      /\ writer' = "file" /\ starting' = starting + 1 /\ cutoff' = cutoff
      /\ phase' \in {"append", "start"}
      /\ UNCHANGED <<backups, clock, written, overwritten>>
  BY DEF OpenToAppend, history
<1>2. clock \in Nat /\ MaxAge \in Nat
  BY StartupAssumption DEF LogInv, TimeInv
<1>3. TimeInv'
  BY <1>1, <1>2 DEF LogInv, TimeInv
<1>4. FileInv'
  BY <1>1 DEF LogInv, FileInv
<1>5. BackupInv'
  BY <1>1 DEF LogInv, BackupInv
<1>6. CleanerInv'
  BY <1>1 DEF LogInv, CleanerInv
<1>7. WriterInv'
  BY <1>1, NoFileIsNoSet DEF WriterInv
<1>8. OnDisk' = OnDisk
  <2>1. InFile' = InFile
    BY <1>1, NoFileIsNoSet DEF InFile
  <2> QED
    BY <1>1, <2>1 DEF OnDisk
<1>9. LogKept'
  BY <1>1, <1>8 DEF LogInv, LogKept
<1> QED
  BY <1>3, <1>4, <1>5, <1>6, <1>7, <1>9 DEF LogInv

\* A cleaner computes its cutoff.
LEMMA LogCutoff ==
    ASSUME LogInv, CleanerStarts
    PROVE  LogInv'
<1>1. /\ starting > 0 /\ starting' = starting - 1 /\ cutoff' = clock - MaxAge
      /\ UNCHANGED <<phase, writer, file, modTime, backups, clock, written,
                     overwritten>>
  BY DEF CleanerStarts, disk, history
<1>2. clock \in Nat /\ MaxAge \in Nat /\ starting \in Nat
  BY StartupAssumption DEF LogInv, TimeInv, CleanerInv
<1>3. TimeInv' /\ FileInv' /\ BackupInv' /\ WriterInv'
  BY <1>1 DEF LogInv, TimeInv, FileInv, BackupInv, WriterInv
<1>4. CleanerInv'
  BY <1>1, <1>2 DEF CleanerInv
<1>5. LogKept'
  BY <1>1 DEF LogInv, LogKept, OnDisk, InFile
<1> QED
  BY <1>3, <1>4, <1>5 DEF LogInv

\* A backup is removed: all its lines are at least as old as it is.
LEMMA LogClean ==
    ASSUME LogInv, NEW b \in backups, CleanBackup(b)
    PROVE  LogInv'
<1>1. /\ cutoff # Unset /\ b.modTime < cutoff
      /\ backups' = backups \ {b}
      /\ UNCHANGED <<phase, writer, cleaner, file, modTime, clock, written,
                     overwritten>>
  BY DEF CleanBackup, history
<1>2. TimeInv' /\ FileInv' /\ CleanerInv' /\ WriterInv'
  BY <1>1 DEF LogInv, TimeInv, FileInv, CleanerInv, WriterInv, cleaner
<1>3. BackupInv'
  BY <1>1 DEF LogInv, BackupInv
<1>4. LogKept'
  <2> SUFFICES ASSUME NEW l \in written', l \notin overwritten',
                      clock' - l.time <= MaxAge
               PROVE  l \in OnDisk'
    BY DEF LogKept
  <2>1. l \in OnDisk /\ l \in written
    BY <1>1 DEF LogInv, LogKept
  <2>2. l \notin b.lines
    <3> SUFFICES ASSUME l \in b.lines PROVE FALSE
      OBVIOUS
    <3>1. /\ clock \in Nat /\ MaxAge \in Nat /\ l.time \in Nat
          /\ b.modTime \in Nat /\ cutoff \in Int
      BY <1>1, <2>1, StartupAssumption
      DEF LogInv, TimeInv, BackupInv, CleanerInv, Line
    <3>2. cutoff <= clock - MaxAge /\ l.time <= b.modTime /\ clock - l.time <= MaxAge
      BY <1>1 DEF LogInv, CleanerInv, BackupInv
    <3> QED
      BY <1>1, <3>1, <3>2
  <2> QED
    BY <1>1, <2>1, <2>2, OnDiskMeans, OnDiskMeansNext
<1> QED
  BY <1>2, <1>3, <1>4 DEF LogInv

\* A line is logged, with the time of its writing.
LEMMA LogLine ==
    ASSUME LogInv, Log
    PROVE  LogInv'
<1> DEFINE line == [number |-> Cardinality(written), time |-> clock]
<1>1. /\ writer = "file" /\ Cardinality(written) < MaxLines
      /\ file' = file \cup {line} /\ written' = written \cup {line}
      /\ modTime' = clock
      /\ UNCHANGED <<phase, writer, cleaner, backups, clock, overwritten>>
  BY DEF Log
<1>2. file # NoFile /\ file \subseteq written
  BY <1>1 DEF LogInv, WriterInv, FileInv
<1>3. /\ clock \in 0 .. MaxTime /\ MaxTime \in Nat /\ MaxLines \in Nat
      /\ IsFiniteSet(written) /\ Cardinality(written) \in Nat
  BY StartupAssumption, FS_CardinalityType DEF LogInv, TimeInv
<1>4. line \in Line /\ line.time = clock
  <2>1. Cardinality(written) \in 0 .. MaxLines - 1
    BY <1>1, <1>3
  <2> QED
    BY <1>3, <2>1 DEF Line
<1> HIDE DEF line
<1>5. TimeInv'
  <2>1. IsFiniteSet(written')
    BY <1>1, <1>3, FS_AddElement
  <2>2. \A l \in written' : l.time <= clock
    BY <1>1, <1>3, <1>4 DEF LogInv, TimeInv
  <2> QED
    BY <1>1, <1>3, <1>4, <2>1, <2>2 DEF LogInv, TimeInv
<1>6. FileInv'
  <2>1. \A l \in file' : l.time <= modTime'
    BY <1>1, <1>2, <1>3, <1>4 DEF LogInv, TimeInv
  <2> QED
    BY <1>1, <1>2, <2>1 DEF FileInv
<1>7. BackupInv'
  BY <1>1 DEF LogInv, BackupInv
<1>8. CleanerInv'
  BY <1>1 DEF LogInv, CleanerInv, cleaner
<1>9. WriterInv'
  <2>1. file' \in SUBSET Line
    BY <1>1, <1>2, <1>4 DEF LogInv, TimeInv
  <2>2. file' # NoFile
    BY <2>1, NoFileIsNoSet
  <2> QED
    BY <1>1, <2>2 DEF LogInv, WriterInv
<1>10. LogKept'
  <2> SUFFICES ASSUME NEW l \in written', l \notin overwritten',
                      clock' - l.time <= MaxAge
               PROVE  l \in OnDisk'
    BY DEF LogKept
  <2>1. OnDisk \subseteq OnDisk' /\ line \in OnDisk'
    <3>1. file' # NoFile
      BY <1>1, <1>9 DEF WriterInv
    <3> QED
      BY <1>1, <1>2, <3>1, OnDiskMeans, OnDiskMeansNext
  <2>2. CASE l \in written
    BY <1>1, <2>1, <2>2 DEF LogInv, LogKept
  <2> QED
    BY <1>1, <2>1, <2>2
<1> QED
  BY <1>5, <1>6, <1>7, <1>8, <1>9, <1>10 DEF LogInv

\* Time passes: lines get older, and more of them may be removed.
LEMMA LogTick ==
    ASSUME LogInv, Tick
    PROVE  LogInv'
<1>1. /\ clock < MaxTime /\ clock' = clock + 1
      /\ UNCHANGED <<phase, writer, cleaner, file, modTime, backups, written,
                     overwritten>>
  BY DEF Tick, disk, history
<1>2. /\ clock \in Nat /\ MaxTime \in Nat /\ MaxAge \in Nat /\ modTime \in 0 .. clock
      /\ written \subseteq Line
  BY StartupAssumption DEF LogInv, TimeInv
<1>3. \A l \in written : l.time \in Nat /\ l.time <= clock
  BY <1>2 DEF LogInv, TimeInv, Line
<1>4. TimeInv'
  <2>1. \A l \in written' : l.time <= clock'
    BY <1>1, <1>2, <1>3
  <2>2. clock' \in 0 .. MaxTime /\ modTime' \in 0 .. clock'
    BY <1>1, <1>2
  <2> QED
    BY <1>1, <2>1, <2>2 DEF LogInv, TimeInv
<1>5. FileInv' /\ BackupInv' /\ WriterInv'
  BY <1>1 DEF LogInv, FileInv, BackupInv, WriterInv
<1>6. CleanerInv'
  BY <1>1, <1>2 DEF LogInv, CleanerInv, cleaner
<1>7. LogKept'
  <2> SUFFICES ASSUME NEW l \in written', l \notin overwritten',
                      clock' - l.time <= MaxAge
               PROVE  l \in OnDisk'
    BY DEF LogKept
  <2>1. clock - l.time <= MaxAge
    BY <1>1, <1>2, <1>3
  <2>2. OnDisk' = OnDisk
    BY <1>1 DEF OnDisk, InFile
  <2> QED
    BY <1>1, <2>1, <2>2 DEF LogInv, LogKept
<1> QED
  BY <1>4, <1>5, <1>6, <1>7 DEF LogInv

LEMMA LogNext == LogInv /\ [Next]_vars => LogInv'
<1> SUFFICES ASSUME LogInv, [Next]_vars PROVE LogInv'
  OBVIOUS
<1>1. CASE UNCHANGED vars
  <2>1. UNCHANGED <<disk, clock, history, cleaner, writer, phase>>
    BY <1>1 DEF vars
  <2>2. WriterInv'
    BY <2>1 DEF LogInv, WriterInv, disk
  <2> QED
    BY <2>1, <2>2, LogFrame
<1> QED
  BY <1>1, LogMain, LogStat, LogRotate, LogOpen, LogCutoff, LogClean, LogLine,
     LogTick
  DEF Next, OpenFile, CleanOldBackups

\* Whatever fails, and wherever the process is killed between the rename and
\* the two opens, a line that was logged is in the file or a backup until it
\* is max_age_days old; a line is lost only with a backup that another one
\* of the same second replaced (logger.go:96-175, 205-235).
THEOREM LogKeptCorrect == Spec => []LogKept
<1>1. LogInv => LogKept
  BY DEF LogInv
<1> QED
  BY <1>1, LogInit, LogNext, PTL DEF Spec

\* Nothing is ever written to a file that is not there (logger.go:96-175).
THEOREM WriterHasFile == Spec => [](writer = "file" => file # NoFile)
<1>1. LogInv => (writer = "file" => file # NoFile)
  BY DEF LogInv, WriterInv
<1> QED
  BY <1>1, LogInit, LogNext, PTL DEF Spec

(***************************************************************************)
(* Loops.                                                                  *)
(***************************************************************************)
\* A set of numbers that is not empty has a least one.
LEMMA LeastNumber ==
    ASSUME NEW T, T \subseteq Nat, T # {}
    PROVE  \E n \in T : \A m \in T : n <= m
<1>1. PICK n \in T : \A m \in T : ~ (<<m, n>> \in OpToRel(<, Nat))
  BY WFMin, NatLessThanWellFounded
<1>2. \A m \in T : ~ (m < n)
  BY <1>1 DEF OpToRel
<1> QED
  BY <1>2

\* Induction over the turns of a loop: what holds before it and is kept by
\* every turn holds after each.
LEMMA LoopInduction ==
    ASSUME NEW a \in Nat, NEW n \in Nat, NEW Good,
           a \in Good, \A k \in a + 1 .. n : k - 1 \in Good => k \in Good
    PROVE  \A k \in a .. n : k \in Good
<1> DEFINE Bad == {k \in a .. n : k \notin Good}
<1> SUFFICES ASSUME Bad # {} PROVE FALSE
  OBVIOUS
<1>1. PICK k \in Bad : \A m \in Bad : k <= m
  <2>1. Bad \subseteq Nat
    OBVIOUS
  <2> QED
    BY <2>1, LeastNumber
<1>2. k # a /\ k \in a + 1 .. n
  BY <1>1
<1>3. k - 1 \in a .. n /\ ~(k <= k - 1)
  BY <1>2
<1>4. k - 1 \in Good
  BY <1>1, <1>3
<1> QED
  BY <1>1, <1>2, <1>4

\* What a loop holds before and after each of its turns, a + 1 .. n, if turn k
\* makes Step[<<k, v>>] of v.
LoopValues(a, n, V, first, Step) ==
    {f \in [a .. n -> V] :
       \A k \in a .. n : f[k] = IF k = a THEN first ELSE Step[<<k, f[k - 1]>>]}

\* Every loop has such values: its recursive definition defines something.
LEMMA LoopFunction ==
    ASSUME NEW a \in Nat, NEW n \in Nat, a <= n, NEW V, NEW first \in V,
           NEW Step \in [(a .. n) \X V -> V]
    PROVE  LoopValues(a, n, V, first, Step) # {}
<1> DEFINE UpTo(m, f) == \A k \in a .. m : f[k] = IF k = a THEN first
                                                   ELSE Step[<<k, f[k - 1]>>]
           Good == {m \in a .. n : \E f \in [a .. m -> V] : UpTo(m, f)}
<1>1. a \in Good
  <2> DEFINE f == [k \in a .. a |-> first]
  <2>1. f \in [a .. a -> V] /\ UpTo(a, f)
    OBVIOUS
  <2>2. a \in a .. n
    OBVIOUS
  <2> HIDE DEF f
  <2> QED
    BY <2>1, <2>2
<1>2. ASSUME NEW m \in a + 1 .. n, m - 1 \in Good
      PROVE  m \in Good
  <2>1. PICK f \in [a .. m - 1 -> V] : UpTo(m - 1, f)
    BY <1>2
  <2> DEFINE g == [k \in a .. m |-> IF k = m THEN Step[<<m, f[m - 1]>>] ELSE f[k]]
  <2>2. m - 1 \in a .. m - 1 /\ m \in a .. n /\ m # a
    BY <1>2
  <2>3. Step[<<m, f[m - 1]>>] \in V
    BY <2>1, <2>2
  <2>4. g \in [a .. m -> V]
    BY <2>3
  <2>5. ASSUME NEW k \in a .. m
        PROVE  g[k] = IF k = a THEN first ELSE Step[<<k, g[k - 1]>>]
    <3>1. CASE k = m
      BY <2>2, <3>1
    <3>2. CASE k # m
      <4>1. k \in a .. m - 1 /\ g[k] = f[k]
        BY <2>5, <3>2
      <4>2. k # a => k - 1 \in a .. m - 1 /\ k - 1 \in a .. m /\ k - 1 # m
        BY <4>1
      <4>3. k # a => g[k - 1] = f[k - 1]
        BY <4>2
      <4> QED
        BY <2>1, <4>1, <4>3
    <3> QED
      BY <3>1, <3>2
  <2>6. UpTo(m, g)
    BY <2>4, <2>5
  <2> HIDE DEF g
  <2> QED
    BY <2>2, <2>4, <2>6
<1> HIDE DEF Good
<1>3. \A k \in a .. n : k \in Good
  BY <1>1, <1>2, LoopInduction
<1>4. n \in Good
  BY <1>3
<1> QED
  BY <1>4 DEF Good, LoopValues

(***************************************************************************)
(* The sort of the pools.                                                  *)
(***************************************************************************)
\* The lists of n pools.
Lists(n) == [1 .. n -> Pool]

LEMMA ListIsSeq == \A n \in Nat : \A s : s \in Lists(n) <=> s \in Seq(Pool) /\ Len(s) = n
  BY DEF Lists

\* t has the pools of s, each once, in some order.
Reordered(n, s, t) ==
    \E order \in Bijection(1 .. n, 1 .. n) : \A k \in 1 .. n : t[k] = s[order[k]]

LEMMA ReorderedSame ==
    ASSUME NEW n \in Nat, NEW s PROVE Reordered(n, s, s)
<1> DEFINE order == [k \in 1 .. n |-> k]
<1>1. order \in Bijection(1 .. n, 1 .. n)
  <2>1. order \in [1 .. n -> 1 .. n] /\ \A k \in 1 .. n : order[k] = k
    OBVIOUS
  <2> HIDE DEF order
  <2> QED
    BY <2>1, Fun_IsBij
<1> QED
  BY <1>1 DEF Reordered

LEMMA ReorderedTransitive ==
    ASSUME NEW n \in Nat, NEW s, NEW t, NEW u, Reordered(n, s, t), Reordered(n, t, u)
    PROVE  Reordered(n, s, u)
<1>1. PICK p \in Bijection(1 .. n, 1 .. n) : \A k \in 1 .. n : t[k] = s[p[k]]
  BY DEF Reordered
<1>2. PICK q \in Bijection(1 .. n, 1 .. n) : \A k \in 1 .. n : u[k] = t[q[k]]
  BY DEF Reordered
<1> DEFINE order == [k \in 1 .. n |-> p[q[k]]]
<1>3. order \in Bijection(1 .. n, 1 .. n)
  BY Fun_BijTransitive
<1>4. \A k \in 1 .. n : q[k] \in 1 .. n
  <2>1. q \in [1 .. n -> 1 .. n]
    BY Fun_BijectionProperties
  <2> QED
    BY <2>1
<1>5. \A k \in 1 .. n : u[k] = s[order[k]]
  BY <1>1, <1>2, <1>4
<1> HIDE DEF order
<1> QED
  BY <1>3, <1>5 DEF Reordered

\* One comparison of the sort.
LEMMA ExchangeLists ==
    ASSUME NEW n \in Nat, NEW s \in Lists(n), NEW i \in 1 .. n, NEW j \in i + 1 .. n
    PROVE  LET t == Exchange(s, i, j)
           IN /\ t \in Lists(n) /\ Reordered(n, s, t)
              /\ \A k \in 1 .. n : k # i /\ k # j => t[k] = s[k]
              /\ \/ t[i] = s[i] /\ t[j] = s[j]
                 \/ t[i] = s[j] /\ t[j] = s[i]
              /\ t[i].priority <= s[i].priority /\ t[i].priority <= t[j].priority
<1> DEFINE t == Exchange(s, i, j)
<1>1. j \in 1 .. n /\ i # j
  OBVIOUS
<1>2. s[i] \in Pool /\ s[j] \in Pool /\ s[i].priority \in Int /\ s[j].priority \in Int
  BY <1>1 DEF Lists, Pool
<1>3. CASE s[j].priority < s[i].priority
  <2>1. t = [s EXCEPT ![i] = s[j], ![j] = s[i]]
    BY <1>3 DEF Exchange
  <2>2. /\ t \in Lists(n) /\ t[i] = s[j] /\ t[j] = s[i]
        /\ \A k \in 1 .. n : k # i /\ k # j => t[k] = s[k]
    BY <1>1, <1>2, <2>1 DEF Lists
  <2> DEFINE order == [k \in 1 .. n |-> IF k = i THEN j ELSE IF k = j THEN i ELSE k]
  <2>3. order \in Bijection(1 .. n, 1 .. n)
    <3>1. order \in [1 .. n -> 1 .. n]
      BY <1>1
    <3>2. \A a, b \in 1 .. n : order[a] = order[b] => a = b
      BY <1>1
    <3>3. \A a \in 1 .. n : order[order[a]] = a
      BY <1>1
    <3> HIDE DEF order
    <3>4. \A a \in 1 .. n : \E b \in 1 .. n : order[b] = a
      BY <3>1, <3>3
    <3> QED
      BY <3>1, <3>2, <3>4, Fun_IsBij
  <2>4. \A k \in 1 .. n : t[k] = s[order[k]]
    BY <1>1, <2>2
  <2> HIDE DEF order
  <2>5. Reordered(n, s, t)
    BY <2>3, <2>4 DEF Reordered
  <2> QED
    BY <1>2, <1>3, <2>2, <2>5
<1>4. CASE ~(s[j].priority < s[i].priority)
  <2>1. t = s
    BY <1>4 DEF Exchange
  <2>2. Reordered(n, s, t)
    BY <2>1, ReorderedSame
  <2> QED
    BY <1>2, <1>4, <2>1, <2>2
<1> QED
  BY <1>3, <1>4

\* The turns of the inner loop.
LEMMA SelectForTurns ==
    ASSUME NEW n \in Nat, NEW s \in Lists(n), NEW i \in 1 .. n
    PROVE  \E f \in [i .. n -> Lists(n)] :
             /\ f[i] = s /\ SelectFor(s, i) = f[n]
             /\ \A j \in i + 1 .. n : f[j] = Exchange(f[j - 1], i, j)
<1> DEFINE Step == [kv \in (i .. n) \X Lists(n) |->
                      IF kv[1] = i THEN kv[2] ELSE Exchange(kv[2], i, kv[1])]
           Turns(f) == f = [j \in i .. n |-> IF j = i THEN s
                                                      ELSE Exchange(f[j - 1], i, j)]
<1>0. i \in Nat /\ i <= n
  OBVIOUS
<1>1. ASSUME NEW k \in i .. n, NEW v \in Lists(n)
      PROVE  (IF k = i THEN v ELSE Exchange(v, i, k)) \in Lists(n)
  BY ExchangeLists
<1>2. Step \in [(i .. n) \X Lists(n) -> Lists(n)]
  BY <1>1
<1>3. \A k \in i .. n : \A v \in Lists(n) :
        Step[<<k, v>>] = IF k = i THEN v ELSE Exchange(v, i, k)
  OBVIOUS
<1> HIDE DEF Step
<1>4. PICK f \in [i .. n -> Lists(n)] :
        \A k \in i .. n : f[k] = IF k = i THEN s ELSE Step[<<k, f[k - 1]>>]
  <2>1. LoopValues(i, n, Lists(n), s, Step) # {}
    BY <1>0, <1>2, LoopFunction
  <2> QED
    BY <2>1 DEF LoopValues
<1>5. \A k \in i .. n : f[k] = IF k = i THEN s ELSE Exchange(f[k - 1], i, k)
  <2> TAKE k \in i .. n
  <2>1. f[k] = IF k = i THEN s ELSE Step[<<k, f[k - 1]>>]
    BY <1>4
  <2>2. k # i => f[k - 1] \in Lists(n)
    OBVIOUS
  <2> QED
    BY <1>3, <2>1, <2>2
<1>6. Turns(f)
  BY <1>5
<1> DEFINE g == CHOOSE h : Turns(h)
<1>7. Turns(g)
  BY <1>6
<1>8. Len(s) = n
  BY ListIsSeq
<1>9. SelectFor(s, i) = g[n]
  BY <1>8 DEF SelectFor
<1> HIDE DEF g
<1>10. \A k \in i .. n : g[k] = IF k = i THEN s ELSE Exchange(g[k - 1], i, k)
  BY <1>7
<1>11. \A k \in i .. n : g[k] \in Lists(n)
  <2> DEFINE Good == {k \in i .. n : g[k] \in Lists(n)}
  <2>1. i \in Good
    BY <1>10
  <2>2. \A k \in i + 1 .. n : k - 1 \in Good => k \in Good
    BY <1>1, <1>10
  <2> HIDE DEF Good
  <2>3. \A k \in i .. n : k \in Good
    BY <1>0, <2>1, <2>2, LoopInduction
  <2> QED
    BY <2>3 DEF Good
<1>12. g \in [i .. n -> Lists(n)]
  <2>1. g = [j \in i .. n |-> g[j]]
    BY <1>7
  <2> QED
    BY <1>11, <2>1
<1> QED
  BY <1>9, <1>10, <1>12

\* t is what the inner loop makes of s until position j is compared.
Selected(n, s, i, j, t) ==
    /\ t \in Lists(n) /\ Reordered(n, s, t)
    /\ \A k \in 1 .. i - 1 : t[k] = s[k]
    /\ \A k \in i .. n : \E m \in i .. n : t[k] = s[m]
    /\ \A k \in i .. j : t[i].priority <= t[k].priority

LEMMA SelectedTurn ==
    ASSUME NEW n \in Nat, NEW s \in Lists(n), NEW i \in 1 .. n, NEW j \in i + 1 .. n,
           NEW t, Selected(n, s, i, j - 1, t)
    PROVE  Selected(n, s, i, j, Exchange(t, i, j))
<1> DEFINE u == Exchange(t, i, j)
<1>1. /\ t \in Lists(n) /\ Reordered(n, s, t)
      /\ \A k \in 1 .. i - 1 : t[k] = s[k]
      /\ \A k \in i .. n : \E m \in i .. n : t[k] = s[m]
      /\ \A k \in i .. j - 1 : t[i].priority <= t[k].priority
  BY DEF Selected
<1>2. /\ u \in Lists(n) /\ Reordered(n, t, u)
      /\ \A k \in 1 .. n : k # i /\ k # j => u[k] = t[k]
      /\ \/ u[i] = t[i] /\ u[j] = t[j]
         \/ u[i] = t[j] /\ u[j] = t[i]
      /\ u[i].priority <= t[i].priority /\ u[i].priority <= u[j].priority
  BY <1>1, ExchangeLists
<1> HIDE DEF u
<1>3. Reordered(n, s, u)
  BY <1>1, <1>2, ReorderedTransitive
<1>4. \A k \in 1 .. i - 1 : u[k] = s[k]
  BY <1>1, <1>2
<1>5. ASSUME NEW k \in i .. n PROVE \E m \in i .. n : u[k] = s[m]
  <2>1. i \in i .. n /\ j \in i .. n /\ k \in 1 .. n
    OBVIOUS
  <2>2. u[k] = t[k] \/ u[k] = t[i] \/ u[k] = t[j]
    BY <1>2, <2>1
  <2> QED
    BY <1>1, <2>1, <2>2
<1>6. ASSUME NEW k \in i .. j PROVE u[i].priority <= u[k].priority
  <2>0. k \in 1 .. n /\ i \in 1 .. n /\ j \in 1 .. n
    OBVIOUS
  <2>1. t[k] \in Pool /\ t[i] \in Pool /\ u[i] \in Pool /\ u[k] \in Pool
    BY <1>1, <1>2, <2>0 DEF Lists
  <2>2. /\ t[k].priority \in Int /\ t[i].priority \in Int
        /\ u[i].priority \in Int /\ u[k].priority \in Int
    BY <2>1 DEF Pool
  <2>3. CASE k = i
    BY <2>2, <2>3
  <2>4. CASE k = j
    BY <1>2, <2>4
  <2>5. CASE k # i /\ k # j
    <3>1. k \in i .. j - 1 /\ u[k] = t[k]
      BY <1>2, <2>0, <2>5
    <3>2. t[i].priority <= t[k].priority
      BY <1>1, <3>1
    <3> QED
      BY <1>2, <2>2, <3>1, <3>2
  <2> QED
    BY <2>3, <2>4, <2>5
<1> QED
  BY <1>2, <1>3, <1>4, <1>5, <1>6 DEF Selected, u

\* After a turn of the outer loop its position has a least number of those
\* from there on, and what is before it is untouched.
LEMMA SelectForCorrect ==
    ASSUME NEW n \in Nat, NEW s \in Lists(n), NEW i \in 1 .. n
    PROVE  Selected(n, s, i, n, SelectFor(s, i))
<1>1. PICK f \in [i .. n -> Lists(n)] :
        /\ f[i] = s /\ SelectFor(s, i) = f[n]
        /\ \A j \in i + 1 .. n : f[j] = Exchange(f[j - 1], i, j)
  BY SelectForTurns
<1> DEFINE Good == {j \in i .. n : Selected(n, s, i, j, f[j])}
<1>2. i \in Nat /\ i \in i .. n /\ n \in i .. n
  OBVIOUS
<1>3. i \in Good
  <2>1. s[i].priority \in Int
    BY DEF Lists, Pool
  <2>2. Selected(n, s, i, i, s)
    BY <1>2, <2>1, ReorderedSame DEF Selected
  <2> QED
    BY <1>1, <1>2, <2>2
<1>4. \A j \in i + 1 .. n : j - 1 \in Good => j \in Good
  BY <1>1, SelectedTurn
<1> HIDE DEF Good
<1>5. \A j \in i .. n : j \in Good
  BY <1>2, <1>3, <1>4, LoopInduction
<1> QED
  BY <1>1, <1>2, <1>5 DEF Good

\* The turns of the outer loop.
LEMMA ByPriorityTurns ==
    ASSUME NEW n \in Nat, NEW s \in Lists(n)
    PROVE  \E f \in [0 .. n -> Lists(n)] :
             /\ f[0] = s /\ ByPriority(s) = f[n]
             /\ \A i \in 1 .. n : f[i] = SelectFor(f[i - 1], i)
<1> DEFINE Step == [kv \in (0 .. n) \X Lists(n) |->
                      IF kv[1] = 0 THEN kv[2] ELSE SelectFor(kv[2], kv[1])]
           Turns(f) == f = [i \in 0 .. n |-> IF i = 0 THEN s
                                                      ELSE SelectFor(f[i - 1], i)]
<1>1. ASSUME NEW k \in 0 .. n, NEW v \in Lists(n)
      PROVE  (IF k = 0 THEN v ELSE SelectFor(v, k)) \in Lists(n)
  <2>1. k # 0 => SelectFor(v, k) \in Lists(n)
    BY SelectForCorrect DEF Selected
  <2> QED
    BY <2>1
<1>2. Step \in [(0 .. n) \X Lists(n) -> Lists(n)]
  BY <1>1
<1>3. \A k \in 0 .. n : \A v \in Lists(n) :
        Step[<<k, v>>] = IF k = 0 THEN v ELSE SelectFor(v, k)
  OBVIOUS
<1> HIDE DEF Step
<1>4. PICK f \in [0 .. n -> Lists(n)] :
        \A k \in 0 .. n : f[k] = IF k = 0 THEN s ELSE Step[<<k, f[k - 1]>>]
  <2>1. LoopValues(0, n, Lists(n), s, Step) # {}
    BY <1>2, 0 \in Nat /\ 0 <= n, LoopFunction
  <2> QED
    BY <2>1 DEF LoopValues
<1>5. \A k \in 0 .. n : f[k] = IF k = 0 THEN s ELSE SelectFor(f[k - 1], k)
  <2> TAKE k \in 0 .. n
  <2>1. f[k] = IF k = 0 THEN s ELSE Step[<<k, f[k - 1]>>]
    BY <1>4
  <2>2. k # 0 => f[k - 1] \in Lists(n)
    OBVIOUS
  <2> QED
    BY <1>3, <2>1, <2>2
<1>6. Turns(f)
  BY <1>5
<1> DEFINE g == CHOOSE h : Turns(h)
<1>7. Turns(g)
  BY <1>6
<1>8. Len(s) = n
  BY ListIsSeq
<1>9. ByPriority(s) = g[n]
  BY <1>8 DEF ByPriority
<1> HIDE DEF g
<1>10. \A k \in 0 .. n : g[k] = IF k = 0 THEN s ELSE SelectFor(g[k - 1], k)
  BY <1>7
<1>11. \A k \in 0 .. n : g[k] \in Lists(n)
  <2> DEFINE Good == {k \in 0 .. n : g[k] \in Lists(n)}
  <2>1. 0 \in Good
    BY <1>10
  <2>2. \A k \in 0 + 1 .. n : k - 1 \in Good => k \in Good
    <3> TAKE k \in 0 + 1 .. n
    <3>1. k \in 0 .. n /\ k # 0 /\ g[k] = SelectFor(g[k - 1], k)
      BY <1>10
    <3> QED
      BY <1>1, <3>1
  <2> HIDE DEF Good
  <2>3. \A k \in 0 .. n : k \in Good
    BY <2>1, <2>2, LoopInduction
  <2> QED
    BY <2>3 DEF Good
<1>12. g \in [0 .. n -> Lists(n)]
  <2>1. g = [j \in 0 .. n |-> g[j]]
    BY <1>7
  <2> QED
    BY <1>11, <2>1
<1>13. \A i \in 1 .. n : i # 0 /\ i \in 0 .. n
  OBVIOUS
<1> QED
  BY <1>9, <1>10, <1>12, <1>13

\* The pools up to i are in order, and none that follows has a lower number.
InOrderTo(n, i, t) ==
    \A k \in 1 .. i : \A m \in k .. n : t[k].priority <= t[m].priority

LEMMA InOrderTurn ==
    ASSUME NEW n \in Nat, NEW s \in Lists(n), NEW i \in 1 .. n, InOrderTo(n, i - 1, s)
    PROVE  InOrderTo(n, i, SelectFor(s, i))
<1> DEFINE t == SelectFor(s, i)
<1>1. /\ \A k \in 1 .. i - 1 : t[k] = s[k]
      /\ \A k \in i .. n : \E m \in i .. n : t[k] = s[m]
      /\ \A k \in i .. n : t[i].priority <= t[k].priority
  BY SelectForCorrect DEF Selected
<1> HIDE DEF t
<1> SUFFICES ASSUME NEW k \in 1 .. i, NEW m \in k .. n
             PROVE  t[k].priority <= t[m].priority
  BY DEF InOrderTo, t
<1>2. CASE k = i
  BY <1>1, <1>2
<1>3. CASE k # i /\ m < i
  <2>1. k \in 1 .. i - 1 /\ m \in 1 .. i - 1
    BY <1>3
  <2> QED
    BY <1>1, <2>1 DEF InOrderTo
<1>4. CASE k # i /\ m >= i
  <2>1. k \in 1 .. i - 1 /\ m \in i .. n
    BY <1>4
  <2>2. PICK q \in i .. n : t[m] = s[q]
    BY <1>1, <2>1
  <2>3. q \in k .. n
    BY <2>1
  <2> QED
    BY <1>1, <2>1, <2>2, <2>3 DEF InOrderTo
<1> QED
  BY <1>2, <1>3, <1>4

\* The exchange sort returns the pools it is given, each once, by priority
\* (config.go:291-298, manager.go:92-100).
THEOREM ByPriorityCorrect ==
    ASSUME NEW s \in Seq(Pool)
    PROVE  LET t == ByPriority(s)
           IN /\ t \in Seq(Pool) /\ Len(t) = Len(s)
              /\ Reordered(Len(s), s, t)
              /\ \A i, j \in 1 .. Len(s) : i < j => t[i].priority <= t[j].priority
<1> DEFINE n == Len(s)
<1>1. n \in Nat /\ s \in Lists(n)
  BY ListIsSeq
<1> HIDE DEF n
<1>2. PICK f \in [0 .. n -> Lists(n)] :
        /\ f[0] = s /\ ByPriority(s) = f[n]
        /\ \A i \in 1 .. n : f[i] = SelectFor(f[i - 1], i)
  BY <1>1, ByPriorityTurns
<1> DEFINE Good == {i \in 0 .. n : Reordered(n, s, f[i]) /\ InOrderTo(n, i, f[i])}
<1>3. 0 \in Good
  BY <1>1, <1>2, ReorderedSame DEF InOrderTo
<1>4. ASSUME NEW i \in 0 + 1 .. n, i - 1 \in Good
      PROVE  i \in Good
  <2>1. i \in 1 .. n /\ i - 1 \in 0 .. n /\ i \in 0 .. n
    BY <1>1
  <2>2. f[i - 1] \in Lists(n) /\ Reordered(n, s, f[i - 1]) /\ InOrderTo(n, i - 1, f[i - 1])
    BY <1>2, <1>4, <2>1
  <2>3. f[i] = SelectFor(f[i - 1], i)
    BY <1>2, <2>1
  <2>4. Reordered(n, f[i - 1], f[i])
    BY <1>1, <2>1, <2>2, <2>3, SelectForCorrect DEF Selected
  <2>5. Reordered(n, s, f[i])
    BY <1>1, <2>2, <2>4, ReorderedTransitive
  <2>6. InOrderTo(n, i, f[i])
    BY <1>1, <2>1, <2>2, <2>3, InOrderTurn
  <2> QED
    BY <2>1, <2>5, <2>6
<1> HIDE DEF Good
<1>5. \A i \in 0 .. n : i \in Good
  BY <1>1, <1>3, <1>4, LoopInduction
<1>6. /\ f[n] \in Lists(n) /\ Reordered(n, s, f[n]) /\ InOrderTo(n, n, f[n])
  <2>1. n \in 0 .. n
    BY <1>1
  <2> QED
    BY <1>2, <1>5, <2>1 DEF Good
<1>7. \A i, j \in 1 .. n : i < j => f[n][i].priority <= f[n][j].priority
  BY <1>1, <1>6 DEF InOrderTo
<1>8. f[n] \in Seq(Pool) /\ Len(f[n]) = n
  BY <1>1, <1>6, ListIsSeq
<1> QED
  BY <1>2, <1>6, <1>7, <1>8 DEF n

(***************************************************************************)
(* The enabled pools.                                                      *)
(***************************************************************************)
\* The places of the enabled pools among the first k.
EnabledTo(k, s) == {m \in 1 .. k : s[m].enabled}

\* t has the pools of s at the places given, each once, in some order.
Picks(s, places, t) ==
    /\ t \in Seq(Pool)
    /\ \E place \in Bijection(1 .. Len(t), places) :
         \A i \in 1 .. Len(t) : t[i] = s[place[i]]

LEMMA PicksAppend ==
    ASSUME NEW s, NEW places, NEW t, Picks(s, places, t),
           NEW m, m \notin places, s[m] \in Pool
    PROVE  Picks(s, places \cup {m}, Append(t, s[m]))
<1> DEFINE n == Len(t)
           u == Append(t, s[m])
<1>1. t \in Seq(Pool) /\ n \in Nat
  BY DEF Picks
<1>2. /\ u \in Seq(Pool) /\ Len(u) = n + 1
      /\ \A i \in 1 .. n : u[i] = t[i]
      /\ u[n + 1] = s[m]
  <2>1. \A e \in Pool : /\ Append(t, e) \in Seq(Pool)
                        /\ Len(Append(t, e)) = Len(t) + 1
                        /\ \A i \in 1 .. Len(t) : Append(t, e)[i] = t[i]
                        /\ Append(t, e)[Len(t) + 1] = e
    BY <1>1
  <2> QED
    BY <2>1
<1>3. PICK place \in Bijection(1 .. n, places) : \A i \in 1 .. n : t[i] = s[place[i]]
  BY DEF Picks
<1>4. /\ place \in [1 .. n -> places]
      /\ \A a, b \in 1 .. n : place[a] = place[b] => a = b
      /\ \A q \in places : \E a \in 1 .. n : place[a] = q
  BY <1>3, Fun_BijectionProperties
<1> HIDE DEF n, u
<1> DEFINE more == [i \in 1 .. n + 1 |-> IF i = n + 1 THEN m ELSE place[i]]
<1>5. \A i \in 1 .. n + 1 : i = n + 1 \/ (i \in 1 .. n /\ i # n + 1)
  BY <1>1
<1>6. /\ n + 1 \in 1 .. n + 1 /\ more[n + 1] = m
      /\ \A i \in 1 .. n : i \in 1 .. n + 1 /\ more[i] = place[i]
  BY <1>1
<1>7. more \in [1 .. n + 1 -> places \cup {m}]
  BY <1>4, <1>5
<1> HIDE DEF more
<1>8. more \in Bijection(1 .. n + 1, places \cup {m})
  <2>1. \A a, b \in 1 .. n + 1 : more[a] = more[b] => a = b
    BY <1>4, <1>5, <1>6
  <2>2. \A q \in places \cup {m} : \E a \in 1 .. n + 1 : more[a] = q
    BY <1>4, <1>6
  <2> QED
    BY <1>7, <2>1, <2>2, Fun_IsBij
<1>9. \A i \in 1 .. n + 1 : u[i] = s[more[i]]
  BY <1>2, <1>3, <1>5, <1>6
<1> QED
  BY <1>2, <1>8, <1>9 DEF Picks, u

\* The turns of the loop that collects the enabled pools.
LEMMA EnabledTurns ==
    ASSUME NEW s \in Seq(Pool)
    PROVE  \E f : /\ f[0] = <<>> /\ EnabledPools(s) = f[Len(s)]
                  /\ \A k \in 1 .. Len(s) :
                       f[k] = IF s[k].enabled THEN Append(f[k - 1], s[k]) ELSE f[k - 1]
<1> DEFINE n == Len(s)
           Turn(k, v) == IF k # 0 /\ s[k].enabled THEN Append(v, s[k]) ELSE v
           Step == [kv \in (0 .. n) \X Seq(Pool) |-> Turn(kv[1], kv[2])]
           Turns(f) == f = [k \in 0 .. n |->
                              CASE k = 0                 -> <<>>
                                [] k > 0 /\ s[k].enabled -> Append(f[k - 1], s[k])
                                [] OTHER                 -> f[k - 1]]
<1>0. n \in Nat /\ 0 \in Nat /\ 0 <= n
  OBVIOUS
<1>1. ASSUME NEW k \in 0 .. n, NEW v \in Seq(Pool)
      PROVE  Turn(k, v) \in Seq(Pool)
  <2>1. k # 0 => s[k] \in Pool
    OBVIOUS
  <2> QED
    BY <2>1
<1>2. Step \in [(0 .. n) \X Seq(Pool) -> Seq(Pool)]
  <2> HIDE DEF Turn
  <2> QED
    BY <1>1
<1>3. \A k \in 0 .. n : \A v \in Seq(Pool) : Step[<<k, v>>] = Turn(k, v)
  OBVIOUS
<1> HIDE DEF Step
<1>4. PICK f \in [0 .. n -> Seq(Pool)] :
        \A k \in 0 .. n : f[k] = IF k = 0 THEN <<>> ELSE Step[<<k, f[k - 1]>>]
  <2>1. LoopValues(0, n, Seq(Pool), <<>>, Step) # {}
    BY <1>0, <1>2, <<>> \in Seq(Pool), LoopFunction
  <2> QED
    BY <2>1 DEF LoopValues
<1>5. \A k \in 0 .. n : f[k] = IF k = 0 THEN <<>> ELSE Turn(k, f[k - 1])
  <2> TAKE k \in 0 .. n
  <2>1. f[k] = IF k = 0 THEN <<>> ELSE Step[<<k, f[k - 1]>>]
    BY <1>4
  <2>2. k # 0 => f[k - 1] \in Seq(Pool)
    OBVIOUS
  <2> HIDE DEF Turn
  <2> QED
    BY <1>3, <2>1, <2>2
<1>6. Turns(f)
  BY <1>5
<1> DEFINE g == CHOOSE h : Turns(h)
<1>7. Turns(g)
  BY <1>6
<1>8. EnabledPools(s) = g[n]
  BY DEF EnabledPools
<1> HIDE DEF g
<1>9. \A k \in 0 .. n : g[k] = CASE k = 0                 -> <<>>
                                 [] k > 0 /\ s[k].enabled -> Append(g[k - 1], s[k])
                                 [] OTHER                 -> g[k - 1]
  BY <1>7
<1>10. g[0] = <<>>
  BY <1>0, <1>9
<1>11. \A k \in 1 .. n :
         g[k] = IF s[k].enabled THEN Append(g[k - 1], s[k]) ELSE g[k - 1]
  <2> TAKE k \in 1 .. n
  <2>1. k \in 0 .. n /\ k # 0 /\ k > 0
    OBVIOUS
  <2> QED
    BY <1>9, <2>1
<1> QED
  BY <1>8, <1>10, <1>11

\* GetEnabledPools collects every enabled pool of the configuration once
\* (config.go:284-289).
THEOREM EnabledPoolsCorrect ==
    ASSUME NEW s \in Seq(Pool)
    PROVE  Picks(s, EnabledTo(Len(s), s), EnabledPools(s))
<1> DEFINE n == Len(s)
<1>1. PICK f : /\ f[0] = <<>> /\ EnabledPools(s) = f[n]
               /\ \A k \in 1 .. n :
                    f[k] = IF s[k].enabled THEN Append(f[k - 1], s[k]) ELSE f[k - 1]
  BY EnabledTurns
<1>2. n \in Nat /\ 0 \in Nat /\ \A k \in 1 .. n : s[k] \in Pool
  OBVIOUS
<1> HIDE DEF n
<1> DEFINE Good == {k \in 0 .. n : Picks(s, EnabledTo(k, s), f[k])}
<1>3. 0 \in Good
  <2> DEFINE place == [i \in 1 .. 0 |-> i]
  <2>1. EnabledTo(0, s) = {} /\ 1 .. 0 = {}
    BY DEF EnabledTo
  <2>2. place \in [1 .. 0 -> {}]
    BY <2>1
  <2> HIDE DEF place
  <2>3. place \in Bijection(1 .. 0, {})
    BY <2>1, <2>2, Fun_IsBij
  <2>4. <<>> \in Seq(Pool) /\ Len(<<>>) = 0
    OBVIOUS
  <2>5. \A i \in 1 .. 0 : <<>>[i] = s[place[i]]
    BY <2>1
  <2>6. Picks(s, {}, <<>>)
    BY <2>3, <2>4, <2>5 DEF Picks
  <2>7. 0 \in 0 .. n
    BY <1>2
  <2>8. Picks(s, EnabledTo(0, s), f[0])
    BY <1>1, <2>1, <2>6
  <2> QED
    BY <2>7, <2>8
<1>4. ASSUME NEW k \in 0 + 1 .. n, k - 1 \in Good
      PROVE  k \in Good
  <2>1. k \in 1 .. n /\ k \in 0 .. n /\ s[k] \in Pool
    BY <1>2
  <2>2. Picks(s, EnabledTo(k - 1, s), f[k - 1])
    BY <1>4
  <2>3. CASE s[k].enabled
    <3>1. EnabledTo(k, s) = EnabledTo(k - 1, s) \cup {k} /\ k \notin EnabledTo(k - 1, s)
      BY <2>1, <2>3 DEF EnabledTo
    <3>2. f[k] = Append(f[k - 1], s[k])
      BY <1>1, <2>1, <2>3
    <3>3. Picks(s, EnabledTo(k, s), f[k])
      BY <2>1, <2>2, <3>1, <3>2, PicksAppend
    <3> QED
      BY <2>1, <3>3
  <2>4. CASE ~s[k].enabled
    <3>1. EnabledTo(k, s) = EnabledTo(k - 1, s)
      BY <2>1, <2>4 DEF EnabledTo
    <3> QED
      BY <1>1, <2>1, <2>2, <2>4, <3>1
  <2> QED
    BY <2>3, <2>4
<1> HIDE DEF Good
<1>5. \A k \in 0 .. n : k \in Good
  BY <1>2, <1>3, <1>4, LoopInduction
<1>6. n \in 0 .. n
  BY <1>2
<1> QED
  BY <1>1, <1>5, <1>6 DEF Good, n

\* Sorting what was picked.
LEMMA PicksSorted ==
    ASSUME NEW s, NEW places, NEW t, Picks(s, places, t)
    PROVE  Picks(s, places, ByPriority(t)) /\ Len(ByPriority(t)) = Len(t)
<1> DEFINE n == Len(t)
           u == ByPriority(t)
<1>1. t \in Seq(Pool)
  BY DEF Picks
<1>2. u \in Seq(Pool) /\ Len(u) = n /\ Reordered(n, t, u)
  BY <1>1, ByPriorityCorrect
<1>3. PICK place \in Bijection(1 .. n, places) : \A i \in 1 .. n : t[i] = s[place[i]]
  BY DEF Picks
<1> HIDE DEF n, u
<1>4. PICK order \in Bijection(1 .. n, 1 .. n) : \A k \in 1 .. n : u[k] = t[order[k]]
  BY <1>2 DEF Reordered
<1> DEFINE both == [k \in 1 .. n |-> place[order[k]]]
<1>5. both \in Bijection(1 .. n, places)
  BY <1>3, <1>4, Fun_BijTransitive
<1>6. order \in [1 .. n -> 1 .. n]
  BY <1>4, Fun_BijectionProperties
<1>7. \A k \in 1 .. n : u[k] = s[both[k]]
  BY <1>3, <1>4, <1>6
<1> HIDE DEF both
<1> QED
  BY <1>2, <1>5, <1>7 DEF Picks, u, n

\* The pools the manager works with: the enabled ones of the configuration,
\* each once, by priority (config.go:283-301, manager.go:50-100).
THEOREM ManagerPools ==
    ASSUME NEW c, c.pools \in Seq(Pool)
    PROVE  LET t == ByPriority(GetEnabledPools(c))
           IN /\ Picks(c.pools, EnabledTo(Len(c.pools), c.pools), t)
              /\ \A i, j \in 1 .. Len(t) : i < j => t[i].priority <= t[j].priority
<1> DEFINE s == c.pools
           e == GetEnabledPools(c)
<1>1. Picks(s, EnabledTo(Len(s), s), e)
  BY EnabledPoolsCorrect, PicksSorted DEF GetEnabledPools
<1>2. Picks(s, EnabledTo(Len(s), s), ByPriority(e))
  <2> HIDE DEF e
  <2> QED
    BY <1>1, PicksSorted
<1>3. e \in Seq(Pool)
  BY <1>1 DEF Picks
<1> HIDE DEF e
<1> QED
  BY <1>2, <1>3, ByPriorityCorrect DEF e

(***************************************************************************)
(* The configuration: the address of the first pool, and the threads.      *)
(***************************************************************************)
Started == {"open", "rotate", "create", "append", "start", "running"}

Config == [pools : Seq(Pool), threads : Int]

\* The address that wins, and a pool that is mined on with an address.
AddressGiven(env, flags) ==
    IF flags.address # Unset THEN flags.address ELSE env.address

Overridden(p, a) == IF a = Unset THEN p ELSE [p EXCEPT !.address = a]

\* given and s differ by the address a of the first pool.
FirstOverridden(given, a, s) ==
    /\ s \in Seq(Pool) /\ Len(s) = Len(given)
    /\ \A k \in 1 .. Len(given) :
         s[k] = IF k = 1 THEN Overridden(given[k], a) ELSE given[k]

LEMMA WithAddressCorrect ==
    ASSUME NEW c \in Config, c.pools # <<>>,
           NEW a \in Addresses \cup {BadAddress, Unset}
    PROVE  /\ WithAddress(c, a) \in Config /\ WithAddress(c, a).pools # <<>>
           /\ FirstOverridden(c.pools, a, WithAddress(c, a).pools)
<1>1. c.pools \in Seq(Pool) /\ c.threads \in Int
  BY DEF Config
<1>2. CASE a = Unset
  BY <1>1, <1>2 DEF WithAddress, FirstOverridden, Overridden
<1>3. CASE a # Unset
  <2> DEFINE p == [c.pools[1] EXCEPT !.address = a]
             s == [c.pools EXCEPT ![1] = p]
             w == [c EXCEPT !.pools[1].address = a]
  <2>1. 1 \in 1 .. Len(c.pools) /\ c.pools[1] \in Pool
    BY <1>1
  <2>2. p \in Pool
    BY <2>1 DEF Pool
  <2>3. p = Overridden(c.pools[1], a)
    BY <1>3 DEF Overridden
  <2>4. w = [c EXCEPT !.pools = s]
    OBVIOUS
  <2> HIDE DEF p
  <2>5. /\ s \in Seq(Pool) /\ Len(s) = Len(c.pools) /\ s # <<>>
        /\ \A k \in 1 .. Len(c.pools) : s[k] = IF k = 1 THEN p ELSE c.pools[k]
    BY <1>1, <2>1, <2>2
  <2> HIDE DEF s
  <2>6. w \in Config /\ w.pools = s
    BY <2>4, <2>5 DEF Config
  <2>7. w = WithAddress(c, a)
    BY <1>3 DEF WithAddress
  <2> HIDE DEF w
  <2> QED
    BY <2>3, <2>5, <2>6, <2>7 DEF FirstOverridden
<1> QED
  BY <1>2, <1>3

\* What Load makes of the file, the environment and the flags.
\* The number of threads that wins; a 0 in the file is 1 by then.
ThreadsGiven(f, env, flags) ==
    IF flags.threads > 0 THEN flags.threads
    ELSE IF env.threads # Unset THEN env.threads
    ELSE IF f.threads = 0 THEN 1 ELSE f.threads

\* An address does not change the number of threads.
LEMMA WithAddressThreads ==
    ASSUME NEW c \in Config, NEW a
    PROVE  WithAddress(c, a).threads = c.threads
  BY DEF WithAddress, Config

LEMMA LoadedConfig ==
    ASSUME NEW f \in Files, NEW env \in Environments, NEW flags \in FlagSets,
           Validate(Default(f))
    PROVE  LET c == ApplyToConfig(OverrideFromEnv(Default(f), env), flags)
           IN /\ c \in Config
              /\ f.pools # <<>>
              /\ \A k \in 1 .. Len(f.pools) : f.pools[k].address \in Addresses
              /\ FirstOverridden(f.pools, AddressGiven(env, flags), c.pools)
              /\ f.threads >= 0 /\ c.threads = ThreadsGiven(f, env, flags)
<1> DEFINE c == Default(f)
           d == [c EXCEPT !.threads = IF env.threads = Unset THEN @ ELSE env.threads]
           o == OverrideFromEnv(c, env)
           e == [o EXCEPT !.threads = IF flags.threads > 0 THEN flags.threads ELSE @]
           r == ApplyToConfig(o, flags)
<1>1. /\ f \in Config /\ flags.threads \in Int
      /\ env.threads # Unset => env.threads \in Int
      /\ env.address \in Addresses \cup {BadAddress, Unset}
      /\ flags.address \in Addresses \cup {BadAddress, Unset}
  BY StartupAssumption DEF Config
<1>2. c \in Config /\ c.pools = f.pools
  BY <1>1 DEF Default, Config
<1>3. /\ f.pools # <<>>
      /\ \A k \in 1 .. Len(f.pools) : f.pools[k].address \in Addresses
  BY <1>2 DEF Validate, IsValidAddress
<1>11. f.threads >= 0 /\ c.threads = IF f.threads = 0 THEN 1 ELSE f.threads
  <2>1. f.threads \in Int /\ c.threads = IF f.threads = 0 THEN 1 ELSE f.threads
    BY <1>1 DEF Default, Config
  <2>2. c.threads >= 0
    BY DEF Validate
  <2> QED
    BY <2>1, <2>2
<1> HIDE DEF c
<1>4. d \in Config /\ d.pools = f.pools
  BY <1>1, <1>2 DEF Config
<1>12. d.threads = IF env.threads = Unset THEN c.threads ELSE env.threads
  BY <1>2 DEF Config
<1>5. o = WithAddress(d, env.address)
  BY DEF OverrideFromEnv
<1> HIDE DEF d
<1>6. o \in Config /\ o.pools # <<>> /\ FirstOverridden(f.pools, env.address, o.pools)
  BY <1>1, <1>3, <1>4, <1>5, WithAddressCorrect
<1>13. o.threads = d.threads
  BY <1>4, <1>5, WithAddressThreads
<1> HIDE DEF o
<1>7. e \in Config /\ e.pools = o.pools
  BY <1>1, <1>6 DEF Config
<1>14. e.threads = IF flags.threads > 0 THEN flags.threads ELSE o.threads
  BY <1>6 DEF Config
<1>8. r = WithAddress(e, flags.address)
  BY DEF ApplyToConfig
<1> HIDE DEF e
<1>9. r \in Config /\ FirstOverridden(o.pools, flags.address, r.pools)
  BY <1>1, <1>6, <1>7, <1>8, WithAddressCorrect
<1>15. r.threads = e.threads
  BY <1>7, <1>8, WithAddressThreads
<1> HIDE DEF r
<1>16. r.threads = ThreadsGiven(f, env, flags)
  BY <1>11, <1>12, <1>13, <1>14, <1>15 DEF ThreadsGiven
<1>10. FirstOverridden(f.pools, AddressGiven(env, flags), r.pools)
  <2>1. /\ r.pools \in Seq(Pool) /\ Len(r.pools) = Len(f.pools)
        /\ Len(o.pools) = Len(f.pools)
    BY <1>6, <1>9 DEF FirstOverridden
  <2>2. ASSUME NEW k \in 1 .. Len(f.pools), k # 1
        PROVE  r.pools[k] = f.pools[k]
    BY <1>6, <1>9, <2>1, <2>2 DEF FirstOverridden
  <2>3. ASSUME NEW k \in 1 .. Len(f.pools), k = 1
        PROVE  r.pools[k] = Overridden(f.pools[k], AddressGiven(env, flags))
    <3>1. /\ o.pools[k] = Overridden(f.pools[k], env.address)
          /\ r.pools[k] = Overridden(o.pools[k], flags.address)
          /\ f.pools[k] \in Pool
      BY <1>1, <1>6, <1>9, <2>1, <2>3 DEF FirstOverridden, Config
    <3> QED
      BY <3>1 DEF Overridden, AddressGiven, Pool
  <2> QED
    BY <2>1, <2>2, <2>3 DEF FirstOverridden
<1> QED
  BY <1>3, <1>9, <1>10, <1>11, <1>16 DEF r, o, c

(***************************************************************************)
(* What the pools of the manager have to do with those of the file.        *)
(***************************************************************************)
\* A pool without its address: the two overrides change nothing else.
Nameless(p) == [p EXCEPT !.address = Unset]

LEMMA OverriddenSame ==
    ASSUME NEW p \in Pool, NEW a
    PROVE  LET q == Overridden(p, a)
           IN /\ q.enabled = p.enabled /\ Nameless(q) = Nameless(p)
              /\ q.address = IF a = Unset THEN p.address ELSE a
  BY DEF Overridden, Nameless, Pool

\* B is what f makes of A.
Carries(n, T, f, A, B) ==
    /\ A \subseteq 1 .. n /\ B \subseteq T
    /\ \A k \in 1 .. n : k \in A <=> f[k] \in B

LEMMA EqualCounts ==
    ASSUME NEW n \in Nat, NEW T, NEW f \in Bijection(1 .. n, T),
           NEW A, NEW B, Carries(n, T, f, A, B)
    PROVE  Cardinality(A) = Cardinality(B)
<1> USE DEF Carries
<1> DEFINE g == [k \in A |-> f[k]]
<1>1. /\ f \in [1 .. n -> T]
      /\ \A a, b \in 1 .. n : f[a] = f[b] => a = b
      /\ \A q \in T : \E a \in 1 .. n : f[a] = q
  BY Fun_BijectionProperties
<1>2. g \in [A -> B] /\ \A k \in A : g[k] = f[k]
  BY <1>1
<1> HIDE DEF g
<1>3. \A a, b \in A : g[a] = g[b] => a = b
  BY <1>1, <1>2
<1>4. \A q \in B : \E a \in A : g[a] = q
  BY <1>1, <1>2
<1>5. g \in Bijection(A, B)
  BY <1>2, <1>3, <1>4, Fun_IsBij
<1>6. ExistsBijection(A, B)
  BY <1>5 DEF ExistsBijection
<1>7. IsFiniteSet(A)
  <2>1. IsFiniteSet(1 .. n)
    BY FS_Interval
  <2> QED
    BY <2>1, FS_Subset
<1> QED
  BY <1>6, <1>7, FS_Bijection

\* The pools picked from the overridden ones are the enabled ones given, each
\* as often.
LEMMA PicksCounted ==
    ASSUME NEW given \in Seq(Pool), NEW a, NEW s, FirstOverridden(given, a, s),
           NEW t, Picks(s, EnabledTo(Len(s), s), t)
    PROVE  LET enabled == {k \in 1 .. Len(given) : given[k].enabled}
           IN /\ Len(t) = Cardinality(enabled)
              /\ \A i \in 1 .. Len(t) :
                   Cardinality({k \in 1 .. Len(t) : Nameless(t[k]) = Nameless(t[i])})
                   = Cardinality({k \in enabled : Nameless(given[k]) = Nameless(t[i])})
<1> DEFINE n == Len(t)
           enabled == {k \in 1 .. Len(given) : given[k].enabled}
<1>1. \A k \in 1 .. Len(given) :
        /\ s[k].enabled = given[k].enabled
        /\ Nameless(s[k]) = Nameless(given[k])
  BY OverriddenSame DEF FirstOverridden
<1>2. EnabledTo(Len(s), s) = enabled
  BY <1>1 DEF EnabledTo, FirstOverridden
<1>3. PICK place \in Bijection(1 .. n, enabled) : \A i \in 1 .. n : t[i] = s[place[i]]
  BY <1>2 DEF Picks
<1>4. n \in Nat
  BY DEF Picks
<1>5. place \in [1 .. n -> enabled]
  BY <1>3, Fun_BijectionProperties
<1>6. \A k \in 1 .. n : Nameless(t[k]) = Nameless(given[place[k]])
  BY <1>1, <1>3, <1>5
<1> HIDE DEF n
<1>7. n = Cardinality(enabled)
  <2>1. Carries(n, enabled, place, 1 .. n, enabled)
    BY <1>5 DEF Carries
  <2>2. Cardinality(1 .. n) = Cardinality(enabled)
    BY <1>3, <1>4, <2>1, EqualCounts
  <2> QED
    BY <1>4, <2>2, FS_Interval
<1>8. ASSUME NEW i \in 1 .. n
      PROVE  Cardinality({k \in 1 .. n : Nameless(t[k]) = Nameless(t[i])})
             = Cardinality({k \in enabled : Nameless(given[k]) = Nameless(t[i])})
  <2> DEFINE A == {k \in 1 .. n : Nameless(t[k]) = Nameless(t[i])}
             B == {k \in enabled : Nameless(given[k]) = Nameless(t[i])}
  <2>1. Carries(n, enabled, place, A, B)
    BY <1>5, <1>6 DEF Carries
  <2> HIDE DEF A, B
  <2>2. Cardinality(A) = Cardinality(B)
    BY <1>3, <1>4, <2>1, EqualCounts
  <2> QED
    BY <2>2 DEF A, B
<1> QED
  BY <1>7, <1>8 DEF n

\* Of t, the pools that have no address of the file have the address given: the
\* first of the file, if it is enabled.
Addressed(given, a, t) ==
    LET inFile == {given[k].address : k \in 1 .. Len(given)}
        used   == {i \in 1 .. Len(t) : t[i].address \notin inFile}
    IN /\ \A i \in used : t[i].address = a
       /\ Cardinality(used) = IF given[1].enabled /\ a # Unset /\ a \notin inFile
                              THEN 1 ELSE 0

\* The address given is mined for with the first pool of the file, if that is
\* enabled, and with no other.
LEMMA PicksAddressed ==
    ASSUME NEW given \in Seq(Pool), given # <<>>, NEW a, NEW s,
           FirstOverridden(given, a, s),
           NEW t, Picks(s, EnabledTo(Len(s), s), t)
    PROVE  Addressed(given, a, t)
<1> DEFINE n == Len(t)
           places == EnabledTo(Len(s), s)
           inFile == {given[k].address : k \in 1 .. Len(given)}
           used   == {i \in 1 .. n : t[i].address \notin inFile}
           change == a # Unset /\ a \notin inFile
<1>1. Len(s) = Len(given) /\ Len(given) \in Nat /\ 1 \in 1 .. Len(given)
  BY DEF FirstOverridden
<1>2. \A k \in 1 .. Len(given) :
        /\ s[k].enabled = given[k].enabled
        /\ k # 1 => s[k].address = given[k].address
        /\ k = 1 => s[k].address = IF a = Unset THEN given[k].address ELSE a
  BY OverriddenSame DEF FirstOverridden
<1>3. \A k \in 1 .. Len(given) : s[k].address \notin inFile <=> k = 1 /\ change
  <2> TAKE k \in 1 .. Len(given)
  <2>1. given[k].address \in inFile
    OBVIOUS
  <2> HIDE DEF inFile
  <2> QED
    BY <1>2, <2>1
<1>4. PICK place \in Bijection(1 .. n, places) : \A i \in 1 .. n : t[i] = s[place[i]]
  BY DEF Picks
<1>5. /\ place \in [1 .. n -> places]
      /\ \A i, j \in 1 .. n : place[i] = place[j] => i = j
      /\ \A q \in places : \E i \in 1 .. n : place[i] = q
  BY <1>4, Fun_BijectionProperties
<1>6. \A q : q \in places <=> q \in 1 .. Len(given) /\ given[q].enabled
  BY <1>1, <1>2 DEF EnabledTo
<1> HIDE DEF n, places, inFile
<1>7. \A i \in 1 .. n : i \in used <=> place[i] = 1 /\ change
  <2> HIDE DEF change
  <2> QED
    BY <1>3, <1>4, <1>5, <1>6
<1>8. \A i \in used : t[i].address = a
  BY <1>1, <1>2, <1>4, <1>7
<1>9. CASE given[1].enabled /\ change
  <2>1. PICK i \in 1 .. n : place[i] = 1
    BY <1>1, <1>5, <1>6, <1>9
  <2>2. used = {i}
    <3> HIDE DEF change
    <3> QED
      BY <1>5, <1>7, <1>9, <2>1
  <2>3. Cardinality(used) = 1
    BY <2>2, FS_Singleton
  <2> QED
    BY <1>8, <1>9, <2>3 DEF n, inFile, Addressed
<1>10. CASE ~(given[1].enabled /\ change)
  <2>1. \A i \in 1 .. n : place[i] = 1 => given[1].enabled
    BY <1>5, <1>6
  <2>2. used = {}
    <3> HIDE DEF change
    <3> QED
      BY <1>7, <1>10, <2>1
  <2>3. Cardinality(used) = 0
    BY <2>2, FS_EmptySet
  <2> QED
    BY <1>8, <1>10, <2>3 DEF n, inFile, Addressed
<1> QED
  BY <1>9, <1>10

(***************************************************************************)
(* The invariant of the settings.                                          *)
(***************************************************************************)
\* Where a configuration comes from, and what is left of it.
ConfigInv ==
    /\ phase # "down" =>
           source \in [file : Files, env : Environments, flags : FlagSets]
    /\ phase \in Started =>
         /\ cfg \in Config
         /\ source.file.pools # <<>>
         /\ \A k \in 1 .. Len(source.file.pools) :
              source.file.pools[k].address \in Addresses
         /\ FirstOverridden(source.file.pools,
                            AddressGiven(source.env, source.flags), cfg.pools)
         /\ source.file.threads >= 0
         /\ cfg.threads = ThreadsGiven(source.file, source.env, source.flags)

\* What the manager and the miner made of it.
MinerInv ==
    /\ pools = IF phase = "running" THEN ByPriority(GetEnabledPools(cfg)) ELSE <<>>
    /\ phase = "running" =>
           workers = IF cfg.threads <= 0 THEN NumCPU ELSE cfg.threads
    /\ workers \in Nat

\* TypeOK, without the pools.
RestTyped ==
    /\ phase \in Started \cup {"down", "load"}
    /\ workers \in Nat
    /\ writer \in {"stdout", "file"}
    /\ starting \in Nat /\ cutoff \in Int \cup {Unset}
    /\ file = NoFile \/ file \subseteq Line
    /\ modTime \in 0 .. MaxTime
    /\ backups \subseteq [stamp : 0 .. MaxTime, lines : SUBSET Line,
                          modTime : 0 .. MaxTime]
    /\ clock \in 0 .. MaxTime /\ runs \in 0 .. MaxRuns
    /\ written \subseteq Line /\ overwritten \subseteq written

StartInv == LogInv /\ ConfigInv /\ MinerInv /\ RestTyped

LEMMA SettingsInit == Init => ConfigInv /\ MinerInv
  BY DEF Init, ConfigInv, MinerInv, Started

LEMMA ConfigNext == ConfigInv /\ [Next]_vars => ConfigInv'
<1> SUFFICES ASSUME ConfigInv, [Next]_vars PROVE ConfigInv'
  OBVIOUS
<1>1. CASE LoadFails \/ StartFails \/ Exit \/ Kill
  BY <1>1 DEF LoadFails, StartFails, Exit, Kill, End, ConfigInv, Started
<1>2. CASE Run
  BY <1>2 DEF Run, ConfigInv, Started
<1>3. CASE Load
  <2>1. /\ source \in [file : Files, env : Environments, flags : FlagSets]
        /\ source' = source /\ phase' = "open"
        /\ Validate(Default(source.file))
        /\ cfg' = ApplyToConfig(OverrideFromEnv(Default(source.file), source.env),
                                source.flags)
    BY <1>3 DEF Load, ConfigInv
  <2>2. /\ source.file \in Files /\ source.env \in Environments
        /\ source.flags \in FlagSets
    BY <2>1
  <2>3. /\ cfg' \in Config /\ source.file.pools # <<>>
        /\ \A k \in 1 .. Len(source.file.pools) :
             source.file.pools[k].address \in Addresses
        /\ FirstOverridden(source.file.pools,
                           AddressGiven(source.env, source.flags), cfg'.pools)
        /\ source.file.threads >= 0
        /\ cfg'.threads = ThreadsGiven(source.file, source.env, source.flags)
    BY <2>1, <2>2, LoadedConfig
  <2> QED
    BY <2>1, <2>3 DEF ConfigInv
<1>4. CASE Start \/ OpenFile
  <2>1. UNCHANGED <<source, cfg>> /\ phase \in Started
    BY <1>4 DEF Start, OpenFile, Stat, Rotate, OpenToAppend, OpenFails, settings,
                Started
  <2>2. phase # "down"
    BY <2>1 DEF Started
  <2> QED
    BY <2>1, <2>2 DEF ConfigInv
<1>5. CASE Log \/ Tick \/ UNCHANGED vars \/ CleanOldBackups
  <2>1. UNCHANGED <<phase, source, cfg>>
    BY <1>5 DEF Log, Tick, CleanOldBackups, CleanerStarts, CleanBackup, vars, settings
  <2> QED
    BY <2>1 DEF ConfigInv
<1> QED
  BY <1>1, <1>2, <1>3, <1>4, <1>5 DEF Next

LEMMA MinerNext == ConfigInv /\ MinerInv /\ [Next]_vars => MinerInv'
<1> SUFFICES ASSUME ConfigInv, MinerInv, [Next]_vars PROVE MinerInv'
  OBVIOUS
<1>1. CASE LoadFails \/ StartFails \/ Exit \/ Kill
  BY <1>1 DEF LoadFails, StartFails, Exit, Kill, End, MinerInv
<1>2. CASE Run \/ Load \/ OpenFile
  BY <1>2 DEF Run, Load, OpenFile, Stat, Rotate, OpenToAppend, OpenFails, settings,
              MinerInv
<1>3. CASE Start
  <2>1. /\ workers' = (IF cfg.threads <= 0 THEN NumCPU ELSE cfg.threads)
        /\ pools' = ByPriority(GetEnabledPools(cfg))
        /\ phase' = "running" /\ cfg' = cfg /\ cfg.threads \in Int
    BY <1>3 DEF Start, ConfigInv, Started, Config
  <2>2. workers' \in Nat /\ workers' >= 1
    BY <2>1, StartupAssumption
  <2> QED
    BY <2>1, <2>2 DEF MinerInv
<1>4. CASE Log \/ Tick \/ UNCHANGED vars \/ CleanOldBackups
  <2>1. UNCHANGED <<phase, cfg, pools, workers>>
    BY <1>4 DEF Log, Tick, CleanOldBackups, CleanerStarts, CleanBackup, vars, settings
  <2> QED
    BY <2>1 DEF MinerInv
<1> QED
  BY <1>1, <1>2, <1>3, <1>4 DEF Next

LEMMA RestInit == Init => RestTyped
<1> SUFFICES ASSUME Init PROVE RestTyped
  OBVIOUS
<1>1. 0 \in 0 .. MaxTime /\ 0 \in 0 .. MaxRuns
  BY StartupAssumption
<1> QED
  BY <1>1 DEF Init, RestTyped

LEMMA RestNext ==
    LogInv /\ MinerInv' /\ LogInv' /\ RestTyped /\ [Next]_vars => RestTyped'
<1> SUFFICES ASSUME LogInv, MinerInv', LogInv', RestTyped, [Next]_vars
             PROVE  RestTyped'
  OBVIOUS
<1>0. MaxTime \in Nat /\ MaxRuns \in Nat /\ MaxAge \in Nat
  BY StartupAssumption
<1>1. /\ workers' \in Nat /\ clock' \in 0 .. MaxTime /\ modTime' \in 0 .. MaxTime
      /\ written' \subseteq Line
      /\ (file' = NoFile \/ file' \subseteq Line)
      /\ starting' \in Nat /\ cutoff' \in Int \cup {Unset}
  BY <1>0 DEF LogInv, MinerInv, TimeInv, FileInv, CleanerInv
<1>2. /\ phase' \in Started \cup {"down", "load"} /\ writer' \in {"stdout", "file"}
      /\ runs' \in 0 .. MaxRuns
  <2>1. CASE Run
    BY <1>0, <2>1 DEF Run, RestTyped, Started
  <2>2. CASE LoadFails \/ StartFails \/ Exit \/ Kill
    BY <2>2 DEF LoadFails, StartFails, Exit, Kill, End, RestTyped
  <2>3. CASE Load \/ Start
    BY <2>3 DEF Load, Start, RestTyped, Started
  <2>4. CASE OpenFile
    BY <2>4 DEF OpenFile, Stat, Rotate, OpenToAppend, OpenFails, RestTyped, Started
  <2>5. CASE Log \/ Tick \/ UNCHANGED vars \/ CleanOldBackups
    BY <2>5 DEF Log, Tick, CleanOldBackups, CleanerStarts, CleanBackup, vars, RestTyped
  <2> QED
    BY <2>1, <2>2, <2>3, <2>4, <2>5 DEF Next
<1>3. /\ backups' \subseteq [stamp : 0 .. MaxTime, lines : SUBSET Line,
                             modTime : 0 .. MaxTime]
      /\ overwritten' \subseteq written'
  <2>1. CASE Rotate
    <3> DEFINE new == [stamp |-> clock, lines |-> file, modTime |-> modTime]
    <3>1. new \in [stamp : 0 .. MaxTime, lines : SUBSET Line, modTime : 0 .. MaxTime]
      BY <2>1 DEF Rotate, LogInv, WriterInv, RestTyped
    <3>2. \A b \in backups : b.lines \subseteq written
      BY DEF LogInv, BackupInv
    <3> HIDE DEF new
    <3>3. backups' \subseteq backups \cup {new} /\ written' = written
      BY <2>1 DEF Rotate, new
    <3>4. overwritten' \subseteq overwritten \cup UNION {b.lines : b \in backups}
      BY <2>1 DEF Rotate
    <3> QED
      BY <3>1, <3>2, <3>3, <3>4 DEF RestTyped
  <2>2. CASE ~Rotate
    <3>1. backups' \subseteq backups
      BY <2>2 DEF Next, Run, LoadFails, Load, StartFails, Exit, Kill, End, Start,
         OpenFile, Stat, OpenToAppend, OpenFails, CleanOldBackups, CleanerStarts,
         CleanBackup, Log, Tick, disk, vars
    <3>2. overwritten' = overwritten /\ written \subseteq written'
      BY <2>2 DEF Next, Run, LoadFails, Load, StartFails, Exit, Kill, End, Start,
         OpenFile, Stat, OpenToAppend, OpenFails, CleanOldBackups, CleanerStarts,
         CleanBackup, Log, Tick, history, vars
    <3> QED
      BY <3>1, <3>2 DEF RestTyped
  <2> QED
    BY <2>1, <2>2
<1> QED
  BY <1>1, <1>2, <1>3 DEF RestTyped

LEMMA StartInvariant == Spec => []StartInv
<1>1. Init => StartInv
  BY LogInit, SettingsInit, RestInit DEF StartInv
<1>2. StartInv /\ [Next]_vars => StartInv'
  BY LogNext, ConfigNext, MinerNext, RestNext DEF StartInv
<1> QED
  BY <1>1, <1>2, PTL DEF Spec

\* The pools of a running miner, and the configuration they come from.
LEMMA RunningPools ==
    ASSUME StartInv, phase = "running"
    PROVE  /\ source.file.pools \in Seq(Pool) /\ source.file.pools # <<>>
           /\ FirstOverridden(source.file.pools,
                              AddressGiven(source.env, source.flags), cfg.pools)
           /\ Picks(cfg.pools, EnabledTo(Len(cfg.pools), cfg.pools), pools)
           /\ \A i, j \in 1 .. Len(pools) :
                i < j => pools[i].priority <= pools[j].priority
<1>1. /\ source \in [file : Files, env : Environments, flags : FlagSets]
      /\ cfg \in Config /\ source.file.pools # <<>>
      /\ FirstOverridden(source.file.pools,
                         AddressGiven(source.env, source.flags), cfg.pools)
      /\ pools = ByPriority(GetEnabledPools(cfg))
  BY DEF StartInv, ConfigInv, MinerInv, Started
<1>2. source.file.pools \in Seq(Pool)
  BY <1>1, StartupAssumption
<1>3. cfg.pools \in Seq(Pool)
  BY <1>1 DEF Config
<1> QED
  BY <1>1, <1>2, <1>3, ManagerPools

\* Every variable keeps its type, whatever the files, the environment and the
\* flags say; the pools the manager is left with are pools of the file.
THEOREM TypeCorrect == Spec => []TypeOK
<1>1. StartInv => TypeOK
  <2> SUFFICES ASSUME StartInv PROVE TypeOK
    OBVIOUS
  <2>1. CASE phase = "running"
    <3>1. pools \in Seq(Pool)
      BY <2>1, RunningPools DEF Picks
    <3> QED
      BY <3>1 DEF StartInv, RestTyped, TypeOK, Started
  <2>2. CASE phase # "running"
    <3>1. pools = <<>> /\ <<>> \in Seq(Pool)
      BY <2>2 DEF StartInv, MinerInv
    <3> QED
      BY <3>1 DEF StartInv, RestTyped, TypeOK, Started
  <2> QED
    BY <2>1, <2>2
<1> QED
  BY <1>1, StartInvariant, PTL

\* A running miner has the number of workers that flag, environment and file
\* give in this order, the enabled pools of its file, each once and by
\* priority, and the address of the flag or else of the environment on the
\* first pool of the file and on no other: both sorts and the overrides that
\* come after the validation included (config.go:67-90, 144-245, 283-301,
\* flags.go:54-70, manager.go:50-100, miner.go:75-77).
THEOREM RunsAsConfiguredCorrect == Spec => []RunsAsConfigured
<1>1. StartInv => RunsAsConfigured
  <2> SUFFICES ASSUME StartInv, phase = "running"
               PROVE  ThreadsUsed /\ PoolsInOrder /\ AddressUsed
    BY DEF RunsAsConfigured
  <2> DEFINE given == source.file.pools
             a == AddressGiven(source.env, source.flags)
  <2>1. /\ given \in Seq(Pool) /\ given # <<>>
        /\ FirstOverridden(given, a, cfg.pools)
        /\ Picks(cfg.pools, EnabledTo(Len(cfg.pools), cfg.pools), pools)
        /\ \A i, j \in 1 .. Len(pools) :
             i < j => pools[i].priority <= pools[j].priority
    BY RunningPools
  <2>2. \A k \in 1 .. Len(given) : given[k].address \in Addresses
    BY DEF StartInv, ConfigInv, Started
  <2> DEFINE enabled == {k \in 1 .. Len(given) : given[k].enabled}
             Times(p, s, ks) == Cardinality({k \in ks : Nameless(s[k]) = Nameless(p)})
  <2>3. PoolsInOrder
    <3>1. /\ Len(pools) = Cardinality(enabled)
          /\ \A i \in 1 .. Len(pools) :
               Times(pools[i], pools, 1 .. Len(pools)) = Times(pools[i], given, enabled)
      <4> HIDE DEF given, a
      <4> QED
        BY <2>1, PicksCounted
    <3> QED
      BY <2>1, <3>1 DEF PoolsInOrder, Nameless
  <2>4. AddressUsed
    <3>1. Addressed(given, a, pools)
      <4> HIDE DEF given, a
      <4> QED
        BY <2>1, PicksAddressed
    <3> QED
      BY <2>2, <3>1 DEF AddressUsed, AddressGiven, Addressed
  <2>5. ThreadsUsed
    <3>1. /\ source \in [file : Files, env : Environments, flags : FlagSets]
          /\ source.file.threads >= 0
          /\ cfg.threads = ThreadsGiven(source.file, source.env, source.flags)
          /\ workers = IF cfg.threads <= 0 THEN NumCPU ELSE cfg.threads
      BY DEF StartInv, ConfigInv, MinerInv, Started
    <3>2. /\ source.file.threads \in Int /\ source.flags.threads \in Int
          /\ source.env.threads # Unset => source.env.threads \in Int
      BY <3>1, StartupAssumption
    <3> HIDE DEF given, a, enabled, Times
    <3>3. CASE source.flags.threads > 0
      BY <3>1, <3>2, <3>3 DEF ThreadsUsed, ThreadsGiven
    <3>4. CASE ~(source.flags.threads > 0) /\ source.env.threads # Unset
      BY <3>1, <3>2, <3>4 DEF ThreadsUsed, ThreadsGiven
    <3>5. CASE ~(source.flags.threads > 0) /\ source.env.threads = Unset
      BY <3>1, <3>2, <3>5 DEF ThreadsUsed, ThreadsGiven
    <3> QED
      BY <3>3, <3>4, <3>5
  <2> QED
    BY <2>3, <2>4, <2>5
<1> QED
  BY <1>1, StartInvariant, PTL

=============================================================================
