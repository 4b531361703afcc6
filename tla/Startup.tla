------------------------------ MODULE Startup ------------------------------
(***************************************************************************)
(* From the command line to a running miner, and what a run leaves behind: *)
(* config.Load, ApplyToConfig and GetEnabledPools (internal/config), the   *)
(* log file, its rotation and the cleaning of its backups (internal/       *)
(* logger), and main's start and end (cmd/nogominer/main.go).  The process *)
(* may be started again after it ended or was killed; the log directory    *)
(* stays.                                                                  *)
(*                                                                         *)
(* Time is counted in seconds, the resolution of a backup's name, and the  *)
(* size of the log in lines.  MaxBackups is not modelled: the logger never *)
(* reads it.                                                               *)
(***************************************************************************)
EXTENDS Integers, FiniteSets, Sequences

CONSTANTS Files,      \* configuration files: pools in file order, and threads
          Addresses,  \* addresses that pass isValidAddress
          BadAddress, \* one that does not
          Unset,      \* a variable or flag that is not given
          Environments, \* NOGOMINER_THREADS and NOGOMINER_ADDRESS
          FlagSets,   \* -threads, 0 if it is not given, and -address
          NumCPU,     \* runtime.NumCPU()
          MaxSize,    \* logging.max_size_mb, in lines
          MaxAge,     \* logging.max_age_days, in seconds
          NoFile,     \* the log file does not exist
          MaxLines, MaxTime, MaxRuns  \* bounds

\* A line of the log, with the time it was written.
Line == [number : 0 .. MaxLines - 1, time : 0 .. MaxTime]

\* A pool of the configuration, reduced to what the start depends on.
Pool == [priority : Int, enabled : BOOLEAN,
         address : Addresses \cup {BadAddress, Unset}]

ASSUME StartupAssumption ==
    /\ BadAddress \notin Addresses /\ Unset \notin Addresses \cup {BadAddress}
    /\ Files \subseteq [pools : Seq(Pool), threads : Int]
    /\ LET Given == Addresses \cup {BadAddress, Unset}
       IN /\ Environments \subseteq [threads : Int \cup {Unset}, address : Given]
          /\ FlagSets \subseteq [threads : Int, address : Given]
    /\ NumCPU \in Nat \ {0} /\ MaxSize \in Nat \ {0} /\ MaxAge \in Nat \ {0}
    /\ MaxLines \in Nat /\ MaxTime \in Nat /\ MaxRuns \in Nat
    /\ \A lines \in SUBSET Line : NoFile # lines

VARIABLES
    phase,          \* where main is
    source,         \* the configuration file, environment and flags of this run
    cfg,            \* cfg: its pools and threads
    pools, workers, \* the manager's pools, the number of the miner's workers
    writer,         \* l.writer: "stdout" or "file"
    starting,       \* cleaners (cleanOldBackups) that have no cutoff yet
    cutoff,         \* the latest cutoff of a cleaner, or Unset
    file,           \* lines of the log file, or NoFile
    modTime,        \* when it was last written
    backups,        \* backup files: [stamp, lines, modTime]
    clock, runs,
    written,        \* history: the lines written to a file
    overwritten     \* history: lines of backups replaced by another

settings == <<source, cfg, pools, workers>>
cleaner  == <<starting, cutoff>>
disk     == <<file, modTime, backups>>
history  == <<written, overwritten>>
vars     == <<phase, settings, writer, cleaner, disk, clock, runs, history>>

(***************************************************************************)
(* Configuration.                                                          *)
(***************************************************************************)
Default(c) == [c EXCEPT !.threads = IF @ = 0 THEN 1 ELSE @]

IsValidAddress(a) == a \in Addresses

Validate(c) ==
    /\ c.pools # <<>>
    /\ \A i \in 1 .. Len(c.pools) :
         IsValidAddress(c.pools[i].address) /\ c.pools[i].priority >= 1
    /\ c.threads >= 0

\* The first pool of the file gets the address, enabled or not.
WithAddress(c, a) == IF a = Unset THEN c ELSE [c EXCEPT !.pools[1].address = a]

\* After Validate: neither the address nor the threads are checked again.
OverrideFromEnv(c, env) ==
    WithAddress([c EXCEPT !.threads = IF env.threads = Unset THEN @ ELSE env.threads],
                env.address)

ApplyToConfig(c, flags) ==
    WithAddress([c EXCEPT !.threads = IF flags.threads > 0 THEN flags.threads ELSE @],
                flags.address)

\* Exchange the two if the later one has the lower number.
Exchange(s, i, j) ==
    IF s[j].priority < s[i].priority
    THEN [s EXCEPT ![i] = s[j], ![j] = s[i]]
    ELSE s

\* One turn of the outer loop: position i is compared with each after it.
SelectFor(s, i) ==
    LET after[j \in i .. Len(s)] ==
            IF j = i THEN s ELSE Exchange(after[j - 1], i, j)
    IN after[Len(s)]

\* The exchange sort of GetEnabledPools, done again by the pool manager.
ByPriority(s) ==
    LET after[i \in 0 .. Len(s)] ==
            IF i = 0 THEN s ELSE SelectFor(after[i - 1], i)
    IN after[Len(s)]

\* The loop that collects the enabled pools.
EnabledPools(s) ==
    LET after[k \in 0 .. Len(s)] ==
            CASE k = 0                 -> <<>>
              [] k > 0 /\ s[k].enabled -> Append(after[k - 1], s[k])
              [] OTHER                 -> after[k - 1]
    IN after[Len(s)]

GetEnabledPools(c) == ByPriority(EnabledPools(c.pools))

(***************************************************************************)
(* main: configuration.                                                    *)
(***************************************************************************)
Run ==
    /\ phase = "down" /\ runs < MaxRuns
    /\ runs' = runs + 1
    /\ phase' = "load"
    /\ source' \in [file : Files, env : Environments, flags : FlagSets]
    /\ UNCHANGED <<cfg, pools, workers, writer, cleaner, disk, clock, history>>

\* The process ends, by itself or killed.
End ==
    /\ phase' = "down"
    /\ source' = Unset /\ cfg' = Unset /\ pools' = <<>> /\ workers' = 0
    /\ writer' = "stdout" /\ starting' = 0 /\ cutoff' = Unset
    /\ UNCHANGED <<disk, clock, runs, history>>

\* The file cannot be read or parsed, or is not valid.
LoadFails == phase = "load" /\ End

\* Mutant of Load: the environment overrides the flags.
LoadEnvironmentLast ==
    /\ phase = "load"
    /\ LET c == Default(source.file)
       IN /\ Validate(c)
          /\ cfg' = OverrideFromEnv(ApplyToConfig(c, source.flags), source.env)
    /\ phase' = "open"
    /\ UNCHANGED <<source, pools, workers, writer, cleaner, disk, clock, runs,
                   history>>

Load ==
    /\ phase = "load"
    /\ LET c == Default(source.file)
       IN /\ Validate(c)
          /\ cfg' = ApplyToConfig(OverrideFromEnv(c, source.env), source.flags)
    /\ phase' = "open"
    /\ UNCHANGED <<source, pools, workers, writer, cleaner, disk, clock, runs,
                   history>>

(***************************************************************************)
(* The logger: openFile, which rotates, which calls openFile.              *)
(***************************************************************************)
Stat ==
    /\ phase = "open"
    /\ phase' = IF file # NoFile /\ Cardinality(file) > MaxSize
                THEN "rotate" ELSE "append"
    /\ UNCHANGED <<settings, writer, cleaner, disk, clock, runs, history>>

\* The old file becomes a backup, in place of one made in the same second.
Rotate ==
    /\ phase = "rotate"
    /\ LET same == {b \in backups : b.stamp = clock}
       IN /\ backups' = (backups \ same) \cup
                        {[stamp |-> clock, lines |-> file, modTime |-> modTime]}
          /\ overwritten' = overwritten \cup UNION {b.lines : b \in same}
    /\ file' = NoFile
    /\ phase' = "create"
    /\ UNCHANGED <<settings, writer, cleaner, modTime, clock, runs, written>>

\* Mutant of OpenToAppend: an existing file is truncated.
OpenTruncates ==
    /\ phase \in {"create", "append"}
    /\ file' = {}
    /\ modTime' = IF file = NoFile THEN clock ELSE modTime
    /\ writer' = "file"
    /\ starting' = starting + 1
    /\ phase' = IF phase = "create" THEN "append" ELSE "start"
    /\ UNCHANGED <<settings, cutoff, backups, clock, runs, history>>

\* The file is opened to append, or created, and a cleaner is started.  After
\* a rotation this happens twice: in the openFile that rotate calls, and in
\* the one that called rotate.
OpenToAppend ==
    /\ phase \in {"create", "append"}
    /\ file' = IF file = NoFile THEN {} ELSE file
    /\ modTime' = IF file = NoFile THEN clock ELSE modTime
    /\ writer' = "file"
    /\ starting' = starting + 1
    /\ phase' = IF phase = "create" THEN "append" ELSE "start"
    /\ UNCHANGED <<settings, cutoff, backups, clock, runs, history>>

\* A rename or an open fails: New goes on with the writer it has.
OpenFails ==
    /\ phase \in {"rotate", "create", "append"}
    /\ phase' = "start"
    /\ UNCHANGED <<settings, writer, cleaner, disk, clock, runs, history>>

\* cleanOldBackups, running beside the rest: a cleaner computes its cutoff,
\* later than any before it, and removes one file after the other.
CleanerStarts ==
    /\ starting > 0
    /\ starting' = starting - 1
    /\ cutoff' = clock - MaxAge
    /\ UNCHANGED <<phase, settings, writer, disk, clock, runs, history>>

CleanBackup(b) ==
    /\ cutoff # Unset
    /\ b.modTime < cutoff
    /\ backups' = backups \ {b}
    /\ UNCHANGED <<phase, settings, writer, cleaner, file, modTime, clock, runs,
                   history>>

CleanOldBackups == CleanerStarts \/ \E b \in backups : CleanBackup(b)

(***************************************************************************)
(* main: the miner.                                                        *)
(***************************************************************************)
\* A line, from here on at any time.
Log ==
    /\ phase \in {"start", "running"} /\ writer = "file"
    /\ Cardinality(written) < MaxLines
    /\ LET line == [number |-> Cardinality(written), time |-> clock]
       IN /\ file' = file \cup {line}
          /\ written' = written \cup {line}
    /\ modTime' = clock
    /\ UNCHANGED <<phase, settings, writer, cleaner, backups, clock, runs,
                   overwritten>>

\* Mutant of Start: the number of threads is taken as it is.
StartUnchecked ==
    /\ phase = "start"
    /\ GetEnabledPools(cfg) # <<>>
    /\ pools' = ByPriority(GetEnabledPools(cfg))
    /\ workers' = cfg.threads
    /\ phase' = "running"
    /\ UNCHANGED <<source, cfg, writer, cleaner, disk, clock, runs, history>>

\* NewManager, NewMiner, Start.
Start ==
    /\ phase = "start"
    /\ GetEnabledPools(cfg) # <<>>
    /\ pools' = ByPriority(GetEnabledPools(cfg))
    /\ workers' = IF cfg.threads <= 0 THEN NumCPU ELSE cfg.threads
    /\ phase' = "running"
    /\ UNCHANGED <<source, cfg, writer, cleaner, disk, clock, runs, history>>

\* "no enabled pools": the miner does not start, and main exits.
StartFails == phase = "start" /\ GetEnabledPools(cfg) = <<>> /\ End

\* A signal and Stop, or the process is killed.
Exit == phase = "running" /\ End

Kill == phase \in {"open", "rotate", "create", "append", "start"} /\ End

Tick ==
    /\ clock < MaxTime
    /\ clock' = clock + 1
    /\ UNCHANGED <<phase, settings, writer, cleaner, disk, runs, history>>

(***************************************************************************)
(* The specification.                                                      *)
(***************************************************************************)
Init ==
    /\ phase = "down"
    /\ source = Unset /\ cfg = Unset /\ pools = <<>> /\ workers = 0
    /\ writer = "stdout" /\ starting = 0 /\ cutoff = Unset
    /\ file = NoFile /\ modTime = 0 /\ backups = {}
    /\ clock = 0 /\ runs = 0
    /\ written = {} /\ overwritten = {}

OpenFile == Stat \/ Rotate \/ OpenToAppend \/ OpenFails

Next ==
    \/ Run \/ LoadFails \/ Load
    \/ OpenFile \/ CleanOldBackups \/ Log
    \/ Start \/ StartFails \/ Exit \/ Kill
    \/ Tick

Spec == Init /\ [][Next]_vars

(***************************************************************************)
(* Properties.                                                             *)
(***************************************************************************)
TypeOK ==
    /\ phase \in {"down", "load", "open", "rotate", "create", "append", "start",
                  "running"}
    /\ pools \in Seq(Pool) /\ workers \in Nat
    /\ writer \in {"stdout", "file"}
    /\ starting \in Nat /\ cutoff \in Int \cup {Unset}
    /\ file = NoFile \/ file \subseteq Line
    /\ modTime \in 0 .. MaxTime
    /\ backups \subseteq [stamp : 0 .. MaxTime, lines : SUBSET Line,
                          modTime : 0 .. MaxTime]
    /\ clock \in 0 .. MaxTime /\ runs \in 0 .. MaxRuns
    /\ written \subseteq Line /\ overwritten \subseteq written

\* What is on disk.
InFile == IF file = NoFile THEN {} ELSE file
OnDisk == InFile \cup UNION {b.lines : b \in backups}

\* Whatever fails, and wherever the process is killed between the rename and
\* the two opens, a line that was logged stays in the file or a backup until
\* it is max_age_days old (README.md:334); only a second rotation within the
\* second, whose backup has the same name, may lose it (logger.go:157).
LogKept ==
    \A l \in written \ overwritten : clock - l.time <= MaxAge => l \in OnDisk

\* The two sorts (config.go:292, manager.go:94) leave every enabled pool
\* once, by priority: PoolManager relies on this order.
PoolsInOrder ==
    LET given   == source.file.pools
        enabled == {k \in 1 .. Len(given) : given[k].enabled}
        SameBut(p) == [p EXCEPT !.address = Unset]
        Times(q, s, ks) == Cardinality({k \in ks : SameBut(s[k]) = SameBut(q)})
    IN /\ \A i, j \in 1 .. Len(pools) :
            i < j => pools[i].priority <= pools[j].priority
       /\ Len(pools) = Cardinality(enabled)
       /\ \A i \in 1 .. Len(pools) :
            Times(pools[i], pools, 1 .. Len(pools)) = Times(pools[i], given, enabled)

\* The address of the flag, or else of the environment, is that of the first
\* pool of the file, if this pool is enabled, and of no other: with the first
\* pool disabled the address is ignored, against "Mining address (overrides
\* config)" (README.md:446).  Every other address is the file's, and valid.
AddressUsed ==
    LET given == IF source.flags.address # Unset THEN source.flags.address
                                                ELSE source.env.address
        inFile == {source.file.pools[k].address : k \in 1 .. Len(source.file.pools)}
        used   == {i \in 1 .. Len(pools) : pools[i].address \notin inFile}
    IN /\ inFile \subseteq Addresses
       /\ \A i \in used : pools[i].address = given
       /\ Cardinality(used) =
            IF source.file.pools[1].enabled /\ given # Unset /\ given \notin inFile
            THEN 1 ELSE 0

\* The flag, if it is positive, or else the environment, or else the file
\* says how many workers there are.  In the environment a number that is not
\* positive means all CPUs.  A 0 in the file means one worker, against "0=auto-
\* detect CPU cores" (README.md:322, config.go:107); a 0 of the flag leaves the
\* file's number, against "Mining threads (0 = auto)" (flags.go:29).
ThreadsUsed ==
    LET Positive(n, otherwise) == IF n > 0 THEN n ELSE otherwise
    IN workers = Positive(source.flags.threads,
                          IF source.env.threads = Unset
                          THEN Positive(source.file.threads, 1)
                          ELSE Positive(source.env.threads, NumCPU))

\* A running miner has the number of workers, the pools in their order and the
\* addresses that the file, the environment and the flags give together, the
\* flags before the environment and both before the file, although neither of
\* them is validated: exactly so, including where the documents say otherwise
\* (see ThreadsUsed and AddressUsed).
RunsAsConfigured ==
    phase = "running" => ThreadsUsed /\ PoolsInOrder /\ AddressUsed

=============================================================================
