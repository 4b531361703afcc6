----------------------------- MODULE HashStats -----------------------------
(***************************************************************************)
(* How hashes reach the monitor, and how main ends: Miner.GetStats         *)
(* (internal/miner/miner.go) called by several goroutines, the monitor's   *)
(* loops and lock (internal/monitor/monitor.go), and the main loop and     *)
(* shutdown (cmd/nogominer/main.go).                                       *)
(*                                                                         *)
(* Rates, uptime and shares are left out.  Both locks are RWMutexes: a     *)
(* writer that has announced itself keeps new readers out and waits for    *)
(* the present ones.  Only main keeps a read lock of the statistics from   *)
(* one step to the next (GetSummary calls GetEfficiency), so elsewhere a   *)
(* critical section is one step.                                           *)
(***************************************************************************)
EXTENDS Naturals, FiniteSets

CONSTANTS NumEngines,             \* len(m.workers)
          Senders,                \* goroutines in submitSolution or hashReportLoop
          Main, Display, Updater, \* main, displayLoop, updateLoop
          NoOne,                  \* no writer has announced itself
          MaxHashes,              \* bound on the hashes of an engine
          MaxCalls                \* bound on the calls of GetStats

Callers    == Senders \cup {Main, Display}
Goroutines == Callers \cup {Updater}

ASSUME StatsAssumption ==
    /\ NumEngines \in Nat \ {0} /\ MaxHashes \in Nat /\ MaxCalls \in Nat
    /\ Main \notin Senders \cup {Display, Updater}
    /\ Display \notin Senders \cup {Updater} /\ Updater \notin Senders
    /\ NoOne \notin Goroutines

VARIABLES
    hashes,         \* hashCount of each engine
    lastSync,       \* m.lastMonitorSyncHashes
    total,          \* stats.TotalHashes of the monitor
    pc,             \* the place of each goroutine
    at, sum, delta, \* in GetStats: the next engine, totalHashes, the increment
    adds,           \* main is in the branch of its statsTicker
    minerLocked,    \* Stop holds m.mu of the miner
    stopped,        \* stopCh of the monitor is closed
    readers,        \* read locks main holds on the statistics
    writer,         \* who has announced itself as their writer
    exited,         \* main has returned
    calls,          \* calls of GetStats so far
    extra,          \* history: what main added
    returned,       \* history: the largest total GetStats returned
    overlapped      \* history: two calls of GetStats overlapped

counts  == <<hashes, lastSync, total>>
locals  == <<at, sum, delta, adds>>
locks   == <<minerLocked, readers, writer>>
history == <<extra, returned, overlapped>>
vars    == <<counts, pc, locals, locks, stopped, exited, calls, history>>

Goto(p, label) == pc' = [pc EXCEPT ![p] = label]

Max2(a, b) == IF a > b THEN a ELSE b

(***************************************************************************)
(* The read-write lock of the statistics.                                  *)
(***************************************************************************)
Writing == {"add", "rate", "update"}

\* A writer that meets a reader announces itself and waits.
Announce(p) ==
    /\ pc[p] \in Writing /\ readers > 0 /\ writer = NoOne
    /\ writer' = p
    /\ UNCHANGED <<counts, pc, locals, minerLocked, readers, stopped, exited,
                   calls, history>>

\* p has the lock for writing, and gives it back at the end of the step.
WriteLocked(p) == readers = 0 /\ writer \in {NoOne, p} /\ writer' = NoOne

MayRead == writer = NoOne

(***************************************************************************)
(* GetStats.                                                               *)
(***************************************************************************)
InSync == {"sum", "compare", "add", "store"}

\* p enters GetStats.
Call(p) ==
    /\ calls < MaxCalls
    /\ calls' = calls + 1
    /\ sum' = [sum EXCEPT ![p] = 0]
    /\ Goto(p, "sum")
    /\ overlapped' = (overlapped \/ \E q \in Callers : pc[q] \in InSync)
    /\ UNCHANGED <<at, extra, returned>>

\* The engines are asked one after the other, each under its own lock.
SumEngine(p) ==
    /\ pc[p] = "sum"
    /\ sum' = [sum EXCEPT ![p] = @ + hashes[at[p]]]
    /\ at' = [at EXCEPT ![p] = IF @ = NumEngines THEN 1 ELSE @ + 1]
    /\ Goto(p, IF at[p] = NumEngines THEN "compare" ELSE "sum")
    /\ UNCHANGED <<counts, delta, adds, locks, stopped, exited, calls, history>>

\* Mutant of Compare: notes the total as given before it is.
CompareStores(p) ==
    /\ pc[p] = "compare"
    /\ delta' = [delta EXCEPT ![p] = IF sum[p] > lastSync THEN sum[p] - lastSync
                                                          ELSE 0]
    /\ lastSync' = sum[p]
    /\ Goto(p, IF sum[p] > lastSync THEN "add" ELSE "store")
    /\ UNCHANGED <<hashes, total, at, sum, adds, locks, stopped, exited, calls,
                   history>>

\* The increment since the last call.  No lock protects
\* lastMonitorSyncHashes; the compiler loads it once for the two uses.
Compare(p) ==
    /\ pc[p] = "compare"
    /\ delta' = [delta EXCEPT ![p] = IF sum[p] > lastSync THEN sum[p] - lastSync
                                                          ELSE 0]
    /\ Goto(p, IF sum[p] > lastSync THEN "add" ELSE "store")
    /\ UNCHANGED <<counts, at, sum, adds, locks, stopped, exited, calls, history>>

AddHashes(p) ==
    /\ pc[p] = "add" /\ WriteLocked(p)
    /\ total' = total + delta[p]
    /\ Goto(p, "store")
    /\ UNCHANGED <<hashes, lastSync, locals, minerLocked, readers, stopped,
                   exited, calls, history>>

\* Mutant of Store: only a call that gave the monitor something stores.
StoreForgotten(p) ==
    /\ pc[p] = "store"
    /\ lastSync' = IF delta[p] > 0 THEN lastSync ELSE sum[p]
    /\ Goto(p, "start time")
    /\ UNCHANGED <<hashes, total, locals, locks, stopped, exited, calls, history>>

\* Unconditional: a call that was overtaken puts the mark back.
Store(p) ==
    /\ pc[p] = "store"
    /\ lastSync' = sum[p]
    /\ Goto(p, "start time")
    /\ UNCHANGED <<hashes, total, locals, locks, stopped, exited, calls, history>>

\* startTime is read under m.mu, which Stop holds until it is done.
ReadStartTime(p) ==
    /\ pc[p] = "start time" /\ ~minerLocked
    /\ Goto(p, "rate")
    /\ UNCHANGED <<counts, locals, locks, stopped, exited, calls, history>>

\* UpdateHashRate; GetStats returns, to main in its own branch.
UpdateHashRate(p) ==
    /\ pc[p] = "rate" /\ WriteLocked(p)
    /\ Goto(p, IF p = Main /\ adds THEN "main adds" ELSE "idle")
    /\ returned' = Max2(returned, sum[p])
    /\ UNCHANGED <<counts, locals, minerLocked, readers, stopped, exited, calls,
                   extra, overlapped>>

GetStats(p) ==
    \/ SumEngine(p) \/ Compare(p) \/ AddHashes(p)
    \/ Store(p) \/ ReadStartTime(p) \/ UpdateHashRate(p)

(***************************************************************************)
(* The callers.                                                            *)
(***************************************************************************)

\* A worker submits a share, or the report loop ticks: even after Stop has
\* cancelled the context, a share just found and a tick chosen by select.
Send(p) ==
    /\ p \in Senders /\ pc[p] = "idle" /\ Call(p)
    /\ UNCHANGED <<counts, delta, adds, locks, stopped, exited>>

\* displayLoop: a copy of the statistics, then displayStats.
DisplayTick ==
    /\ pc[Display] = "idle" /\ MayRead /\ Call(Display)
    /\ UNCHANGED <<counts, delta, adds, locks, stopped, exited>>

UpdateTick ==
    /\ pc[Updater] = "idle"
    /\ Goto(Updater, "update")
    /\ UNCHANGED <<counts, locals, locks, stopped, exited, calls, history>>

UpdateStats ==
    /\ pc[Updater] = "update" /\ WriteLocked(Updater)
    /\ Goto(Updater, "idle")
    /\ UNCHANGED <<counts, locals, minerLocked, readers, stopped, exited, calls,
                   history>>

\* The loops of the monitor return when they see stopCh closed.
LoopReturns(p) ==
    /\ p \in {Display, Updater} /\ pc[p] = "idle" /\ stopped
    /\ Goto(p, "returned")
    /\ UNCHANGED <<counts, locals, locks, stopped, exited, calls, history>>

\* An engine counts a hash.
Hash(e) ==
    /\ hashes[e] < MaxHashes
    /\ hashes' = [hashes EXCEPT ![e] = @ + 1]
    /\ UNCHANGED <<lastSync, total, pc, locals, locks, stopped, exited, calls,
                   history>>

(***************************************************************************)
(* main.  IsRunning is true until main itself calls Stop.                  *)
(***************************************************************************)

\* statsTicker (stats) or statusTicker.
MainTick(stats) ==
    /\ pc[Main] = "idle" /\ Call(Main)
    /\ adds' = stats
    /\ UNCHANGED <<counts, delta, locks, stopped, exited>>

\* The branch of statsTicker adds the cumulative total once more.
MainAdds ==
    /\ pc[Main] = "main adds" /\ WriteLocked(Main)
    /\ total' = total + sum[Main]
    /\ extra' = extra + sum[Main]
    /\ Goto(Main, "idle")
    /\ UNCHANGED <<hashes, lastSync, locals, minerLocked, readers, stopped,
                   exited, calls, returned, overlapped>>

\* A signal: Stop locks m.mu, cancels the context, waits for the pools.
StopBegin ==
    /\ pc[Main] = "idle"
    /\ minerLocked' = TRUE
    /\ Goto(Main, "stopping")
    /\ UNCHANGED <<counts, locals, readers, writer, stopped, exited, calls,
                   history>>

\* Mutant of StopEnd: asks for the last statistics before it unlocks.
StopEndLogging ==
    /\ pc[Main] = "stopping"
    /\ stopped' = TRUE
    /\ Goto(Main, "start time")
    /\ UNCHANGED <<counts, locals, locks, exited, calls, history>>

StopEnd ==
    /\ pc[Main] = "stopping"
    /\ stopped' = TRUE
    /\ minerLocked' = FALSE
    /\ Goto(Main, "summary")
    /\ UNCHANGED <<counts, locals, readers, writer, exited, calls, history>>

\* GetSummary takes the read lock.
Summary ==
    /\ pc[Main] = "summary" /\ MayRead
    /\ readers' = readers + 1
    /\ Goto(Main, "efficiency")
    /\ UNCHANGED <<counts, locals, minerLocked, writer, stopped, exited, calls,
                   history>>

\* It calls GetEfficiency, which takes it again; then main returns.
Efficiency ==
    /\ pc[Main] = "efficiency" /\ MayRead
    /\ readers' = 0
    /\ exited' = TRUE
    /\ Goto(Main, "returned")
    /\ UNCHANGED <<counts, locals, minerLocked, writer, stopped, calls, history>>

(***************************************************************************)
(* The specification.                                                      *)
(***************************************************************************)
Init ==
    /\ hashes = [e \in 1 .. NumEngines |-> 0] /\ lastSync = 0 /\ total = 0
    /\ pc = [p \in Goroutines |-> "idle"]
    /\ at = [p \in Callers |-> 1] /\ sum = [p \in Callers |-> 0]
    /\ delta = [p \in Callers |-> 0] /\ adds = FALSE
    /\ minerLocked = FALSE /\ stopped = FALSE /\ exited = FALSE
    /\ readers = 0 /\ writer = NoOne
    /\ calls = 0 /\ extra = 0 /\ returned = 0 /\ overlapped = FALSE

MainLoop == (\E stats \in BOOLEAN : MainTick(stats)) \/ MainAdds

Shutdown == StopBegin \/ StopEnd \/ Summary \/ Efficiency

Next ==
    /\ ~exited
    /\ \/ \E p \in Callers : GetStats(p)
       \/ \E p \in Goroutines : Announce(p) \/ Send(p) \/ LoopReturns(p)
       \/ \E e \in 1 .. NumEngines : Hash(e)
       \/ DisplayTick \/ UpdateTick \/ UpdateStats
       \/ MainLoop \/ Shutdown

Spec == Init /\ [][Next]_vars

\* Goroutines run; Stop of the pool manager returns (StopReturns of
\* PoolManager); nothing is assumed of ticks, shares and signals.
FairSpec ==
    /\ Spec
    /\ \A p \in Callers : WF_vars(~exited /\ (GetStats(p) \/ Announce(p)))
    /\ WF_vars(~exited /\ Announce(Updater))
    /\ WF_vars(~exited /\ UpdateStats)
    /\ WF_vars(~exited /\ (MainAdds \/ StopEnd \/ Summary \/ Efficiency))

(***************************************************************************)
(* Properties.                                                             *)
(***************************************************************************)
Places == InSync \cup {"idle", "start time", "rate", "update", "main adds",
                       "stopping", "summary", "efficiency", "returned"}

TypeOK ==
    /\ hashes \in [1 .. NumEngines -> 0 .. MaxHashes]
    /\ lastSync \in Nat /\ total \in Nat /\ extra \in Nat /\ returned \in Nat
    /\ pc \in [Goroutines -> Places]
    /\ at \in [Callers -> 1 .. NumEngines]
    /\ sum \in [Callers -> Nat] /\ delta \in [Callers -> Nat]
    /\ adds \in BOOLEAN /\ minerLocked \in BOOLEAN /\ stopped \in BOOLEAN
    /\ exited \in BOOLEAN /\ overlapped \in BOOLEAN
    /\ readers \in Nat /\ writer \in Goroutines \cup {NoOne}
    /\ calls \in 0 .. MaxCalls

\* However calls of GetStats overlap and overtake each other around the
\* unprotected lastMonitorSyncHashes (miner.go:568-573), the monitor has been
\* given every hash that a call returned to its caller, leaving aside what
\* main adds on its own.
NoHashLost == returned + extra <= total

\* The monitor's total is the mark of the last call plus what main's own
\* ticker added (main.go:132): nothing else counts a hash twice as long as
\* calls of GetStats do not overlap, which no lock prevents.
CountedOnceAlone ==
    ~overlapped /\ (\A p \in Callers : pc[p] \notin {"add", "store"})
        => total = lastSync + extra

\* main holds the read lock and waits for it behind a writer who waits for
\* main.
SummaryDeadlock == pc[Main] = "efficiency" /\ writer # NoOne

\* A shutdown ends the process, or gets stuck in the one place above: Stop
\* does not block on the goroutines it makes wait for m.mu
\* (miner.go:496, 576), nor main on those that use the statistics.
ShutdownEndsOrDeadlocks == pc[Main] = "stopping" ~> exited \/ SummaryDeadlock

\* "Graceful shutdown" (main.go:147): after Stop, main logs its summary and
\* returns.
ShutdownEnds == pc[Main] = "stopping" ~> exited

=============================================================================
