---------------------------- MODULE MinerWorkers ----------------------------
(***************************************************************************)
(* Jobs and workers of a started miner (internal/miner/miner.go): the      *)
(* client's job channel, monitorJobs and handleNewJob, the goroutines that *)
(* run runWorker, and Stop, Pause and Resume.                              *)
(*                                                                         *)
(* Every worker has one engine and one stopCh field, which handleNewJob,   *)
(* Stop, Pause and the worker itself read, close and replace without a     *)
(* lock; each such access is an action of its own.  A channel is <<w, n>>: *)
(* the n-th that worker w's field held.  Jobs are numbered as the pool     *)
(* sends them; how an engine searches is left out.                         *)
(***************************************************************************)
EXTENDS Naturals, Sequences, FiniteSets

CONSTANTS NWorkers,  \* number of workers
          MaxRuns,   \* bound on the runWorker goroutines of a worker
          MaxJobs,   \* bound on the jobs the pool sends
          MaxCalls,  \* bound on the calls to Pause
          JobChCap   \* capacity of c.jobCh

ASSUME WorkersAssumption ==
    /\ NWorkers \in Nat \ {0} /\ MaxRuns \in Nat \ {0}
    /\ MaxJobs \in Nat /\ MaxCalls \in Nat
    /\ JobChCap \in Nat \ {0}

VARIABLES
    sent,        \* jobs the pool has sent; the last is c.lastJob
    jobCh,       \* c.jobCh
    currentJob,  \* m.currentJob
    hasClient,   \* poolManager.GetClient() is not nil
    stopCh,      \* the number of the channel in each worker's stopCh field
    closed,      \* the channels that have been closed
    engine,      \* engine.running of each worker
    pc, job, ch, \* of each goroutine: its place, its job, its stopCh argument
    monitor,     \* where monitorJobs is
    newJob,      \* the job monitorJobs is handling
    owner,       \* where the goroutine in Stop, Pause or Resume is
    at,          \* the worker handleNewJob and the owner are at
    calls,       \* how often Pause was called
    cancelled,   \* m.ctx is cancelled
    inEngine,    \* history: goroutines in their engine when newJob was stored
    crashed      \* a channel was closed twice

queue   == <<sent, jobCh>>
workers == <<engine, pc, job, ch>>
monitoring == <<monitor, newJob, currentJob>>
control == <<owner, calls, cancelled, hasClient>>
vars == <<queue, workers, monitoring, control, stopCh, closed, at, inEngine,
          crashed>>

Workers    == 1 .. NWorkers
Goroutines == Workers \X (1 .. MaxRuns)
Worker(g)  == g[1]
NoJob      == 0

Goto(g, label) == pc' = [pc EXCEPT ![g] = label]

IsClosed(w) == <<w, stopCh[w]>> \in closed

\* close(worker.stopCh): the field is read now, and closing it twice panics.
CloseField(w) ==
    IF IsClosed(w)
    THEN crashed' = TRUE /\ UNCHANGED closed
    ELSE closed' = closed \cup {<<w, stopCh[w]>>} /\ UNCHANGED crashed

\* worker.stopCh = make(chan struct{})
ReplaceField(w) == stopCh' = [stopCh EXCEPT ![w] = @ + 1]

\* Mutant of HandleNotify: queues the job whatever the room in the channel.
HandleNotifyUnbounded ==
    /\ sent < MaxJobs
    /\ sent' = sent + 1
    /\ jobCh' = Append(jobCh, sent + 1)
    /\ UNCHANGED <<workers, monitoring, control, stopCh, closed, at, inEngine,
                   crashed>>

(***************************************************************************)
(* handleNotify, in the client's readLoop: a job that finds the channel    *)
(* full is dropped.                                                        *)
(***************************************************************************)
HandleNotify ==
    /\ sent < MaxJobs
    /\ sent' = sent + 1
    /\ jobCh' = IF Len(jobCh) < JobChCap THEN Append(jobCh, sent + 1) ELSE jobCh
    /\ UNCHANGED <<workers, monitoring, control, stopCh, closed, at, inEngine,
                   crashed>>

(***************************************************************************)
(* runWorker and mine, of a goroutine g.                                   *)
(***************************************************************************)
WorkerLoop(g) ==
    /\ pc[g] = "top"
    /\ Goto(g, IF cancelled THEN "leave" ELSE "take")
    /\ UNCHANGED <<queue, engine, job, ch, monitoring, control, stopCh, closed,
                   at, inEngine, crashed>>

\* Mutant of TakeJob: without the check for a job.
TakeJobUnchecked(g) ==
    /\ pc[g] = "take"
    /\ job' = [job EXCEPT ![g] = currentJob]
    /\ Goto(g, "enter")
    /\ UNCHANGED <<queue, engine, ch, monitoring, control, stopCh, closed, at,
                   inEngine, crashed>>

\* job := m.currentJob; without one, sleep.
TakeJob(g) ==
    /\ pc[g] = "take"
    /\ IF currentJob = NoJob
       THEN Goto(g, "top") /\ UNCHANGED job
       ELSE Goto(g, "enter") /\ job' = [job EXCEPT ![g] = currentJob]
    /\ UNCHANGED <<queue, engine, ch, monitoring, control, stopCh, closed, at,
                   inEngine, crashed>>

\* The argument w.stopCh of engine.Mine is read.
ReadStopCh(g) ==
    /\ pc[g] = "enter"
    /\ ch' = [ch EXCEPT ![g] = stopCh[Worker(g)]]
    /\ Goto(g, "mine")
    /\ UNCHANGED <<queue, engine, job, monitoring, control, stopCh, closed, at,
                   inEngine, crashed>>

\* Mutant of EngineEnter: without the guard on e.running.
EngineEnterUnguarded(g) ==
    /\ pc[g] = "mine"
    /\ engine' = [engine EXCEPT ![Worker(g)] = TRUE]
    /\ Goto(g, "mining")
    /\ UNCHANGED <<queue, job, ch, monitoring, control, stopCh, closed, at,
                   inEngine, crashed>>

\* Engine.Mine returns nil if it is running already.
EngineEnter(g) ==
    /\ pc[g] = "mine"
    /\ engine' = [engine EXCEPT ![Worker(g)] = TRUE]
    /\ Goto(g, IF engine[Worker(g)] THEN "top" ELSE "mining")
    /\ UNCHANGED <<queue, job, ch, monitoring, control, stopCh, closed, at,
                   inEngine, crashed>>

\* Engine.Mine returns, and with it mine.
EngineLeave(g, label) ==
    /\ pc[g] = "mining"
    /\ engine' = [engine EXCEPT ![Worker(g)] = FALSE]
    /\ inEngine' = inEngine \ {g}
    /\ ch' = [ch EXCEPT ![g] = 0]
    /\ Goto(g, label)
    /\ UNCHANGED <<queue, job, monitoring, control, stopCh, closed, at, crashed>>

MineStopped(g) == <<Worker(g), ch[g]>> \in closed /\ EngineLeave(g, "top")

MineFound(g) == EngineLeave(g, "submit")

\* handleSuccess: submitSolution returns in bounded time (StratumShares).
Submit(g) ==
    /\ pc[g] = "submit"
    /\ Goto(g, "top")
    /\ UNCHANGED <<queue, engine, job, ch, monitoring, control, stopCh, closed,
                   at, inEngine, crashed>>

\* ctx.Done: close the stopCh unless it is closed, and return.
LeaveCheck(g) ==
    /\ pc[g] = "leave"
    /\ Goto(g, IF IsClosed(Worker(g)) THEN "off" ELSE "leave close")
    /\ UNCHANGED <<queue, engine, job, ch, monitoring, control, stopCh, closed,
                   at, inEngine, crashed>>

LeaveClose(g) ==
    /\ pc[g] = "leave close"
    /\ CloseField(Worker(g))
    /\ Goto(g, "off")
    /\ UNCHANGED <<queue, engine, job, ch, monitoring, control, stopCh, at,
                   inEngine>>

(***************************************************************************)
(* monitorJobs and handleNewJob.                                           *)
(***************************************************************************)

\* Without a client there is no job either.
FetchClient ==
    /\ monitor = "fetch"
    /\ IF hasClient
       THEN monitor' = "listen" /\ UNCHANGED currentJob
       ELSE currentJob' = NoJob
            /\ monitor' = IF cancelled THEN "off" ELSE "fetch"
    /\ UNCHANGED <<queue, workers, newJob, control, stopCh, closed, at, inEngine,
                   crashed>>

\* The select: the context, or the ticker that finds another client.
ListenEnds ==
    /\ monitor = "listen"
    /\ \/ cancelled /\ monitor' = "off"
       \/ ~hasClient /\ monitor' = "fetch"
    /\ UNCHANGED <<queue, workers, newJob, currentJob, control, stopCh, closed,
                   at, inEngine, crashed>>

ListenJob ==
    /\ monitor = "listen" /\ jobCh # <<>>
    /\ newJob' = Head(jobCh)
    /\ jobCh' = Tail(jobCh)
    /\ monitor' = "store"
    /\ UNCHANGED <<sent, workers, currentJob, control, stopCh, closed, at,
                   inEngine, crashed>>

\* A job without a valid stateRoot, or that does not decode, is refused.
RefuseJob ==
    /\ monitor = "store"
    /\ monitor' = "listen"
    /\ newJob' = NoJob
    /\ UNCHANGED <<queue, workers, currentJob, control, stopCh, closed, at,
                   inEngine, crashed>>

StoreJob ==
    /\ monitor = "store"
    /\ currentJob' = newJob
    /\ newJob' = NoJob
    /\ inEngine' = {g \in Goroutines : pc[g] = "mining"}
    /\ at' = [at EXCEPT !.monitor = 1]
    /\ monitor' = "signal"
    /\ UNCHANGED <<queue, workers, control, stopCh, closed, crashed>>

\* The loop over the workers: check, close unless closed, replace.
SignalCheck ==
    /\ monitor = "signal"
    /\ IF at.monitor > NWorkers
       THEN monitor' = "listen"
       ELSE monitor' = IF IsClosed(at.monitor) THEN "replace" ELSE "close"
    /\ UNCHANGED <<queue, workers, newJob, currentJob, control, stopCh, closed,
                   at, inEngine, crashed>>

\* Mutant of SignalClose: replaces the channel without closing it.
SignalCloseForgotten ==
    /\ monitor = "close"
    /\ monitor' = "replace"
    /\ UNCHANGED <<queue, workers, newJob, currentJob, control, stopCh, closed,
                   at, inEngine, crashed>>

SignalClose ==
    /\ monitor = "close"
    /\ CloseField(at.monitor)
    /\ monitor' = "replace"
    /\ UNCHANGED <<queue, workers, newJob, currentJob, control, stopCh, at,
                   inEngine>>

SignalReplace ==
    /\ monitor = "replace"
    /\ ReplaceField(at.monitor)
    /\ at' = [at EXCEPT !.monitor = @ + 1]
    /\ monitor' = "signal"
    /\ UNCHANGED <<queue, workers, newJob, currentJob, control, closed, inEngine,
                   crashed>>

(***************************************************************************)
(* Stop, Pause and Resume, one at a time under m.mu.                       *)
(***************************************************************************)
StopCancel ==
    /\ owner = "running"
    /\ cancelled' = TRUE
    /\ at' = [at EXCEPT !.owner = 1]
    /\ owner' = "stop"
    /\ UNCHANGED <<queue, workers, monitoring, calls, hasClient, stopCh, closed,
                   inEngine, crashed>>

\* At the end of the loop the pool manager is stopped: no client is left.
StopCheck ==
    /\ owner = "stop"
    /\ IF at.owner > NWorkers
       THEN hasClient' = FALSE /\ owner' = "stopped" /\ UNCHANGED at
       ELSE /\ UNCHANGED hasClient
            /\ IF IsClosed(at.owner)
               THEN at' = [at EXCEPT !.owner = @ + 1] /\ UNCHANGED owner
               ELSE owner' = "stop close" /\ UNCHANGED at
    /\ UNCHANGED <<queue, workers, monitoring, calls, cancelled, stopCh, closed,
                   inEngine, crashed>>

StopClose ==
    /\ owner = "stop close"
    /\ CloseField(at.owner)
    /\ at' = [at EXCEPT !.owner = @ + 1]
    /\ owner' = "stop"
    /\ UNCHANGED <<queue, workers, monitoring, calls, cancelled, hasClient,
                   stopCh, inEngine>>

Pause ==
    /\ owner = "running" /\ calls < MaxCalls
    /\ calls' = calls + 1
    /\ at' = [at EXCEPT !.owner = 1]
    /\ owner' = "pause"
    /\ UNCHANGED <<queue, workers, monitoring, cancelled, hasClient, stopCh,
                   closed, inEngine, crashed>>

PauseClose ==
    /\ owner = "pause"
    /\ IF at.owner > NWorkers
       THEN owner' = "running" /\ UNCHANGED <<closed, crashed>>
       ELSE CloseField(at.owner) /\ owner' = "pause replace"
    /\ UNCHANGED <<queue, workers, monitoring, calls, cancelled, hasClient,
                   stopCh, at, inEngine>>

PauseReplace ==
    /\ owner = "pause replace"
    /\ ReplaceField(at.owner)
    /\ at' = [at EXCEPT !.owner = @ + 1]
    /\ owner' = "pause"
    /\ UNCHANGED <<queue, workers, monitoring, calls, cancelled, hasClient,
                   closed, inEngine, crashed>>

\* One more runWorker goroutine per worker.
Resume ==
    /\ owner = "running"
    /\ \E run \in 2 .. MaxRuns :
         /\ \A w \in Workers : pc[<<w, run>>] = "off"
         /\ pc' = [g \in Goroutines |-> IF g[2] = run THEN "top" ELSE pc[g]]
    /\ UNCHANGED <<queue, engine, job, ch, monitoring, control, stopCh, closed,
                   at, inEngine, crashed>>

(***************************************************************************)
(* The specification.  Start has connected to a pool, or to none.          *)
(***************************************************************************)
Init ==
    /\ sent = 0 /\ jobCh = <<>> /\ currentJob = NoJob
    /\ hasClient \in BOOLEAN
    /\ stopCh = [w \in Workers |-> 0]
    /\ closed = {}
    /\ engine = [w \in Workers |-> FALSE]
    /\ pc = [g \in Goroutines |-> IF g[2] = 1 THEN "top" ELSE "off"]
    /\ job = [g \in Goroutines |-> NoJob]
    /\ ch = [g \in Goroutines |-> 0]
    /\ monitor = "fetch" /\ newJob = NoJob
    /\ owner = "running" /\ calls = 0 /\ cancelled = FALSE
    /\ at = [monitor |-> 1, owner |-> 1]
    /\ inEngine = {}
    /\ crashed = FALSE

RunWorker(g) ==
    \/ WorkerLoop(g) \/ TakeJob(g) \/ ReadStopCh(g) \/ EngineEnter(g)
    \/ MineStopped(g) \/ Submit(g) \/ LeaveCheck(g) \/ LeaveClose(g)

HandleNewJob ==
    RefuseJob \/ StoreJob \/ SignalCheck \/ SignalClose \/ SignalReplace

MonitorJobs == FetchClient \/ ListenEnds \/ ListenJob \/ HandleNewJob

Owner ==
    \/ StopCancel \/ StopCheck \/ StopClose
    \/ Pause \/ PauseClose \/ PauseReplace \/ Resume

Next ==
    /\ ~crashed
    /\ \/ HandleNotify
       \/ \E g \in Goroutines : RunWorker(g) \/ MineFound(g)
       \/ MonitorJobs
       \/ Owner

Spec == Init /\ [][Next]_vars

\* Goroutines run; that an engine finds a nonce is not assumed.
Fairness ==
    /\ WF_vars(~crashed /\ MonitorJobs)
    /\ \A g \in Goroutines : WF_vars(~crashed /\ RunWorker(g))

FairSpec == Spec /\ Fairness

(***************************************************************************)
(* Properties.                                                             *)
(***************************************************************************)
Jobs == 0 .. MaxJobs

TypeOK ==
    /\ sent \in Jobs /\ jobCh \in Seq(Jobs) /\ Len(jobCh) <= JobChCap
    /\ currentJob \in Jobs /\ newJob \in Jobs
    /\ stopCh \in [Workers -> Nat]
    /\ closed \subseteq Workers \X Nat
    /\ engine \in [Workers -> BOOLEAN]
    /\ pc \in [Goroutines -> {"off", "top", "take", "enter", "mine", "mining",
                              "submit", "leave", "leave close"}]
    /\ job \in [Goroutines -> Jobs] /\ ch \in [Goroutines -> Nat]
    /\ monitor \in {"fetch", "listen", "store", "signal", "close", "replace", "off"}
    /\ owner \in {"running", "stop", "stop close", "stopped", "pause",
                  "pause replace"}
    /\ at \in [monitor : 1 .. NWorkers + 1, owner : 1 .. NWorkers + 1]
    /\ calls \in 0 .. MaxCalls
    /\ cancelled \in BOOLEAN /\ hasClient \in BOOLEAN /\ crashed \in BOOLEAN
    /\ inEngine \subseteq Goroutines

\* Resume starts a second runWorker for a worker whose first still runs; its
\* engine is never searched by both (engine.go:67-72).
EngineExclusive ==
    \A g, h \in Goroutines :
        pc[g] = "mining" /\ pc[h] = "mining" /\ Worker(g) = Worker(h) => g = h

\* Once handleNewJob is through its workers, each one it caught in its engine
\* has its channel closed, although Stop and the workers close the same
\* channels meanwhile (miner.go:474-489).  A Pause between the check and the
\* close would break this: it is not called by the program.
CaughtAreSignalled ==
    calls = 0 /\ monitor = "signal" /\ at.monitor > NWorkers =>
        \A g \in inEngine : <<Worker(g), ch[g]>> \in closed

\* A worker never goes back to a job older than the last one it mined, for
\* all the jobs that are dropped, refused and cleared in between.
JobsGoForward == [][\A g \in Goroutines : job'[g] >= job[g]]_job

\* A worker that a new job catches in its engine comes out of it.
CaughtComeOut ==
    \A g \in Goroutines :
        g \in inEngine ~> g \notin inEngine \/ crashed \/ calls > 0

(***************************************************************************)
(* What comments and the documentation say, and the code does not keep.    *)
(***************************************************************************)

\* "Signal all workers to stop current mining and switch to new job"
\* (miner.go:474): when the signals are out, a worker that is still in its
\* engine with an older job has been told to leave.
NoStaleMining ==
    monitor = "signal" /\ at.monitor > NWorkers =>
        \A g \in Goroutines : pc[g] = "mining" /\ job[g] # currentJob =>
            <<Worker(g), ch[g]>> \in closed

\* "Stop gracefully stops mining" (README.md:1030): no goroutine panics.
NoPanic == ~crashed

=============================================================================
