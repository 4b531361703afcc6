# Verification of Nogo-miner in TLA+

Nogo-miner mines a proof-of-work chain through pools that speak Stratum over
TCP. This directory models the parts of it that are concurrent and can go
wrong in an order no test was written for, checks them with TLC on small
instances, and proves the most important results with TLAPS for every instance.
Line numbers refer to the sources beside this directory: `client.go` is
`internal/stratum/client.go`, `manager.go` is `internal/pool/manager.go`,
`miner.go` is `internal/miner/miner.go`, `engine.go` is `pkg/nogopow/engine.go`,
`monitor.go`, `logger.go`, `config.go` and `flags.go` are in the package of that
name under `internal/`, and `main.go` is `cmd/nogominer/main.go`.

## The system

| component | state | operations | interacts with |
|---|---|---|---|
| Stratum client (`client.go`) | `conn`, `bufReader`, `connected`, `readLoopStarted`, `dialing`, `dialDone`, `stopCh`, `readLoopDone`; `pendingResults`, `nextRequestID`, `writeFails`; `jobCh`, `lastJob` | `Connect`, `Close`, `readLoop`, `dialAndHandshake`; `SubmitShare`, `SendHashReport`, `handleSubmitResponse`; `handleNotify` | called by the manager (connect, close) and by workers and reporter (send); its `readLoop` goroutine answers them through channels |
| Pool manager (`manager.go`) | `pools`, `currentPool`, each pool's `connected` and counters, `stopCh` | `Start`, `healthCheckLoop`, `checkPoolHealth`, `switchToNextPool`, `Stop` | owns one client per pool; tells the miner which is current |
| Miner (`miner.go`) | `currentJob`, each worker's `stopCh` and engine, counters, `ctx` | `Start`, `runWorker`, `monitorJobs`, `handleNewJob`, `submitSolution`, `hashReportLoop`, `GetStats`, `Pause`, `Resume`, `Stop` | takes jobs from the client's channel, drives the engines, submits |
| NogoPow engine (`engine.go`) | `running`, `hashCount`, `lastNonce`, seed cache | `Mine`, `Stop`, `HashCount`, `Cache.GetData`, the hash itself | called by a worker, interrupted through its `stopCh` |
| Monitor (`internal/monitor/monitor.go`) | statistics under one lock | `updateLoop`, `displayLoop`, `AddHashes`, `UpdateHashRate`, `RecordShare`, `GetSummary`, `GetEfficiency`, `Stop` | called by miner and main |
| Main (`cmd/nogominer/main.go`) | tickers, signals | starts and stops everything | all of the above |
| Configuration (`internal/config`) | the configuration record | `Load`, `Validate`, `overrideFromEnv`, `ApplyToConfig`, `GetEnabledPools` | read once, at start |
| RPC client (`internal/rpc/client.go`) | `connected`, `lastConnect` | `doRequest` with retries | nothing: the program does not use it |
| Logger (`internal/logger/logger.go`) | the log file and its backups, which outlive the process; `writer` | `log`, `openFile`, `rotate`, `cleanOldBackups` | called by all |

What is hard: about a dozen goroutines share a client, a manager and the
workers' channels; several fields are read, closed and replaced without a lock;
connections break in the middle of dials, handshakes and writes; answers come
in any order, late, twice or never; and `Close`, `Stop` and a health check can
meet each other anywhere; statistics are gathered by whoever happens to ask; a
log directory is left behind by processes that were killed.

What makes each component correct:

* client lifecycle: one `readLoop`, no lost socket, nothing left after `Close`,
  a lost connection comes back, `Close` returns, no channel closed twice;
* client requests: each worker gets the verdict on its own share, nothing is
  counted that the pool did not say, nobody waits for ever;
* manager: one pool active, the first that accepts, always one that is looked
  after, and clients used as they allow;
* miner: an engine is searched by one goroutine, a new job reaches the workers,
  jobs go forward only;
* engine: no nonce is searched twice and no solution returned twice, through
  stops, solutions and changes of job; the cache stays whole;
* statistics: the monitor gets every hash, counts it once where calls do not
  overlap, and a shutdown ends;
* start and log: the miner runs with the pools, the address and the threads that
  flags, environment and file give in this order, and logged lines survive failures and kills.

`PROJECT.json` lists the hazards behind these, each at its line.

## Modules

| module | models | built on |
|---|---|---|
| `StratumLifecycle` | `Connect`, `dialAndHandshake`, `readLoop`, `Close` | |
| `StratumLifecycleProofs` | theorems about it | `StratumLifecycle`, `TLAPS` |
| `StratumClient` | what a client promises one owner: abstract specification | |
| `StratumRefinementProofs` | proof that the lifecycle implements it | `StratumLifecycleProofs` |
| `PoolManager` | `Start`, health check, `switchToNextPool`, `Stop` | an instance of `StratumClient` per pool |
| `PoolManagerProofs` | theorems about it | `PoolManager`, `TLAPS` |
| `StratumShares` | `SubmitShare`, `SendHashReport`, `handleSubmitResponse`; `submitSolution`, `hashReportLoop`; `RecordShare` of manager and monitor; `Stop` of the manager beside them | |
| `StratumSharesProofs` | theorems about it | `StratumShares`, `TLAPS` |
| `MinerWorkers` | `monitorJobs`, `handleNewJob`, `runWorker`, `mine`, `Stop`, `Pause`, `Resume`; the job channel | |
| `MinerWorkersProofs` | theorems about it | `MinerWorkers`, `TLAPS` |
| `PowEngine` | the engine's `Mine`, `Stop`, `HashCount`, `Cache.GetData` | |
| `PowEngineProofs` | theorems about it, and about `PowHash` | `PowEngine`, `PowHash`, `TLAPS` |
| `PowHash` | operators: the target of a difficulty, the length of a hash, fixed-point numbers, the blocked matrix product, the indices of the proof of work | |
| `HashStats` | `GetStats`, the monitor's loops, lock and summary, main's loop and shutdown | |
| `HashStatsProofs` | theorems about it | `HashStats`, `TLAPS` |
| `Startup` | `Load`, the overrides, `GetEnabledPools`; the logger; main from the command line to the running miner, and its restarts | |
| `StartupProofs` | theorems about it | `Startup`, `TLAPS` |
| `MCLifecycle`, `MCPool`, `MCShares`, `MCWorkers`, `MCEngine`, `MCStats`, `MCStartup` | small instances for TLC; `MCEngine` also holds the assumptions about `PowHash` | the modules above |

### StratumLifecycle

The variables are the fields of `Client` (`bufReader` is set with `conn` and has
no variable of its own), the set of sockets the process holds `open`, the set of
`closed` channels, and for each goroutine its place (`pc`), the socket in its
locals and the channel it waits on. `Callers` are goroutines that call `Connect`
and `Close`; `Loops` are those that `go c.readLoop(...)` starts. An action is a
critical section of `c.mu`, an operation on a channel or atomic, or a blocking
network call; the two halves of the deferred function of `dialAndHandshake`
(clear `dialing`, then close `dialDone`), the reads of `dialDone` and of
`stopCh` before a wait, and the two critical sections of `Close` are separate
actions, because other goroutines run between them. `SenderCloses` is what
`SubmitShare` and `SendHashReport` do to the socket after the third failed
write. Subscribe and authorize are one step that succeeds or fails. A channel or
socket number is used again when nobody refers to it, so no bound on the number
of reconnections is needed.

### StratumClient and its implementation

`StratumClient` keeps `started`, whether `stopCh` is closed (`stopping`),
`connected`, the owner's call and the stage of the `readLoop`. It allows the
behaviours the code has and a reader of its comments might not expect: after a
failed `Connect`, later calls return at once and `Close` waits for ever
(`CloseReturns` needs `loop = "ended"` once `started`), and a connection may come
back while the owner waits in `Close`. `ImplementsClient` is the refinement:
`call`, `loop` and the flags are computed from the detailed state (`CallOf`,
`LoopState`); TLC checks that every step is a step of `StratumClient` or
stutters, and `ImplementsClientCorrect` proves it. `PoolManager` then uses
`StratumClient` and its own run checks (`ClientsUsedAsSpecified`) that `Start`,
`Stop` and the health check together never take a client through a step it does
not have, that is, never start a second call on a client while one is under way.

### PoolManager

Pools are numbered in the order `sortPoolsByPriority` leaves them. The owner
runs `Start` and later `Stop`, with the context cancelled first or not
(`Miner.Stop` cancels it); the checker runs `healthCheckLoop`. `m.mu` is one
variable because `Stop` holds it while `Close` waits; the locks of single pools
are held only for moments and merge into the steps. `checkPoolHealth` asks the
client three questions in three steps. `switchToNextPool` is modelled from the
point where no pool is current: `SwitchOnlyOnceStopped` shows that it is never
called with one, so that its first part (closing the current client) and its
shortcut to a pool that is already connected are dead code.

### StratumShares

A sender (a worker or the hash reporter) takes a request id, `sendMu`, the
connection, and writes. A write can succeed, fail, or stop in the middle of a
line (`torn`), after which the pool cannot read the next line either. The pool
answers what it received, in any order, late, twice or never. `readLoop` takes
the caller's channel from `pendingResults` and sends on it, in two steps.

A worker that has read its verdict counts it in three steps: in the miner
(`AwaitVerdict`; `accepted` is both `submittedWork` and `acceptedWork`, which the
code only increments together), in the manager (`RecordManager`) and in the
monitor (`RecordMonitor`), with other goroutines in between. A share that could
not be sent goes to the monitor alone. `manager` says whether the manager serves
its pool, is in `Stop`, with `m.mu` held and the client being closed, or has no
pool any more. `RecordManager` waits for the second and counts nothing in the
third (`manager.go:340-343`), so that the manager may end with fewer accepted
shares than the miner and the monitor: `CountedAsAnswered` says by how many at
most, and that it does not before `Stop`. `failsHere`, `given` and `verdict`
(which also carries the verdict from one count to the next) serve the properties.

### MinerWorkers

Each worker's `stopCh` field is a number that `make` increases; the field is
tested, closed and replaced by `handleNewJob`, `Stop`, `Pause` and the worker
itself without a lock, each access an action. Jobs are numbers in the order the
pool sends them. Goroutine `<<w, n>>` is the n-th `runWorker` of worker `w`:
`Resume` starts one more. Closing a channel twice is a panic and ends the
process. The engine's search is left out: it may end by a stop or by a nonce,
and nothing assumes it finds one.

### PowEngine and PowHash

A job stands for its header and for the seed made from its parent hash. Whether
a nonce solves a job is unknown but fixed: it is chosen when it is first hashed
and remembered in `solved` and `missed`, so that a second search of the same
nonce has the same outcome. The loop of `Mine`, the two critical sections of
`Cache.GetData` and the deferred function are separate actions, and a caller's
`stopCh` may be closed before any nonce. `lastNonce` only grows
(`engine.go:83`): the `lastN = 0` after the last nonce (`engine.go:151-152`,
"wrap around") never takes effect, and later calls search the end of the range
again. `NoDuplicateShare` shows that this submits nothing twice. `Stop`
(`engine.go:402`), which the program does not call, is there because it lets a
second search in beside the first; `CacheInStep` holds then too, and the
properties of the nonces are stated for runs without it. `HashCount` is stated
by the theorem `HashCountFallsShort`: it is not the "true cumulative total" of its
comment (`engine.go:164`), but less by every hash that solved a job.

`PowHash` translates the parts of the hash whose result can be compared with a
definition of what it should be. `MCEngine` states those comparisons as named
assumptions, and TLC evaluates them at the start of the run: `TargetIsQuotient`,
`HashIsNumber`, `FixedKeepsInt8`, `BlockedIsProduct` (against the textbook
product), and that every cache word, row byte, row and block is used exactly once
(`CacheWordsAllUsed`, `RowBytesAllUsed`, `RowsAllMixedOnce`, `BlocksEvenFirst`).
The block size, the number of rows and the largest target are parameters there,
of which the assumptions take small values. `PowEngineProofs` proves them for all
values, but for `RowsAllMixedOnce`, which TLC evaluates for the 256 rows of the
code.

### HashStats

A call of `GetStats` asks the engines one after the other (`SumEngine`), compares
with `lastMonitorSyncHashes`, adds the increment to the monitor, stores the new
mark and reads the start time under `m.mu`; every one of these is an action,
because the workers, the report loop, the display and main call it at once and no
lock protects the mark. The monitor's `RWMutex` is `readers` and `writer`: a
writer that meets a reader announces itself (`Announce`) and from then on keeps
new readers out, which is what makes the second read lock of `GetSummary`
(`monitor.go:304`, `291`) dangerous. `extra` is what main's own branch adds on top
(`main.go:132`): the cumulative total, every 5 seconds. `CountedOnceAlone` shows
that this is all the monitor counts twice as long as calls do not overlap.

### Startup

One run of the process reads a configuration file, the environment and the
flags, opens the log, and starts the miner; it may fail or be killed between any
two steps, and the next run finds the directory as it is left. The configuration
is reduced to the fields another component depends on: each pool's priority,
`enabled` and address, the threads, the size and age of the log. `openFile` calls
`rotate`, which renames the file and calls `openFile`: so after a rotation the file
is opened twice and two cleaners are started. A cleaner runs beside the rest: it
computes its cutoff when it gets to run (`CleanerStarts`), which may be long after
the file was opened, and then removes one backup after the other (`CleanBackup`);
of several cutoffs the latest is kept, which removes all that an earlier one does.

`RunsAsConfigured` has three parts: the number of workers (`ThreadsUsed`), the
pools (`PoolsInOrder`) and the address (`AddressUsed`). Each says exactly what the
code does with file, environment and flags, and that is not everywhere what the
repository's documents say: see "Where the code and its documentation disagree".

## What the runs check

| run | instance | states | what it shows |
|---|---|---|---|
| `lifecycle_serial` | 1 caller, 2 loops | 19 thousand | at most one `readLoop`; after `Close` no loop and no socket, even of a dial that `Close` met; a connection is always served; no channel is closed twice; the lifecycle implements `StratumClient`; a lost connection comes back; `Close` returns wherever it finds a loop |
| `lifecycle_shared` | 2 callers, 1 loop | 3.5 million | `connected` and `conn` agree and no socket leaks when goroutines connect and close at any time |
| `shares` | 2 workers, reporter, 2 requests, each answered up to twice, 1 hash, 2 failed writes close, a `Stop` | 310 thousand | own verdicts; a share counted at most once and as the pool answered, in miner, manager and monitor, whose accepted shares differ only by those being recorded and, after `Stop`, by those the manager misses; no hash reported twice; `readLoop` never blocked by a channel; a connection that fails writes in a row is closed; every submission ends |
| `pool` | 3 pools | 670 | one active pool, in priority order, served; the switch only in a race with `Stop`; with the context cancelled nothing is connected after `Stop`; `Stop` returns |
| `workers` | 1 worker, 2 goroutines, 2 jobs, 1 `Pause`, channel of 1 | 570 thousand | an engine has one user; a worker a job catches in its engine is signalled and comes out; jobs go forward |
| `engine` | 2 callers, 3 jobs, 3 nonces, a cache of 2, 4 calls, 1 `Stop` | 679 thousand | no nonce searched again until the range is exhausted, no solution returned twice even then, map and order of the cache in step; and the assumptions about `PowHash` |
| `stats` | 2 engines with 1 hash each, a sender, the display and main, 3 calls | 592 thousand | the monitor has every hash a call returned; alone, nothing but main's ticker counts twice; a shutdown ends, or is stuck where `GetSummary` waits for itself |
| `startup` | 8 files, 3 environments, 3 sets of flags, 3 runs, 4 lines, 4 seconds | 869 thousand | a logged line is on disk until its age, wherever the process dies and whenever a cleaner runs; the pools are the enabled ones by priority, and the address and the number of workers those of the flags, else the environment, else the file |

Why these bounds are enough. In the lifecycle, one caller with two loops lets a
loop of an earlier `Connect` meet the next one; three sockets are the current
one, one in a dial and one in the locals of a loop; the channels are those that
three fields and the waiting goroutines can name, so the allocation never runs
dry. Delays 2 and 5 seconds make the doubling meet its cap without hitting it
exactly. In `shares`, two workers with two requests give every order of two
answers, and one worker with both gives the late answer to its earlier request;
`Stop` may come at any of their steps;
two sockets are the current one and one a sender still holds. `MaxWriteFails`
is 2 instead of 3: what matters is a count that is split over connections and
senders. Three pools let the first fail, the second accept and the third stay
untouched, or all of them fail. In `workers` the goroutines of one worker share
its field and engine; workers share nothing else but the job, which two jobs
and a one-place channel already drop, replace and refuse; two workers with one
goroutine each pass the same invariants. In `engine`, three nonces give a first,
a middle and a last; four calls are a search that ends early, one that reaches
the end, and two after it; three jobs for a cache of two make it evict, and two
callers that meet after `Stop` fill it together. In `stats`, three calls are a
call that is overtaken by a second, and a third that finds the mark put back;
two engines make a sum that is out of date when it is complete. In `startup`,
three runs are one that fills the log, one that rotates or dies doing so, and one
that finds what it left; a size of one line and an age of one second are the
least at which a rotation and a removal happen, and the files include each way
to be refused and orders of priority that one turn of the sort leaves unsorted.

Symmetry is used only in `lifecycle_shared` and `engine` (callers and jobs),
which have no liveness property.
Deadlock is not checked where the program may rest: in `lifecycle_serial` an
owner that closes after a failed `Connect` is stuck for ever, which is what the
code does, and elsewhere the bounds run out or everything has stopped.

### Fairness

`FairSpec` of `StratumLifecycle` is weak fairness of each goroutine (the Go
scheduler runs them, and every blocking step has a timeout: 10 s to dial,
`subscribeTimeout`, `readDeadlineDuration`, the backoff), with strong fairness
of a dial and a handshake that succeed, for `Reconnects`: an assumption on the
pool, not on the code. Nothing is assumed of the owner beyond finishing a call.
In `StratumShares` senders run on, writes and waits end by their deadlines, and
`sync.Mutex` serves each waiter in the end (its starvation mode), hence strong
fairness of a worker's `LockSend`; the `readLoop` sends an answer it has taken on,
and `Stop` of the manager, once begun, returns. In `PoolManager` the steps inside `Start`, `Stop` and a
check go on, and a `readLoop` told to stop does, which `CloseReturns` of
`StratumLifecycle` shows. In `MinerWorkers` the goroutines go on; that an engine
finds a nonce is not assumed. In `HashStats` a goroutine inside `GetStats`, an
update or the shutdown goes on while the process lives, and `Stop` of the miner
returns, which `StopReturns` of `PoolManager` shows; nothing is assumed of ticks,
shares and signals. `PowEngine` and `Startup` have safety properties only.

## What is proved

Every theorem holds for all values of the constants that the module's
assumption allows. It follows from an inductive invariant, which is spelled out
before its proof. TLC checks such an invariant on the run of the same component
before it is proved, with a finite range in place of a quantifier over `Nat`.

### The client's lifecycle

`StratumLifecycleProofs`, for any sets of loops, sockets and channels, any
delays, under `LifecycleAssumption`:

* for any number of callers: `TypeCorrect`, `ConnectedIffConnCorrect`,
  `NoLeakedConnCorrect`;
* for one owner (`Callers = {owner}`), as the manager uses a client:
  `OneReadLoopCorrect`, `ClosedIsQuietCorrect`, `ServedConnectionCorrect`,
  `NoPanicCorrect`.

The first group needs one strengthening: a goroutine in a handshake has a socket
(`HandshakeHasSocket`), so that installing it makes `conn` a socket.

The second group rests on `SerialInv`. `OneReadLoop` alone is not inductive:
that a second loop is not started needs that no loop runs while the owner
connects (`CallerInv`), which needs that a `Close` that has waited leaves none
behind; and that needs `readLoopDone`, on which it waited, to be open while a
loop runs (`LoopInv`) and to be the channel the owner waits on. That `close`
never panics needs the three channels to differ (`ChannelsDiffer`) and
`dialDone` to be open while a dial lasts (`DialInv`). `ClosedIsQuiet` follows
from there: without a loop `ServedConnection` leaves no `conn`, and
`NoLeakedConn` no other socket. The hypothesis of one owner is necessary: two
callers break `OneReadLoop` and `NoPanic`.

### The lifecycle implements the client the manager uses

`StratumRefinementProofs`: `ImplementsClientCorrect`, under the same assumption
and for one owner. Its proof goes action by action; a dial is one step of
`StratumClient` when it installs its socket or fails, and the rest of it shows
nothing. Two steps need more than `SerialInv`. A `readLoop` leaves only because
`Close` closed `stopCh`, also when it learns so from the channel it took into
its backoff (`LeavesWhenStopped`); and `Close` returns, once the client was
started, only after a `readLoopDone` that is closed (`ReturnsWhenEnded`).

`PoolManagerProofs` has the other half: `ClientsUsedAsSpecifiedCorrect` and
`ClientImplementsStratumClient`, that the client of each pool behaves as
`StratumClient!Spec` inside the manager. What the manager is proved to rely on
is therefore what the lifecycle is proved to do; their fairness is left to TLC.

### The pool manager

`PoolManagerProofs`, for any number of pools: `TypeCorrect`,
`CurrentServedCorrect`, `OnePoolActiveCorrect`, `PriorityRespectedCorrect`,
`SwitchOnlyOnceStoppedCorrect`, `QuietOnceCancelledCorrect` and the two above.
The invariant says for each phase of the owner what every client is like:
spare, dialling, serving or closing (`StartInv`, `RunningInv`, `ClosingInv`,
`StoppedInv`). `OnePoolActive` needs it because nothing in the state before
tells that a pool which `Start` leaves behind has no goroutine left. The centre
is `RunningInv`: the client of the current pool has a `readLoop`, so `IsAlive`
answers true, so the health check never reaches the switch before `Stop`. What
a health check that meets `Stop` may still do is in `StoppedInv`: with the
context cancelled its `Connect` cannot succeed. `CurrentPoolKept` follows: from
the end of `Start` to the end of `Stop` the current pool never changes, which is
why a pool that is lost for good is not left (`pool_failover`), and why
`RecordShare` credits the pool a share was sent to.

### Shares, answers and reports

`StratumSharesProofs`, for any finite number of workers, any number of connections
(at least two), requests and hashes, under `SharesAssumption`: `TypeCorrect`,
`OwnVerdictCorrect`, `DeliverNeverBlocksCorrect`, `CountedAsAnsweredCorrect` and
`StuckConnClosedCorrect`. `DeliverNeverBlocks` needs the way of an id
(`RouteInv`): an id is in `pendingResults` or with the `readLoop`, never both,
the `readLoop` holds one at a time, and in both places its channel is empty; and
the pool has not heard of an id that has not been sent. `OwnVerdict` needs that
a channel holds only what the pool said about its id (`VerdictInv`).

`CountedAsAnswered` compares counters with sets of ids that only grow. The
miner's count is at most the number of ids the pool took that are `Done`, that
is, whose verdict was read or will never come; the manager's counts are at most
the number of those that are `Noted`, that is, `Done` and not on their way to the
manager any more; and the step that counts a share makes its id `Done`, or
`Noted` (`TallyInv`). It needs that a worker on its way carries a verdict that
the pool gave (`RecordInv`). The monitor counts one share for each id whose
caller has returned, at most (`MonitorInv`). The last part, how far the three may
be apart, is an invariant of its own (`LagInv`), which needs the set of workers
to be finite; `Stop` is the step that weakens it. `ReportInv` bounds the reports.

`StuckConnClosed` compares failures of one connection with a counter that is
reset by others' writes and shared with earlier connections: while a sender holds
an earlier connection, `sendMu` keeps everyone from writing to the new one
(`StuckInv`, `SendInv`).

### Jobs and workers

`MinerWorkersProofs`, for any number of workers, goroutines, jobs and calls, any
size of the job channel: `TypeCorrect`, `EngineExclusiveCorrect`,
`CaughtAreSignalledCorrect`, `JobsGoForwardCorrect` and `NoPanicUndisturbed`.
`CaughtAreSignalled` needs that a worker's field never leaves a channel that is
not closed (`SignalInv`): then a goroutine in the engine has the channel of the
field, which is about to be closed, or an earlier one, which is closed already.
`Pause` breaks that between its check and its close, hence the condition.
`JobsGoForward` needs the order of all jobs on their way: those in the channel
ascend, the one `monitorJobs` took out is before them, `currentJob` before that,
and no worker is ahead of `currentJob` (`JobsInv`). `NoPanicUndisturbed` is the
other side of the violation `workers_stop`: as long as neither `Stop` nor
`Pause` is called, no channel is closed twice, because the loop of
`handleNewJob` is then the only one that closes.

### Statistics

`HashStatsProofs`, for any number of engines, senders, hashes and calls, under
`StatsAssumption`: `TypeCorrect`, `NoHashLostCorrect` and
`CountedOnceAloneCorrect`. `NoHashLost` speaks of calls that have returned and is
not inductive: `GivenInv` adds what the monitor has while a call is under way. A
call past its increment has its whole sum in the monitor (`Given`), one about to
add completes it (`Completes`), and both rest on the mark never being ahead of
the monitor (`MarkGiven`), which a call that puts the mark back keeps, because
it is past its increment then. `AddHashes` and main's ticker only make the
monitor's total larger.

`CountedOnceAlone` is exact, so it fails if a call finds a sum below the mark: it
would move the mark back without taking anything from the monitor. `OnceInv`
excludes that: the engines only count up, so what a call has summed up to some
engine is not below what the mark has from the same engines (`Summing`). A sum
over the engines would have to be defined by recursion; instead the invariant
says that there is a function of partial sums (`Reached`), and each step
extends one.

`DeadlockIsForever` adds to the violation `stats_summary` that what it shows
does not pass: main, between its two read locks, and a writer that has
announced itself wait for each other in every later state. It needs that a read
lock is held only by main and only there (`ReadersInv`).

### The engine and its arithmetic

`PowEngineProofs`, for any number of callers, jobs, nonces and cache entries,
under `EngineAssumption`: `TypeCorrect`, `CacheInStepCorrect`,
`NoRescanCorrect`, `NoDuplicateShareCorrect` and `HashCountFallsShort`.

`CacheInStep` needs that the order has no repetition (`CacheInv`): then evicting
its head takes one entry out of both (`CacheEvict`), and the second look under
the write lock keeps a key from entering twice. The type invariant rests on it,
for the head of an empty order has no type. The other three are the parts of
`NonceInv`, which speaks only of runs in which `Stop` has not been called. Without
it one caller is in `Mine` at a time (`Exclusive`), at or above `lastNonce`
(`SearchAhead`). What was hashed lies below `lastNonce` or below the place of
that caller (`HashedBelow`), so the nonce it hashes is new. Once a search has
reached `MaxNonce` this is lost, because the mark stays behind, but it remains
true of what solved a job (`SolvedBelow`): a search that reached the end returned
nothing. `Tally` counts a hash between trying and counting it; that a solution
is counted apart needs it to be new, which is `SolvedBelow` again.

Its second part is about `PowHash`: `TargetIsQuotient` and `HarderIsLower` for
every difficulty and maximum, `HashHasItsLength` for any bytes,
`FixedKeepsInt8` for the 24 bits of the code and every integer (the code's is
64 bits wide, and the sum it rounds is far from that), and
`CacheWordsAllUsed`, `RowBytesAllUsed` and `BlocksEvenFirst` for any size.

Two need an induction over data. The library's induction theorems cannot be used
(they take an operator as a parameter), but that a set of numbers has a least one
can: a proof by induction looks at the first turn of a loop that goes wrong
(`CountingUp`). `BlockedIsProduct` holds for matrices and blocks of any size, the
last block shorter or not, and any integers as entries: from `CountingUp` comes
an induction over the subsets of a finite set (`SubsetInduction`), from that what
the community modules' sum over a set is (`SumOverIs`) and that its order does
not matter (`SumsCarry`), and the visits of an entry are its products one to one,
because each index is in one block (`OneBlock`, `VisitsOnce`); the integers are
unbounded there, the code's are 64 bits wide. `HashIsNumber`, for bytes of any
base: the low end of a number is its remainder (`LowDigits`), and zeros in front
change nothing (`ZerosFirst`).

### The start and the log

`StartupProofs`, for any files, environments, flags, sizes, ages and numbers of
runs, under `StartupAssumption`: `TypeCorrect`, `LogKeptCorrect`,
`WriterHasFile` and `RunsAsConfiguredCorrect`. A kill may come at any step, so
the invariants hold in every phase.

`LogKept` needs that a line is never newer than the modification time of the file
or backup it is in (`FileInv`, `BackupInv`), because the cleaner looks at that
time; that a cutoff, computed late or not, is never later than the present allows
(`CleanerInv`); and that what `rotate` renames is there (`WriterInv`).

`RunsAsConfigured` and the pools in `TypeOK` depend on three loops: the one that
collects the enabled pools and the two nested ones that exchange them into order.
In `Startup` they are recursive functions, one call for a turn. That such a
function exists (`LoopFunction`) and what it holds after each turn
(`LoopInduction`) come from the least number again, here the first turn that goes
wrong. `EnabledPoolsCorrect`: each enabled pool is taken once, whatever the list.
`ByPriorityCorrect`: the sort returns a permutation of any list, in order of
priority. Then `ManagerPools` puts them together, `LoadedConfig` says what the
overrides leave of a file (they change the address of its first pool only, and
the number of threads to `ThreadsGiven`), and the inductive invariant `StartInv`
adds what `Load` read (`ConfigInv`) and what the miner was given (`MinerInv`). The
overrides come after `Validate`, so of the environment and the flags the proof
assumes no more than that they hold integers.

### What is only model-checked

* Liveness: `Reconnects`, `CloseReturns`, `SubmitReturns`, `StopReturns`,
  `CaughtComeOut`, `ShutdownEndsOrDeadlocks` (out of the prover's reach).
* That each row is mixed once (`RowsAllMixedOnce`): `FoldRows` is defined for
  powers of two only, and TLC evaluates it for all of them up to 256, the code's.

## Where the code and its documentation disagree

Each is a run that TLC must find violated.

| run | property | what happens |
|---|---|---|
| `pool_failover` | `Failover` | a pool lost for good is never left: the health check trusts `IsAlive` |
| `workers_stale` | `NoStaleMining` | a worker between reading job and channel mines the old job with the new channel |
| `workers_stop` | `NoPanic` | `Stop` and a worker close the same channel |
| `stats_summary` | `ShutdownEnds` | a writer that arrives between the two read locks of `GetSummary` keeps main, and the process, for ever |

Others need no interleaving to show. They are stated here and, where a property or
a theorem describes what the code does instead, in the comment before it:

* a share that could not be sent is counted as rejected by the monitor, against
  the comment one line above ("do not record as rejected share",
  `miner.go:307-308`), and not by the manager. `CountedAsAnswered` bounds the
  monitor's counts by the number of submissions for that reason, and not by the
  number of answers;
* `HashCount` "provides the true cumulative total" (`engine.go:162-164`), but a hash
  that solves a job is never counted (`HashCountFallsShort`);
* `"threads": 0` in the file means one worker and not "0=auto-detect CPU cores"
  (`README.md:322`; the same words stand beside the assignment of 1,
  `config.go:107-108`), and `-threads 0` leaves the file's number and is not "auto"
  (`flags.go:29`; `ThreadsUsed`);
* `-address` and `NOGOMINER_ADDRESS` change the first pool of the file even if it
  is disabled; the address is lost then, against "overrides config"
  (`README.md:446`; `AddressUsed`);
* the nonces never wrap around (`engine.go:151-152`; `NoRescan`,
  `NoDuplicateShare`);
* a submission that times out leaves its entry in `pendingResults` until the
  answer comes, if it does (`client.go:845`);
* a verdict that is read when `Stop` has taken the manager's pool away is counted
  by the miner and the monitor only (`CountedAsAnswered`; `manager.go:340-343`);
* a health check that meets `Stop` may connect a pool after it, unless the
  context was cancelled first, as `Miner.Stop` does (`QuietOnceCancelled`);
* the monitor's total grows by the cumulative count with each of main's ticks
  (`main.go:132`), and by an increment twice if two calls of `GetStats` overlap
  (`miner.go:568-573`; `CountedOnceAlone` is about the rest);
* the log is rotated only when it is opened, `max_backups` is never used, and a
  second rotation within a second replaces the first backup with its lines, which
  `LogKept` leaves out (`logger.go:157`; the repository's `README.md:332-334`).

What no run shows: `NoPanic` is checked for one owner, whose dials never overlap.
Whether `close(c.dialDone)` could meet a channel of another dial
(`client.go:226-228`) is a question about several owners, which the program does
not have.

## What is not modelled

* The contents of jobs, shares and answers: addresses, difficulties, hex and
  JSON decoding. A job or an answer is accepted or refused.
* The mixing inside the hash (Keccak, Salsa20, FNV) and the serialisation of a
  header: deterministic, with nothing in the repository to compare it with.
* Values that are only displayed: rates, uptime, best share, the manager's
  per-pool hash rates. They feed nothing back.
* The checks of the other configuration fields, which have the same shape.
* The RPC client: the program does not use it, so no caller depends on it.
* What the program does not call: `UpdateJob`, `SetThreads`, `resultCh`, and of
  the monitor `Reset`, `AddReward`, `UpdateHardware`, `UpdatePoolInfo`, callbacks.
* Scripts and the release workflow.
* Time: a timeout may strike at any moment, as late as the fairness allows; only
  `Startup` counts seconds.

## Plan

Done: every component that is not listed above is modelled and checked; every
invariant and action property of the passing runs is proved, and so is the
refinement of `StratumClient`.

Possible extensions:

1. What follows from several components together: the hashes that reach the pool
   are those the engines computed (`HashStats` with `StratumShares`).
2. A composition of `MinerWorkers` with `PoolManager`, to see the jobs of a
   client that is no longer current.
