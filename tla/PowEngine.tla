------------------------------ MODULE PowEngine ------------------------------
(***************************************************************************)
(* The search engine of a worker and its seed cache (pkg/nogopow/          *)
(* engine.go): Mine, Stop, HashCount and Cache.GetData.                    *)
(*                                                                         *)
(* A job stands for the header it is mined with and for the seed of its    *)
(* parent hash.  The hash function is unknown but fixed: whether a nonce   *)
(* solves a job is chosen when it is first hashed and remembered in solved *)
(* and missed.  A caller's stopCh may be closed at any moment.             *)
(***************************************************************************)
EXTENDS Naturals, Sequences, FiniteSets

CONSTANTS Callers,      \* goroutines that call Mine: runWorker, twice after Resume
          Jobs,         \* headers, each with a parent hash of its own
          NoJob,        \* a caller outside Mine
          MaxNonce,     \* MaxNonce
          StartNonces,  \* what the clock may give for a first start nonce
          MaxItems,     \* maxCacheItems
          MaxCalls,     \* bound on the calls of Mine
          MaxStops      \* bound on the calls of Stop

ASSUME EngineAssumption ==
    /\ NoJob \notin Jobs
    /\ MaxNonce \in Nat \ {0} /\ MaxItems \in Nat \ {0}
    /\ StartNonces \subseteq 0 .. MaxNonce - 1 /\ StartNonces # {}
    /\ MaxCalls \in Nat /\ MaxStops \in Nat

VARIABLES
    running,        \* e.running
    lastNonce,      \* e.lastNonce
    hashCount,      \* e.hashCount
    data, order,    \* the keys of cache.data, and cache.order
    pc, job,        \* of each caller: its place in Mine, its header
    nonce, lastN,   \* of each caller: the loop variable, and lastN
    calls, stops,   \* how often Mine began, and Stop was called
    solved, missed, \* the <<job, nonce>> hashed, by their outcome
    exhausted,      \* history: some loop ended at MaxNonce
    tried,          \* history: hashes computed
    rehashed,       \* history: nonces hashed more than once
    repeated        \* history: solutions returned more than once

cache   == <<data, order>>
search  == <<pc, job, nonce, lastN>>
engine  == <<running, lastNonce>>
bounds  == <<calls, stops>>
history == <<solved, missed, exhausted, tried, rehashed, repeated>>
vars    == <<engine, hashCount, cache, search, bounds, history>>

Nonces == 0 .. MaxNonce - 1
Hashed == {h[2] : h \in solved \cup missed}

Goto(p, label) == pc' = [pc EXCEPT ![p] = label]

(***************************************************************************)
(* Mine: the guard, the cache, the start nonce.                            *)
(***************************************************************************)

\* A call that finds the engine running returns nil and changes nothing.
MineBegin(p) ==
    /\ pc[p] = "idle"
    /\ calls < MaxCalls
    /\ ~running
    /\ running' = TRUE
    /\ calls' = calls + 1
    /\ \E j \in Jobs : job' = [job EXCEPT ![p] = j]
    /\ lastN' = [lastN EXCEPT ![p] = 0]
    /\ Goto(p, "warm")
    /\ UNCHANGED <<lastNonce, hashCount, cache, nonce, stops, history>>

\* GetData is called before the loop and by computePoW for every nonce; this
\* is where p goes on when it has the data.
Fetched(p) == Goto(p, IF pc[p] \in {"warm", "warm fill"} THEN "start" ELSE "hash")

\* GetData under the read lock.
CacheLookup(p) ==
    /\ pc[p] \in {"warm", "data"}
    /\ IF job[p] \in data
       THEN Fetched(p)
       ELSE Goto(p, IF pc[p] = "warm" THEN "warm fill" ELSE "data fill")
    /\ UNCHANGED <<engine, hashCount, cache, job, nonce, lastN, bounds, history>>

\* Mutant of CacheFill: without the second look.
CacheFillUnchecked(p) ==
    /\ pc[p] \in {"warm fill", "data fill"}
    /\ LET full == Cardinality(data) >= MaxItems
       IN /\ data' = (IF full THEN data \ {Head(order)} ELSE data) \cup {job[p]}
          /\ order' = Append(IF full THEN Tail(order) ELSE order, job[p])
    /\ Fetched(p)
    /\ UNCHANGED <<engine, hashCount, job, nonce, lastN, bounds, history>>

\* GetData under the write lock: look again, make room, insert.
CacheFill(p) ==
    /\ pc[p] \in {"warm fill", "data fill"}
    /\ LET full == Cardinality(data) >= MaxItems
       IN IF job[p] \in data
          THEN UNCHANGED cache
          ELSE /\ data' = (IF full THEN data \ {Head(order)} ELSE data)
                             \cup {job[p]}
               /\ order' = Append(IF full THEN Tail(order) ELSE order, job[p])
    /\ Fetched(p)
    /\ UNCHANGED <<engine, hashCount, job, nonce, lastN, bounds, history>>

\* Go on where the last search ended; without one, start where the clock says.
StartNonce(p) ==
    /\ pc[p] = "start"
    /\ \E n \in IF lastNonce = 0 THEN StartNonces ELSE {lastNonce} :
         nonce' = [nonce EXCEPT ![p] = n]
    /\ Goto(p, "loop")
    /\ UNCHANGED <<engine, hashCount, cache, job, lastN, bounds, history>>

(***************************************************************************)
(* Mine: the loop over the nonces.                                         *)
(***************************************************************************)

\* Mutant of LoopNext: the last nonce is one more.
LoopNextInclusive(p) ==
    /\ pc[p] = "loop"
    /\ IF nonce[p] <= MaxNonce
       THEN Goto(p, "data") /\ UNCHANGED <<lastN, exhausted>>
       ELSE /\ lastN' = [lastN EXCEPT ![p] = 0]
            /\ exhausted' = TRUE
            /\ Goto(p, "leave")
    /\ UNCHANGED <<engine, hashCount, cache, job, nonce, bounds, solved, missed,
                   tried, rehashed, repeated>>

\* The loop's condition; after the last nonce, lastN is reset.
LoopNext(p) ==
    /\ pc[p] = "loop"
    /\ IF nonce[p] < MaxNonce
       THEN Goto(p, "data") /\ UNCHANGED <<lastN, exhausted>>
       ELSE /\ lastN' = [lastN EXCEPT ![p] = 0]
            /\ exhausted' = TRUE
            /\ Goto(p, "leave")
    /\ UNCHANGED <<engine, hashCount, cache, job, nonce, bounds, solved, missed,
                   tried, rehashed, repeated>>

\* Mutant of LoopStopped: resumes before the last nonce.
LoopStoppedEarlier(p) ==
    /\ pc[p] = "loop" /\ nonce[p] < MaxNonce
    /\ lastN' = [lastN EXCEPT ![p] = IF nonce[p] = 0 THEN 0 ELSE nonce[p] - 1]
    /\ Goto(p, "leave")
    /\ UNCHANGED <<engine, hashCount, cache, job, nonce, bounds, history>>

\* stopCh is closed: this nonce is the next to try.
LoopStopped(p) ==
    /\ pc[p] = "loop" /\ nonce[p] < MaxNonce
    /\ lastN' = [lastN EXCEPT ![p] = nonce[p]]
    /\ Goto(p, "leave")
    /\ UNCHANGED <<engine, hashCount, cache, job, nonce, bounds, history>>

\* What is remembered of hashing h.
Record(h) ==
    /\ tried' = tried + 1
    /\ rehashed' = rehashed \cup ({h[2]} \cap Hashed)
    /\ UNCHANGED exhausted

\* The hash misses the target.
HashMisses(p) ==
    /\ pc[p] = "hash"
    /\ LET h == <<job[p], nonce[p]>>
       IN h \notin solved /\ missed' = missed \cup {h} /\ Record(h)
    /\ Goto(p, "count")
    /\ UNCHANGED <<engine, hashCount, cache, job, nonce, lastN, bounds, solved,
                   repeated>>

\* Mutant of HashSolves: the next search starts with the nonce just found.
HashSolvesAgain(p) ==
    /\ pc[p] = "hash"
    /\ LET h == <<job[p], nonce[p]>>
       IN /\ h \notin missed
          /\ solved' = solved \cup {h}
          /\ repeated' = repeated \cup ({h} \cap solved)
          /\ Record(h)
    /\ lastN' = [lastN EXCEPT ![p] = nonce[p]]
    /\ Goto(p, "leave")
    /\ UNCHANGED <<engine, hashCount, cache, job, nonce, bounds, missed>>

\* The hash meets the target: it is returned, and not counted, although
\* HashCount "provides the true cumulative total" (engine.go:164).
HashSolves(p) ==
    /\ pc[p] = "hash"
    /\ LET h == <<job[p], nonce[p]>>
       IN /\ h \notin missed
          /\ solved' = solved \cup {h}
          /\ repeated' = repeated \cup ({h} \cap solved)
          /\ Record(h)
    /\ lastN' = [lastN EXCEPT ![p] = nonce[p] + 1]
    /\ Goto(p, "leave")
    /\ UNCHANGED <<engine, hashCount, cache, job, nonce, bounds, missed>>

CountHash(p) ==
    /\ pc[p] = "count"
    /\ hashCount' = hashCount + 1
    /\ nonce' = [nonce EXCEPT ![p] = @ + 1]
    /\ Goto(p, "loop")
    /\ UNCHANGED <<engine, cache, job, lastN, bounds, history>>

\* The deferred function: lastNonce only grows, so the reset of lastN after
\* the last nonce is lost.
MineLeave(p) ==
    /\ pc[p] = "leave"
    /\ running' = FALSE
    /\ lastNonce' = IF lastN[p] > lastNonce THEN lastN[p] ELSE lastNonce
    /\ job' = [job EXCEPT ![p] = NoJob]
    /\ nonce' = [nonce EXCEPT ![p] = 0]
    /\ lastN' = [lastN EXCEPT ![p] = 0]
    /\ Goto(p, "idle")
    /\ UNCHANGED <<hashCount, cache, bounds, history>>

\* Stop, which the program does not call: running is cleared under a search
\* that goes on, and lets a second one in.
EngineStop ==
    /\ stops < MaxStops
    /\ stops' = stops + 1
    /\ running' = FALSE
    /\ UNCHANGED <<lastNonce, hashCount, cache, search, calls, history>>

(***************************************************************************)
(* The specification.                                                      *)
(***************************************************************************)
Init ==
    /\ running = FALSE /\ lastNonce = 0 /\ hashCount = 0
    /\ data = {} /\ order = <<>>
    /\ pc = [p \in Callers |-> "idle"]
    /\ job = [p \in Callers |-> NoJob]
    /\ nonce = [p \in Callers |-> 0] /\ lastN = [p \in Callers |-> 0]
    /\ calls = 0 /\ stops = 0
    /\ solved = {} /\ missed = {} /\ exhausted = FALSE
    /\ tried = 0 /\ rehashed = {} /\ repeated = {}

GetData(p) == CacheLookup(p) \/ CacheFill(p)

Mine(p) ==
    \/ MineBegin(p) \/ GetData(p) \/ StartNonce(p)
    \/ LoopNext(p) \/ LoopStopped(p)
    \/ HashMisses(p) \/ HashSolves(p) \/ CountHash(p)
    \/ MineLeave(p)

Next == (\E p \in Callers : Mine(p)) \/ EngineStop

Spec == Init /\ [][Next]_vars

(***************************************************************************)
(* Properties.                                                             *)
(***************************************************************************)
TypeOK ==
    /\ running \in BOOLEAN /\ exhausted \in BOOLEAN
    /\ lastNonce \in 0 .. MaxNonce
    /\ hashCount \in Nat /\ tried \in Nat
    /\ data \subseteq Jobs /\ order \in Seq(Jobs)
    /\ pc \in [Callers -> {"idle", "warm", "warm fill", "start", "loop", "data",
                           "data fill", "hash", "count", "leave"}]
    /\ job \in [Callers -> Jobs \cup {NoJob}]
    /\ nonce \in [Callers -> 0 .. MaxNonce]
    /\ lastN \in [Callers -> 0 .. MaxNonce]
    /\ calls \in 0 .. MaxCalls /\ stops \in 0 .. MaxStops
    /\ solved \subseteq Jobs \X Nonces /\ missed \subseteq Jobs \X Nonces
    /\ rehashed \subseteq Nonces /\ repeated \subseteq Jobs \X Nonces

\* "Start from the last tried nonce to avoid re-scanning the same range
\* across Mine() calls" (engine.go:101): through any stops, solutions and
\* changes of job no nonce is hashed twice, until one search has reached
\* MaxNonce.
NoRescan == stops = 0 /\ ~exhausted => rehashed = {}

\* A solution is returned, and so submitted, once, even by searches of the
\* same job that go over the rest of the range again after it was exhausted
\* (engine.go:83-85): a pool refuses the second share.
NoDuplicateShare == stops = 0 => repeated = {}

\* The cache's map and its eviction order never drift apart: otherwise an
\* eviction would miss its entry, or index an empty order (engine.go:721-729).
CacheInStep ==
    /\ Cardinality(data) = Len(order)
    /\ data = {order[i] : i \in 1 .. Len(order)}
    /\ Len(order) <= MaxItems

=============================================================================
