----------------------------- MODULE PoolManager -----------------------------
(***************************************************************************)
(* The pool manager (internal/pool/manager.go): Start, the health check    *)
(* loop with switchToNextPool, and Stop, over one Stratum client per pool. *)
(*                                                                         *)
(* Pools are numbered in the order sortPoolsByPriority leaves them.  Each  *)
(* client is the abstract one of StratumClient, which the lifecycle of the *)
(* real one implements.  The owner is the goroutine that calls Start and   *)
(* then Stop (main, by way of the miner); the checker is the goroutine     *)
(* that runs healthCheckLoop.                                              *)
(***************************************************************************)
EXTENDS Naturals

CONSTANT NPools

ASSUME PoolsAssumption == NPools \in Nat \ {0}

VARIABLES
    client,       \* the state of each pool's Stratum client
    flag,         \* pool.connected of each pool
    currentPool,  \* m.currentPool, or NoPool
    muHeld,       \* Stop holds m.mu
    stopped,      \* m.stopCh is closed
    cancelled,    \* the context given to Start is cancelled
    owner, at,    \* where the owner is, and the pool it is at
    checker, try  \* where the health checker is, and the pool it is at

vars == <<client, flag, currentPool, muHeld, stopped, cancelled, owner, at,
          checker, try>>

Pools  == 1 .. NPools
NoPool == 0   \* -1 in the code

NewClient == [call |-> "none", started |-> FALSE, stopping |-> FALSE,
              connected |-> FALSE, loop |-> "none"]

(***************************************************************************)
(* The client of a pool, as StratumClient describes it.                    *)
(***************************************************************************)
ClientOf(p) ==
    INSTANCE StratumClient WITH
        call <- client[p].call, started <- client[p].started,
        stopping <- client[p].stopping, connected <- client[p].connected,
        loop <- client[p].loop

Client(p, c) == client' = [client EXCEPT ![p] = c]

\* Connect on an unused client starts to dial; on any other it is a no-op.
ConnectBegin(p) ==
    Client(p, [client[p] EXCEPT !.call = "connecting", !.started = TRUE])

\* The dial and the handshake succeed, unless ctx was cancelled before them.
ConnectInstalls(p) ==
    /\ client[p].call = "connecting"
    /\ ~cancelled
    /\ Client(p, [client[p] EXCEPT !.call = "installed", !.connected = TRUE])

ConnectOk(p) ==
    /\ client[p].call = "installed"
    /\ Client(p, [client[p] EXCEPT !.call = "none", !.loop = "running"])

ConnectFails(p) ==
    /\ client[p].call = "connecting"
    /\ Client(p, [client[p] EXCEPT !.call = "none"])

CloseBegin(p) ==
    /\ client[p].call = "none"
    /\ Client(p, [client[p] EXCEPT !.call = "closing", !.stopping = TRUE,
                                   !.connected = FALSE])

CloseReturns(p) ==
    /\ client[p].call = "closing"
    /\ client[p].started => client[p].loop = "ended"
    /\ Client(p, [NewClient EXCEPT !.connected = client[p].connected])

\* The readLoop of p: it loses its connection, gets another, or ends.
Lose(p) ==
    /\ client[p].loop = "running" /\ client[p].connected
    /\ Client(p, [client[p] EXCEPT !.connected = FALSE])

Regain(p) ==
    /\ client[p].loop = "running" /\ ~client[p].connected
    /\ Client(p, [client[p] EXCEPT !.connected = TRUE])

LoopLeaves(p) ==
    /\ client[p].loop = "running" /\ client[p].stopping
    /\ Client(p, [client[p] EXCEPT !.connected = FALSE, !.loop = "leaving"])

LoopEnds(p) ==
    /\ client[p].loop = "leaving"
    /\ Client(p, [client[p] EXCEPT !.loop = "ended"])

IsAlive(p) == client[p].started /\ ~client[p].stopping

\* A dial of Connect, or of the readLoop while it has no connection.  It also
\* counts as one between the new connection and the end of dialAndHandshake.
MayBeDialing(p) ==
    \/ client[p].call \in {"connecting", "installed"}
    \/ client[p].loop = "running"

ReadLoop(p) ==
    /\ Lose(p) \/ Regain(p) \/ LoopLeaves(p) \/ LoopEnds(p)
    /\ UNCHANGED <<flag, currentPool, muHeld, stopped, cancelled, owner, at,
                   checker, try>>

(***************************************************************************)
(* Start: the pools in turn, until one accepts the connection.             *)
(***************************************************************************)
StartConnect ==
    /\ owner = "start"
    /\ ConnectBegin(at)
    /\ owner' = "connecting"
    /\ UNCHANGED <<flag, currentPool, muHeld, stopped, cancelled, at, checker,
                   try>>

StartInstalls ==
    /\ owner = "connecting"
    /\ ConnectInstalls(at)
    /\ UNCHANGED <<flag, currentPool, muHeld, stopped, cancelled, owner, at,
                   checker, try>>

\* Mutant of StartConnected: connects to the other pools as well.
StartConnectedGoesOn ==
    /\ owner = "connecting"
    /\ ConnectOk(at)
    /\ flag' = [flag EXCEPT ![at] = TRUE]
    /\ currentPool' = at
    /\ IF at < NPools
       THEN at' = at + 1 /\ owner' = "start" /\ UNCHANGED checker
       ELSE owner' = "running" /\ checker' = "tick" /\ UNCHANGED at
    /\ UNCHANGED <<muHeld, stopped, cancelled, try>>

\* Nobody else runs yet, so the two updates of connectToPool are one step.
StartConnected ==
    /\ owner = "connecting"
    /\ ConnectOk(at)
    /\ flag' = [flag EXCEPT ![at] = TRUE]
    /\ currentPool' = at
    /\ owner' = "running"
    /\ checker' = "tick"
    /\ UNCHANGED <<muHeld, stopped, cancelled, at, try>>

\* Mutant of StartFails: skips the pool after the one that failed.
StartFailsSkipping ==
    /\ owner = "connecting"
    /\ ConnectFails(at)
    /\ IF at + 1 < NPools
       THEN at' = at + 2 /\ owner' = "start" /\ UNCHANGED checker
       ELSE owner' = "running" /\ checker' = "tick" /\ UNCHANGED at
    /\ UNCHANGED <<flag, currentPool, muHeld, stopped, cancelled, try>>

\* Mutant of StartFails: takes the pool as connected all the same.
StartFailsUnnoticed ==
    /\ owner = "connecting"
    /\ ConnectFails(at)
    /\ flag' = [flag EXCEPT ![at] = TRUE]
    /\ currentPool' = at
    /\ owner' = "running"
    /\ checker' = "tick"
    /\ UNCHANGED <<muHeld, stopped, cancelled, at, try>>

StartFails ==
    /\ owner = "connecting"
    /\ ConnectFails(at)
    /\ IF at < NPools
       THEN at' = at + 1 /\ owner' = "start" /\ UNCHANGED checker
       ELSE owner' = "running" /\ checker' = "tick" /\ UNCHANGED at
    /\ UNCHANGED <<flag, currentPool, muHeld, stopped, cancelled, try>>

(***************************************************************************)
(* Stop, with or without the context cancelled before it.                  *)
(***************************************************************************)
Cancel ==
    /\ owner = "running" /\ ~cancelled
    /\ cancelled' = TRUE
    /\ UNCHANGED <<client, flag, currentPool, muHeld, stopped, owner, at,
                   checker, try>>

StopBegin ==
    /\ owner = "running"
    /\ stopped' = TRUE
    /\ owner' = "stop"
    /\ UNCHANGED <<client, flag, currentPool, muHeld, cancelled, at, checker,
                   try>>

StopLock ==
    /\ owner = "stop"
    /\ muHeld' = TRUE
    /\ at' = 1
    /\ owner' = "closing"
    /\ UNCHANGED <<client, flag, currentPool, stopped, cancelled, checker, try>>

\* Mutant of StopClose: closes the clients that never connected as well.
StopCloseAll ==
    /\ owner = "closing" /\ at <= NPools
    /\ CloseBegin(at)
    /\ owner' = "close wait"
    /\ UNCHANGED <<flag, currentPool, muHeld, stopped, cancelled, at, checker,
                   try>>

StopClose ==
    /\ owner = "closing" /\ at <= NPools
    /\ flag[at]
    /\ CloseBegin(at)
    /\ owner' = "close wait"
    /\ UNCHANGED <<flag, currentPool, muHeld, stopped, cancelled, at, checker,
                   try>>

StopSkip ==
    /\ owner = "closing" /\ at <= NPools
    /\ ~flag[at]
    /\ at' = at + 1
    /\ UNCHANGED <<client, flag, currentPool, muHeld, stopped, cancelled, owner,
                   checker, try>>

\* Close returns, with m.mu still held.
StopClosed ==
    /\ owner = "close wait"
    /\ CloseReturns(at)
    /\ flag' = [flag EXCEPT ![at] = FALSE]
    /\ at' = at + 1
    /\ owner' = "closing"
    /\ UNCHANGED <<currentPool, muHeld, stopped, cancelled, checker, try>>

StopEnd ==
    /\ owner = "closing" /\ at > NPools
    /\ currentPool' = NoPool
    /\ muHeld' = FALSE
    /\ owner' = "stopped"
    /\ UNCHANGED <<client, flag, stopped, cancelled, at, checker, try>>

(***************************************************************************)
(* healthCheckLoop and checkPoolHealth.  When both the ticker and a stop   *)
(* are ready, the select takes either.                                     *)
(***************************************************************************)
CheckerExits ==
    /\ checker = "tick"
    /\ stopped \/ cancelled
    /\ checker' = "done"
    /\ UNCHANGED <<client, flag, currentPool, muHeld, stopped, cancelled, owner,
                   at, try>>

\* Without a current pool the check ends here, and nothing else looks for one.
CheckerTick ==
    /\ checker = "tick"
    /\ ~muHeld
    /\ currentPool # NoPool
    /\ try' = currentPool
    /\ checker' = "ask dialing"
    /\ UNCHANGED <<client, flag, currentPool, muHeld, stopped, cancelled, owner,
                   at>>

\* The check of the client's state, one read at a time.
Ask(verdict, next) ==
    /\ checker' = IF verdict THEN "tick" ELSE next
    /\ UNCHANGED <<client, flag, currentPool, muHeld, stopped, cancelled, owner,
                   at, try>>

AskDialing ==
    /\ checker = "ask dialing"
    /\ \E dialing \in {FALSE, MayBeDialing(try)} : Ask(dialing, "ask alive")

\* Mutant of AskAlive: forgets IsAlive.
AskAliveSkipped ==
    /\ checker = "ask alive"
    /\ Ask(FALSE, "ask connected")

AskAlive ==
    /\ checker = "ask alive"
    /\ Ask(IsAlive(try), "ask connected")

AskConnected ==
    /\ checker = "ask connected"
    /\ Ask(client[try].connected, "switch")

(***************************************************************************)
(* switchToNextPool.  It is only ever reached with no current pool (see    *)
(* SwitchOnlyOnceStopped), so its part that closes the current client, and *)
(* the shortcut to a pool already connected, are never run.                *)
(***************************************************************************)
SwitchBegin ==
    /\ checker = "switch"
    /\ ~muHeld
    /\ try' = 1
    /\ checker' = "try"
    /\ UNCHANGED <<client, flag, currentPool, muHeld, stopped, cancelled, owner,
                   at>>

\* Mutant of SwitchConnect: dials whatever the state of the client.
SwitchConnectAgain ==
    /\ checker = "try" /\ try <= NPools
    /\ ConnectBegin(try)
    /\ checker' = "connecting"
    /\ UNCHANGED <<flag, currentPool, muHeld, stopped, cancelled, owner, at, try>>

SwitchConnect ==
    /\ checker = "try" /\ try <= NPools
    /\ ~client[try].started
    /\ ConnectBegin(try)
    /\ checker' = "connecting"
    /\ UNCHANGED <<flag, currentPool, muHeld, stopped, cancelled, owner, at, try>>

\* Connect returns nil at once: an earlier Connect, which failed, left
\* readLoopStarted set.
SwitchConnectNoOp ==
    /\ checker = "try" /\ try <= NPools
    /\ client[try].started
    /\ checker' = "record"
    /\ UNCHANGED <<client, flag, currentPool, muHeld, stopped, cancelled, owner,
                   at, try>>

\* Mutant of SwitchInstalls: dials with a context of its own.
SwitchInstallsAnyway ==
    /\ checker = "connecting"
    /\ client[try].call = "connecting"
    /\ Client(try, [client[try] EXCEPT !.call = "installed", !.connected = TRUE])
    /\ UNCHANGED <<flag, currentPool, muHeld, stopped, cancelled, owner, at,
                   checker, try>>

SwitchInstalls ==
    /\ checker = "connecting"
    /\ ConnectInstalls(try)
    /\ UNCHANGED <<flag, currentPool, muHeld, stopped, cancelled, owner, at,
                   checker, try>>

SwitchConnected ==
    /\ checker = "connecting"
    /\ ConnectOk(try)
    /\ checker' = "record"
    /\ UNCHANGED <<flag, currentPool, muHeld, stopped, cancelled, owner, at, try>>

SwitchFails ==
    /\ checker = "connecting"
    /\ ConnectFails(try)
    /\ try' = try + 1
    /\ checker' = "try"
    /\ UNCHANGED <<flag, currentPool, muHeld, stopped, cancelled, owner, at>>

SwitchRecord ==
    /\ checker = "record"
    /\ ~muHeld
    /\ flag' = [flag EXCEPT ![try] = TRUE]
    /\ currentPool' = try
    /\ checker' = "tick"
    /\ UNCHANGED <<client, muHeld, stopped, cancelled, owner, at, try>>

\* Mutant of SwitchExhausted: leaves the index the loop ended at.
SwitchExhaustedKeepsIndex ==
    /\ checker = "try" /\ try > NPools
    /\ ~muHeld
    /\ currentPool' = try
    /\ checker' = "tick"
    /\ UNCHANGED <<client, flag, muHeld, stopped, cancelled, owner, at, try>>

SwitchExhausted ==
    /\ checker = "try" /\ try > NPools
    /\ ~muHeld
    /\ currentPool' = NoPool
    /\ checker' = "tick"
    /\ UNCHANGED <<client, flag, muHeld, stopped, cancelled, owner, at, try>>

(***************************************************************************)
(* The specification.                                                      *)
(***************************************************************************)
Init ==
    /\ client = [p \in Pools |-> NewClient]
    /\ flag = [p \in Pools |-> FALSE]
    /\ currentPool = NoPool
    /\ muHeld = FALSE /\ stopped = FALSE /\ cancelled = FALSE
    /\ owner = "start" /\ at = 1
    /\ checker = "off" /\ try = 1

Start == StartConnect \/ StartInstalls \/ StartConnected \/ StartFails

Stop == StopLock \/ StopClose \/ StopSkip \/ StopClosed \/ StopEnd

CheckPoolHealth == CheckerTick \/ AskDialing \/ AskAlive \/ AskConnected

SwitchToNextPool ==
    \/ SwitchBegin \/ SwitchConnect \/ SwitchConnectNoOp \/ SwitchInstalls
    \/ SwitchConnected \/ SwitchFails \/ SwitchRecord \/ SwitchExhausted

Next ==
    \/ Start
    \/ Cancel \/ StopBegin \/ Stop
    \/ CheckerExits \/ CheckPoolHealth \/ SwitchToNextPool
    \/ \E p \in Pools : ReadLoop(p)

Spec == Init /\ [][Next]_vars

\* Start and Stop run on once called, and so does the health check; a dial
\* ends by its timeout; a readLoop that is told to stop does.
Fairness ==
    /\ WF_vars(Start) /\ WF_vars(Stop)
    /\ WF_vars(CheckPoolHealth) /\ WF_vars(SwitchToNextPool)
    /\ \A p \in Pools :
         WF_vars((LoopLeaves(p) \/ LoopEnds(p))
                 /\ UNCHANGED <<flag, currentPool, muHeld, stopped, cancelled,
                                owner, at, checker, try>>)

FairSpec == Spec /\ Fairness

(***************************************************************************)
(* Properties.                                                             *)
(***************************************************************************)
ClientState == [call : {"none", "connecting", "installed", "closing"},
                started : BOOLEAN, stopping : BOOLEAN, connected : BOOLEAN,
                loop : {"none", "running", "leaving", "ended"}]

TypeOK ==
    /\ client \in [Pools -> ClientState]
    /\ flag \in [Pools -> BOOLEAN]
    /\ currentPool \in Pools \cup {NoPool}
    /\ muHeld \in BOOLEAN /\ stopped \in BOOLEAN /\ cancelled \in BOOLEAN
    /\ owner \in {"start", "connecting", "running", "stop", "closing",
                  "close wait", "stopped"}
    /\ checker \in {"off", "tick", "ask dialing", "ask alive", "ask connected",
                    "switch", "try", "connecting", "record", "done"}
    /\ at \in 1 .. NPools + 1 /\ try \in 1 .. NPools + 1

\* Until Stop, the pool the miner takes its client from has a readLoop, which
\* looks after the connection: the manager never points at a client that
\* nobody will ever reconnect.
CurrentServed ==
    ~stopped /\ currentPool # NoPool => client[currentPool].loop = "running"

\* Until Stop, the miner is connected to one pool at a time: the clients of
\* the others neither dial nor keep a readLoop.
OnePoolActive ==
    ~stopped => \A p, q \in Pools :
        client[p].loop # "none" /\ (client[q].loop # "none" \/ client[q].call # "none")
            => p = q

\* The pool Start settles on is the first, in order of priority, that took
\* the connection, and none is given up before it was tried.
PriorityRespected ==
    owner = "running" =>
        \A p \in Pools : currentPool = NoPool \/ p < currentPool =>
            client[p].started /\ client[p].loop = "none"

\* The switch to another pool starts to connect only after Stop is done, from
\* no current pool and with no pool marked connected: before that IsAlive
\* keeps the health check from it (manager.go:199-202).
SwitchOnlyOnceStopped ==
    checker = "try" => owner = "stopped" /\ currentPool = NoPool
                       /\ \A p \in Pools : ~flag[p]

\* With the context cancelled first, as Miner.Stop does (miner.go:502-517),
\* no client is connected after Stop, whatever the health check was doing.
QuietOnceCancelled ==
    owner = "stopped" /\ cancelled =>
        \A p \in Pools : ~client[p].connected /\ client[p].loop = "none"

\* Every client is used as StratumClient allows, by Start, Stop and the
\* health check together.
ClientsUsedAsSpecified ==
    [][\A p \in Pools : ClientOf(p)!Next \/ UNCHANGED client[p]]_client

\* Stop, which waits for readLoops with m.mu held, returns.
StopReturns == owner = "stop" ~> owner = "stopped"

(***************************************************************************)
(* What the documentation and the tests say, and the code does not keep.   *)
(***************************************************************************)
\* "The miner will automatically failover to the next pool if the primary
\* becomes unavailable" (README.md:374): a current pool that has lost its
\* connection gets it back, or is replaced by another.
Failover ==
    \A p \in Pools :
        (currentPool = p /\ ~client[p].connected) ~>
            (client[p].connected \/ currentPool # p \/ stopped \/ cancelled)

=============================================================================
