------------------------- MODULE PoolManagerProofs -------------------------
(***************************************************************************)
(* Theorems about PoolManager, for any number of pools.                    *)
(*                                                                         *)
(* The invariant says for each phase of the owner what every client is     *)
(* like.  Until Stop closes it, the client of the current pool is alive,   *)
(* which keeps the health check from the switch; so the checker touches    *)
(* clients only when the owner has come to its end.                        *)
(***************************************************************************)
EXTENDS PoolManager, TLAPS

\* A client that nobody uses; one whose Connect is under way; one that has a
\* readLoop to serve it.
Spare(c) ==
    /\ c.call = "none" /\ ~c.stopping /\ ~c.connected /\ c.loop = "none"
Dialing(c) ==
    /\ c.call \in {"connecting", "installed"} /\ c.started /\ ~c.stopping
    /\ c.loop = "none" /\ c.connected = (c.call = "installed")
Serving(c) ==
    /\ c.call = "none" /\ c.started /\ ~c.stopping /\ c.loop = "running"

\* A client whose Close waits: once the readLoop leaves, nothing is connected.
Closing(c) ==
    /\ c.call = "closing" /\ c.started /\ c.stopping
    /\ c.loop \in {"running", "leaving", "ended"}
    /\ c.loop # "running" => ~c.connected

\* How the phases of owner and checker go with the manager's lock and channel,
\* and with the pools they are at.
PhaseInv ==
    /\ stopped <=> owner \in {"stop", "closing", "close wait", "stopped"}
    /\ muHeld <=> owner \in {"closing", "close wait"}
    /\ owner \in {"start", "connecting", "close wait"} => at \in Pools
    /\ checker \in {"ask dialing", "ask alive", "ask connected", "connecting",
                    "record"} => try \in Pools
    /\ checker = "off" <=> owner \in {"start", "connecting"}
    /\ checker \in {"ask connected", "switch"} =>
           owner \in {"closing", "close wait", "stopped"}
    /\ checker \in {"try", "connecting", "record"} => owner = "stopped"

StartInv ==
    owner \in {"start", "connecting"} =>
        /\ currentPool = NoPool /\ ~cancelled
        /\ \A p \in Pools : ~flag[p]
        /\ \A p \in Pools : p < at => Spare(client[p]) /\ client[p].started
        /\ \A p \in Pools : p > at => Spare(client[p]) /\ ~client[p].started
        /\ owner = "start" => Spare(client[at]) /\ ~client[at].started
        /\ owner = "connecting" => Dialing(client[at])

RunningInv ==
    owner \in {"running", "stop"} =>
        /\ \A p \in Pools : flag[p] <=> p = currentPool
        /\ \A p \in Pools : currentPool = NoPool \/ p < currentPool =>
               Spare(client[p]) /\ client[p].started
        /\ \A p \in Pools \ {currentPool} : Spare(client[p])
        /\ currentPool # NoPool => Serving(client[currentPool])
        /\ checker \in {"ask dialing", "ask alive"} =>
               currentPool # NoPool /\ try = currentPool

ClosingInv ==
    owner \in {"closing", "close wait"} =>
        /\ \A p \in Pools : flag[p] <=> p = currentPool /\ p >= at
        /\ \A p \in Pools \ {currentPool} : Spare(client[p])
        /\ currentPool # NoPool =>
               /\ currentPool < at => Spare(client[currentPool])
               /\ owner = "closing" /\ currentPool >= at =>
                      Serving(client[currentPool])
        /\ owner = "close wait" => at = currentPool /\ Closing(client[at])

\* Only the checker is left.  A pool it switched to is alive for good.
StoppedInv ==
    owner = "stopped" =>
        /\ \A p \in Pools : /\ ~client[p].stopping
                            /\ client[p].loop \in {"none", "running"}
                            /\ client[p].connected \/ client[p].loop = "running"
                                   => client[p].started
        /\ \A p \in Pools : client[p].call # "none" => checker = "connecting" /\ p = try
        /\ checker = "connecting" => Dialing(client[try])
        /\ checker = "record" => client[try].started
        /\ currentPool # NoPool =>
               /\ client[currentPool].started
               /\ checker \in {"tick", "ask dialing", "ask alive", "done"}
               /\ checker \in {"ask dialing", "ask alive"} => try = currentPool
        /\ currentPool = NoPool => \A p \in Pools : ~flag[p]
        /\ cancelled => \A p \in Pools :
               /\ ~client[p].connected /\ client[p].loop = "none"
               /\ client[p].call # "installed"

IInv == TypeOK /\ PhaseInv /\ StartInv /\ RunningInv /\ ClosingInv /\ StoppedInv

(***************************************************************************)
(* Clients.                                                                *)
(***************************************************************************)

\* An operation of one client leaves the others as they are.
LEMMA ClientAt ==
    ASSUME TypeOK, NEW p \in Pools, NEW c, Client(p, c)
    PROVE  client'[p] = c /\ \A q \in Pools \ {p} : client'[q] = client[q]
  BY DEF TypeOK, Client

LEMMA ClientType ==
    ASSUME TypeOK, NEW p \in Pools, NEW c \in ClientState, Client(p, c)
    PROVE  client' \in [Pools -> ClientState]
  BY DEF TypeOK, Client

LEMMA StateType ==
    ASSUME NEW c \in ClientState,
           NEW k \in {"none", "connecting", "installed", "closing"},
           NEW l \in {"none", "running", "leaving", "ended"},
           NEW s \in BOOLEAN, NEW d \in BOOLEAN, NEW b \in BOOLEAN
    PROVE  /\ [c EXCEPT !.call = k] \in ClientState
           /\ [c EXCEPT !.call = k, !.started = s] \in ClientState
           /\ [c EXCEPT !.call = k, !.connected = b] \in ClientState
           /\ [c EXCEPT !.call = k, !.loop = l] \in ClientState
           /\ [c EXCEPT !.call = k, !.stopping = d, !.connected = b]
                  \in ClientState
           /\ [c EXCEPT !.connected = b] \in ClientState
           /\ [c EXCEPT !.connected = b, !.loop = l] \in ClientState
           /\ [c EXCEPT !.loop = l] \in ClientState
           /\ [NewClient EXCEPT !.connected = c.connected] \in ClientState
<1> USE DEF ClientState
<1>1. [c EXCEPT !.call = k] \in ClientState
  OBVIOUS
<1>2. [c EXCEPT !.call = k, !.started = s] \in ClientState
  OBVIOUS
<1>3. [c EXCEPT !.call = k, !.connected = b] \in ClientState
  OBVIOUS
<1>4. [c EXCEPT !.call = k, !.loop = l] \in ClientState
  OBVIOUS
<1>5. [c EXCEPT !.call = k, !.stopping = d, !.connected = b] \in ClientState
  OBVIOUS
<1>6. [c EXCEPT !.connected = b] \in ClientState
  OBVIOUS
<1>7. [c EXCEPT !.connected = b, !.loop = l] \in ClientState
  OBVIOUS
<1>8. [c EXCEPT !.loop = l] \in ClientState
  OBVIOUS
<1>9. [NewClient EXCEPT !.connected = c.connected] \in ClientState
  BY DEF NewClient
<1> QED
  BY <1>1, <1>2, <1>3, <1>4, <1>5, <1>6, <1>7, <1>8, <1>9

\* The types of what the operations of a client make of it.
LEMMA OperationType ==
    ASSUME TypeOK, NEW p \in Pools,
           \/ ConnectBegin(p) \/ ConnectInstalls(p) \/ ConnectOk(p)
           \/ ConnectFails(p) \/ CloseBegin(p) \/ CloseReturns(p)
           \/ Lose(p) \/ Regain(p) \/ LoopLeaves(p) \/ LoopEnds(p)
    PROVE  client' \in [Pools -> ClientState]
<1>1. client[p] \in ClientState
  BY DEF TypeOK
<1>2. CASE ConnectBegin(p)
  BY <1>1, <1>2, ClientType, StateType DEF ConnectBegin
<1>3. CASE ConnectInstalls(p)
  BY <1>1, <1>3, ClientType, StateType DEF ConnectInstalls
<1>4. CASE ConnectOk(p)
  BY <1>1, <1>4, ClientType, StateType DEF ConnectOk
<1>5. CASE ConnectFails(p)
  BY <1>1, <1>5, ClientType, StateType DEF ConnectFails
<1>6. CASE CloseBegin(p)
  BY <1>1, <1>6, ClientType, StateType DEF CloseBegin
<1>7. CASE CloseReturns(p)
  BY <1>1, <1>7, ClientType, StateType DEF CloseReturns
<1>8. CASE Lose(p) \/ Regain(p)
  BY <1>1, <1>8, ClientType, StateType DEF Lose, Regain
<1>9. CASE LoopLeaves(p) \/ LoopEnds(p)
  BY <1>1, <1>9, ClientType, StateType DEF LoopLeaves, LoopEnds
<1> QED
  BY <1>2, <1>3, <1>4, <1>5, <1>6, <1>7, <1>8, <1>9

LEMMA TypeInit == Init => TypeOK
<1> SUFFICES ASSUME Init PROVE TypeOK
  OBVIOUS
<1>1. NewClient \in ClientState
  BY DEF NewClient, ClientState
<1>2. 1 \in 1 .. NPools + 1
  BY PoolsAssumption
<1> QED
  BY <1>1, <1>2 DEF Init, TypeOK

LEMMA TypeNext == TypeOK /\ PhaseInv /\ [Next]_vars => TypeOK'
<1> SUFFICES ASSUME TypeOK, PhaseInv, [Next]_vars PROVE TypeOK'
  OBVIOUS
<1> USE PoolsAssumption
<1>p. ASSUME NEW i \in 1 .. NPools + 1, i <= NPools
      PROVE  i \in Pools
  BY <1>p DEF Pools
<1>n. ASSUME NEW i \in Pools PROVE i + 1 \in 1 .. NPools + 1
  BY DEF Pools
<1>q. /\ Pools \subseteq 1 .. NPools + 1
      /\ 1 \in 1 .. NPools + 1
  BY DEF Pools
<1>1. CASE Start
  <2>1. at \in Pools
    BY <1>1 DEF Start, StartConnect, StartInstalls, StartConnected, StartFails,
       PhaseInv
  <2>2. client' \in [Pools -> ClientState]
    BY <1>1, <2>1, OperationType DEF Start, StartConnect, StartInstalls,
       StartConnected, StartFails
  <2>3. at' \in 1 .. NPools + 1
    BY <1>1, <2>1, <1>n DEF TypeOK, Start, StartConnect, StartInstalls,
       StartConnected, StartFails
  <2> QED
    BY <1>1, <2>1, <2>2, <2>3 DEF TypeOK, Start, StartConnect, StartInstalls,
       StartConnected, StartFails
<1>2. CASE Cancel \/ StopBegin \/ CheckerExits
  BY <1>2 DEF TypeOK, Cancel, StopBegin, CheckerExits
<1>3. CASE StopLock \/ StopSkip \/ StopEnd
  <2>1. at' \in 1 .. NPools + 1
    BY <1>3, <1>p, <1>n, <1>q DEF TypeOK, StopLock, StopSkip, StopEnd
  <2> QED
    BY <1>3, <2>1 DEF TypeOK, StopLock, StopSkip, StopEnd
<1>4. CASE StopClose \/ StopClosed
  <2>1. at \in Pools
    BY <1>4, <1>p DEF TypeOK, PhaseInv, StopClose, StopClosed
  <2>2. client' \in [Pools -> ClientState]
    BY <1>4, <2>1, OperationType DEF StopClose, StopClosed
  <2>3. at' \in 1 .. NPools + 1
    BY <1>4, <2>1, <1>n DEF TypeOK, StopClose, StopClosed
  <2> QED
    BY <1>4, <2>1, <2>2, <2>3 DEF TypeOK, StopClose, StopClosed
<1>5. CASE CheckPoolHealth
  <2>1. try' \in 1 .. NPools + 1
    BY <1>5, <1>q DEF TypeOK, CheckPoolHealth, CheckerTick, AskDialing, AskAlive,
       AskConnected, Ask
  <2>2. checker' \in {"tick", "ask dialing", "ask alive", "ask connected",
                      "switch"}
    BY <1>5 DEF CheckPoolHealth, CheckerTick, AskDialing, AskAlive,
       AskConnected, Ask
  <2> QED
    BY <1>5, <2>1, <2>2 DEF TypeOK, CheckPoolHealth, CheckerTick, AskDialing,
       AskAlive, AskConnected, Ask
<1>6. CASE SwitchBegin \/ SwitchConnectNoOp \/ SwitchExhausted
  BY <1>6, <1>q DEF TypeOK, SwitchBegin, SwitchConnectNoOp, SwitchExhausted
<1>7. CASE SwitchConnect \/ SwitchInstalls \/ SwitchConnected \/ SwitchFails
           \/ SwitchRecord
  <2>1. try \in Pools
    BY <1>7, <1>p DEF TypeOK, PhaseInv, SwitchConnect, SwitchInstalls,
       SwitchConnected, SwitchFails, SwitchRecord
  <2>2. client' \in [Pools -> ClientState]
    BY <1>7, <2>1, OperationType DEF TypeOK, SwitchConnect, SwitchInstalls,
       SwitchConnected, SwitchFails, SwitchRecord
  <2>3. try' \in 1 .. NPools + 1
    BY <1>7, <2>1, <1>n DEF TypeOK, SwitchConnect, SwitchInstalls,
       SwitchConnected, SwitchFails, SwitchRecord
  <2> QED
    BY <1>7, <2>1, <2>2, <2>3 DEF TypeOK, SwitchConnect, SwitchInstalls,
       SwitchConnected, SwitchFails, SwitchRecord
<1>8. CASE \E p \in Pools : ReadLoop(p)
  BY <1>8, OperationType DEF TypeOK, ReadLoop
<1>9. CASE UNCHANGED vars
  BY <1>9 DEF TypeOK, vars
<1> QED
  BY <1>1, <1>2, <1>3, <1>4, <1>5, <1>6, <1>7, <1>8, <1>9
     DEF Next, Stop, SwitchToNextPool

(***************************************************************************)
(* What each operation does to its client, field by field.                 *)
(***************************************************************************)
LEMMA BeginsAt ==
    ASSUME TypeOK, NEW p \in Pools, ConnectBegin(p), Spare(client[p])
    PROVE  Dialing(client'[p]) /\ client'[p].call = "connecting"
<1>1. client'[p] = [client[p] EXCEPT !.call = "connecting", !.started = TRUE]
  BY ClientAt DEF ConnectBegin
<1> QED
  BY <1>1 DEF TypeOK, ClientState, Spare, Dialing

LEMMA InstallsAt ==
    ASSUME TypeOK, NEW p \in Pools, ConnectInstalls(p), Dialing(client[p])
    PROVE  Dialing(client'[p]) /\ client'[p].call = "installed"
<1>1. client'[p] = [client[p] EXCEPT !.call = "installed", !.connected = TRUE]
  BY ClientAt DEF ConnectInstalls
<1> QED
  BY <1>1 DEF TypeOK, ClientState, Dialing

LEMMA ConnectsAt ==
    ASSUME TypeOK, NEW p \in Pools, ConnectOk(p), Dialing(client[p])
    PROVE  Serving(client'[p])
<1>1. client'[p] = [client[p] EXCEPT !.call = "none", !.loop = "running"]
  BY ClientAt DEF ConnectOk
<1> QED
  BY <1>1 DEF TypeOK, ClientState, Dialing, Serving

\* Connect that fails: the client is as it was, but for readLoopStarted.
LEMMA FailsAt ==
    ASSUME TypeOK, NEW p \in Pools, ConnectFails(p), Dialing(client[p])
    PROVE  Spare(client'[p]) /\ client'[p].started
<1>1. client'[p] = [client[p] EXCEPT !.call = "none"]
  BY ClientAt DEF ConnectFails
<1> QED
  BY <1>1 DEF TypeOK, ClientState, Dialing, ConnectFails, Spare

LEMMA ClosesAt ==
    ASSUME TypeOK, NEW p \in Pools, CloseBegin(p), Serving(client[p])
    PROVE  Closing(client'[p])
<1>1. client'[p] = [client[p] EXCEPT !.call = "closing", !.stopping = TRUE,
                                    !.connected = FALSE]
  BY ClientAt DEF CloseBegin
<1> QED
  BY <1>1 DEF TypeOK, ClientState, Serving, Closing

LEMMA ReturnsAt ==
    ASSUME TypeOK, NEW p \in Pools, CloseReturns(p), Closing(client[p])
    PROVE  Spare(client'[p])
<1>1. client'[p] = [NewClient EXCEPT !.connected = client[p].connected]
  BY ClientAt DEF CloseReturns
<1>2. client[p].loop = "ended"
  BY DEF CloseReturns, Closing
<1>3. client[p].connected = FALSE
  BY <1>2 DEF TypeOK, ClientState, Closing
<1> QED
  BY <1>1, <1>3 DEF NewClient, Spare

\* The readLoop works for a client that has one, and keeps it what it is.
LEMMA ReadsAt ==
    ASSUME TypeOK, NEW p \in Pools, ReadLoop(p)
    PROVE  /\ \A q \in Pools \ {p} : client'[q] = client[q]
           /\ client[p].loop \in {"running", "leaving"}
           /\ client'[p].call = client[p].call
           /\ Serving(client[p]) => Serving(client'[p])
           /\ Closing(client[p]) => Closing(client'[p])
           /\ ~client[p].stopping /\ client[p].loop = "running" =>
                  /\ client'[p].loop = "running" /\ ~client'[p].stopping
                  /\ client'[p].started = client[p].started
<1>1. \A q \in Pools \ {p} : client'[q] = client[q]
  BY ClientAt DEF ReadLoop, Lose, Regain, LoopLeaves, LoopEnds
<1>2. client[p] \in ClientState
  BY DEF TypeOK
<1>3. CASE Lose(p)
  <2>1. client'[p] = [client[p] EXCEPT !.connected = FALSE]
    BY <1>3, ClientAt DEF Lose
  <2> QED
    BY <1>1, <1>2, <1>3, <2>1 DEF Lose, ClientState, Serving, Closing
<1>4. CASE Regain(p)
  <2>1. client'[p] = [client[p] EXCEPT !.connected = TRUE]
    BY <1>4, ClientAt DEF Regain
  <2> QED
    BY <1>1, <1>2, <1>4, <2>1 DEF Regain, ClientState, Serving, Closing
<1>5. CASE LoopLeaves(p)
  <2>1. client'[p] = [client[p] EXCEPT !.connected = FALSE, !.loop = "leaving"]
    BY <1>5, ClientAt DEF LoopLeaves
  <2> QED
    BY <1>1, <1>2, <1>5, <2>1 DEF LoopLeaves, ClientState, Serving, Closing
<1>6. CASE LoopEnds(p)
  <2>1. client'[p] = [client[p] EXCEPT !.loop = "ended"]
    BY <1>6, ClientAt DEF LoopEnds
  <2> QED
    BY <1>1, <1>2, <1>6, <2>1 DEF LoopEnds, ClientState, Serving, Closing
<1> QED
  BY <1>3, <1>4, <1>5, <1>6 DEF ReadLoop

(***************************************************************************)
(* The invariant, action by action.                                        *)
(***************************************************************************)
LEMMA InvInit == Init => IInv
<1> SUFFICES ASSUME Init PROVE IInv
  OBVIOUS
<1>1. TypeOK
  BY TypeInit
<1>2. PhaseInv
  BY PoolsAssumption DEF Init, PhaseInv, Pools
<1>3. StartInv
  <2>1. \A p \in Pools : Spare(client[p]) /\ ~client[p].started
                            /\ ~flag[p] /\ ~(p < at)
    BY DEF Init, NewClient, Spare, Pools
  <2>2. 1 \in Pools
    BY PoolsAssumption DEF Pools
  <2> QED
    BY <2>1, <2>2 DEF Init, StartInv
<1>4. RunningInv /\ ClosingInv /\ StoppedInv
  BY DEF Init, RunningInv, ClosingInv, StoppedInv
<1> QED
  BY <1>1, <1>2, <1>3, <1>4 DEF IInv

\* Start.
LEMMA StartKeeps == IInv /\ Start => (PhaseInv /\ StartInv /\ RunningInv
                                      /\ ClosingInv /\ StoppedInv)'
<1> SUFFICES ASSUME IInv, Start
             PROVE  (PhaseInv /\ StartInv /\ RunningInv /\ ClosingInv
                     /\ StoppedInv)'
  OBVIOUS
<1> USE DEF IInv
<1>0. owner \in {"start", "connecting"}
  BY DEF Start, StartConnect, StartInstalls, StartConnected, StartFails
<1>1. at \in Pools /\ at \in Nat /\ checker = "off" /\ currentPool = NoPool
  <2>1. at \in Pools /\ checker = "off" /\ currentPool = NoPool
    BY <1>0 DEF PhaseInv, StartInv
  <2> QED
    BY <2>1, PoolsAssumption DEF Pools
<1>2. ClosingInv' /\ StoppedInv'
  BY DEF Start, StartConnect, StartInstalls, StartConnected, StartFails,
     ClosingInv, StoppedInv
<1>3. CASE StartConnect
  <2>1. Dialing(client'[at])
    BY <1>1, <1>3, BeginsAt DEF StartConnect, StartInv
  <2>2. \A p \in Pools \ {at} : client'[p] = client[p]
    BY <1>1, <1>3, ClientAt DEF StartConnect, ConnectBegin
  <2>3. PhaseInv'
    BY <1>1, <1>3 DEF StartConnect, PhaseInv
  <2>4. StartInv'
    BY <1>1, <1>3, <2>1, <2>2 DEF StartConnect, StartInv, Pools
  <2>5. RunningInv'
    BY <1>3 DEF StartConnect, RunningInv
  <2> QED
    BY <1>2, <2>3, <2>4, <2>5
<1>4. CASE StartInstalls
  <2>1. Dialing(client'[at])
    BY <1>1, <1>4, InstallsAt DEF StartInstalls, StartInv
  <2>2. \A p \in Pools \ {at} : client'[p] = client[p]
    BY <1>1, <1>4, ClientAt DEF StartInstalls, ConnectInstalls
  <2>3. PhaseInv'
    BY <1>1, <1>4 DEF StartInstalls, PhaseInv
  <2>4. StartInv'
    BY <1>1, <1>4, <2>1, <2>2 DEF StartInstalls, StartInv, Pools
  <2>5. RunningInv'
    BY <1>4 DEF StartInstalls, RunningInv
  <2> QED
    BY <1>2, <2>3, <2>4, <2>5
<1>5. CASE StartConnected
  <2>1. Serving(client'[at])
    BY <1>1, <1>5, ConnectsAt DEF StartConnected, StartInv
  <2>2. \A p \in Pools \ {at} : client'[p] = client[p]
    BY <1>1, <1>5, ClientAt DEF StartConnected, ConnectOk
  <2>3. PhaseInv'
    BY <1>1, <1>5 DEF StartConnected, PhaseInv
  <2>4. StartInv'
    BY <1>5 DEF StartConnected, StartInv
  <2>5. at # NoPool /\ \A p \in Pools : p # at => p < at \/ p > at
    BY <1>1 DEF NoPool, Pools
  <2>6. \A p \in Pools : flag'[p] <=> p = at
    BY <1>1, <1>5 DEF StartConnected, StartInv, TypeOK
  <2>7. RunningInv'
    BY <1>1, <1>5, <2>1, <2>2, <2>5, <2>6 DEF StartConnected, StartInv,
       RunningInv, Pools
  <2> QED
    BY <1>2, <2>3, <2>4, <2>7
<1>6. CASE StartFails
  <2>1. Spare(client'[at]) /\ client'[at].started
    BY <1>1, <1>6, FailsAt DEF StartFails, StartInv
  <2>2. \A p \in Pools \ {at} : client'[p] = client[p]
    BY <1>1, <1>6, ClientAt DEF StartFails, ConnectFails
  <2>3. CASE at < NPools
    <3>1. at' = at + 1 /\ owner' = "start" /\ checker' = checker /\ try' = try
      BY <1>6, <2>3 DEF StartFails
    <3>2. at + 1 \in Pools /\ \A p \in Pools : p < at + 1 => p < at \/ p = at
      BY <1>1, <2>3, PoolsAssumption DEF Pools
    <3>3. PhaseInv'
      BY <1>1, <1>6, <3>1, <3>2 DEF StartFails, PhaseInv
    <3>4. \A p \in Pools : p > at + 1 => p > at /\ p # at
      BY <1>1 DEF Pools
    <3>5. at + 1 > at /\ at + 1 # at
      BY <1>1
    <3>6. StartInv'
      BY <1>1, <1>6, <2>1, <2>2, <3>1, <3>2, <3>4, <3>5 DEF StartFails, StartInv
    <3>7. RunningInv'
      BY <3>1 DEF RunningInv
    <3> QED
      BY <1>2, <3>3, <3>6, <3>7
  <2>4. CASE ~(at < NPools)
    <3>1. owner' = "running" /\ checker' = "tick"
      BY <1>6, <2>4 DEF StartFails
    <3>2. \A p \in Pools : p < at \/ p = at
      BY <1>1, <2>4, PoolsAssumption DEF Pools
    <3>3. PhaseInv' /\ StartInv'
      BY <1>1, <1>6, <3>1 DEF StartFails, PhaseInv, StartInv
    <3>4. \A p \in Pools : Spare(client'[p]) /\ client'[p].started /\ ~flag[p] /\ p # NoPool
      BY <1>1, <1>6, <2>1, <2>2, <3>2 DEF StartFails, StartInv, Pools, NoPool
    <3>5. RunningInv'
      BY <1>1, <1>6, <3>1, <3>4 DEF StartFails, RunningInv
    <3> QED
      BY <1>2, <3>3, <3>5
  <2> QED
    BY <2>3, <2>4
<1> QED
  BY <1>3, <1>4, <1>5, <1>6 DEF Start

\* Cancel, and the way of Stop to its lock.
LEMMA StopStartsKeeps ==
    IInv /\ (Cancel \/ StopBegin \/ StopLock) =>
        (PhaseInv /\ StartInv /\ RunningInv /\ ClosingInv /\ StoppedInv)'
<1> SUFFICES ASSUME IInv, Cancel \/ StopBegin \/ StopLock
             PROVE  (PhaseInv /\ StartInv /\ RunningInv /\ ClosingInv
                     /\ StoppedInv)'
  OBVIOUS
<1> USE DEF IInv
<1>1. PhaseInv'
  <2>1. CASE Cancel
    BY <2>1 DEF PhaseInv, Cancel
  <2>2. CASE StopBegin
    BY <2>2 DEF PhaseInv, StopBegin
  <2>3. CASE StopLock
    BY <2>3 DEF PhaseInv, StopLock
  <2> QED
    BY <2>1, <2>2, <2>3
<1>2. StartInv' /\ StoppedInv'
  BY DEF StartInv, StoppedInv, Cancel, StopBegin, StopLock
<1>3. CASE Cancel \/ StopBegin
  <2>1. RunningInv'
    BY <1>3 DEF RunningInv, Cancel, StopBegin
  <2>2. ClosingInv'
    BY <1>3 DEF ClosingInv, Cancel, StopBegin
  <2> QED
    BY <1>1, <1>2, <2>1, <2>2
<1>4. CASE StopLock
  <2>1. RunningInv' /\ at' = 1 /\ owner' = "closing"
    BY <1>4 DEF RunningInv, StopLock
  <2>2. \A p \in Pools : p >= 1
    BY DEF Pools
  <2>3. currentPool # NoPool => currentPool \in Pools /\ ~(currentPool < 1)
    <3>1. currentPool # NoPool => currentPool \in Pools
      BY DEF TypeOK
    <3> QED
      BY <3>1, PoolsAssumption DEF Pools
  <2>4. ClosingInv'
    BY <1>4, <2>1, <2>2, <2>3 DEF RunningInv, ClosingInv, StopLock
  <2> QED
    BY <1>1, <1>2, <2>1, <2>4
<1> QED
  BY <1>3, <1>4

\* Stop, pool by pool.
LEMMA StopKeeps ==
    IInv /\ (StopClose \/ StopSkip \/ StopClosed \/ StopEnd) =>
        (PhaseInv /\ StartInv /\ RunningInv /\ ClosingInv /\ StoppedInv)'
<1> SUFFICES ASSUME IInv, StopClose \/ StopSkip \/ StopClosed \/ StopEnd
             PROVE  (PhaseInv /\ StartInv /\ RunningInv /\ ClosingInv
                     /\ StoppedInv)'
  OBVIOUS
<1> USE DEF IInv
<1>1. StartInv' /\ RunningInv'
  BY DEF StartInv, RunningInv, StopClose, StopSkip, StopClosed, StopEnd
<1>2. /\ at \in Nat /\ NoPool \notin Pools
      /\ \A p \in Pools : p \in Nat
      /\ at <= NPools => at \in Pools
      /\ at > NPools => \A p \in Pools : p < at
  <2>1. at \in 1 .. NPools + 1
    BY DEF TypeOK
  <2> QED
    BY <2>1, PoolsAssumption DEF Pools, NoPool
<1>3. currentPool # NoPool => currentPool \in Pools
  BY DEF TypeOK
<1>4. CASE StopClose
  <2>1. at \in Pools
    BY <1>2, <1>4 DEF StopClose
  <2>2. at = currentPool /\ at # NoPool
    BY <1>2, <1>4, <2>1 DEF ClosingInv, StopClose
  <2>3. Serving(client[at])
    BY <1>2, <1>4, <2>1, <2>2 DEF ClosingInv, StopClose
  <2>4. /\ Closing(client'[at])
        /\ \A p \in Pools \ {at} : client'[p] = client[p]
    BY <1>4, <2>1, <2>3, ClosesAt, ClientAt DEF StopClose, CloseBegin
  <2>5. PhaseInv'
    BY <1>4, <2>1 DEF PhaseInv, StopClose
  <2>6. ClosingInv'
    <3>1. /\ owner' = "close wait" /\ at' = at /\ flag' = flag
          /\ currentPool' = currentPool
      BY <1>4 DEF StopClose
    <3>2. /\ \A p \in Pools : flag[p] <=> p = currentPool /\ p >= at
          /\ \A p \in Pools \ {currentPool} : Spare(client[p])
      BY <1>4 DEF ClosingInv, StopClose
    <3>3. ~(at < at)
      BY <1>2
    <3> QED
      BY <2>2, <2>4, <3>1, <3>2, <3>3 DEF ClosingInv
  <2>7. StoppedInv'
    BY <1>4 DEF StoppedInv, StopClose
  <2> QED
    BY <1>1, <2>5, <2>6, <2>7
<1>5. CASE StopSkip
  <2>1. at \in Pools
    BY <1>2, <1>5 DEF StopSkip
  <2>2. at # currentPool
    BY <1>2, <1>5, <2>1 DEF ClosingInv, StopSkip
  <2>3. \A p \in Pools : p # at => (p >= at + 1 <=> p >= at)
                                   /\ (p < at + 1 <=> p < at)
    BY <1>2
  <2>4. PhaseInv' /\ StoppedInv'
    BY <1>5 DEF PhaseInv, StoppedInv, StopSkip
  <2>5. ClosingInv'
    BY <1>2, <1>3, <1>5, <2>1, <2>2, <2>3 DEF ClosingInv, StopSkip
  <2> QED
    BY <1>1, <2>4, <2>5
<1>6. CASE StopClosed
  <2>1. at \in Pools /\ at = currentPool /\ at # NoPool
    BY <1>2, <1>6 DEF PhaseInv, ClosingInv, StopClosed
  <2>2. /\ Spare(client'[at])
        /\ \A p \in Pools \ {at} : client'[p] = client[p]
    BY <1>6, <2>1, ReturnsAt, ClientAt DEF ClosingInv, StopClosed, CloseReturns
  <2>3. at' = at + 1 /\ at < at + 1 /\ ~(at >= at + 1)
    <3>1. at' = at + 1
      BY <1>6 DEF StopClosed
    <3> QED
      BY <1>2, <3>1
  <2>4. \A p \in Pools : ~flag'[p]
    BY <1>6, <2>1 DEF TypeOK, ClosingInv, StopClosed
  <2>5. PhaseInv' /\ StoppedInv'
    BY <1>6 DEF PhaseInv, StoppedInv, StopClosed
  <2>6. ClosingInv'
    BY <1>6, <2>1, <2>2, <2>3, <2>4 DEF ClosingInv, StopClosed
  <2> QED
    BY <1>1, <2>5, <2>6
<1>7. CASE StopEnd
  <2>1. \A p \in Pools : Spare(client[p]) /\ ~flag[p]
    <3>1. /\ \A p \in Pools : p < at /\ ~(p >= at)
          /\ owner = "closing"
      BY <1>2, <1>7 DEF StopEnd
    <3>2. /\ \A p \in Pools : flag[p] <=> p = currentPool /\ p >= at
          /\ \A p \in Pools \ {currentPool} : Spare(client[p])
          /\ currentPool # NoPool /\ currentPool < at => Spare(client[currentPool])
      BY <3>1 DEF ClosingInv
    <3>3. ASSUME NEW p \in Pools PROVE Spare(client[p]) /\ ~flag[p]
      <4>1. CASE p = currentPool
        BY <1>2, <3>1, <3>2, <4>1
      <4>2. CASE p # currentPool
        BY <3>2, <4>2
      <4> QED
        BY <4>1, <4>2
    <3> QED
      BY <3>3
  <2>2. PhaseInv' /\ ClosingInv'
    BY <1>7 DEF PhaseInv, ClosingInv, StopEnd
  <2>3. checker \notin {"connecting", "record"}
    BY <1>7 DEF PhaseInv, StopEnd
  <2>4. StoppedInv'
    BY <1>7, <2>1, <2>3 DEF StoppedInv, StopEnd, Spare
  <2> QED
    BY <1>1, <2>2, <2>4
<1> QED
  BY <1>4, <1>5, <1>6, <1>7

\* The health check, which finds the client of the current pool alive until
\* Stop closes it.
LEMMA CheckKeeps ==
    IInv /\ (CheckerExits \/ CheckPoolHealth \/ SwitchBegin) =>
        (PhaseInv /\ StartInv /\ RunningInv /\ ClosingInv /\ StoppedInv)'
<1> SUFFICES ASSUME IInv, CheckerExits \/ CheckPoolHealth \/ SwitchBegin
             PROVE  (PhaseInv /\ StartInv /\ RunningInv /\ ClosingInv
                     /\ StoppedInv)'
  OBVIOUS
<1> USE DEF IInv
<1>1. UNCHANGED <<client, flag, currentPool, muHeld, stopped, cancelled, owner,
                  at>>
  BY DEF CheckerExits, CheckPoolHealth, CheckerTick, AskDialing, AskAlive,
     AskConnected, Ask, SwitchBegin
<1>2. StartInv' /\ ClosingInv'
  BY <1>1 DEF StartInv, ClosingInv
<1>3. currentPool # NoPool => currentPool \in Pools
  BY DEF TypeOK
<1>4. CASE CheckerExits
  <2>0. checker = "tick" /\ checker' = "done" /\ try' = try
    BY <1>4 DEF CheckerExits
  <2>1. PhaseInv'
    BY <1>1, <2>0 DEF PhaseInv
  <2>2. RunningInv'
    BY <1>1, <2>0 DEF RunningInv
  <2>3. StoppedInv'
    BY <1>1, <2>0 DEF StoppedInv
  <2> QED
    BY <1>2, <2>1, <2>2, <2>3
<1>5. CASE CheckerTick
  <2>0. /\ checker = "tick" /\ checker' = "ask dialing"
        /\ currentPool \in Pools /\ currentPool # NoPool /\ try' = currentPool
    BY <1>3, <1>5 DEF CheckerTick
  <2>1. PhaseInv'
    BY <1>1, <2>0 DEF PhaseInv
  <2>2. RunningInv'
    BY <1>1, <2>0 DEF RunningInv
  <2>3. StoppedInv'
    BY <1>1, <2>0 DEF StoppedInv
  <2> QED
    BY <1>2, <2>1, <2>2, <2>3
<1>6. CASE AskDialing
  <2>1. /\ checker = "ask dialing" /\ checker' \in {"tick", "ask alive"}
        /\ try' = try
    BY <1>6 DEF AskDialing, Ask
  <2>2. PhaseInv'
    BY <1>1, <2>1 DEF PhaseInv
  <2>3. RunningInv'
    BY <1>1, <2>1 DEF RunningInv
  <2>4. StoppedInv'
    BY <1>1, <2>1 DEF StoppedInv
  <2> QED
    BY <1>2, <2>2, <2>3, <2>4
<1>7. CASE AskAlive
  <2>1. /\ checker = "ask alive" /\ try' = try
        /\ checker' = IF IsAlive(try) THEN "tick" ELSE "ask connected"
    BY <1>7 DEF AskAlive, Ask
  <2>2. try \in Pools /\ checker # "off"
    BY <2>1 DEF PhaseInv
  <2>3. owner \in {"running", "stop"} => IsAlive(try)
    BY <2>1 DEF RunningInv, Serving, IsAlive
  <2>4. owner = "stopped" /\ currentPool # NoPool => IsAlive(try)
    BY <1>3, <2>1 DEF StoppedInv, IsAlive
  <2>5. PhaseInv'
    BY <1>1, <2>1, <2>2, <2>3 DEF PhaseInv, TypeOK
  <2>6. RunningInv'
    BY <1>1, <2>1, <2>3 DEF RunningInv
  <2>7. StoppedInv'
    BY <1>1, <2>1, <2>4 DEF StoppedInv
  <2> QED
    BY <1>2, <2>5, <2>6, <2>7
<1>8. CASE AskConnected
  <2>1. /\ checker = "ask connected" /\ checker' \in {"tick", "switch"}
        /\ try' = try
    BY <1>8 DEF AskConnected, Ask
  <2>2. PhaseInv'
    BY <1>1, <2>1 DEF PhaseInv
  <2>3. RunningInv'
    BY <1>1, <2>1 DEF RunningInv, PhaseInv
  <2>4. StoppedInv'
    BY <1>1, <2>1 DEF StoppedInv
  <2> QED
    BY <1>2, <2>2, <2>3, <2>4
<1>9. CASE SwitchBegin
  <2>1. owner = "stopped" /\ checker = "switch" /\ checker' = "try"
    BY <1>9 DEF SwitchBegin, PhaseInv
  <2>2. PhaseInv'
    BY <1>1, <2>1 DEF PhaseInv
  <2>3. RunningInv'
    BY <1>1, <2>1 DEF RunningInv
  <2>4. StoppedInv'
    BY <1>1, <2>1 DEF StoppedInv
  <2> QED
    BY <1>2, <2>2, <2>3, <2>4
<1> QED
  BY <1>4, <1>5, <1>6, <1>7, <1>8, <1>9 DEF CheckPoolHealth

\* The switch, with the owner at its end.
LEMMA SwitchKeeps ==
    IInv /\ (\/ SwitchConnect \/ SwitchConnectNoOp \/ SwitchInstalls
             \/ SwitchConnected \/ SwitchFails \/ SwitchRecord
             \/ SwitchExhausted) =>
        (PhaseInv /\ StartInv /\ RunningInv /\ ClosingInv /\ StoppedInv)'
<1> SUFFICES ASSUME IInv, \/ SwitchConnect \/ SwitchConnectNoOp \/ SwitchInstalls
                          \/ SwitchConnected \/ SwitchFails \/ SwitchRecord
                          \/ SwitchExhausted
             PROVE  (PhaseInv /\ StartInv /\ RunningInv /\ ClosingInv
                     /\ StoppedInv)'
  OBVIOUS
<1> USE DEF IInv
<1>1. /\ checker \in {"try", "connecting", "record"}
      /\ UNCHANGED <<muHeld, stopped, cancelled, owner, at>>
  BY DEF SwitchConnect, SwitchConnectNoOp, SwitchInstalls, SwitchConnected,
     SwitchFails, SwitchRecord, SwitchExhausted
<1>2. owner = "stopped" /\ currentPool = NoPool /\ \A p \in Pools : ~flag[p]
  <2>1. owner = "stopped"
    BY <1>1 DEF PhaseInv
  <2> QED
    BY <1>1, <2>1 DEF StoppedInv
<1>3. StartInv' /\ RunningInv' /\ ClosingInv'
  BY <1>1, <1>2 DEF StartInv, RunningInv, ClosingInv
<1>4. try <= NPools \/ checker \in {"connecting", "record"} => try \in Pools
  <2>1. try \in 1 .. NPools + 1
    BY DEF TypeOK
  <2>2. checker \in {"connecting", "record"} => try \in Pools
    BY DEF PhaseInv
  <2> QED
    BY <2>1, <2>2, PoolsAssumption DEF Pools
<1>5. NoPool \notin Pools
  BY PoolsAssumption DEF Pools, NoPool
<1>6. CASE SwitchConnect
  <2>1. /\ try \in Pools /\ ~client[try].started /\ try' = try
        /\ checker = "try" /\ checker' = "connecting"
        /\ UNCHANGED <<flag, currentPool>>
    BY <1>4, <1>6 DEF SwitchConnect
  <2>2. Spare(client[try])
    BY <1>2, <2>1 DEF StoppedInv, TypeOK, ClientState, Spare
  <2>3. /\ Dialing(client'[try]) /\ client'[try].call = "connecting"
        /\ \A p \in Pools \ {try} : client'[p] = client[p]
    BY <1>6, <2>1, <2>2, BeginsAt, ClientAt DEF SwitchConnect, ConnectBegin
  <2>4. PhaseInv'
    BY <1>1, <1>2, <2>1 DEF PhaseInv
  <2>5. StoppedInv'
    BY <1>1, <1>2, <2>1, <2>3 DEF StoppedInv, Dialing
  <2> QED
    BY <1>3, <2>4, <2>5
<1>7. CASE SwitchConnectNoOp
  <2>1. /\ try \in Pools /\ client[try].started /\ try' = try
        /\ checker = "try" /\ checker' = "record"
        /\ UNCHANGED <<client, flag, currentPool>>
    BY <1>4, <1>7 DEF SwitchConnectNoOp
  <2>2. PhaseInv'
    BY <1>1, <1>2, <2>1 DEF PhaseInv
  <2>3. StoppedInv'
    BY <1>1, <1>2, <2>1 DEF StoppedInv
  <2> QED
    BY <1>3, <2>2, <2>3
<1>8. CASE SwitchInstalls
  <2>1. /\ try \in Pools /\ try' = try /\ ~cancelled
        /\ checker = "connecting" /\ checker' = "connecting"
        /\ UNCHANGED <<flag, currentPool>>
    BY <1>4, <1>8 DEF SwitchInstalls, ConnectInstalls
  <2>2. Dialing(client[try])
    BY <1>2, <2>1 DEF StoppedInv
  <2>3. /\ Dialing(client'[try])
        /\ \A p \in Pools \ {try} : client'[p] = client[p]
    BY <1>8, <2>1, <2>2, InstallsAt, ClientAt DEF SwitchInstalls, ConnectInstalls
  <2>4. PhaseInv'
    BY <1>1, <1>2, <2>1 DEF PhaseInv
  <2>5. StoppedInv'
    BY <1>1, <1>2, <2>1, <2>3 DEF StoppedInv, Dialing
  <2> QED
    BY <1>3, <2>4, <2>5
<1>9. CASE SwitchConnected
  <2>1. /\ try \in Pools /\ try' = try /\ client[try].call = "installed"
        /\ checker = "connecting" /\ checker' = "record"
        /\ UNCHANGED <<flag, currentPool>>
    BY <1>4, <1>9 DEF SwitchConnected, ConnectOk
  <2>2. Dialing(client[try]) /\ ~cancelled
    BY <1>2, <2>1 DEF StoppedInv
  <2>3. /\ Serving(client'[try])
        /\ \A p \in Pools \ {try} : client'[p] = client[p]
    BY <1>9, <2>1, <2>2, ConnectsAt, ClientAt DEF SwitchConnected, ConnectOk
  <2>4. PhaseInv'
    BY <1>1, <1>2, <2>1 DEF PhaseInv
  <2>5. StoppedInv'
    BY <1>1, <1>2, <2>1, <2>2, <2>3 DEF StoppedInv, Serving
  <2> QED
    BY <1>3, <2>4, <2>5
<1>10. CASE SwitchFails
  <2>1. /\ try \in Pools
        /\ checker = "connecting" /\ checker' = "try"
        /\ UNCHANGED <<flag, currentPool>>
    BY <1>4, <1>10 DEF SwitchFails
  <2>2. Dialing(client[try])
    BY <1>2, <2>1 DEF StoppedInv
  <2>3. /\ Spare(client'[try]) /\ client'[try].started
        /\ \A p \in Pools \ {try} : client'[p] = client[p]
    BY <1>10, <2>1, <2>2, FailsAt, ClientAt DEF SwitchFails, ConnectFails
  <2>4. PhaseInv'
    BY <1>1, <1>2, <2>1 DEF PhaseInv
  <2>5. StoppedInv'
    BY <1>1, <1>2, <2>1, <2>3 DEF StoppedInv, Spare
  <2> QED
    BY <1>3, <2>4, <2>5
<1>11. CASE SwitchRecord
  <2>1. /\ try \in Pools /\ currentPool' = try /\ client' = client
        /\ checker = "record" /\ checker' = "tick"
    BY <1>4, <1>11 DEF SwitchRecord
  <2>2. client[try].started
    BY <1>2, <2>1 DEF StoppedInv
  <2>3. PhaseInv'
    BY <1>1, <1>2, <2>1 DEF PhaseInv
  <2>4. StoppedInv'
    BY <1>1, <1>2, <1>5, <2>1, <2>2 DEF StoppedInv
  <2> QED
    BY <1>3, <2>3, <2>4
<1>12. CASE SwitchExhausted
  <2>1. /\ currentPool' = NoPool /\ UNCHANGED <<client, flag>>
        /\ checker = "try" /\ checker' = "tick"
    BY <1>12 DEF SwitchExhausted
  <2>2. PhaseInv'
    BY <1>1, <1>2, <2>1 DEF PhaseInv
  <2>3. StoppedInv'
    BY <1>1, <1>2, <2>1 DEF StoppedInv
  <2> QED
    BY <1>3, <2>2, <2>3
<1> QED
  BY <1>6, <1>7, <1>8, <1>9, <1>10, <1>11, <1>12

\* The readLoops, which only the current pool and those the checker connected
\* have.
LEMMA ReadsKeeps ==
    ASSUME IInv, NEW r \in Pools, ReadLoop(r)
    PROVE  (PhaseInv /\ StartInv /\ RunningInv /\ ClosingInv /\ StoppedInv)'
<1> USE DEF IInv
<1>1. UNCHANGED <<flag, currentPool, muHeld, stopped, cancelled, owner, at,
                  checker, try>>
  BY DEF ReadLoop
<1>2. /\ \A p \in Pools \ {r} : client'[p] = client[p]
      /\ client[r].loop \in {"running", "leaving"}
      /\ client'[r].call = client[r].call
      /\ Serving(client[r]) => Serving(client'[r])
      /\ Closing(client[r]) => Closing(client'[r])
      /\ ~client[r].stopping /\ client[r].loop = "running" =>
             /\ client'[r].loop = "running" /\ ~client'[r].stopping
             /\ client'[r].started = client[r].started
  BY ReadsAt
<1>3. PhaseInv'
  BY <1>1 DEF PhaseInv
<1>4. ~Spare(client[r]) /\ ~Dialing(client[r])
  BY <1>2 DEF Spare, Dialing
<1>5. StartInv'
  <2>1. SUFFICES ASSUME owner \in {"start", "connecting"} PROVE FALSE
    BY <1>1 DEF StartInv
  <2>2. r < at \/ r > at \/ r = at
    <3>1. at \in Pools
      BY <2>1 DEF PhaseInv
    <3> QED
      BY <3>1, PoolsAssumption DEF Pools
  <2> QED
    BY <1>4, <2>1, <2>2 DEF StartInv
<1>6. RunningInv'
  <2>1. SUFFICES ASSUME owner \in {"running", "stop"} PROVE RunningInv'
    BY <1>1 DEF RunningInv
  <2>2. currentPool # NoPool /\ r = currentPool
    BY <1>4, <2>1 DEF RunningInv
  <2>3. ~(r < r)
    BY PoolsAssumption DEF Pools
  <2> QED
    BY <1>1, <1>2, <2>1, <2>2, <2>3 DEF RunningInv
<1>7. ClosingInv'
  <2>1. SUFFICES ASSUME owner \in {"closing", "close wait"} PROVE ClosingInv'
    BY <1>1 DEF ClosingInv
  <2>2. r = currentPool
    BY <1>4, <2>1 DEF ClosingInv
  <2>3. currentPool # NoPool /\ ~(currentPool < at)
    <3>1. currentPool # NoPool
      BY <2>2, PoolsAssumption DEF Pools, NoPool
    <3> QED
      BY <1>4, <2>1, <2>2, <3>1 DEF ClosingInv
  <2> QED
    BY <1>1, <1>2, <2>1, <2>2, <2>3 DEF ClosingInv
<1>8. StoppedInv'
  <2>1. SUFFICES ASSUME owner = "stopped" PROVE StoppedInv'
    BY <1>1 DEF StoppedInv
  <2>2. /\ ~client[r].stopping /\ client[r].loop = "running"
        /\ client[r].started /\ ~cancelled
        /\ client[r].call = "none"
    BY <1>2, <1>4, <2>1 DEF StoppedInv, Dialing
  <2>3. checker = "connecting" => try # r
    BY <1>4, <2>1 DEF StoppedInv
  <2>4. checker \in {"connecting", "record"} => try \in Pools
    BY DEF PhaseInv
  <2>5. currentPool # NoPool => currentPool \in Pools
    BY DEF TypeOK
  <2> QED
    BY <1>1, <1>2, <2>1, <2>2, <2>3, <2>4, <2>5 DEF StoppedInv
<1> QED
  BY <1>3, <1>5, <1>6, <1>7, <1>8

LEMMA InvNext == IInv /\ [Next]_vars => IInv'
<1> SUFFICES ASSUME IInv, [Next]_vars PROVE IInv'
  OBVIOUS
<1>1. TypeOK'
  BY TypeNext DEF IInv
<1>2. CASE UNCHANGED vars
  BY <1>1, <1>2 DEF vars, IInv, PhaseInv, StartInv, RunningInv, ClosingInv,
     StoppedInv
<1> QED
  BY <1>1, <1>2, StartKeeps, StopStartsKeeps, StopKeeps, CheckKeeps,
     SwitchKeeps, ReadsKeeps
     DEF Next, Stop, SwitchToNextPool, IInv

\* In every behaviour the invariant holds.
THEOREM Invariant == Spec => []IInv
<1> QED
  BY InvInit, InvNext, PTL DEF Spec

(***************************************************************************)
(* The properties.                                                         *)
(***************************************************************************)

\* Type correctness: the owner and the checker never leave the pools there
\* are (manager.go).
THEOREM TypeCorrect == Spec => []TypeOK
  BY Invariant, PTL DEF IInv

\* Until Stop, the current pool's client has its readLoop: Start records a
\* pool only when its Connect returned nil (manager.go:112-137), and the
\* health check does not take it away.
THEOREM CurrentServedCorrect == Spec => []CurrentServed
<1>1. IInv => CurrentServed
  <2> SUFFICES ASSUME IInv, ~stopped, currentPool # NoPool
               PROVE  client[currentPool].loop = "running"
    BY DEF CurrentServed
  <2>1. owner \in {"start", "connecting", "running"}
    BY DEF IInv, TypeOK, PhaseInv
  <2> QED
    BY <2>1 DEF IInv, StartInv, RunningInv, Serving
<1> QED
  BY <1>1, Invariant, PTL

\* Until Stop, one pool at most is dialled or read from.
THEOREM OnePoolActiveCorrect == Spec => []OnePoolActive
<1>1. IInv => OnePoolActive
  <2> SUFFICES ASSUME IInv, ~stopped, NEW p \in Pools, NEW q \in Pools,
                      client[p].loop # "none",
                      client[q].loop # "none" \/ client[q].call # "none"
               PROVE  p = q
    BY DEF OnePoolActive
  <2>1. owner \in {"start", "connecting", "running"}
    BY DEF IInv, TypeOK, PhaseInv
  <2>2. CASE owner \in {"start", "connecting"}
    <3>1. at \in Pools
      BY <2>2 DEF IInv, PhaseInv
    <3>2. \A r \in Pools : r < at \/ r = at \/ r > at
      BY <3>1, PoolsAssumption DEF Pools
    <3> QED
      BY <2>2, <3>2 DEF IInv, StartInv, Spare, Dialing
  <2>3. CASE owner = "running"
    BY <2>3 DEF IInv, RunningInv, Spare
  <2> QED
    BY <2>1, <2>2, <2>3
<1> QED
  BY <1>1, Invariant, PTL

\* Start tries the pools in order of priority, and settles on the first that
\* takes the connection (manager.go:94-109).
THEOREM PriorityRespectedCorrect == Spec => []PriorityRespected
<1>1. IInv => PriorityRespected
  BY DEF IInv, RunningInv, Spare, PriorityRespected
<1> QED
  BY <1>1, Invariant, PTL

\* switchToNextPool dials only when Stop is done (manager.go:199-202).
THEOREM SwitchOnlyOnceStoppedCorrect == Spec => []SwitchOnlyOnceStopped
<1>1. IInv => SwitchOnlyOnceStopped
  BY DEF IInv, PhaseInv, StoppedInv, SwitchOnlyOnceStopped
<1> QED
  BY <1>1, Invariant, PTL

\* A cancelled context leaves nothing connected behind Stop
\* (miner.go:502-517).
THEOREM QuietOnceCancelledCorrect == Spec => []QuietOnceCancelled
<1>1. IInv => QuietOnceCancelled
  BY DEF IInv, StoppedInv, QuietOnceCancelled
<1> QED
  BY <1>1, Invariant, PTL

\* Once Start is done the current pool is the same until Stop is: a pool that is
\* lost for good is not given up for another (which pool_failover shows), but
\* neither can a share be recorded for another pool than the one it was sent to
\* (manager.go:340).
THEOREM CurrentPoolKept ==
    Spec => [][owner \notin {"start", "connecting"} /\ owner' # "stopped"
                   => currentPool' = currentPool]_vars
<1> DEFINE Kept == owner \notin {"start", "connecting"} /\ owner' # "stopped"
                       => currentPool' = currentPool
<1>1. IInv /\ [Next]_vars => [Kept]_vars
  <2> SUFFICES ASSUME IInv, Next PROVE Kept
    OBVIOUS
  <2>1. CASE Start
    BY <2>1 DEF Start, StartConnect, StartInstalls, StartConnected, StartFails
  <2>2. CASE Cancel \/ StopBegin
    BY <2>2 DEF Cancel, StopBegin
  <2>3. CASE Stop
    BY <2>3 DEF Stop, StopLock, StopClose, StopSkip, StopClosed, StopEnd
  <2>4. CASE CheckerExits \/ CheckPoolHealth
    BY <2>4 DEF CheckerExits, CheckPoolHealth, CheckerTick, AskDialing, AskAlive,
                AskConnected, Ask
  <2>5. CASE SwitchRecord \/ SwitchExhausted
    <3>1. owner = "stopped" /\ owner' = owner
      BY <2>5 DEF SwitchRecord, SwitchExhausted, IInv, PhaseInv
    <3> QED
      BY <3>1
  <2>6. CASE SwitchToNextPool /\ ~(SwitchRecord \/ SwitchExhausted)
    BY <2>6 DEF SwitchToNextPool, SwitchBegin, SwitchConnect, SwitchConnectNoOp,
                SwitchInstalls, SwitchConnected, SwitchFails
  <2>7. CASE \E p \in Pools : ReadLoop(p)
    BY <2>7 DEF ReadLoop
  <2> QED
    BY <2>1, <2>2, <2>3, <2>4, <2>5, <2>6, <2>7 DEF Next
<1> QED
  BY <1>1, Invariant, PTL DEF Spec

(***************************************************************************)
(* Every step of a client is one of StratumClient.                         *)
(***************************************************************************)

\* Connect, Close and the readLoop, where the manager lets them happen.
LEMMA OperationSpecified ==
    ASSUME TypeOK, NEW p \in Pools,
           \/ ConnectBegin(p) /\ Spare(client[p]) /\ ~client[p].started
           \/ ConnectInstalls(p) \/ ConnectOk(p) \/ ConnectFails(p)
           \/ CloseBegin(p) \/ CloseReturns(p)
           \/ ReadLoop(p)
    PROVE  ClientOf(p)!Next /\ \A q \in Pools \ {p} : client'[q] = client[q]
<1> USE DEF ClientOf!Next
<1>1. client[p] \in ClientState
  BY DEF TypeOK
<1>2. CASE ConnectBegin(p) /\ Spare(client[p]) /\ ~client[p].started
  <2>1. client'[p] = [client[p] EXCEPT !.call = "connecting", !.started = TRUE]
    BY <1>2, ClientAt DEF ConnectBegin
  <2> QED
    BY <1>1, <1>2, <2>1, ClientAt DEF ConnectBegin, ClientState, Spare,
       ClientOf!Connect
<1>3. CASE ConnectInstalls(p)
  <2>1. client'[p] = [client[p] EXCEPT !.call = "installed", !.connected = TRUE]
    BY <1>3, ClientAt DEF ConnectInstalls
  <2> QED
    BY <1>1, <1>3, <2>1, ClientAt DEF ConnectInstalls, ClientState,
       ClientOf!Install
<1>4. CASE ConnectOk(p)
  <2>1. client'[p] = [client[p] EXCEPT !.call = "none", !.loop = "running"]
    BY <1>4, ClientAt DEF ConnectOk
  <2> QED
    BY <1>1, <1>4, <2>1, ClientAt DEF ConnectOk, ClientState, ClientOf!ConnectOk
<1>5. CASE ConnectFails(p)
  <2>1. client'[p] = [client[p] EXCEPT !.call = "none"]
    BY <1>5, ClientAt DEF ConnectFails
  <2> QED
    BY <1>1, <1>5, <2>1, ClientAt DEF ConnectFails, ClientState,
       ClientOf!ConnectFails
<1>6. CASE CloseBegin(p)
  <2>1. client'[p] = [client[p] EXCEPT !.call = "closing", !.stopping = TRUE,
                                      !.connected = FALSE]
    BY <1>6, ClientAt DEF CloseBegin
  <2> QED
    BY <1>1, <1>6, <2>1, ClientAt DEF CloseBegin, ClientState,
       ClientOf!CloseBegin
<1>7. CASE CloseReturns(p)
  <2>1. client'[p] = [NewClient EXCEPT !.connected = client[p].connected]
    BY <1>7, ClientAt DEF CloseReturns
  <2> QED
    BY <1>1, <1>7, <2>1, ClientAt DEF CloseReturns, ClientState, NewClient,
       ClientOf!CloseReturns
<1>8. CASE Lose(p)
  <2>1. client'[p] = [client[p] EXCEPT !.connected = FALSE]
    BY <1>8, ClientAt DEF Lose
  <2> QED
    BY <1>1, <1>8, <2>1, ClientAt DEF Lose, ClientState, ClientOf!Lose
<1>9. CASE Regain(p)
  <2>1. client'[p] = [client[p] EXCEPT !.connected = TRUE]
    BY <1>9, ClientAt DEF Regain
  <2> QED
    BY <1>1, <1>9, <2>1, ClientAt DEF Regain, ClientState, ClientOf!Regain
<1>10. CASE LoopLeaves(p)
  <2>1. client'[p] = [client[p] EXCEPT !.connected = FALSE, !.loop = "leaving"]
    BY <1>10, ClientAt DEF LoopLeaves
  <2> QED
    BY <1>1, <1>10, <2>1, ClientAt DEF LoopLeaves, ClientState,
       ClientOf!LoopLeaves
<1>11. CASE LoopEnds(p)
  <2>1. client'[p] = [client[p] EXCEPT !.loop = "ended"]
    BY <1>11, ClientAt DEF LoopEnds
  <2> QED
    BY <1>1, <1>11, <2>1, ClientAt DEF LoopEnds, ClientState, ClientOf!LoopEnds
<1> QED
  BY <1>2, <1>3, <1>4, <1>5, <1>6, <1>7, <1>8, <1>9, <1>10, <1>11 DEF ReadLoop

\* The manager operates on one client at a time, and only Start and the switch
\* connect: to a client that nobody uses.
LEMMA OneOperation ==
    ASSUME IInv, Next, client' # client
    PROVE  \E p \in Pools :
               \/ ConnectBegin(p) /\ Spare(client[p]) /\ ~client[p].started
               \/ ConnectInstalls(p) \/ ConnectOk(p) \/ ConnectFails(p)
               \/ CloseBegin(p) \/ CloseReturns(p)
               \/ ReadLoop(p)
<1> USE DEF IInv
<1>1. CASE StartConnect
  <2>1. at \in Pools /\ Spare(client[at]) /\ ~client[at].started
    BY <1>1 DEF StartConnect, PhaseInv, StartInv
  <2> QED
    BY <1>1, <2>1 DEF StartConnect
<1>2. CASE StartInstalls \/ StartConnected \/ StartFails
  <2>1. at \in Pools
    BY <1>2 DEF StartInstalls, StartConnected, StartFails, PhaseInv
  <2> QED
    BY <1>2, <2>1 DEF StartInstalls, StartConnected, StartFails
<1>3. CASE StopClose \/ StopClosed
  <2>1. at \in Pools
    <3>1. at \in 1 .. NPools + 1
      BY DEF TypeOK
    <3>2. at <= NPools => at \in Pools
      BY <3>1, PoolsAssumption DEF Pools
    <3> QED
      BY <1>3, <3>2 DEF StopClose, StopClosed, PhaseInv
  <2> QED
    BY <1>3, <2>1 DEF StopClose, StopClosed
<1>4. CASE SwitchConnect
  <2>1. try \in Pools
    <3>1. try \in 1 .. NPools + 1
      BY DEF TypeOK
    <3>2. try <= NPools => try \in Pools
      BY <3>1, PoolsAssumption DEF Pools
    <3> QED
      BY <1>4, <3>2 DEF SwitchConnect
  <2>2. owner = "stopped" /\ checker = "try"
    BY <1>4 DEF SwitchConnect, PhaseInv
  <2>3. Spare(client[try]) /\ ~client[try].started
    BY <1>4, <2>1, <2>2 DEF SwitchConnect, StoppedInv, Spare
  <2> QED
    BY <1>4, <2>1, <2>3 DEF SwitchConnect
<1>5. CASE SwitchInstalls \/ SwitchConnected \/ SwitchFails
  <2>1. try \in Pools
    BY <1>5 DEF SwitchInstalls, SwitchConnected, SwitchFails, PhaseInv
  <2> QED
    BY <1>5, <2>1 DEF SwitchInstalls, SwitchConnected, SwitchFails
<1>6. CASE \E p \in Pools : ReadLoop(p)
  BY <1>6
<1>7. CASE \/ Cancel \/ StopBegin \/ StopLock \/ StopSkip \/ StopEnd
           \/ CheckerExits \/ CheckPoolHealth \/ SwitchBegin
           \/ SwitchConnectNoOp \/ SwitchRecord \/ SwitchExhausted
  BY <1>7 DEF Cancel, StopBegin, StopLock, StopSkip, StopEnd, CheckerExits,
     CheckPoolHealth, CheckerTick, AskDialing, AskAlive, AskConnected, Ask,
     SwitchBegin, SwitchConnectNoOp, SwitchRecord, SwitchExhausted
<1> QED
  BY <1>1, <1>2, <1>3, <1>4, <1>5, <1>6, <1>7
     DEF Next, Start, Stop, SwitchToNextPool

\* Start, Stop and the health check, which share the clients, use each as
\* StratumClient says one owner does: what StratumLifecycle promises such an
\* owner holds for the clients of the pool manager.
THEOREM ClientsUsedAsSpecifiedCorrect == Spec => ClientsUsedAsSpecified
<1>1. IInv /\ [Next]_vars =>
          [\A p \in Pools : ClientOf(p)!Next \/ UNCHANGED client[p]]_client
  <2> SUFFICES ASSUME IInv, Next, client' # client, NEW q \in Pools
               PROVE  ClientOf(q)!Next \/ UNCHANGED client[q]
    BY DEF vars
  <2>1. PICK p \in Pools :
            \/ ConnectBegin(p) /\ Spare(client[p]) /\ ~client[p].started
            \/ ConnectInstalls(p) \/ ConnectOk(p) \/ ConnectFails(p)
            \/ CloseBegin(p) \/ CloseReturns(p)
            \/ ReadLoop(p)
    BY OneOperation
  <2>2. ClientOf(p)!Next /\ \A r \in Pools \ {p} : client'[r] = client[r]
    BY <2>1, OperationSpecified DEF IInv
  <2> QED
    BY <2>2
<1> QED
  BY <1>1, Invariant, PTL DEF Spec, ClientsUsedAsSpecified

\* So every client behaves as StratumClient specifies.
THEOREM ClientImplementsStratumClient ==
    ASSUME NEW p \in Pools
    PROVE  Spec => ClientOf(p)!Spec
<1>1. Init => ClientOf(p)!Init
  BY DEF Init, NewClient, ClientOf!Init
<1>2. IInv /\ [Next]_vars => [ClientOf(p)!Next]_(ClientOf(p)!vars)
  <2> SUFFICES ASSUME IInv, Next, client' # client
               PROVE  [ClientOf(p)!Next]_(ClientOf(p)!vars)
    BY DEF vars, ClientOf!vars
  <2>1. PICK q \in Pools :
            \/ ConnectBegin(q) /\ Spare(client[q]) /\ ~client[q].started
            \/ ConnectInstalls(q) \/ ConnectOk(q) \/ ConnectFails(q)
            \/ CloseBegin(q) \/ CloseReturns(q)
            \/ ReadLoop(q)
    BY OneOperation
  <2>2. ClientOf(q)!Next /\ \A r \in Pools \ {q} : client'[r] = client[r]
    BY <2>1, OperationSpecified DEF IInv
  <2> QED
    BY <2>2 DEF ClientOf!vars
<1> QED
  BY <1>1, <1>2, Invariant, PTL DEF Spec, ClientOf!Spec

=============================================================================
