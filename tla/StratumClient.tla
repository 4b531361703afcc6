---------------------------- MODULE StratumClient ----------------------------
(***************************************************************************)
(* What a Stratum client (internal/stratum/client.go) promises an owner    *)
(* that calls Connect and Close one after the other: the abstract          *)
(* specification that StratumLifecycle implements and PoolManager is built *)
(* on.  Dialling, sockets, channels and backoff are gone; what is left is  *)
(* what IsAlive and IsConnected show and when a call may return.           *)
(***************************************************************************)

VARIABLES
    call,       \* the owner's call: "none", "connecting", "installed", "closing"
    started,    \* c.readLoopStarted
    stopping,   \* c.stopCh is closed
    connected,  \* c.connected
    loop        \* the readLoop: "none", "running", "leaving", "ended"

vars == <<call, started, stopping, connected, loop>>

Init ==
    /\ call = "none"
    /\ started = FALSE /\ stopping = FALSE /\ connected = FALSE
    /\ loop = "none"

\* Connect dials unless a Connect, even a failed one, came before it.
Connect ==
    /\ call = "none" /\ ~started
    /\ call' = "connecting"
    /\ started' = TRUE
    /\ UNCHANGED <<stopping, connected, loop>>

ConnectFails ==
    /\ call = "connecting"
    /\ call' = "none"
    /\ UNCHANGED <<started, stopping, connected, loop>>

Install ==
    /\ call = "connecting"
    /\ call' = "installed"
    /\ connected' = TRUE
    /\ UNCHANGED <<started, stopping, loop>>

ConnectOk ==
    /\ call = "installed"
    /\ call' = "none"
    /\ loop' = "running"
    /\ UNCHANGED <<started, stopping, connected>>

\* The readLoop loses the connection, and gets another one: even while the
\* owner waits in Close.
Lose ==
    /\ loop = "running" /\ connected
    /\ connected' = FALSE
    /\ UNCHANGED <<call, started, stopping, loop>>

Regain ==
    /\ loop = "running" /\ ~connected
    /\ connected' = TRUE
    /\ UNCHANGED <<call, started, stopping, loop>>

CloseBegin ==
    /\ call = "none"
    /\ call' = "closing"
    /\ stopping' = TRUE
    /\ connected' = FALSE
    /\ UNCHANGED <<started, loop>>

\* The readLoop sees stopCh, drops what connection there is, and says so.
LoopLeaves ==
    /\ loop = "running" /\ stopping
    /\ connected' = FALSE
    /\ loop' = "leaving"
    /\ UNCHANGED <<call, started, stopping>>

LoopEnds ==
    /\ loop = "leaving"
    /\ loop' = "ended"
    /\ UNCHANGED <<call, started, stopping, connected>>

\* Close returns once the readLoop is gone; there is no readLoop to wait for
\* if nothing was started, and none will ever end if Connect had failed.
CloseReturns ==
    /\ call = "closing"
    /\ started => loop = "ended"
    /\ call' = "none"
    /\ started' = FALSE /\ stopping' = FALSE
    /\ loop' = "none"
    /\ UNCHANGED connected

Next ==
    \/ Connect \/ ConnectFails \/ Install \/ ConnectOk
    \/ Lose \/ Regain
    \/ CloseBegin \/ LoopLeaves \/ LoopEnds \/ CloseReturns

Spec == Init /\ [][Next]_vars

=============================================================================
