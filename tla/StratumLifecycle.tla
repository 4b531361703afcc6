-------------------------- MODULE StratumLifecycle --------------------------
(***************************************************************************)
(* The connection lifecycle of one Stratum client                          *)
(* (internal/stratum/client.go): Connect, dialAndHandshake, the persistent *)
(* readLoop with its reconnection backoff, and Close.                      *)
(*                                                                         *)
(* Callers are the goroutines that call Connect and Close; Loops are the   *)
(* goroutines that Connect starts to run readLoop.  An action is one       *)
(* critical section of c.mu, one operation on a channel or an atomic, or   *)
(* one blocking network call, so every order the goroutines can meet in    *)
(* between two of those is a behaviour of the model.  Sockets, channels    *)
(* and goroutines are numbered and a number is used again once nobody      *)
(* refers to it, which keeps the state finite without a bound on how often *)
(* the connection is lost.                                                 *)
(***************************************************************************)
EXTENDS Naturals, FiniteSets

CONSTANTS Callers,       \* goroutines that call Connect and Close
          Loops,         \* goroutines available to run readLoop
          Conns,         \* sockets (numbers)
          Chans,         \* channels (numbers)
          InitialDelay,  \* initialReconnectDelay, in seconds
          MaxDelay       \* maxReconnectDelay, in seconds

ASSUME LifecycleAssumption ==
    /\ Callers \cap Loops = {}
    /\ Conns \subseteq Nat \ {0}
    /\ Chans \subseteq Nat \ {0}
    /\ InitialDelay \in Nat \ {0}
    /\ MaxDelay \in Nat
    /\ InitialDelay <= MaxDelay

VARIABLES
    started,       \* c.readLoopStarted
    conn,          \* c.conn, and c.bufReader, which is always set with it
    connected,     \* c.connected
    dialing,       \* c.dialing = 1
    dialDone,      \* c.dialDone
    stopCh,        \* c.stopCh
    readLoopDone,  \* c.readLoopDone
    open,          \* sockets this process holds open
    closed,        \* channels that have been closed
    pc,            \* where each goroutine is
    sock,          \* the socket in a local: newConn of a dialer, reader of a loop
    waitCh,        \* the channel a goroutine is blocked on
    backoff,       \* backoff of each readLoop
    crashed        \* a panic (a channel closed twice) has ended the process

client == <<started, conn, connected, dialing, dialDone, stopCh, readLoopDone>>
local  == <<pc, sock, waitCh, backoff>>
vars   == <<client, open, closed, local, crashed>>

Procs  == Callers \cup Loops
NoConn == 0   \* a nil net.Conn
NoChan == 0   \* a nil channel: receiving from it blocks for ever

DialSteps  == {"dial", "dialchan", "dialwait", "mkdone", "tcp", "handshake",
               "unset ok", "unset fail", "signal ok", "signal fail"}
CloseSteps == {"closewait", "closefin"}
LoopSteps  == {"top", "peek", "read", "arm", "backoff", "chkdial", "loopchan",
               "loopwait", "cleanup", "closedone"}

Running == {l \in Loops : pc[l] # "off"}

(***************************************************************************)
(* Helpers.                                                                *)
(***************************************************************************)
Least(S) == {n \in S : \A m \in S : n <= m}

\* The new channel (or socket) an allocation returns: one nobody refers to.
\* An allocation also forgets which of the unreferenced channels are closed.
Live == {dialDone, stopCh, readLoopDone} \cup {waitCh[p] : p \in Procs}
FreshChan == Least(Chans \ Live)
FreshConn == Least(Conns \ (open \cup {conn} \cup {sock[p] : p \in Procs}))

Goto(p, label) == pc' = [pc EXCEPT ![p] = label]

\* Mutant of Doubled: without the cap.
DoubledUncapped(b) == 2 * b

\* backoff *= 2, capped at maxReconnectDelay.
Doubled(b) == IF 2 * b > MaxDelay THEN MaxDelay ELSE 2 * b

\* close(ch) of the channel in a field: closing it twice panics.
CloseChan(ch) ==
    IF ch \in closed \cup {NoChan}
    THEN crashed' = TRUE /\ UNCHANGED closed
    ELSE closed' = closed \cup {ch} /\ UNCHANGED crashed

\* Close the socket in c.conn, if any, and clear c.conn and c.bufReader.
DropConn ==
    /\ open' = open \ {conn}
    /\ conn' = NoConn
    /\ connected' = FALSE

(***************************************************************************)
(* dialAndHandshake, run by a caller inside Connect or by a readLoop.      *)
(***************************************************************************)

\* What p does with the result of dialAndHandshake.  A caller returns the
\* error, or starts a readLoop; note that an error leaves readLoopStarted
\* set.  A readLoop resets or doubles its backoff and goes round its loop.
DialReturns(p, ok) ==
    \/ /\ p \in Callers /\ ~ok
       /\ Goto(p, "idle")
       /\ UNCHANGED backoff
    \/ /\ p \in Callers /\ ok
       /\ \E l \in Loops \ Running :
            /\ pc' = [pc EXCEPT ![p] = "idle", ![l] = "top"]
            /\ backoff' = [backoff EXCEPT ![l] = InitialDelay]
    \/ /\ p \in Loops
       /\ Goto(p, "top")
       /\ backoff' = [backoff EXCEPT ![p] =
                        IF ok THEN InitialDelay ELSE Doubled(@)]

\* CompareAndSwap(&c.dialing, 0, 1).
DialCAS(p) ==
    /\ pc[p] = "dial"
    /\ dialing' = TRUE
    /\ Goto(p, IF dialing THEN "dialchan" ELSE "mkdone")
    /\ UNCHANGED <<started, conn, connected, dialDone, stopCh, readLoopDone,
                   open, closed, sock, waitCh, backoff, crashed>>

\* The loser, or a readLoop that found c.dialing set, waits on the c.dialDone
\* of this moment: nil if the winner has not made its channel yet.
TakeDialDone(p) ==
    /\ pc[p] \in {"dialchan", "loopchan"}
    /\ waitCh' = [waitCh EXCEPT ![p] = dialDone]
    /\ Goto(p, IF pc[p] = "dialchan" THEN "dialwait" ELSE "loopwait")
    /\ UNCHANGED <<client, open, closed, sock, backoff, crashed>>

\* The loser reports whether somebody else's dial left a connection.
DialWaited(p) ==
    /\ pc[p] = "dialwait"
    /\ waitCh[p] \in closed
    /\ waitCh' = [waitCh EXCEPT ![p] = NoChan]
    /\ DialReturns(p, conn # NoConn /\ connected)
    /\ UNCHANGED <<client, open, closed, sock, crashed>>

\* c.dialDone = make(chan struct{})
DialMakeDone(p) ==
    /\ pc[p] = "mkdone"
    /\ \E ch \in FreshChan : dialDone' = ch /\ closed' = closed \cap Live
    /\ Goto(p, "tcp")
    /\ UNCHANGED <<started, conn, connected, dialing, stopCh, readLoopDone,
                   open, sock, waitCh, backoff, crashed>>

\* Resolving the address or dialling fails, within the dialer's timeout.
DialTcpFails(p) ==
    /\ pc[p] = "tcp"
    /\ Goto(p, "unset fail")
    /\ UNCHANGED <<client, open, closed, sock, waitCh, backoff, crashed>>

DialTcpOk(p) ==
    /\ pc[p] = "tcp"
    /\ \E s \in FreshConn : /\ open' = open \cup {s}
                            /\ sock' = [sock EXCEPT ![p] = s]
    /\ Goto(p, "handshake")
    /\ UNCHANGED <<client, closed, waitCh, backoff, crashed>>

\* Mutant of HandshakeFails: returns without newConn.Close().
HandshakeFailsLeaking(p) ==
    /\ pc[p] = "handshake"
    /\ sock' = [sock EXCEPT ![p] = NoConn]
    /\ Goto(p, "unset fail")
    /\ UNCHANGED <<client, open, closed, waitCh, backoff, crashed>>

\* Any of the error returns of mining.subscribe and mining.authorize: a
\* write error, a timeout, an answer that does not parse, a refusal.
HandshakeFails(p) ==
    /\ pc[p] = "handshake"
    /\ open' = open \ {sock[p]}
    /\ sock' = [sock EXCEPT ![p] = NoConn]
    /\ Goto(p, "unset fail")
    /\ UNCHANGED <<client, closed, waitCh, backoff, crashed>>

\* Both requests answered: the new socket replaces the one in c.conn.
HandshakeOk(p) ==
    /\ pc[p] = "handshake"
    /\ open' = open \ {conn}
    /\ conn' = sock[p]
    /\ connected' = TRUE
    /\ sock' = [sock EXCEPT ![p] = NoConn]
    /\ Goto(p, "unset ok")
    /\ UNCHANGED <<started, dialing, dialDone, stopCh, readLoopDone,
                   closed, waitCh, backoff, crashed>>

\* The deferred function, first half: StoreInt32(&c.dialing, 0).
DialUnset(p) ==
    /\ pc[p] \in {"unset ok", "unset fail"}
    /\ dialing' = FALSE
    /\ Goto(p, IF pc[p] = "unset ok" THEN "signal ok" ELSE "signal fail")
    /\ UNCHANGED <<started, conn, connected, dialDone, stopCh, readLoopDone,
                   open, closed, sock, waitCh, backoff, crashed>>

\* Second half: close(c.dialDone), and the return.
DialSignal(p) ==
    /\ pc[p] \in {"signal ok", "signal fail"}
    /\ CloseChan(dialDone)
    /\ DialReturns(p, pc[p] = "signal ok")
    /\ UNCHANGED <<client, open, sock, waitCh>>

(***************************************************************************)
(* Connect and Close.                                                      *)
(***************************************************************************)
Connect(c) ==
    /\ pc[c] = "idle"
    /\ ~started
    /\ started' = TRUE
    /\ Goto(c, "dial")
    /\ UNCHANGED <<conn, connected, dialing, dialDone, stopCh, readLoopDone,
                   open, closed, sock, waitCh, backoff, crashed>>

\* Close, first critical section.  A caller that saw readLoopStarted waits
\* for readLoopDone; the channel is read here, under the lock.
CloseBegin(c) ==
    /\ pc[c] = "idle"
    /\ closed' = closed \cup {stopCh}
    /\ DropConn
    /\ Goto(c, IF started THEN "closewait" ELSE "closefin")
    /\ waitCh' = [waitCh EXCEPT ![c] = IF started THEN readLoopDone ELSE NoChan]
    /\ UNCHANGED <<started, dialing, dialDone, stopCh, readLoopDone,
                   sock, backoff, crashed>>

\* Mutant of CloseWait: does not wait for readLoopDone.
CloseNoWait(c) ==
    /\ pc[c] = "closewait"
    /\ waitCh' = [waitCh EXCEPT ![c] = NoChan]
    /\ Goto(c, "closefin")
    /\ UNCHANGED <<client, open, closed, sock, backoff, crashed>>

CloseWait(c) ==
    /\ pc[c] = "closewait"
    /\ waitCh[c] \in closed
    /\ waitCh' = [waitCh EXCEPT ![c] = NoChan]
    /\ Goto(c, "closefin")
    /\ UNCHANGED <<client, open, closed, sock, backoff, crashed>>

\* Mutant of CloseFinish: keeps the readLoopDone that has been closed.
CloseFinishOldDone(c) ==
    /\ pc[c] = "closefin"
    /\ started' = FALSE
    /\ \E s \in FreshChan : stopCh' = s /\ closed' = closed \cap Live
    /\ Goto(c, "idle")
    /\ UNCHANGED <<conn, connected, dialing, dialDone, readLoopDone, open,
                   sock, waitCh, backoff, crashed>>

\* Close, second critical section: the client can be connected again.
CloseFinish(c) ==
    /\ pc[c] = "closefin"
    /\ started' = FALSE
    /\ \E s \in FreshChan :
         \E d \in Least(Chans \ (Live \cup {s})) :
            /\ stopCh' = s
            /\ readLoopDone' = d
            /\ closed' = closed \cap Live
    /\ Goto(c, "idle")
    /\ UNCHANGED <<conn, connected, dialing, dialDone, open,
                   sock, waitCh, backoff, crashed>>

\* A submission or hash report that fails for the third time in a row closes
\* the socket and leaves c.conn for the readLoop to find out.
SenderCloses ==
    /\ open' = open \ {conn}
    /\ UNCHANGED <<client, closed, local, crashed>>

(***************************************************************************)
(* readLoop.  Its context is context.Background(), never cancelled.        *)
(***************************************************************************)
LoopCheckStop(l) ==
    /\ pc[l] = "top"
    /\ Goto(l, IF stopCh \in closed THEN "cleanup" ELSE "peek")
    /\ UNCHANGED <<client, open, closed, sock, waitCh, backoff, crashed>>

\* reader := c.bufReader.
LoopPeek(l) ==
    /\ pc[l] = "peek"
    /\ sock' = [sock EXCEPT ![l] = conn]
    /\ Goto(l, IF conn = NoConn THEN "arm" ELSE "read")
    /\ UNCHANGED <<client, open, closed, waitCh, backoff, crashed>>

\* A loop without a reader enters the backoff select, on the stopCh of this
\* moment.
LoopArm(l) ==
    /\ pc[l] = "arm"
    /\ waitCh' = [waitCh EXCEPT ![l] = stopCh]
    /\ Goto(l, "backoff")
    /\ UNCHANGED <<client, open, closed, sock, backoff, crashed>>

\* The backoff select: the delay elapses, or stopCh is closed (either, if
\* both are ready).
LoopBackoff(l) ==
    /\ pc[l] = "backoff"
    /\ \/ Goto(l, "chkdial")
       \/ waitCh[l] \in closed /\ Goto(l, "cleanup")
    /\ waitCh' = [waitCh EXCEPT ![l] = NoChan]
    /\ UNCHANGED <<client, open, closed, sock, backoff, crashed>>

LoopCheckDialing(l) ==
    /\ pc[l] = "chkdial"
    /\ Goto(l, IF dialing THEN "loopchan" ELSE "dial")
    /\ UNCHANGED <<client, open, closed, sock, waitCh, backoff, crashed>>

LoopWaited(l) ==
    /\ pc[l] = "loopwait"
    /\ waitCh[l] \in closed
    /\ waitCh' = [waitCh EXCEPT ![l] = NoChan]
    /\ Goto(l, "top")
    /\ UNCHANGED <<client, open, closed, sock, backoff, crashed>>

\* A line is read, perhaps one that was buffered before the socket closed;
\* handling it does not touch the lifecycle.  A blank line does not count as
\* a sign of life.
LoopReadLine(l) ==
    /\ pc[l] = "read"
    /\ sock' = [sock EXCEPT ![l] = NoConn]
    /\ \E blank \in BOOLEAN :
         backoff' = [backoff EXCEPT ![l] = IF blank THEN @ ELSE InitialDelay]
    /\ Goto(l, "top")
    /\ UNCHANGED <<client, open, closed, waitCh, crashed>>

\* Mutant of LoopReadError: forgets c.connected = false.
LoopReadErrorKeepsFlag(l) ==
    /\ pc[l] = "read"
    /\ open' = open \ {conn}
    /\ conn' = NoConn
    /\ sock' = [sock EXCEPT ![l] = NoConn]
    /\ Goto(l, "top")
    /\ UNCHANGED <<started, connected, dialing, dialDone, stopCh, readLoopDone,
                   closed, waitCh, backoff, crashed>>

\* Mutant of LoopReadError: ends the loop instead of going round it.
LoopReadErrorExits(l) ==
    /\ pc[l] = "read"
    /\ DropConn
    /\ sock' = [sock EXCEPT ![l] = NoConn]
    /\ Goto(l, "cleanup")
    /\ UNCHANGED <<started, dialing, dialDone, stopCh, readLoopDone,
                   closed, waitCh, backoff, crashed>>

\* The read fails: the peer is gone, the read deadline passes, or the socket
\* was closed here.  The backoff doubles if the connection was short-lived.
LoopReadError(l) ==
    /\ pc[l] = "read"
    /\ DropConn
    /\ sock' = [sock EXCEPT ![l] = NoConn]
    /\ \E shortLived \in BOOLEAN :
         backoff' = [backoff EXCEPT ![l] = IF shortLived THEN Doubled(@) ELSE @]
    /\ Goto(l, "top")
    /\ UNCHANGED <<started, dialing, dialDone, stopCh, readLoopDone,
                   closed, waitCh, crashed>>

\* Mutant of LoopCleanup: leaves the connection it finds.
LoopCleanupKeepsConn(l) ==
    /\ pc[l] = "cleanup"
    /\ Goto(l, "closedone")
    /\ UNCHANGED <<client, open, closed, sock, waitCh, backoff, crashed>>

\* The deferred function of readLoop: drop the connection under the lock,
\* then close(c.readLoopDone).
LoopCleanup(l) ==
    /\ pc[l] = "cleanup"
    /\ DropConn
    /\ Goto(l, "closedone")
    /\ UNCHANGED <<started, dialing, dialDone, stopCh, readLoopDone,
                   closed, sock, waitCh, backoff, crashed>>

\* Mutant of LoopCloseDone: forgets close(c.readLoopDone).
LoopEndsSilently(l) ==
    /\ pc[l] = "closedone"
    /\ Goto(l, "off")
    /\ UNCHANGED <<client, open, closed, sock, waitCh, backoff, crashed>>

LoopCloseDone(l) ==
    /\ pc[l] = "closedone"
    /\ CloseChan(readLoopDone)
    /\ Goto(l, "off")
    /\ UNCHANGED <<client, open, sock, waitCh, backoff>>

(***************************************************************************)
(* The specification.  The client is the one NewClient returns.            *)
(***************************************************************************)
Init ==
    /\ started = FALSE
    /\ conn = NoConn
    /\ connected = FALSE
    /\ dialing = FALSE
    /\ dialDone = NoChan
    /\ stopCh \in Least(Chans)
    /\ readLoopDone \in Least(Chans \ {stopCh})
    /\ open = {}
    /\ closed = {}
    /\ pc = [p \in Procs |-> IF p \in Callers THEN "idle" ELSE "off"]
    /\ sock = [p \in Procs |-> NoConn]
    /\ waitCh = [p \in Procs |-> NoChan]
    /\ backoff = [l \in Loops |-> InitialDelay]
    /\ crashed = FALSE

Dial(p) ==
    \/ DialCAS(p) \/ TakeDialDone(p) \/ DialWaited(p) \/ DialMakeDone(p)
    \/ DialTcpFails(p) \/ DialTcpOk(p)
    \/ HandshakeFails(p) \/ HandshakeOk(p)
    \/ DialUnset(p) \/ DialSignal(p)

Close(c) == CloseBegin(c) \/ CloseWait(c) \/ CloseFinish(c)

ReadLoop(l) ==
    \/ LoopCheckStop(l) \/ LoopPeek(l) \/ LoopArm(l) \/ LoopBackoff(l)
    \/ LoopCheckDialing(l) \/ LoopWaited(l)
    \/ LoopReadLine(l) \/ LoopReadError(l)
    \/ LoopCleanup(l) \/ LoopCloseDone(l)

Next ==
    /\ ~crashed
    /\ \/ \E p \in Procs : Dial(p)
       \/ \E c \in Callers : Connect(c) \/ Close(c)
       \/ \E l \in Loops : ReadLoop(l)
       \/ SenderCloses

Spec == Init /\ [][Next]_vars

\* Goroutines run, and every blocking step of a dial, a read or a backoff
\* ends by its own timeout.  The strong fairness is an assumption on the
\* pool: it does not refuse every dial for ever.
Fairness ==
    /\ \A p \in Procs : /\ WF_vars(~crashed /\ Dial(p))
                        /\ SF_vars(~crashed /\ DialTcpOk(p))
                        /\ SF_vars(~crashed /\ HandshakeOk(p))
    /\ \A c \in Callers : WF_vars(~crashed /\ (CloseWait(c) \/ CloseFinish(c)))
    /\ \A l \in Loops : WF_vars(~crashed /\ ReadLoop(l))

FairSpec == Spec /\ Fairness

(***************************************************************************)
(* Properties that hold however many goroutines call Connect and Close.    *)
(***************************************************************************)
TypeOK ==
    /\ started \in BOOLEAN /\ connected \in BOOLEAN
    /\ dialing \in BOOLEAN /\ crashed \in BOOLEAN
    /\ conn \in Conns \cup {NoConn}
    /\ dialDone \in Chans \cup {NoChan}
    /\ stopCh \in Chans /\ readLoopDone \in Chans
    /\ open \subseteq Conns /\ closed \subseteq Chans
    /\ pc \in [Procs -> {"idle", "off"} \cup DialSteps \cup CloseSteps \cup LoopSteps]
    /\ sock \in [Procs -> Conns \cup {NoConn}]
    /\ waitCh \in [Procs -> Chans \cup {NoChan}]
    /\ backoff \in [Loops -> InitialDelay .. MaxDelay]

\* IsConnected (client.go:916) answers from c.connected, SubmitShare and the
\* readLoop from c.conn: no order of dials, read errors and Closes makes the
\* two disagree.
ConnectedIffConn == connected <=> conn # NoConn

\* Every socket this process holds open is c.conn or the newConn of a
\* handshake under way: no failure, reconnection or Close that races a dial
\* loses one (client.go:271-385, 417-428, 933-939).
NoLeakedConn ==
    \A s \in open : s = conn \/ \E p \in Procs : pc[p] = "handshake" /\ sock[p] = s

(***************************************************************************)
(* Properties of the use the pool manager makes of a client: Connect and   *)
(* Close are called one after the other, never at the same time.           *)
(***************************************************************************)
\* At most one readLoop runs, whatever is closed, reconnected and connected
\* again (client.go:70, "started exactly once").
OneReadLoop == \A l, m \in Running : l = m

\* Once Close has returned the client is as new: no readLoop runs, even one
\* that was dialling when Close began, and no socket is open, even one that
\* such a dial installed after Close dropped the connection.
ClosedIsQuiet == ~started => Running = {} /\ open = {}

\* No goroutine is left to serve a connection nobody reads: while c.conn is
\* set, a readLoop runs or Connect is about to start it.
ServedConnection ==
    conn # NoConn => \/ Running # {}
                     \/ \E c \in Callers : pc[c] \in {"unset ok", "signal ok"}

\* readLoopDone and dialDone are each closed once per life of the channel
\* (client.go:228, 426), over any number of Connect and Close.
NoPanic == ~crashed

\* What the owner of the client may rely on: the lifecycle implements
\* StratumClient, the specification PoolManager is built on.  A dial that
\* fails is still "connecting" until Connect returns; the readLoop is
\* "leaving" from its deferred cleanup to close(c.readLoopDone).
CallOf(label) ==
    CASE label = "idle"                    -> "none"
      [] label \in CloseSteps              -> "closing"
      [] label \in {"unset ok", "signal ok"} -> "installed"
      [] OTHER                             -> "connecting"

LoopState ==
    CASE \E l \in Running : pc[l] # "closedone" -> "running"
      [] \E l \in Running : pc[l] = "closedone" -> "leaving"
      [] Running = {} -> IF readLoopDone \in closed THEN "ended" ELSE "none"

Owner == CHOOSE c \in Callers : TRUE

Client ==
    INSTANCE StratumClient WITH
        call <- CallOf(pc[Owner]), started <- started,
        stopping <- stopCh \in closed, connected <- connected,
        loop <- LoopState

ImplementsClient == Client!Spec

(***************************************************************************)
(* Liveness, under FairSpec.                                               *)
(***************************************************************************)

\* A running readLoop that has lost its connection gets another one, unless
\* the client is closed (client.go:412-414).
Reconnects ==
    \A l \in Loops :
        (l \in Running /\ conn = NoConn) ~> (connected \/ stopCh \in closed)

\* Close returns whenever there is a readLoop to wait for, wherever in its
\* loop, its backoff or a dial Close finds it (client.go:946-948).
CloseReturns ==
    \A c \in Callers : (pc[c] = "closewait" /\ Running # {}) ~> pc[c] = "idle"

=============================================================================
