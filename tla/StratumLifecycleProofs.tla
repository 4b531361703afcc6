----------------------- MODULE StratumLifecycleProofs -----------------------
(***************************************************************************)
(* Theorems about StratumLifecycle, for all values of its constants.       *)
(*                                                                         *)
(* The properties that hold however many goroutines use the client follow  *)
(* from TypeOK and two facts about the sockets in locals.  Those of the    *)
(* serial use rest on SerialInv, which says who may be where while the     *)
(* only caller is in Connect or in Close, and which of the three channels  *)
(* of the client may already be closed.                                    *)
(***************************************************************************)
EXTENDS StratumLifecycle, TLAPS

\* A handshake has a socket.
HandshakeHasSocket == \A p \in Procs : pc[p] = "handshake" => sock[p] \in Conns

(***************************************************************************)
(* Helpers.                                                                *)
(***************************************************************************)

\* A backoff stays between the initial and the largest delay.
LEMMA DoubledInRange ==
    ASSUME NEW b \in InitialDelay .. MaxDelay
    PROVE  Doubled(b) \in InitialDelay .. MaxDelay
  BY LifecycleAssumption DEF Doubled

\* What a return from dialAndHandshake changes.
LEMMA DialReturnsType ==
    ASSUME TypeOK, NEW p \in Procs, NEW ok \in BOOLEAN, DialReturns(p, ok)
    PROVE  /\ pc' \in [Procs -> {"idle", "off"} \cup DialSteps \cup CloseSteps \cup LoopSteps]
           /\ backoff' \in [Loops -> InitialDelay .. MaxDelay]
<1>1. CASE p \in Callers /\ ~ok
  BY <1>1, LifecycleAssumption DEF DialReturns, TypeOK, Goto, Procs
<1>2. CASE p \in Callers /\ ok
  <2>1. PICK l \in Loops \ Running :
          /\ pc' = [pc EXCEPT ![p] = "idle", ![l] = "top"]
          /\ backoff' = [backoff EXCEPT ![l] = InitialDelay]
    BY <1>2, LifecycleAssumption DEF DialReturns
  <2> QED
    BY <2>1, LifecycleAssumption DEF TypeOK, Procs, LoopSteps
<1>3. CASE p \in Loops
  <2>1. /\ pc' = [pc EXCEPT ![p] = "top"]
        /\ backoff' = [backoff EXCEPT ![p] = IF ok THEN InitialDelay ELSE Doubled(@)]
    BY <1>3, LifecycleAssumption DEF DialReturns, Goto
  <2>2. backoff[p] \in InitialDelay .. MaxDelay
    BY <1>3 DEF TypeOK
  <2>3. Doubled(backoff[p]) \in InitialDelay .. MaxDelay
    BY <2>2, DoubledInRange
  <2>4. InitialDelay \in InitialDelay .. MaxDelay
    BY LifecycleAssumption
  <2> QED
    BY <1>3, <2>1, <2>3, <2>4 DEF TypeOK, Procs, LoopSteps
<1> QED
  BY <1>1, <1>2, <1>3 DEF Procs

(***************************************************************************)
(* Type correctness.                                                       *)
(***************************************************************************)
LEMMA TypeInit == Init => TypeOK
<1> SUFFICES ASSUME Init PROVE TypeOK
  OBVIOUS
<1>1. InitialDelay \in InitialDelay .. MaxDelay
  BY LifecycleAssumption
<1>2. stopCh \in Chans /\ readLoopDone \in Chans
  BY DEF Init, Least
<1>3. pc \in [Procs -> {"idle", "off"} \cup DialSteps \cup CloseSteps \cup LoopSteps]
  BY DEF Init
<1> QED
  BY <1>1, <1>2, <1>3 DEF Init, TypeOK

LEMMA TypeDial ==
    ASSUME TypeOK, NEW p \in Procs, Dial(p)
    PROVE  TypeOK'
<1> USE DEF TypeOK
<1>1. CASE DialCAS(p)
  BY <1>1 DEF DialCAS, Goto, DialSteps
<1>2. CASE TakeDialDone(p)
  BY <1>2 DEF TakeDialDone, Goto, DialSteps, LoopSteps, client
<1>3. CASE DialWaited(p)
  <2>1. (conn # NoConn /\ connected) \in BOOLEAN
    OBVIOUS
  <2>2. DialReturns(p, conn # NoConn /\ connected)
    BY <1>3 DEF DialWaited
  <2>3. /\ pc' \in [Procs -> {"idle", "off"} \cup DialSteps \cup CloseSteps \cup LoopSteps]
        /\ backoff' \in [Loops -> InitialDelay .. MaxDelay]
    BY <2>1, <2>2, DialReturnsType
  <2> QED
    BY <1>3, <2>3 DEF DialWaited, client
<1>4. CASE DialMakeDone(p)
  BY <1>4 DEF DialMakeDone, FreshChan, Least, Goto, DialSteps
<1>5. CASE DialTcpFails(p)
  BY <1>5 DEF DialTcpFails, Goto, DialSteps, client
<1>6. CASE DialTcpOk(p)
  BY <1>6 DEF DialTcpOk, FreshConn, Least, Goto, DialSteps, client
<1>7. CASE HandshakeFails(p)
  BY <1>7 DEF HandshakeFails, Goto, DialSteps, client
<1>8. CASE HandshakeOk(p)
  BY <1>8 DEF HandshakeOk, Goto, DialSteps
<1>9. CASE DialUnset(p)
  BY <1>9 DEF DialUnset, Goto, DialSteps
<1>10. CASE DialSignal(p)
  <2>1. (pc[p] = "signal ok") \in BOOLEAN
    OBVIOUS
  <2>2. DialReturns(p, pc[p] = "signal ok")
    BY <1>10 DEF DialSignal
  <2>3. /\ pc' \in [Procs -> {"idle", "off"} \cup DialSteps \cup CloseSteps \cup LoopSteps]
        /\ backoff' \in [Loops -> InitialDelay .. MaxDelay]
    BY <2>1, <2>2, DialReturnsType
  <2>4. closed' \subseteq Chans /\ crashed' \in BOOLEAN
    BY <1>10 DEF DialSignal, CloseChan
  <2> QED
    BY <1>10, <2>3, <2>4 DEF DialSignal, client
<1> QED
  BY <1>1, <1>2, <1>3, <1>4, <1>5, <1>6, <1>7, <1>8, <1>9, <1>10 DEF Dial

LEMMA TypeCaller ==
    ASSUME TypeOK, NEW c \in Callers, Connect(c) \/ Close(c)
    PROVE  TypeOK'
<1> USE DEF TypeOK, Procs
<1>1. CASE Connect(c)
  BY <1>1 DEF Connect, Goto, DialSteps
<1>2. CASE CloseBegin(c)
  BY <1>2 DEF CloseBegin, DropConn, Goto, CloseSteps
<1>3. CASE CloseWait(c)
  BY <1>3 DEF CloseWait, Goto, CloseSteps, client
<1>4. CASE CloseFinish(c)
  BY <1>4 DEF CloseFinish, FreshChan, Least, Goto
<1> QED
  BY <1>1, <1>2, <1>3, <1>4 DEF Close

LEMMA TypeLoop ==
    ASSUME TypeOK, NEW l \in Loops, ReadLoop(l)
    PROVE  TypeOK'
<1> USE DEF TypeOK, Procs
<1>1. CASE LoopCheckStop(l)
  BY <1>1 DEF LoopCheckStop, Goto, LoopSteps, client
<1>2. CASE LoopPeek(l)
  BY <1>2 DEF LoopPeek, Goto, LoopSteps, client
<1>3. CASE LoopArm(l)
  BY <1>3 DEF LoopArm, Goto, LoopSteps, client
<1>4. CASE LoopBackoff(l)
  BY <1>4 DEF LoopBackoff, Goto, LoopSteps, client
<1>5. CASE LoopCheckDialing(l)
  BY <1>5 DEF LoopCheckDialing, Goto, LoopSteps, DialSteps, client
<1>6. CASE LoopWaited(l)
  BY <1>6 DEF LoopWaited, Goto, LoopSteps, client
<1>7. CASE LoopReadLine(l)
  <2>1. InitialDelay \in InitialDelay .. MaxDelay
    BY LifecycleAssumption
  <2> QED
    BY <1>7, <2>1 DEF LoopReadLine, Goto, LoopSteps, client
<1>8. CASE LoopReadError(l)
  <2>1. Doubled(backoff[l]) \in InitialDelay .. MaxDelay
    BY DoubledInRange
  <2> QED
    BY <1>8, <2>1 DEF LoopReadError, DropConn, Goto, LoopSteps
<1>9. CASE LoopCleanup(l)
  BY <1>9 DEF LoopCleanup, DropConn, Goto, LoopSteps
<1>10. CASE LoopCloseDone(l)
  BY <1>10 DEF LoopCloseDone, CloseChan, Goto, client
<1> QED
  BY <1>1, <1>2, <1>3, <1>4, <1>5, <1>6, <1>7, <1>8, <1>9, <1>10 DEF ReadLoop

LEMMA TypeNext == TypeOK /\ [Next]_vars => TypeOK'
<1> SUFFICES ASSUME TypeOK, [Next]_vars
             PROVE  TypeOK'
  OBVIOUS
<1>1. CASE SenderCloses
  BY <1>1 DEF SenderCloses, TypeOK, client, local
<1>2. CASE UNCHANGED vars
  BY <1>2 DEF TypeOK, vars, client, local
<1> QED
  BY <1>1, <1>2, TypeDial, TypeCaller, TypeLoop DEF Next

\* Every variable keeps its type; in particular the backoff of a readLoop
\* stays between initialReconnectDelay and maxReconnectDelay (client.go:471-508).
THEOREM TypeCorrect == Spec => []TypeOK
  BY TypeInit, TypeNext, PTL DEF Spec

(***************************************************************************)
(* The sockets, for any use of the client.                                 *)
(***************************************************************************)
SocketInv == TypeOK /\ HandshakeHasSocket /\ ConnectedIffConn /\ NoLeakedConn

\* Where a return from dialAndHandshake leaves every goroutine.
LEMMA DialReturnsMoves ==
    ASSUME TypeOK, NEW p \in Procs, NEW ok \in BOOLEAN, DialReturns(p, ok)
    PROVE  /\ pc'[p] \in {"idle", "top"}
           /\ \A q \in Procs : q # p /\ pc[q] # "off" => pc'[q] = pc[q]
           /\ \A q \in Procs : q # p /\ pc[q] = "off" => pc'[q] \in {"off", "top"}
<1>1. CASE p \in Callers /\ ~ok
  BY <1>1, LifecycleAssumption DEF DialReturns, TypeOK, Goto, Procs
<1>2. CASE p \in Callers /\ ok
  <2>1. PICK l \in Loops \ Running : pc' = [pc EXCEPT ![p] = "idle", ![l] = "top"]
    BY <1>2, LifecycleAssumption DEF DialReturns
  <2>2. l \in Procs /\ pc[l] = "off" /\ l # p
    BY <1>2, LifecycleAssumption DEF Running, Procs
  <2> QED
    BY <2>1, <2>2 DEF TypeOK
<1>3. CASE p \in Loops
  BY <1>3, LifecycleAssumption DEF DialReturns, TypeOK, Goto, Procs
<1> QED
  BY <1>1, <1>2, <1>3 DEF Procs

\* A step after which conn, connected and open are what they were, and in
\* which no handshake begins, moves to another socket, or ends.
LEMMA SocketFrame ==
    ASSUME SocketInv, TypeOK',
           UNCHANGED <<conn, connected, open>>,
           \A q \in Procs : pc'[q] = "handshake" <=> pc[q] = "handshake",
           \A q \in Procs : pc[q] = "handshake" => sock'[q] = sock[q]
    PROVE  SocketInv'
  BY DEF SocketInv, HandshakeHasSocket, ConnectedIffConn, NoLeakedConn

\* A step that drops c.conn.
LEMMA SocketDrop ==
    ASSUME SocketInv, TypeOK', DropConn,
           \A q \in Procs : pc'[q] = "handshake" <=> pc[q] = "handshake",
           \A q \in Procs : pc[q] = "handshake" => sock'[q] = sock[q]
    PROVE  SocketInv'
  BY DEF SocketInv, HandshakeHasSocket, ConnectedIffConn, NoLeakedConn, DropConn

LEMMA SocketDial ==
    ASSUME SocketInv, TypeOK', NEW p \in Procs, Dial(p)
    PROVE  SocketInv'
<1> USE DEF SocketInv
<1>1. CASE DialCAS(p)
  BY <1>1, SocketFrame DEF DialCAS, Goto, TypeOK
<1>2. CASE TakeDialDone(p)
  BY <1>2, SocketFrame DEF TakeDialDone, Goto, TypeOK, client
<1>3. CASE DialWaited(p)
  <2>1. DialReturns(p, conn # NoConn /\ connected)
    BY <1>3 DEF DialWaited
  <2>2. (conn # NoConn /\ connected) \in BOOLEAN
    OBVIOUS
  <2>3. \A q \in Procs : pc'[q] = "handshake" <=> pc[q] = "handshake"
    BY <1>3, <2>1, <2>2, DialReturnsMoves DEF DialWaited
  <2> QED
    BY <1>3, <2>3, SocketFrame DEF DialWaited, client
<1>4. CASE DialMakeDone(p)
  BY <1>4, SocketFrame DEF DialMakeDone, Goto, TypeOK
<1>5. CASE DialTcpFails(p)
  BY <1>5, SocketFrame DEF DialTcpFails, Goto, TypeOK, client
<1>6. CASE DialTcpOk(p)
  <2>1. PICK s \in FreshConn : open' = open \cup {s} /\ sock' = [sock EXCEPT ![p] = s]
    BY <1>6 DEF DialTcpOk
  <2>2. s \in Conns
    BY DEF FreshConn, Least
  <2>3. pc' = [pc EXCEPT ![p] = "handshake"] /\ pc[p] = "tcp"
    BY <1>6 DEF DialTcpOk, Goto
  <2>4. UNCHANGED <<conn, connected>>
    BY <1>6 DEF DialTcpOk, client
  <2>5. HandshakeHasSocket'
    BY <2>1, <2>2, <2>3 DEF HandshakeHasSocket, TypeOK
  <2>6. NoLeakedConn'
    BY <2>1, <2>3, <2>4 DEF NoLeakedConn, TypeOK
  <2> QED
    BY <2>4, <2>5, <2>6 DEF ConnectedIffConn
<1>7. CASE HandshakeFails(p)
  <2>1. /\ pc' = [pc EXCEPT ![p] = "unset fail"] /\ pc[p] = "handshake"
        /\ sock' = [sock EXCEPT ![p] = NoConn]
        /\ open' = open \ {sock[p]}
        /\ UNCHANGED <<conn, connected>>
    BY <1>7 DEF HandshakeFails, Goto, client
  <2>2. NoLeakedConn'
    BY <2>1 DEF NoLeakedConn, TypeOK
  <2>3. HandshakeHasSocket'
    BY <2>1 DEF HandshakeHasSocket, TypeOK
  <2> QED
    BY <2>1, <2>2, <2>3 DEF ConnectedIffConn
<1>8. CASE HandshakeOk(p)
  <2>1. /\ pc' = [pc EXCEPT ![p] = "unset ok"] /\ pc[p] = "handshake"
        /\ sock' = [sock EXCEPT ![p] = NoConn]
        /\ open' = open \ {conn}
        /\ conn' = sock[p] /\ connected' = TRUE
    BY <1>8 DEF HandshakeOk, Goto
  <2>2. sock[p] # NoConn
    BY <2>1, LifecycleAssumption DEF HandshakeHasSocket, NoConn
  <2>3. NoLeakedConn'
    BY <2>1 DEF NoLeakedConn, TypeOK
  <2>4. HandshakeHasSocket'
    BY <2>1 DEF HandshakeHasSocket, TypeOK
  <2> QED
    BY <2>1, <2>2, <2>3, <2>4 DEF ConnectedIffConn
<1>9. CASE DialUnset(p)
  BY <1>9, SocketFrame DEF DialUnset, Goto, TypeOK
<1>10. CASE DialSignal(p)
  <2>1. DialReturns(p, pc[p] = "signal ok")
    BY <1>10 DEF DialSignal
  <2>2. (pc[p] = "signal ok") \in BOOLEAN
    OBVIOUS
  <2>3. \A q \in Procs : pc'[q] = "handshake" <=> pc[q] = "handshake"
    BY <1>10, <2>1, <2>2, DialReturnsMoves DEF DialSignal
  <2> QED
    BY <1>10, <2>3, SocketFrame DEF DialSignal, client
<1> QED
  BY <1>1, <1>2, <1>3, <1>4, <1>5, <1>6, <1>7, <1>8, <1>9, <1>10 DEF Dial

LEMMA SocketCaller ==
    ASSUME SocketInv, TypeOK', NEW c \in Callers, Connect(c) \/ Close(c)
    PROVE  SocketInv'
<1> USE DEF SocketInv, Procs
<1>1. CASE Connect(c)
  BY <1>1, SocketFrame DEF Connect, Goto, TypeOK
<1>2. CASE CloseBegin(c)
  BY <1>2, SocketDrop DEF CloseBegin, Goto, TypeOK
<1>3. CASE CloseWait(c)
  BY <1>3, SocketFrame DEF CloseWait, Goto, TypeOK, client
<1>4. CASE CloseFinish(c)
  BY <1>4, SocketFrame DEF CloseFinish, Goto, TypeOK
<1> QED
  BY <1>1, <1>2, <1>3, <1>4 DEF Close

LEMMA SocketLoop ==
    ASSUME SocketInv, TypeOK', NEW l \in Loops, ReadLoop(l)
    PROVE  SocketInv'
<1> USE DEF SocketInv, Procs
<1>1. CASE LoopCheckStop(l)
  BY <1>1, SocketFrame DEF LoopCheckStop, Goto, TypeOK, client
<1>2. CASE LoopPeek(l)
  BY <1>2, SocketFrame DEF LoopPeek, Goto, TypeOK, client
<1>3. CASE LoopArm(l)
  BY <1>3, SocketFrame DEF LoopArm, Goto, TypeOK, client
<1>4. CASE LoopBackoff(l)
  BY <1>4, SocketFrame DEF LoopBackoff, Goto, TypeOK, client
<1>5. CASE LoopCheckDialing(l)
  BY <1>5, SocketFrame DEF LoopCheckDialing, Goto, TypeOK, client
<1>6. CASE LoopWaited(l)
  BY <1>6, SocketFrame DEF LoopWaited, Goto, TypeOK, client
<1>7. CASE LoopReadLine(l)
  BY <1>7, SocketFrame DEF LoopReadLine, Goto, TypeOK, client
<1>8. CASE LoopReadError(l)
  BY <1>8, SocketDrop DEF LoopReadError, Goto, TypeOK
<1>9. CASE LoopCleanup(l)
  BY <1>9, SocketDrop DEF LoopCleanup, Goto, TypeOK
<1>10. CASE LoopCloseDone(l)
  BY <1>10, SocketFrame DEF LoopCloseDone, Goto, TypeOK, client
<1> QED
  BY <1>1, <1>2, <1>3, <1>4, <1>5, <1>6, <1>7, <1>8, <1>9, <1>10 DEF ReadLoop

LEMMA SocketNext == SocketInv /\ [Next]_vars => SocketInv'
<1> SUFFICES ASSUME SocketInv, [Next]_vars
             PROVE  SocketInv'
  OBVIOUS
<1>1. TypeOK'
  BY TypeNext DEF SocketInv
<1>2. CASE SenderCloses
  BY <1>1, <1>2 DEF SenderCloses, SocketInv, HandshakeHasSocket,
                    ConnectedIffConn, NoLeakedConn, client, local
<1>3. CASE UNCHANGED vars
  BY <1>1, <1>3, SocketFrame DEF vars, client, local
<1> QED
  BY <1>1, <1>2, <1>3, SocketDial, SocketCaller, SocketLoop DEF Next

LEMMA SocketInit == Init => SocketInv
  BY TypeInit
  DEF Init, SocketInv, HandshakeHasSocket, ConnectedIffConn, NoLeakedConn

LEMMA SocketInvariant == Spec => []SocketInv
  BY SocketInit, SocketNext, PTL DEF Spec

\* c.connected and c.conn never disagree, however many goroutines connect,
\* close and read (client.go:377-387, 417-425, 497-504, 933-939).
THEOREM ConnectedIffConnCorrect == Spec => []ConnectedIffConn
<1>1. SocketInv => ConnectedIffConn
  BY DEF SocketInv
<1> QED
  BY <1>1, SocketInvariant, PTL

\* No socket is lost by any interleaving of dials, failures, read errors and
\* Closes: each is c.conn or in the hands of a handshake.
THEOREM NoLeakedConnCorrect == Spec => []NoLeakedConn
<1>1. SocketInv => NoLeakedConn
  BY DEF SocketInv
<1> QED
  BY <1>1, SocketInvariant, PTL

(***************************************************************************)
(* The serial use: one goroutine calls Connect and Close, one after the    *)
(* other.                                                                  *)
(***************************************************************************)
SerialUse == \A c, d \in Callers : c = d

\* Where the goroutines can be: Callers and Loops keep to their own code.
Kinds ==
    /\ \A c \in Callers : pc[c] \in {"idle"} \cup DialSteps \cup CloseSteps
    /\ \A l \in Loops : pc[l] \in {"off"} \cup DialSteps \cup LoopSteps

\* The three channels of the client are three.
ChannelsDiffer ==
    /\ stopCh # readLoopDone
    /\ dialDone \notin {stopCh, readLoopDone}

\* Between make(dialDone) and close(dialDone).
Dialled == {"tcp", "handshake", "unset ok", "unset fail", "signal ok", "signal fail"}

(***************************************************************************)
(* The inductive invariant of the serial use.  A readLoop excludes a       *)
(* Connect and the last step of a Close; its channel readLoopDone is       *)
(* closed only by its end, and stays so until Close replaces it; a         *)
(* dialDone that is still to be closed is open.                            *)
(***************************************************************************)
CallerInv ==
    \A c \in Callers :
        /\ pc[c] \in DialSteps => started /\ Running = {} /\ readLoopDone \notin closed
        /\ pc[c] = "closefin" => Running = {}
        /\ pc[c] = "closewait" => started /\ waitCh[c] = readLoopDone
        /\ pc[c] = "idle" /\ ~started => readLoopDone \notin closed
        /\ ~started => Running = {} /\ pc[c] \in {"idle", "closefin"}

LoopInv ==
    \A l \in Loops : pc[l] # "off" =>
        /\ readLoopDone \notin closed
        /\ pc[l] = "closedone" => conn = NoConn

DialInv ==
    \A p \in Procs : pc[p] \in Dialled => dialDone # NoChan /\ dialDone \notin closed

SerialInv ==
    /\ SocketInv /\ Kinds /\ ChannelsDiffer
    /\ OneReadLoop /\ ServedConnection /\ NoPanic
    /\ CallerInv /\ LoopInv /\ DialInv

\* Two goroutines never dial at the same time.
LEMMA DialAlone ==
    ASSUME SerialUse, SerialInv, NEW p \in Procs, pc[p] \in DialSteps
    PROVE  \A q \in Procs : q # p => pc[q] \notin DialSteps
<1>1. CASE p \in Callers
  BY <1>1, LifecycleAssumption
  DEF SerialUse, SerialInv, CallerInv, Running, Procs, DialSteps
<1>2. CASE p \in Loops
  BY <1>2, LifecycleAssumption
  DEF SerialInv, CallerInv, OneReadLoop, Running, Procs, DialSteps
<1> QED
  BY <1>1, <1>2 DEF Procs

\* A return from dialAndHandshake, whatever else the step does with closed.
LEMMA SerialReturn ==
    ASSUME SerialUse, SerialInv, SocketInv', NEW p \in Procs, NEW ok \in BOOLEAN,
           DialReturns(p, ok),
           pc[p] \in {"dialwait", "signal ok", "signal fail"},
           pc[p] = "signal ok" => ok,
           UNCHANGED client, crashed' = FALSE,
           readLoopDone \in closed' <=> readLoopDone \in closed,
           \A q \in Procs : q # p => waitCh'[q] = waitCh[q]
    PROVE  SerialInv'
<1> USE LifecycleAssumption
<1>1. TypeOK
  BY DEF SerialInv, SocketInv
<1>2. /\ pc[p] \in DialSteps
      /\ \A q \in Procs : q # p => pc[q] \notin DialSteps
  BY DialAlone DEF DialSteps
<1>3. DialInv'
  BY <1>1, <1>2, DialReturnsMoves DEF DialInv, Dialled, DialSteps
<1>4. ChannelsDiffer' /\ NoPanic'
  BY DEF SerialInv, ChannelsDiffer, NoPanic, client
<1>5. CASE p \in Callers /\ ~ok
  <2>1. pc' = [pc EXCEPT ![p] = "idle"]
    BY <1>5 DEF DialReturns, Goto
  <2>2. started /\ Running = {} /\ readLoopDone \notin closed
    BY <1>2, <1>5 DEF SerialInv, CallerInv
  <2>3. Running' = {}
    <3>1. \A l \in Loops : pc[l] = "off" /\ pc'[l] = pc[l]
      BY <1>1, <1>5, <2>1, <2>2 DEF Running, TypeOK, Procs
    <3> QED
      BY <3>1 DEF Running
  <2>4. Kinds'
    BY <1>1, <1>5, <2>1 DEF SerialInv, Kinds, TypeOK, Procs
  <2>5. CallerInv'
    BY <1>1, <1>5, <2>1, <2>2, <2>3
    DEF SerialUse, CallerInv, client, TypeOK, Procs, DialSteps
  <2>6. LoopInv' /\ OneReadLoop'
    BY <2>3 DEF LoopInv, OneReadLoop, Running
  <2>7. conn = NoConn
    BY <1>5, <2>2 DEF SerialUse, SerialInv, ServedConnection
  <2> QED
    BY <1>3, <1>4, <2>4, <2>5, <2>6, <2>7 DEF SerialInv, ServedConnection, client
<1>6. CASE p \in Callers /\ ok
  <2>1. PICK l \in Loops \ Running : pc' = [pc EXCEPT ![p] = "idle", ![l] = "top"]
    BY <1>6 DEF DialReturns
  <2>2. started /\ Running = {} /\ readLoopDone \notin closed
    BY <1>2, <1>6 DEF SerialInv, CallerInv
  <2>3. Running' = {l} /\ pc'[l] = "top" /\ pc'[p] = "idle"
    BY <1>1, <1>6, <2>1, <2>2 DEF Running, TypeOK, Procs
  <2>4. Kinds'
    BY <1>1, <1>6, <2>1 DEF SerialInv, Kinds, TypeOK, Procs, LoopSteps
  <2>5. CallerInv'
    BY <1>6, <2>2, <2>3 DEF SerialUse, CallerInv, client, DialSteps
  <2>6. LoopInv' /\ OneReadLoop'
    BY <2>2, <2>3 DEF LoopInv, OneReadLoop, Running, client
  <2> QED
    BY <1>3, <1>4, <2>3, <2>4, <2>5, <2>6 DEF SerialInv, ServedConnection
<1>7. CASE p \in Loops
  <2>1. pc' = [pc EXCEPT ![p] = "top"]
    BY <1>7 DEF DialReturns, Goto
  <2>2. Running = {p} /\ Running' = {p} /\ pc'[p] = "top"
    <3>1. p \in Running
      BY <1>2, <1>7 DEF Running, DialSteps
    <3>2. \A l \in Loops : l # p => pc[l] = "off" /\ pc'[l] = "off"
      BY <1>1, <2>1, <3>1 DEF Running, SerialInv, OneReadLoop, TypeOK, Procs
    <3>3. pc'[p] = "top"
      BY <1>1, <2>1 DEF TypeOK
    <3> QED
      BY <1>7, <3>1, <3>2, <3>3 DEF Running
  <2>3. readLoopDone \notin closed
    BY <1>2, <1>7 DEF SerialInv, LoopInv, DialSteps
  <2>4. Kinds'
    BY <1>1, <1>7, <2>1 DEF SerialInv, Kinds, TypeOK, Procs, LoopSteps
  <2>5. \A c \in Callers : pc'[c] = pc[c] /\ waitCh'[c] = waitCh[c]
    BY <1>1, <1>7, <2>1 DEF TypeOK, Procs
  <2>6. CallerInv'
    BY <2>2, <2>3, <2>5 DEF SerialInv, CallerInv, client
  <2>7. LoopInv' /\ OneReadLoop'
    BY <2>2, <2>3 DEF LoopInv, OneReadLoop, Running, client
  <2> QED
    BY <1>3, <1>4, <2>2, <2>4, <2>6, <2>7 DEF SerialInv, ServedConnection
<1> QED
  BY <1>5, <1>6, <1>7 DEF Procs

LEMMA SerialDial ==
    ASSUME SerialUse, SerialInv, SocketInv', NEW p \in Procs, Dial(p)
    PROVE  SerialInv'
<1> USE DEF SerialUse, SerialInv, Kinds, ChannelsDiffer, OneReadLoop,
            ServedConnection, NoPanic, CallerInv, LoopInv, DialInv, Running,
            Dialled, DialSteps, CloseSteps, LoopSteps, Procs
<1> USE LifecycleAssumption
<1>0. TypeOK
  BY DEF SocketInv
<1>1. CASE DialCAS(p)
  BY <1>0, <1>1 DEF DialCAS, Goto, TypeOK
<1>2. CASE TakeDialDone(p)
  <2>1. PICK label \in {"dialwait", "loopwait"} :
          /\ pc' = [pc EXCEPT ![p] = label]
          /\ label = "dialwait" <=> pc[p] = "dialchan"
    BY <1>2 DEF TakeDialDone, Goto
  <2>2. /\ pc[p] \in {"dialchan", "loopchan"}
        /\ UNCHANGED <<started, conn, dialDone, stopCh, readLoopDone, closed, crashed>>
        /\ waitCh' = [waitCh EXCEPT ![p] = dialDone]
    BY <1>2 DEF TakeDialDone, client
  <2>3. ASSUME NEW c \in Callers, pc[c] = "closewait"
        PROVE  waitCh'[c] = waitCh[c]
    <3> HIDE DEF SerialInv
    <3> QED
      BY <1>0, <2>2, <2>3 DEF TypeOK
  <2>4. Kinds'
    BY <1>0, <2>1, <2>2 DEF TypeOK
  <2>5. OneReadLoop' /\ LoopInv' /\ DialInv'
    BY <1>0, <2>1, <2>2 DEF TypeOK
  <2>6. CallerInv'
    <3>1. \A l \in Loops : pc'[l] # "off" <=> pc[l] # "off"
      BY <1>0, <2>1, <2>2 DEF TypeOK
    <3>2. Running' = Running
      BY <3>1
    <3>3. \A c \in Callers : \/ pc'[c] = pc[c]
                             \/ pc[c] = "dialchan" /\ pc'[c] = "dialwait"
      BY <1>0, <2>1, <2>2 DEF TypeOK
    <3> HIDE DEF SerialInv, Running
    <3> QED
      BY <2>2, <2>3, <3>2, <3>3 DEF SerialInv
  <2>7. ChannelsDiffer' /\ NoPanic' /\ ServedConnection'
    BY <1>0, <2>1, <2>2 DEF TypeOK
  <2> QED
    BY <2>4, <2>5, <2>6, <2>7
<1>3. CASE DialWaited(p)
  <2> HIDE DEF SerialInv, Procs, DialSteps, LoopSteps, CloseSteps, SerialUse
  <2>1. (conn # NoConn /\ connected) \in BOOLEAN
    OBVIOUS
  <2>2. /\ DialReturns(p, conn # NoConn /\ connected)
        /\ pc[p] = "dialwait"
        /\ UNCHANGED <<client, closed, crashed>>
        /\ waitCh' = [waitCh EXCEPT ![p] = NoChan]
    BY <1>3 DEF DialWaited
  <2>3. crashed' = FALSE
    BY <1>0, <2>2 DEF SerialInv, TypeOK
  <2>4. \A q \in Procs : q # p => waitCh'[q] = waitCh[q]
    BY <1>0, <2>2 DEF TypeOK
  <2> QED
    BY <2>1, <2>2, <2>3, <2>4, SerialReturn DEF client
<1>4. CASE DialMakeDone(p)
  <2>1. PICK ch \in FreshChan : dialDone' = ch /\ closed' = closed \cap Live
    BY <1>4 DEF DialMakeDone
  <2>2. ch \in Chans /\ ch \notin Live
    BY DEF FreshChan, Least
  <2>3. stopCh \in Live /\ readLoopDone \in Live
    BY DEF Live
  <2>4. /\ dialDone' # NoChan /\ dialDone' \notin closed'
        /\ dialDone' \notin {stopCh, readLoopDone}
        /\ readLoopDone \in closed' <=> readLoopDone \in closed
    BY <2>1, <2>2, <2>3 DEF NoChan
  <2>5. /\ pc[p] = "mkdone" /\ pc' = [pc EXCEPT ![p] = "tcp"]
        /\ UNCHANGED <<started, conn, stopCh, readLoopDone, waitCh, crashed>>
    BY <1>4 DEF DialMakeDone, Goto
  <2> QED
    BY <1>0, <2>4, <2>5 DEF TypeOK
<1>5. CASE DialTcpFails(p)
  BY <1>0, <1>5 DEF DialTcpFails, Goto, TypeOK, client
<1>6. CASE DialTcpOk(p)
  BY <1>0, <1>6 DEF DialTcpOk, Goto, TypeOK, client
<1>7. CASE HandshakeFails(p)
  BY <1>0, <1>7 DEF HandshakeFails, Goto, TypeOK, client
<1>8. CASE HandshakeOk(p)
  <2>1. /\ pc[p] = "handshake" /\ pc' = [pc EXCEPT ![p] = "unset ok"]
        /\ UNCHANGED <<started, dialDone, stopCh, readLoopDone, closed, waitCh,
                       crashed>>
    BY <1>8 DEF HandshakeOk, Goto
  <2>2. LoopInv'
    <3>1. CASE p \in Callers
      BY <1>0, <2>1, <3>1 DEF TypeOK
    <3>2. CASE p \in Loops
      <4>1. \A l \in Loops : l # p => pc[l] = "off"
        BY <2>1, <3>2
      <4> QED
        BY <1>0, <2>1, <3>2, <4>1 DEF TypeOK
    <3> QED
      BY <3>1, <3>2
  <2>3. ServedConnection'
    BY <1>0, <2>1 DEF TypeOK
  <2>4. CallerInv' /\ DialInv'
    BY <1>0, <2>1 DEF TypeOK
  <2>5. Kinds' /\ ChannelsDiffer' /\ OneReadLoop' /\ NoPanic'
    BY <1>0, <2>1 DEF TypeOK
  <2> QED
    BY <2>2, <2>3, <2>4, <2>5
<1>9. CASE DialUnset(p)
  BY <1>0, <1>9 DEF DialUnset, Goto, TypeOK
<1>10. CASE DialSignal(p)
  <2>1. dialDone \notin closed \cup {NoChan} /\ dialDone # readLoopDone
    BY <1>10 DEF DialSignal
  <2> HIDE DEF SerialInv, Procs, DialSteps, LoopSteps, CloseSteps, SerialUse
  <2>2. /\ DialReturns(p, pc[p] = "signal ok")
        /\ pc[p] \in {"signal ok", "signal fail"}
        /\ UNCHANGED <<client, waitCh>>
        /\ closed' = closed \cup {dialDone}
        /\ UNCHANGED crashed
    BY <1>10, <2>1 DEF DialSignal, CloseChan
  <2>3. crashed' = FALSE
    BY <1>0, <2>2 DEF SerialInv, TypeOK
  <2>4. (pc[p] = "signal ok") \in BOOLEAN
    OBVIOUS
  <2> QED
    BY <2>1, <2>2, <2>3, <2>4, SerialReturn DEF client
<1> QED
  BY <1>1, <1>2, <1>3, <1>4, <1>5, <1>6, <1>7, <1>8, <1>9, <1>10 DEF Dial

\* A step of the only caller c that moves it to label.
LEMMA CallerMoves ==
    ASSUME SerialUse, TypeOK, Kinds, NEW c \in Callers,
           NEW label \in {"idle", "dial"} \cup CloseSteps, Goto(c, label)
    PROVE  /\ pc'[c] = label /\ Kinds' /\ Running' = Running
           /\ \A l \in Loops : pc'[l] = pc[l]
           /\ \A d \in Callers : d = c
<1>1. pc'[c] = label
  BY DEF Goto, TypeOK, Procs
<1>2. \A l \in Loops : pc'[l] = pc[l]
  BY LifecycleAssumption DEF Goto, TypeOK, Procs
<1>3. \A d \in Callers : d = c
  BY DEF SerialUse
<1> QED
  BY <1>1, <1>2, <1>3 DEF Kinds, Running, DialSteps

LEMMA SerialCaller ==
    ASSUME SerialUse, SerialInv, SocketInv', NEW c \in Callers, Connect(c) \/ Close(c)
    PROVE  SerialInv'
<1> USE LifecycleAssumption
<1>0. TypeOK /\ Kinds
  BY DEF SerialInv, SocketInv
<1>1. CASE Connect(c)
  <2>1. /\ pc[c] = "idle" /\ ~started /\ started'
        /\ Goto(c, "dial")
        /\ UNCHANGED <<conn, dialDone, stopCh, readLoopDone, closed, waitCh, crashed>>
    BY <1>1 DEF Connect
  <2>2. /\ pc'[c] = "dial" /\ Kinds' /\ Running' = Running
        /\ \A l \in Loops : pc'[l] = pc[l]
        /\ \A d \in Callers : d = c
    BY <1>0, <2>1, CallerMoves
  <2>3. CallerInv'
    BY <2>1, <2>2 DEF SerialInv, CallerInv, DialSteps
  <2>4. LoopInv' /\ OneReadLoop' /\ ServedConnection'
    BY <2>1, <2>2 DEF SerialInv, CallerInv, LoopInv, OneReadLoop, ServedConnection
  <2>5. DialInv'
    BY <2>1, <2>2 DEF SerialInv, DialInv, Dialled, Procs
  <2> QED
    BY <2>1, <2>2, <2>3, <2>4, <2>5 DEF SerialInv, ChannelsDiffer, NoPanic
<1>2. CASE CloseBegin(c)
  <2>1. /\ pc[c] = "idle"
        /\ closed' = closed \cup {stopCh}
        /\ Goto(c, IF started THEN "closewait" ELSE "closefin")
        /\ waitCh' = [waitCh EXCEPT ![c] = IF started THEN readLoopDone ELSE NoChan]
        /\ conn' = NoConn
        /\ UNCHANGED <<started, dialDone, stopCh, readLoopDone, crashed>>
    BY <1>2 DEF CloseBegin, DropConn
  <2>2. (IF started THEN "closewait" ELSE "closefin") \in {"idle", "dial"} \cup CloseSteps
    BY DEF CloseSteps
  <2>3. /\ pc'[c] = IF started THEN "closewait" ELSE "closefin"
        /\ Kinds' /\ Running' = Running
        /\ \A l \in Loops : pc'[l] = pc[l]
        /\ \A d \in Callers : d = c
    BY <1>0, <2>1, <2>2, CallerMoves
  <2>4. /\ readLoopDone \in closed' <=> readLoopDone \in closed
        /\ dialDone \in closed' <=> dialDone \in closed
    BY <2>1 DEF SerialInv, ChannelsDiffer
  <2>5. waitCh'[c] = IF started THEN readLoopDone ELSE NoChan
    BY <1>0, <2>1 DEF TypeOK, Procs
  <2>6. CallerInv'
    BY <2>1, <2>3, <2>4, <2>5 DEF SerialInv, CallerInv, DialSteps
  <2>7. LoopInv' /\ OneReadLoop' /\ ServedConnection'
    BY <2>1, <2>3, <2>4 DEF SerialInv, LoopInv, OneReadLoop, ServedConnection
  <2>8. DialInv'
    BY <2>1, <2>3, <2>4 DEF SerialInv, DialInv, Dialled, Procs
  <2> QED
    BY <2>1, <2>3, <2>6, <2>7, <2>8 DEF SerialInv, ChannelsDiffer, NoPanic
<1>3. CASE CloseWait(c)
  <2>1. /\ pc[c] = "closewait" /\ waitCh[c] \in closed
        /\ Goto(c, "closefin")
        /\ UNCHANGED <<started, conn, dialDone, stopCh, readLoopDone, closed, crashed>>
    BY <1>3 DEF CloseWait, client
  <2>2. /\ pc'[c] = "closefin" /\ Kinds' /\ Running' = Running
        /\ \A l \in Loops : pc'[l] = pc[l]
        /\ \A d \in Callers : d = c
    BY <1>0, <2>1, CallerMoves DEF CloseSteps
  <2>3. started /\ Running = {}
    BY <2>1 DEF SerialInv, CallerInv, LoopInv, Running
  <2>4. CallerInv'
    BY <2>1, <2>2, <2>3 DEF CallerInv, DialSteps
  <2>5. LoopInv' /\ OneReadLoop' /\ ServedConnection'
    BY <2>1, <2>2 DEF SerialInv, LoopInv, OneReadLoop, ServedConnection
  <2>6. DialInv'
    BY <2>1, <2>2 DEF SerialInv, DialInv, Dialled, Procs
  <2> QED
    BY <2>1, <2>2, <2>4, <2>5, <2>6 DEF SerialInv, ChannelsDiffer, NoPanic
<1>4. CASE CloseFinish(c)
  <2>1. PICK s \in FreshChan :
          \E d \in Least(Chans \ (Live \cup {s})) :
            stopCh' = s /\ readLoopDone' = d /\ closed' = closed \cap Live
    BY <1>4 DEF CloseFinish
  <2>2. stopCh' \notin Live /\ readLoopDone' \notin Live \cup {stopCh'}
    BY <2>1 DEF FreshChan, Least
  <2>3. /\ pc[c] = "closefin" /\ Goto(c, "idle")
        /\ started' = FALSE
        /\ UNCHANGED <<conn, dialDone, crashed>>
    BY <1>4 DEF CloseFinish
  <2>4. readLoopDone' \notin closed' /\ ChannelsDiffer'
    BY <2>1, <2>2, <2>3 DEF ChannelsDiffer, Live
  <2>5. /\ pc'[c] = "idle" /\ Kinds' /\ Running' = Running
        /\ \A l \in Loops : pc'[l] = pc[l]
        /\ \A d \in Callers : d = c
    BY <1>0, <2>3, CallerMoves
  <2>6. Running = {}
    BY <2>3 DEF SerialInv, CallerInv
  <2>7. CallerInv'
    BY <2>3, <2>4, <2>5, <2>6 DEF CallerInv, DialSteps
  <2>8. LoopInv' /\ OneReadLoop' /\ ServedConnection'
    BY <2>3, <2>5, <2>6
    DEF SerialInv, LoopInv, OneReadLoop, ServedConnection, Running
  <2>9. DialInv'
    BY <2>5, <2>6 DEF DialInv, Dialled, Running, Procs
  <2> QED
    BY <2>3, <2>4, <2>5, <2>7, <2>8, <2>9 DEF SerialInv, NoPanic
<1> QED
  BY <1>1, <1>2, <1>3, <1>4 DEF Close

\* A step of the only running readLoop l that moves it to label.
LEMMA LoopMoves ==
    ASSUME SerialInv, NEW l \in Loops, pc[l] # "off",
           NEW label \in {"dial"} \cup LoopSteps, Goto(l, label)
    PROVE  /\ pc'[l] = label /\ Kinds' /\ OneReadLoop' /\ Running' = Running
           /\ \A c \in Callers : /\ pc'[c] = pc[c] /\ started
                                 /\ pc[c] \notin DialSteps \cup {"closefin"}
           /\ \A m \in Loops : m # l => pc[m] = "off" /\ pc'[m] = "off"
           /\ readLoopDone \notin closed
<1> USE LifecycleAssumption
<1>1. TypeOK
  BY DEF SerialInv, SocketInv
<1>2. pc'[l] = label /\ label # "off"
  BY <1>1 DEF Goto, TypeOK, Procs, LoopSteps
<1>3. \A c \in Callers : pc'[c] = pc[c]
  BY <1>1 DEF Goto, TypeOK, Procs
<1>4. \A m \in Loops : m # l => pc[m] = "off" /\ pc'[m] = "off"
  BY <1>1 DEF SerialInv, OneReadLoop, Running, Goto, TypeOK, Procs
<1>5. Running = {l} /\ Running' = {l}
  BY <1>2, <1>4 DEF Running
<1>6. \A c \in Callers : started /\ pc[c] \notin DialSteps \cup {"closefin"}
  BY <1>5 DEF SerialInv, CallerInv
<1>7. readLoopDone \notin closed
  BY DEF SerialInv, LoopInv
<1>8. Kinds'
  BY <1>2, <1>3, <1>4 DEF SerialInv, Kinds, DialSteps
<1> QED
  BY <1>2, <1>3, <1>4, <1>5, <1>6, <1>7, <1>8 DEF OneReadLoop

\* Such a step that closes no channel and installs no connection.
LEMMA LoopFrame ==
    ASSUME SerialInv, SocketInv', NEW l \in Loops, pc[l] # "off",
           NEW label \in {"dial"} \cup (LoopSteps \ {"closedone"}), Goto(l, label),
           UNCHANGED <<started, dialDone, stopCh, readLoopDone, closed, crashed>>,
           \A c \in Callers : waitCh'[c] = waitCh[c]
    PROVE  SerialInv'
<1>1. /\ pc'[l] = label /\ Kinds' /\ OneReadLoop' /\ Running' = Running
      /\ \A c \in Callers : /\ pc'[c] = pc[c] /\ started
                            /\ pc[c] \notin DialSteps \cup {"closefin"}
      /\ \A m \in Loops : m # l => pc[m] = "off" /\ pc'[m] = "off"
      /\ readLoopDone \notin closed
  BY LoopMoves
<1>2. CallerInv'
  BY <1>1 DEF CallerInv, SerialInv
<1>3. LoopInv'
  BY <1>1 DEF LoopInv
<1>4. DialInv'
  BY <1>1 DEF DialInv, Dialled, DialSteps, LoopSteps, Procs
<1>5. ServedConnection'
  BY <1>1 DEF ServedConnection, Running
<1> QED
  BY <1>1, <1>2, <1>3, <1>4, <1>5 DEF SerialInv, ChannelsDiffer, NoPanic

LEMMA SerialLoop ==
    ASSUME SerialInv, SocketInv', NEW l \in Loops, ReadLoop(l)
    PROVE  SerialInv'
<1> USE LifecycleAssumption
<1>0. TypeOK
  BY DEF SerialInv, SocketInv
<1>1. CASE LoopCheckStop(l)
  <2>1. (IF stopCh \in closed THEN "cleanup" ELSE "peek") \in LoopSteps \ {"closedone"}
    BY DEF LoopSteps
  <2> QED
    BY <1>1, <2>1, LoopFrame DEF LoopCheckStop, client
<1>2. CASE LoopPeek(l)
  <2>1. (IF conn = NoConn THEN "arm" ELSE "read") \in LoopSteps \ {"closedone"}
    BY DEF LoopSteps
  <2> QED
    BY <1>2, <2>1, LoopFrame DEF LoopPeek, client
<1>3. CASE LoopArm(l)
  BY <1>0, <1>3, LoopFrame DEF LoopArm, client, LoopSteps, TypeOK, Procs
<1>4. CASE LoopBackoff(l)
  <2>1. PICK label \in {"chkdial", "cleanup"} : Goto(l, label)
    BY <1>4 DEF LoopBackoff
  <2> QED
    BY <1>0, <1>4, <2>1, LoopFrame DEF LoopBackoff, client, LoopSteps, TypeOK, Procs
<1>5. CASE LoopCheckDialing(l)
  <2>1. (IF dialing THEN "loopchan" ELSE "dial")
           \in {"dial"} \cup (LoopSteps \ {"closedone"})
    BY DEF LoopSteps
  <2> QED
    BY <1>5, <2>1, LoopFrame DEF LoopCheckDialing, client
<1>6. CASE LoopWaited(l)
  BY <1>0, <1>6, LoopFrame DEF LoopWaited, client, LoopSteps, TypeOK, Procs
<1>7. CASE LoopReadLine(l)
  BY <1>7, LoopFrame DEF LoopReadLine, client, LoopSteps
<1>8. CASE LoopReadError(l)
  BY <1>8, LoopFrame DEF LoopReadError, LoopSteps
<1>9. CASE LoopCleanup(l)
  <2>1. /\ pc[l] = "cleanup" /\ Goto(l, "closedone") /\ conn' = NoConn
        /\ UNCHANGED <<started, dialDone, stopCh, readLoopDone, closed, waitCh, crashed>>
    BY <1>9 DEF LoopCleanup, DropConn
  <2>2. /\ pc'[l] = "closedone" /\ Kinds' /\ OneReadLoop' /\ Running' = Running
        /\ \A c \in Callers : /\ pc'[c] = pc[c] /\ started
                              /\ pc[c] \notin DialSteps \cup {"closefin"}
        /\ \A m \in Loops : m # l => pc[m] = "off" /\ pc'[m] = "off"
        /\ readLoopDone \notin closed
    BY <2>1, LoopMoves DEF LoopSteps
  <2>3. CallerInv' /\ LoopInv'
    BY <2>1, <2>2 DEF SerialInv, CallerInv, LoopInv
  <2>4. DialInv'
    BY <2>2 DEF DialInv, Dialled, DialSteps, Procs
  <2> QED
    BY <2>1, <2>2, <2>3, <2>4
    DEF SerialInv, ChannelsDiffer, NoPanic, ServedConnection
<1>10. CASE LoopCloseDone(l)
  <2>1. pc[l] = "closedone" /\ pc' = [pc EXCEPT ![l] = "off"]
    BY <1>10 DEF LoopCloseDone, Goto
  <2>2. readLoopDone \notin closed /\ conn = NoConn
    BY <2>1 DEF SerialInv, LoopInv
  <2>3. /\ closed' = closed \cup {readLoopDone}
        /\ UNCHANGED <<client, waitCh, crashed>>
    BY <1>0, <1>10, <2>2 DEF LoopCloseDone, CloseChan, TypeOK, NoChan
  <2>4. \A m \in Loops : pc'[m] = "off"
    BY <1>0, <2>1 DEF SerialInv, OneReadLoop, Running, TypeOK, Procs
  <2>5. l \in Running
    BY <2>1 DEF Running
  <2>6. \A c \in Callers : /\ pc'[c] = pc[c] /\ started
                           /\ pc[c] \notin DialSteps \cup {"closefin"}
    BY <1>0, <2>1, <2>5 DEF SerialInv, CallerInv, TypeOK, Procs
  <2>7. Kinds' /\ OneReadLoop' /\ LoopInv'
    BY <2>4, <2>6 DEF SerialInv, Kinds, OneReadLoop, LoopInv, Running
  <2>8. CallerInv'
    BY <2>3, <2>6 DEF SerialInv, CallerInv, client
  <2>9. DialInv'
    BY <2>4, <2>6 DEF DialInv, Dialled, DialSteps, Procs
  <2> QED
    BY <2>2, <2>3, <2>7, <2>8, <2>9
    DEF SerialInv, ChannelsDiffer, NoPanic, ServedConnection, client
<1> QED
  BY <1>1, <1>2, <1>3, <1>4, <1>5, <1>6, <1>7, <1>8, <1>9, <1>10 DEF ReadLoop

LEMMA SerialInit == Init => SerialInv
<1> SUFFICES ASSUME Init PROVE SerialInv
  OBVIOUS
<1>1. SocketInv
  BY SocketInit
<1>2. \A p \in Procs : pc[p] = IF p \in Callers THEN "idle" ELSE "off"
  BY DEF Init
<1>3. Running = {}
  BY <1>2, LifecycleAssumption DEF Running, Procs
<1>4. Kinds
  BY <1>2, LifecycleAssumption DEF Kinds, Procs
<1>5. ChannelsDiffer
  BY LifecycleAssumption DEF Init, ChannelsDiffer, Least, NoChan
<1>6. CallerInv
  BY <1>2, <1>3 DEF Init, CallerInv, DialSteps, Procs
<1>7. LoopInv /\ OneReadLoop
  BY <1>3 DEF LoopInv, OneReadLoop, Running
<1>8. DialInv
  BY <1>2 DEF DialInv, Dialled
<1> QED
  BY <1>1, <1>4, <1>5, <1>6, <1>7, <1>8
  DEF Init, SerialInv, ServedConnection, NoPanic

LEMMA SerialNext ==
    ASSUME SerialUse, SerialInv, [Next]_vars
    PROVE  SerialInv'
<1>1. SocketInv'
  BY SocketNext DEF SerialInv
<1>2. CASE SenderCloses
  BY <1>1, <1>2
  DEF SenderCloses, client, local, SerialInv, Kinds, ChannelsDiffer, OneReadLoop,
      ServedConnection, NoPanic, CallerInv, LoopInv, DialInv, Running
<1>3. CASE UNCHANGED vars
  BY <1>1, <1>3
  DEF vars, client, local, SerialInv, Kinds, ChannelsDiffer, OneReadLoop,
      ServedConnection, NoPanic, CallerInv, LoopInv, DialInv, Running
<1> QED
  BY <1>1, <1>2, <1>3, SerialDial, SerialCaller, SerialLoop DEF Next

LEMMA SerialInvariant ==
    ASSUME NEW owner, Callers = {owner}
    PROVE  Spec => []SerialInv
<1>1. SerialUse
  BY DEF SerialUse
<1>2. SerialInv /\ [Next]_vars => SerialInv'
  BY <1>1, SerialNext
<1> QED
  BY <1>2, SerialInit, PTL DEF Spec

\* An owner that connects and closes in turn never has two readLoops,
\* through any number of failed Connects, reconnections and Closes
\* (client.go:70, 183-202, 942-953).
THEOREM OneReadLoopCorrect ==
    ASSUME NEW owner, Callers = {owner}
    PROVE  Spec => []OneReadLoop
<1>1. SerialInv => OneReadLoop
  BY DEF SerialInv
<1> QED
  BY <1>1, SerialInvariant, PTL

\* Such an owner finds the client quiet when Close has returned: no readLoop
\* and no socket, not even of a dial that Close found under way
\* (client.go:924-957).
THEOREM ClosedIsQuietCorrect ==
    ASSUME NEW owner, Callers = {owner}
    PROVE  Spec => []ClosedIsQuiet
<1>1. ASSUME SerialInv
      PROVE  ClosedIsQuiet
  <2> SUFFICES ASSUME ~started
               PROVE  Running = {} /\ open = {}
    BY DEF ClosedIsQuiet
  <2>1. Running = {} /\ pc[owner] \in {"idle", "closefin"}
    BY <1>1 DEF SerialInv, CallerInv
  <2>2. conn = NoConn
    BY <1>1, <2>1 DEF SerialInv, ServedConnection
  <2>3. \A p \in Procs : pc[p] # "handshake"
    BY <2>1 DEF Running, Procs
  <2>4. open \subseteq Conns /\ NoConn \notin Conns
    BY <1>1, LifecycleAssumption DEF SerialInv, SocketInv, TypeOK, NoConn
  <2>5. open = {}
    BY <1>1, <2>2, <2>3, <2>4 DEF SerialInv, SocketInv, NoLeakedConn
  <2> QED
    BY <2>1, <2>5
<1> QED
  BY <1>1, SerialInvariant, PTL

\* A connection of such an owner always has a readLoop, or is about to get
\* one (client.go:202, 377-387, 417-425).
THEOREM ServedConnectionCorrect ==
    ASSUME NEW owner, Callers = {owner}
    PROVE  Spec => []ServedConnection
<1>1. SerialInv => ServedConnection
  BY DEF SerialInv
<1> QED
  BY <1>1, SerialInvariant, PTL

\* No channel of such an owner's client is closed twice (client.go:228, 426).
THEOREM NoPanicCorrect ==
    ASSUME NEW owner, Callers = {owner}
    PROVE  Spec => []NoPanic
<1>1. SerialInv => NoPanic
  BY DEF SerialInv
<1> QED
  BY <1>1, SerialInvariant, PTL

=============================================================================
