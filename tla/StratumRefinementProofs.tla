----------------------- MODULE StratumRefinementProofs -----------------------
(***************************************************************************)
(* The lifecycle of a Stratum client, used by one owner that calls Connect *)
(* and Close in turn, implements StratumClient: the specification of a     *)
(* client the pool manager is built on.                                    *)
(*                                                                         *)
(* Most steps of the lifecycle change nothing an owner can see: they map   *)
(* to a stutter, which needs only the invariant of StratumLifecycleProofs. *)
(* Two steps need more.  A readLoop leaves because Close closed stopCh,    *)
(* even if it learns so from the channel it took into its backoff; and     *)
(* Close returns only after a readLoopDone that has been closed.           *)
(***************************************************************************)
EXTENDS StratumLifecycleProofs

LeavesWhenStopped ==
    \A l \in Loops : /\ pc[l] = "backoff" => waitCh[l] = stopCh
                     /\ pc[l] = "cleanup" => stopCh \in closed

ReturnsWhenEnded ==
    \A c \in Callers : pc[c] = "closefin" /\ started => readLoopDone \in closed

RefinementInv == SerialInv /\ LeavesWhenStopped /\ ReturnsWhenEnded

\* There is an owner, and it is the only caller.
OneOwner == Owner \in Callers /\ \A c \in Callers : c = Owner

(***************************************************************************)
(* What a step shows of the caller and of the readLoop.                    *)
(***************************************************************************)
LEMMA CallOfLabels ==
    /\ CallOf("idle") = "none"
    /\ CallOf("unset ok") = "installed" /\ CallOf("signal ok") = "installed"
    /\ CallOf("closewait") = "closing" /\ CallOf("closefin") = "closing"
    /\ \A s \in DialSteps \ {"unset ok", "signal ok"} : CallOf(s) = "connecting"
<1>1. \A s \in DialSteps \ {"unset ok", "signal ok"} :
        s \notin CloseSteps /\ s # "idle"
  BY DEF DialSteps, CloseSteps
<1> QED
  BY <1>1 DEF CallOf, CloseSteps

\* With no readLoop running, before and after the step.
LEMMA NoLoopShown ==
    /\ Running = {} => LoopState = IF readLoopDone \in closed THEN "ended" ELSE "none"
    /\ Running' = {} =>
         LoopState' = IF readLoopDone' \in closed' THEN "ended" ELSE "none"
  BY DEF LoopState

\* With readLoop l running, before and after the step.
LEMMA LoopShown ==
    ASSUME NEW l \in Loops
    PROVE  /\ OneReadLoop /\ pc[l] # "off" =>
                LoopState = IF pc[l] = "closedone" THEN "leaving" ELSE "running"
           /\ OneReadLoop' /\ pc'[l] # "off" =>
                LoopState' = IF pc'[l] = "closedone" THEN "leaving" ELSE "running"
<1>1. /\ OneReadLoop /\ pc[l] # "off" => Running = {l}
      /\ OneReadLoop' /\ pc'[l] # "off" => Running' = {l}
  BY DEF Running, OneReadLoop
<1> QED
  BY <1>1 DEF LoopState

\* A step that leaves the readLoops and their channel alone.
LEMMA LoopsUnchanged ==
    ASSUME \A l \in Loops : pc'[l] = pc[l],
           readLoopDone' \in closed' <=> readLoopDone \in closed
    PROVE  LoopState' = LoopState /\ Running' = Running
<1>1. Running' = Running
  BY DEF Running
<1>2. /\ (\E l \in Running : pc[l] # "closedone")'
           <=> \E l \in Running : pc[l] # "closedone"
      /\ (\E l \in Running : pc[l] = "closedone")'
           <=> \E l \in Running : pc[l] = "closedone"
  BY <1>1 DEF Running
<1> QED
  BY <1>1, <1>2 DEF LoopState

\* A step of the owner alone.
LEMMA OwnerMoves ==
    ASSUME TypeOK, NEW c \in Callers, NEW label, Goto(c, label)
    PROVE  pc'[c] = label /\ \A l \in Loops : pc'[l] = pc[l]
  BY LifecycleAssumption DEF Goto, TypeOK, Procs

\* A step of a readLoop that stays in its loop.
LEMMA LoopStays ==
    ASSUME SerialInv, SerialInv', OneOwner, NEW l \in Loops, NEW label, Goto(l, label),
           pc[l] \notin {"off", "closedone"}, label \notin {"off", "closedone"}
    PROVE  /\ pc'[Owner] = pc[Owner]
           /\ LoopState = "running" /\ LoopState' = "running"
<1>1. pc'[l] = label /\ pc'[Owner] = pc[Owner]
  BY LifecycleAssumption DEF SerialInv, SocketInv, Goto, TypeOK, Procs, OneOwner
<1>2. OneReadLoop /\ OneReadLoop'
  BY DEF SerialInv
<1> QED
  BY <1>1, <1>2, LoopShown

(***************************************************************************)
(* The invariant.                                                          *)
(***************************************************************************)
LEMMA RefinementInit == Init => RefinementInv
<1> SUFFICES ASSUME Init PROVE RefinementInv
  OBVIOUS
<1>1. \A p \in Procs : pc[p] \in {"idle", "off"}
  BY DEF Init
<1> QED
  BY <1>1, SerialInit
  DEF RefinementInv, LeavesWhenStopped, ReturnsWhenEnded, Procs

\* A step of p to where nothing is claimed of it, that leaves the two
\* channels of the client as they are.
LEMMA StopFrame ==
    ASSUME RefinementInv, NEW p \in Procs,
           pc'[p] \notin {"backoff", "cleanup", "closefin"},
           \A q \in Procs : q # p => pc'[q] = pc[q] \/ pc'[q] = "top",
           \A q \in Procs : q # p => waitCh'[q] = waitCh[q],
           UNCHANGED <<started, stopCh, readLoopDone>>,
           stopCh \in closed => stopCh \in closed',
           readLoopDone \in closed => readLoopDone \in closed'
    PROVE  LeavesWhenStopped' /\ ReturnsWhenEnded'
<1>1. ASSUME NEW l \in Loops
      PROVE  /\ pc'[l] = "backoff" => waitCh'[l] = stopCh'
             /\ pc'[l] = "cleanup" => stopCh' \in closed'
  BY <1>1 DEF RefinementInv, LeavesWhenStopped, Procs
<1>2. ASSUME NEW c \in Callers, pc'[c] = "closefin", started'
      PROVE  readLoopDone' \in closed'
  BY <1>2 DEF RefinementInv, ReturnsWhenEnded, Procs
<1> QED
  BY <1>1, <1>2 DEF LeavesWhenStopped, ReturnsWhenEnded

LEMMA StopReturn ==
    ASSUME RefinementInv, NEW p \in Procs, NEW ok \in BOOLEAN, DialReturns(p, ok),
           UNCHANGED client,
           \A q \in Procs : q # p => waitCh'[q] = waitCh[q],
           closed \subseteq closed'
    PROVE  LeavesWhenStopped' /\ ReturnsWhenEnded'
<1>1. TypeOK
  BY DEF RefinementInv, SerialInv, SocketInv
<1>2. /\ pc'[p] \in {"idle", "top"}
      /\ \A q \in Procs : q # p /\ pc[q] # "off" => pc'[q] = pc[q]
      /\ \A q \in Procs : q # p /\ pc[q] = "off" => pc'[q] \in {"off", "top"}
  BY <1>1, DialReturnsMoves
<1>3. \A q \in Procs : q # p => pc'[q] = pc[q] \/ pc'[q] = "top"
  BY <1>2
<1> QED
  BY <1>2, <1>3, StopFrame DEF client

LEMMA StopDial ==
    ASSUME RefinementInv, NEW p \in Procs, Dial(p)
    PROVE  LeavesWhenStopped' /\ ReturnsWhenEnded'
<1>0. TypeOK
  BY DEF RefinementInv, SerialInv, SocketInv
<1> USE <1>0
<1>1. CASE DialCAS(p)
  BY <1>1, StopFrame DEF DialCAS, Goto, TypeOK
<1>2. CASE TakeDialDone(p)
  BY <1>2, StopFrame DEF TakeDialDone, Goto, TypeOK, client
<1>3. CASE DialWaited(p)
  <2>1. (conn # NoConn /\ connected) \in BOOLEAN
    OBVIOUS
  <2>2. /\ DialReturns(p, conn # NoConn /\ connected)
        /\ UNCHANGED <<client, closed>>
        /\ waitCh' = [waitCh EXCEPT ![p] = NoChan]
    BY <1>3 DEF DialWaited
  <2>3. \A q \in Procs : q # p => waitCh'[q] = waitCh[q]
    BY <2>2 DEF TypeOK
  <2> QED
    BY <2>1, <2>2, <2>3, StopReturn
<1>4. CASE DialMakeDone(p)
  <2>1. /\ pc' = [pc EXCEPT ![p] = "tcp"]
        /\ UNCHANGED <<started, stopCh, readLoopDone, waitCh>>
        /\ closed' = closed \cap Live
    BY <1>4 DEF DialMakeDone, Goto
  <2>2. stopCh \in Live /\ readLoopDone \in Live
    BY DEF Live
  <2> QED
    BY <2>1, <2>2, StopFrame DEF TypeOK
<1>5. CASE DialTcpFails(p)
  BY <1>5, StopFrame DEF DialTcpFails, Goto, TypeOK, client
<1>6. CASE DialTcpOk(p)
  BY <1>6, StopFrame DEF DialTcpOk, Goto, TypeOK, client
<1>7. CASE HandshakeFails(p)
  BY <1>7, StopFrame DEF HandshakeFails, Goto, TypeOK, client
<1>8. CASE HandshakeOk(p)
  BY <1>8, StopFrame DEF HandshakeOk, Goto, TypeOK
<1>9. CASE DialUnset(p)
  BY <1>9, StopFrame DEF DialUnset, Goto, TypeOK
<1>10. CASE DialSignal(p)
  <2>1. (pc[p] = "signal ok") \in BOOLEAN
    OBVIOUS
  <2>2. /\ DialReturns(p, pc[p] = "signal ok")
        /\ UNCHANGED <<client, waitCh>>
        /\ closed \subseteq closed'
    BY <1>10 DEF DialSignal, CloseChan
  <2> QED
    BY <2>1, <2>2, StopReturn
<1> QED
  BY <1>1, <1>2, <1>3, <1>4, <1>5, <1>6, <1>7, <1>8, <1>9, <1>10 DEF Dial

LEMMA StopCaller ==
    ASSUME OneOwner, RefinementInv, NEW c \in Callers, Connect(c) \/ Close(c)
    PROVE  LeavesWhenStopped' /\ ReturnsWhenEnded'
<1>0. TypeOK /\ c \in Procs
  BY DEF RefinementInv, SerialInv, SocketInv, Procs
<1> USE <1>0
<1>1. CASE Connect(c)
  <2>1. pc' = [pc EXCEPT ![c] = "dial"] /\ started' = TRUE
        /\ UNCHANGED <<stopCh, readLoopDone, waitCh, closed>>
    BY <1>1 DEF Connect, Goto
  <2>2. LeavesWhenStopped'
    BY <2>1, LifecycleAssumption DEF RefinementInv, LeavesWhenStopped, TypeOK, Procs
  <2>3. pc'[c] = "dial"
    BY <2>1 DEF TypeOK
  <2>4. ReturnsWhenEnded'
    BY <2>3 DEF OneOwner, ReturnsWhenEnded
  <2> QED
    BY <2>2, <2>4
<1>2. CASE CloseBegin(c)
  <2>1. /\ pc' = [pc EXCEPT ![c] = IF started THEN "closewait" ELSE "closefin"]
        /\ waitCh' = [waitCh EXCEPT ![c] = IF started THEN readLoopDone ELSE NoChan]
        /\ closed' = closed \cup {stopCh}
        /\ UNCHANGED <<started, stopCh, readLoopDone>>
    BY <1>2 DEF CloseBegin, Goto
  <2>2. LeavesWhenStopped'
    BY <2>1, LifecycleAssumption DEF RefinementInv, LeavesWhenStopped, TypeOK, Procs
  <2>3. pc'[c] = "closefin" => ~started'
    BY <2>1 DEF TypeOK
  <2>4. ReturnsWhenEnded'
    BY <2>3 DEF OneOwner, ReturnsWhenEnded
  <2> QED
    BY <2>2, <2>4
<1>3. CASE CloseWait(c)
  <2>1. /\ pc[c] = "closewait" /\ waitCh[c] \in closed
        /\ pc' = [pc EXCEPT ![c] = "closefin"]
        /\ waitCh' = [waitCh EXCEPT ![c] = NoChan]
        /\ UNCHANGED <<started, stopCh, readLoopDone, closed>>
    BY <1>3 DEF CloseWait, Goto, client
  <2>2. LeavesWhenStopped'
    BY <2>1, LifecycleAssumption DEF RefinementInv, LeavesWhenStopped, TypeOK, Procs
  <2>3. readLoopDone \in closed
    BY <2>1 DEF RefinementInv, SerialInv, CallerInv
  <2>4. ReturnsWhenEnded'
    BY <2>1, <2>3 DEF ReturnsWhenEnded
  <2> QED
    BY <2>2, <2>4
<1>4. CASE CloseFinish(c)
  <2>1. /\ pc[c] = "closefin" /\ started' = FALSE
        /\ pc' = [pc EXCEPT ![c] = "idle"]
    BY <1>4 DEF CloseFinish, Goto
  <2>2. Running = {}
    BY <2>1 DEF RefinementInv, SerialInv, CallerInv
  <2>3. \A l \in Loops : pc'[l] = "off"
    BY <2>1, <2>2, LifecycleAssumption DEF Running, TypeOK, Procs
  <2> QED
    BY <2>1, <2>3 DEF LeavesWhenStopped, ReturnsWhenEnded
<1> QED
  BY <1>1, <1>2, <1>3, <1>4 DEF Close

\* A step of readLoop l to where nothing is claimed of it, or in which what
\* is claimed of it holds.
LEMMA StopLoopFrame ==
    ASSUME RefinementInv, NEW l \in Loops, NEW label, Goto(l, label),
           \A q \in Procs : q # l => waitCh'[q] = waitCh[q],
           label = "backoff" => waitCh'[l] = stopCh,
           label = "cleanup" => stopCh \in closed,
           UNCHANGED <<started, stopCh, readLoopDone>>,
           closed \subseteq closed'
    PROVE  LeavesWhenStopped' /\ ReturnsWhenEnded'
<1>1. /\ pc'[l] = label
      /\ \A q \in Procs : q # l => pc'[q] = pc[q]
  BY DEF Goto, RefinementInv, SerialInv, SocketInv, TypeOK, Procs
<1>2. LeavesWhenStopped'
  BY <1>1 DEF RefinementInv, LeavesWhenStopped, Procs
<1>3. ReturnsWhenEnded'
  BY <1>1, LifecycleAssumption DEF RefinementInv, ReturnsWhenEnded, Procs
<1> QED
  BY <1>2, <1>3

LEMMA StopLoop ==
    ASSUME RefinementInv, NEW l \in Loops, ReadLoop(l)
    PROVE  LeavesWhenStopped' /\ ReturnsWhenEnded'
<1>0. TypeOK /\ l \in Procs
  BY DEF RefinementInv, SerialInv, SocketInv, Procs
<1> USE <1>0
<1>1. CASE LoopCheckStop(l)
  BY <1>1, StopLoopFrame DEF LoopCheckStop, client
<1>2. CASE LoopPeek(l)
  BY <1>2, StopLoopFrame DEF LoopPeek, client
<1>3. CASE LoopArm(l)
  BY <1>3, StopLoopFrame DEF LoopArm, client, TypeOK
<1>4. CASE LoopBackoff(l)
  <2>1. /\ pc[l] = "backoff" /\ UNCHANGED <<client, closed>>
        /\ waitCh' = [waitCh EXCEPT ![l] = NoChan]
    BY <1>4 DEF LoopBackoff
  <2>2. \A q \in Procs : q # l => waitCh'[q] = waitCh[q]
    BY <2>1 DEF TypeOK
  <2>3. CASE Goto(l, "chkdial")
    BY <2>1, <2>2, <2>3, StopLoopFrame DEF client
  <2>4. CASE waitCh[l] \in closed /\ Goto(l, "cleanup")
    <3>1. stopCh \in closed
      BY <2>1, <2>4 DEF RefinementInv, LeavesWhenStopped
    <3> QED
      BY <2>1, <2>2, <2>4, <3>1, StopLoopFrame DEF client
  <2> QED
    BY <1>4, <2>3, <2>4 DEF LoopBackoff
<1>5. CASE LoopCheckDialing(l)
  BY <1>5, StopLoopFrame DEF LoopCheckDialing, client
<1>6. CASE LoopWaited(l)
  BY <1>6, StopLoopFrame DEF LoopWaited, client, TypeOK
<1>7. CASE LoopReadLine(l)
  BY <1>7, StopLoopFrame DEF LoopReadLine, client
<1>8. CASE LoopReadError(l)
  BY <1>8, StopLoopFrame DEF LoopReadError
<1>9. CASE LoopCleanup(l)
  BY <1>9, StopLoopFrame DEF LoopCleanup
<1>10. CASE LoopCloseDone(l)
  BY <1>10, StopLoopFrame DEF LoopCloseDone, CloseChan, client
<1> QED
  BY <1>1, <1>2, <1>3, <1>4, <1>5, <1>6, <1>7, <1>8, <1>9, <1>10 DEF ReadLoop

LEMMA RefinementNext ==
    ASSUME OneOwner, RefinementInv, [Next]_vars
    PROVE  RefinementInv'
<1>1. SerialInv'
  BY SerialNext DEF OneOwner, SerialUse, RefinementInv
<1>2. CASE SenderCloses
  BY <1>1, <1>2
  DEF SenderCloses, client, local, RefinementInv, LeavesWhenStopped, ReturnsWhenEnded
<1>3. CASE UNCHANGED vars
  BY <1>1, <1>3
  DEF vars, client, local, RefinementInv, LeavesWhenStopped, ReturnsWhenEnded
<1> QED
  BY <1>1, <1>2, <1>3, StopDial, StopCaller, StopLoop DEF Next, RefinementInv

(***************************************************************************)
(* Every step maps to a step of StratumClient, or to a stutter.            *)
(***************************************************************************)
Shows == [Client!Next]_(Client!vars)

\* A step that shows nothing.
LEMMA Stutter ==
    ASSUME CallOf(pc'[Owner]) = CallOf(pc[Owner]), UNCHANGED <<started, connected>>,
           stopCh' \in closed' <=> stopCh \in closed, LoopState' = LoopState
    PROVE  Shows
  BY DEF Shows, Client!vars

\* Equality of the two truth values, as a stutter asks for it.
LEMMA StopChSame ==
    ASSUME stopCh' \in closed' <=> stopCh \in closed
    PROVE  (stopCh \in closed)' = (stopCh \in closed)
  OBVIOUS

\* A dialling owner has neither a readLoop nor a connection, and no readLoop
\* has ended since its last Close.
LEMMA OwnerDialsAlone ==
    ASSUME RefinementInv, OneOwner, pc[Owner] \in DialSteps
    PROVE  /\ Running = {} /\ readLoopDone \notin closed /\ started
           /\ pc[Owner] \notin {"unset ok", "signal ok"} => conn = NoConn
  BY DEF RefinementInv, SerialInv, CallerInv, ServedConnection, OneOwner

\* The return of the owner's dialAndHandshake is that of its Connect.
LEMMA OwnerReturns ==
    ASSUME RefinementInv, RefinementInv', OneOwner, NEW ok \in BOOLEAN,
           DialReturns(Owner, ok), UNCHANGED client,
           stopCh \in closed' <=> stopCh \in closed,
           readLoopDone \in closed' <=> readLoopDone \in closed,
           pc[Owner] \in DialSteps, ok <=> pc[Owner] \in {"unset ok", "signal ok"}
    PROVE  Shows
<1>1. Running = {} /\ readLoopDone \notin closed
  BY OwnerDialsAlone
<1>2. TypeOK /\ Owner \in Procs /\ Owner \notin Loops
  BY LifecycleAssumption
  DEF RefinementInv, SerialInv, SocketInv, OneOwner, Procs
<1>3. UNCHANGED <<started, connected>> /\ (stopCh' \in closed' <=> stopCh \in closed)
  BY DEF client
<1>4. (stopCh \in closed)' = (stopCh \in closed)
  BY <1>3, StopChSame
<1>5. CASE ~ok
  <2>1. Goto(Owner, "idle")
    BY <1>2, <1>5 DEF DialReturns
  <2>2. pc'[Owner] = "idle" /\ \A l \in Loops : pc'[l] = pc[l]
    BY <1>2, <2>1, OwnerMoves DEF OneOwner
  <2>3. LoopState' = LoopState
    BY <2>2, LoopsUnchanged DEF client
  <2>4. CallOf(pc[Owner]) = "connecting" /\ CallOf(pc'[Owner]) = "none"
    BY <1>5, <2>2, CallOfLabels
  <2>5. Client!ConnectFails
    BY <1>3, <1>4, <2>3, <2>4 DEF Client!ConnectFails
  <2> QED
    BY <2>5 DEF Shows, Client!Next
<1>6. CASE ok
  <2>1. PICK l \in Loops \ Running : pc' = [pc EXCEPT ![Owner] = "idle", ![l] = "top"]
    BY <1>2, <1>6 DEF DialReturns
  <2>2. pc'[Owner] = "idle" /\ pc'[l] = "top"
    BY <1>2, <2>1 DEF TypeOK, Procs
  <2>3. LoopState' = "running"
    <3>1. OneReadLoop'
      BY DEF RefinementInv, SerialInv
    <3> QED
      BY <2>2, <3>1, LoopShown
  <2>4. CallOf(pc[Owner]) = "installed" /\ CallOf(pc'[Owner]) = "none"
    BY <1>6, <2>2, CallOfLabels
  <2>5. Client!ConnectOk
    BY <1>3, <1>4, <2>3, <2>4 DEF Client!ConnectOk
  <2> QED
    BY <2>5 DEF Shows, Client!Next
<1> QED
  BY <1>5, <1>6

\* A step of the owner inside dialAndHandshake that installs nothing.
LEMMA OwnerDialFrame ==
    ASSUME RefinementInv, OneOwner, NEW label \in DialSteps, Goto(Owner, label),
           pc[Owner] \in DialSteps,
           label \in {"unset ok", "signal ok"} <=> pc[Owner] \in {"unset ok", "signal ok"},
           UNCHANGED <<started, connected, stopCh, readLoopDone>>,
           stopCh \in closed' <=> stopCh \in closed,
           readLoopDone \in closed' <=> readLoopDone \in closed
    PROVE  Shows
<1>1. pc'[Owner] = label /\ \A l \in Loops : pc'[l] = pc[l]
  BY OwnerMoves DEF OneOwner, RefinementInv, SerialInv, SocketInv
<1>2. CallOf(pc'[Owner]) = CallOf(pc[Owner])
  BY <1>1, CallOfLabels
<1>3. LoopState' = LoopState
  BY <1>1, LoopsUnchanged
<1> QED
  BY <1>2, <1>3, Stutter

\* dialAndHandshake, run by the owner inside Connect.
LEMMA MapDialOwner ==
    ASSUME RefinementInv, RefinementInv', OneOwner, Dial(Owner)
    PROVE  Shows
<1> USE DEF DialSteps
<1>0. TypeOK /\ Owner \in Procs /\ Owner \notin Loops
  BY LifecycleAssumption DEF RefinementInv, SerialInv, SocketInv, OneOwner, Procs
<1>1. CASE DialCAS(Owner)
  <2>1. (IF dialing THEN "dialchan" ELSE "mkdone") \in DialSteps \ {"unset ok", "signal ok"}
    OBVIOUS
  <2> QED
    BY <1>1, <2>1, OwnerDialFrame DEF DialCAS
<1>2. CASE TakeDialDone(Owner)
  <2>1. pc[Owner] = "dialchan"
    BY <1>2 DEF TakeDialDone, RefinementInv, SerialInv, Kinds, OneOwner, CloseSteps
  <2> QED
    BY <1>2, <2>1, OwnerDialFrame DEF TakeDialDone, client
<1>3. CASE DialWaited(Owner)
  <2>1. /\ pc[Owner] = "dialwait" /\ UNCHANGED <<client, closed>>
        /\ DialReturns(Owner, conn # NoConn /\ connected)
    BY <1>3 DEF DialWaited
  <2>2. conn = NoConn
    BY <2>1, OwnerDialsAlone
  <2>3. DialReturns(Owner, FALSE)
    BY <2>1, <2>2
  <2> QED
    BY <2>1, <2>3, OwnerReturns
<1>4. CASE DialMakeDone(Owner)
  <2>1. /\ pc[Owner] = "mkdone" /\ Goto(Owner, "tcp")
        /\ UNCHANGED <<started, connected, stopCh, readLoopDone>>
        /\ closed' = closed \cap Live
    BY <1>4 DEF DialMakeDone
  <2>2. stopCh \in Live /\ readLoopDone \in Live
    BY DEF Live
  <2> QED
    BY <2>1, <2>2, OwnerDialFrame
<1>5. CASE DialTcpFails(Owner)
  BY <1>5, OwnerDialFrame DEF DialTcpFails, client
<1>6. CASE DialTcpOk(Owner)
  BY <1>6, OwnerDialFrame DEF DialTcpOk, client
<1>7. CASE HandshakeFails(Owner)
  BY <1>7, OwnerDialFrame DEF HandshakeFails, client
<1>8. CASE HandshakeOk(Owner)
  <2>1. /\ pc[Owner] = "handshake" /\ Goto(Owner, "unset ok") /\ connected' = TRUE
        /\ UNCHANGED <<started, stopCh, readLoopDone, closed>>
    BY <1>8 DEF HandshakeOk
  <2>2. pc'[Owner] = "unset ok" /\ \A l \in Loops : pc'[l] = pc[l]
    BY <1>0, <2>1, OwnerMoves DEF OneOwner
  <2>3. LoopState' = LoopState
    BY <2>1, <2>2, LoopsUnchanged
  <2>4. CallOf(pc[Owner]) = "connecting" /\ CallOf(pc'[Owner]) = "installed"
    BY <2>1, <2>2, CallOfLabels
  <2>5. Client!Install
    BY <2>1, <2>3, <2>4 DEF Client!Install
  <2> QED
    BY <2>5 DEF Shows, Client!Next
<1>9. CASE DialUnset(Owner)
  BY <1>9, OwnerDialFrame DEF DialUnset
<1>10. CASE DialSignal(Owner)
  <2>1. /\ pc[Owner] \in {"signal ok", "signal fail"} /\ UNCHANGED client
        /\ DialReturns(Owner, pc[Owner] = "signal ok")
        /\ CloseChan(dialDone)
    BY <1>10 DEF DialSignal
  <2>2. dialDone # stopCh /\ dialDone # readLoopDone
    BY DEF RefinementInv, SerialInv, ChannelsDiffer
  <2>3. /\ stopCh \in closed' <=> stopCh \in closed
        /\ readLoopDone \in closed' <=> readLoopDone \in closed
    BY <2>1, <2>2 DEF CloseChan
  <2>4. (pc[Owner] = "signal ok") \in BOOLEAN
    OBVIOUS
  <2>5. pc[Owner] = "signal ok" <=> pc[Owner] \in {"unset ok", "signal ok"}
    BY <2>1
  <2>6. pc[Owner] \in DialSteps
    BY <2>1
  <2> QED
    BY <2>1, <2>3, <2>4, <2>5, <2>6, OwnerReturns
<1> QED
  BY <1>1, <1>2, <1>3, <1>4, <1>5, <1>6, <1>7, <1>8, <1>9, <1>10 DEF Dial

\* A step of a readLoop that goes on, and neither gets nor drops a
\* connection.
LEMMA LoopStutter ==
    ASSUME RefinementInv, RefinementInv', OneOwner,
           NEW l \in Loops, NEW label, Goto(l, label),
           pc[l] \notin {"off", "closedone"}, label \notin {"off", "closedone"},
           UNCHANGED <<started, connected, stopCh>>,
           stopCh \in closed' <=> stopCh \in closed
    PROVE  Shows
<1>1. pc'[Owner] = pc[Owner] /\ LoopState = "running" /\ LoopState' = "running"
  BY LoopStays DEF RefinementInv
<1> QED
  BY <1>1, Stutter

\* dialAndHandshake, run by a readLoop.
LEMMA MapDialLoop ==
    ASSUME RefinementInv, RefinementInv', OneOwner, NEW l \in Loops, Dial(l)
    PROVE  Shows
<1>0. TypeOK /\ l \in Procs /\ l \notin Callers
  BY LifecycleAssumption DEF RefinementInv, SerialInv, SocketInv, Procs
<1>1. CASE DialCAS(l)
  BY <1>1, LoopStutter DEF DialCAS
<1>2. CASE TakeDialDone(l)
  BY <1>2, LoopStutter DEF TakeDialDone, client
<1>3. CASE DialWaited(l)
  <2>1. pc[l] = "dialwait" /\ UNCHANGED <<client, closed>> /\ Goto(l, "top")
    BY <1>0, <1>3 DEF DialWaited, DialReturns
  <2> QED
    BY <2>1, LoopStutter DEF client
<1>4. CASE DialMakeDone(l)
  <2>1. /\ pc[l] = "mkdone" /\ Goto(l, "tcp")
        /\ UNCHANGED <<started, connected, stopCh>>
        /\ closed' = closed \cap Live
    BY <1>4 DEF DialMakeDone
  <2>2. stopCh \in Live
    BY DEF Live
  <2> QED
    BY <2>1, <2>2, LoopStutter
<1>5. CASE DialTcpFails(l)
  BY <1>5, LoopStutter DEF DialTcpFails, client
<1>6. CASE DialTcpOk(l)
  BY <1>6, LoopStutter DEF DialTcpOk, client
<1>7. CASE HandshakeFails(l)
  BY <1>7, LoopStutter DEF HandshakeFails, client
<1>8. CASE HandshakeOk(l)
  <2>1. /\ pc[l] = "handshake" /\ Goto(l, "unset ok") /\ connected' = TRUE
        /\ UNCHANGED <<started, stopCh, closed>>
    BY <1>8 DEF HandshakeOk
  <2>2. pc'[Owner] = pc[Owner] /\ LoopState = "running" /\ LoopState' = "running"
    BY <2>1, LoopStays DEF RefinementInv
  <2>3. CASE connected
    <3>1. UNCHANGED connected
      BY <1>0, <2>1, <2>3 DEF TypeOK
    <3> QED
      BY <2>1, <2>2, <3>1, Stutter
  <2>4. CASE ~connected
    <3>1. Client!Regain
      BY <2>1, <2>2, <2>4 DEF Client!Regain
    <3> QED
      BY <3>1 DEF Shows, Client!Next
  <2> QED
    BY <2>3, <2>4
<1>9. CASE DialUnset(l)
  BY <1>9, LoopStutter DEF DialUnset
<1>10. CASE DialSignal(l)
  <2>1. /\ pc[l] \in {"signal ok", "signal fail"} /\ UNCHANGED client
        /\ Goto(l, "top") /\ CloseChan(dialDone)
    BY <1>0, <1>10 DEF DialSignal, DialReturns
  <2>2. stopCh \in closed' <=> stopCh \in closed
    BY <2>1 DEF CloseChan, RefinementInv, SerialInv, ChannelsDiffer
  <2> QED
    BY <2>1, <2>2, LoopStutter DEF client
<1> QED
  BY <1>1, <1>2, <1>3, <1>4, <1>5, <1>6, <1>7, <1>8, <1>9, <1>10 DEF Dial

\* Connect and Close.
LEMMA MapCaller ==
    ASSUME RefinementInv, RefinementInv', OneOwner, Connect(Owner) \/ Close(Owner)
    PROVE  Shows
<1>0. TypeOK /\ Owner \in Callers
  BY DEF RefinementInv, SerialInv, SocketInv, OneOwner
<1>1. CASE Connect(Owner)
  <2>1. /\ pc[Owner] = "idle" /\ ~started /\ started' = TRUE /\ Goto(Owner, "dial")
        /\ UNCHANGED <<connected, stopCh, readLoopDone, closed>>
    BY <1>1 DEF Connect
  <2>2. pc'[Owner] = "dial" /\ \A l \in Loops : pc'[l] = pc[l]
    BY <1>0, <2>1, OwnerMoves
  <2>3. LoopState' = LoopState
    BY <2>1, <2>2, LoopsUnchanged
  <2>4. CallOf(pc[Owner]) = "none" /\ CallOf(pc'[Owner]) = "connecting"
    BY <2>1, <2>2, CallOfLabels DEF DialSteps
  <2>5. Client!Connect
    BY <2>1, <2>3, <2>4 DEF Client!Connect
  <2> QED
    BY <2>5 DEF Shows, Client!Next
<1>2. CASE CloseBegin(Owner)
  <2>1. /\ pc[Owner] = "idle" /\ closed' = closed \cup {stopCh}
        /\ connected' = FALSE
        /\ Goto(Owner, IF started THEN "closewait" ELSE "closefin")
        /\ UNCHANGED <<started, stopCh, readLoopDone>>
    BY <1>2 DEF CloseBegin, DropConn
  <2>2. /\ pc'[Owner] = IF started THEN "closewait" ELSE "closefin"
        /\ \A l \in Loops : pc'[l] = pc[l]
    BY <1>0, <2>1, OwnerMoves
  <2>3. readLoopDone' \in closed' <=> readLoopDone \in closed
    BY <2>1 DEF RefinementInv, SerialInv, ChannelsDiffer
  <2>4. LoopState' = LoopState
    BY <2>2, <2>3, LoopsUnchanged
  <2>5. CallOf(pc[Owner]) = "none" /\ CallOf(pc'[Owner]) = "closing"
    BY <2>1, <2>2, CallOfLabels
  <2>6. (stopCh \in closed)' = TRUE
    BY <2>1
  <2>7. Client!CloseBegin
    BY <2>1, <2>4, <2>5, <2>6 DEF Client!CloseBegin
  <2> QED
    BY <2>7 DEF Shows, Client!Next
<1>3. CASE CloseWait(Owner)
  <2>1. /\ pc[Owner] = "closewait" /\ Goto(Owner, "closefin")
        /\ UNCHANGED <<started, connected, stopCh, readLoopDone, closed>>
    BY <1>3 DEF CloseWait, client
  <2>2. pc'[Owner] = "closefin" /\ \A l \in Loops : pc'[l] = pc[l]
    BY <1>0, <2>1, OwnerMoves
  <2>3. LoopState' = LoopState
    BY <2>1, <2>2, LoopsUnchanged
  <2>4. CallOf(pc'[Owner]) = CallOf(pc[Owner])
    BY <2>1, <2>2, CallOfLabels
  <2> QED
    BY <2>1, <2>3, <2>4, Stutter
<1>4. CASE CloseFinish(Owner)
  <2>1. PICK s \in FreshChan :
          \E d \in Least(Chans \ (Live \cup {s})) :
            stopCh' = s /\ readLoopDone' = d /\ closed' = closed \cap Live
    BY <1>4 DEF CloseFinish
  <2>2. stopCh' \notin closed' /\ readLoopDone' \notin closed'
    BY <2>1 DEF FreshChan, Least
  <2>3. /\ pc[Owner] = "closefin" /\ Goto(Owner, "idle")
        /\ started' = FALSE /\ UNCHANGED connected
    BY <1>4 DEF CloseFinish
  <2>4. pc'[Owner] = "idle" /\ \A l \in Loops : pc'[l] = pc[l]
    BY <1>0, <2>3, OwnerMoves
  <2>5. Running = {} /\ Running' = {}
    <3>1. Running = {}
      BY <1>0, <2>3 DEF RefinementInv, SerialInv, CallerInv
    <3> QED
      BY <2>4, <3>1 DEF Running
  <2>6. LoopState' = "none"
    BY <2>2, <2>5, NoLoopShown
  <2>7. started => LoopState = "ended"
    BY <1>0, <2>3, <2>5, NoLoopShown DEF RefinementInv, ReturnsWhenEnded
  <2>8. CallOf(pc[Owner]) = "closing" /\ CallOf(pc'[Owner]) = "none"
    BY <2>3, <2>4, CallOfLabels
  <2>9. (stopCh \in closed)' = FALSE
    BY <2>2
  <2>10. Client!CloseReturns
    BY <2>3, <2>6, <2>7, <2>8, <2>9 DEF Client!CloseReturns
  <2> QED
    BY <2>10 DEF Shows, Client!Next
<1> QED
  BY <1>1, <1>2, <1>3, <1>4 DEF Close

\* readLoop.
LEMMA MapLoop ==
    ASSUME RefinementInv, RefinementInv', OneOwner, NEW l \in Loops, ReadLoop(l)
    PROVE  Shows
<1>0. TypeOK /\ l \in Procs
  BY DEF RefinementInv, SerialInv, SocketInv, Procs
<1>1. CASE LoopCheckStop(l)
  BY <1>1, LoopStutter DEF LoopCheckStop, client
<1>2. CASE LoopPeek(l)
  BY <1>2, LoopStutter DEF LoopPeek, client
<1>3. CASE LoopArm(l)
  BY <1>3, LoopStutter DEF LoopArm, client
<1>4. CASE LoopBackoff(l)
  <2>1. PICK label \in {"chkdial", "cleanup"} : Goto(l, label)
    BY <1>4 DEF LoopBackoff
  <2> QED
    BY <1>4, <2>1, LoopStutter DEF LoopBackoff, client
<1>5. CASE LoopCheckDialing(l)
  BY <1>5, LoopStutter DEF LoopCheckDialing, client
<1>6. CASE LoopWaited(l)
  BY <1>6, LoopStutter DEF LoopWaited, client
<1>7. CASE LoopReadLine(l)
  BY <1>7, LoopStutter DEF LoopReadLine, client
<1>8. CASE LoopReadError(l)
  <2>1. /\ pc[l] = "read" /\ Goto(l, "top") /\ connected' = FALSE
        /\ UNCHANGED <<started, stopCh, closed>>
    BY <1>8 DEF LoopReadError, DropConn
  <2>2. pc'[Owner] = pc[Owner] /\ LoopState = "running" /\ LoopState' = "running"
    BY <2>1, LoopStays DEF RefinementInv
  <2>3. CASE connected
    <3>1. Client!Lose
      BY <2>1, <2>2, <2>3 DEF Client!Lose
    <3> QED
      BY <3>1 DEF Shows, Client!Next
  <2>4. CASE ~connected
    <3>1. UNCHANGED connected
      BY <1>0, <2>1, <2>4 DEF TypeOK
    <3> QED
      BY <2>1, <2>2, <3>1, Stutter
  <2> QED
    BY <2>3, <2>4
<1>9. CASE LoopCleanup(l)
  <2>1. /\ pc[l] = "cleanup" /\ Goto(l, "closedone") /\ connected' = FALSE
        /\ UNCHANGED <<started, stopCh, closed>>
    BY <1>9 DEF LoopCleanup, DropConn
  <2>2. pc'[l] = "closedone" /\ pc'[Owner] = pc[Owner]
    BY <1>0, <2>1, LifecycleAssumption DEF Goto, TypeOK, Procs, OneOwner
  <2>3. LoopState = "running" /\ LoopState' = "leaving"
    BY <2>1, <2>2, LoopShown DEF RefinementInv, SerialInv
  <2>4. stopCh \in closed
    BY <2>1 DEF RefinementInv, LeavesWhenStopped
  <2>5. Client!LoopLeaves
    BY <2>1, <2>2, <2>3, <2>4 DEF Client!LoopLeaves
  <2> QED
    BY <2>5 DEF Shows, Client!Next
<1>10. CASE LoopCloseDone(l)
  <2>1. pc[l] = "closedone" /\ Goto(l, "off") /\ UNCHANGED client
    BY <1>10 DEF LoopCloseDone
  <2>2. readLoopDone \notin closed /\ OneReadLoop
    BY <2>1 DEF RefinementInv, SerialInv, LoopInv
  <2>3. closed' = closed \cup {readLoopDone}
    BY <1>0, <1>10, <2>2, LifecycleAssumption
    DEF LoopCloseDone, CloseChan, TypeOK, NoChan
  <2>4. pc'[Owner] = pc[Owner] /\ \A m \in Loops : pc'[m] = "off"
    BY <1>0, <2>1, <2>2, LifecycleAssumption
    DEF Goto, TypeOK, Procs, OneOwner, OneReadLoop, Running
  <2>5. LoopState = "leaving"
    BY <2>1, <2>2, LoopShown
  <2>6. LoopState' = "ended"
    <3>1. Running' = {} /\ readLoopDone' \in closed'
      BY <2>1, <2>3, <2>4 DEF Running, client
    <3> QED
      BY <3>1, NoLoopShown
  <2>7. stopCh' \in closed' <=> stopCh \in closed
    BY <2>1, <2>3 DEF RefinementInv, SerialInv, ChannelsDiffer, client
  <2>8. Client!LoopEnds
    BY <2>1, <2>4, <2>5, <2>6, <2>7 DEF Client!LoopEnds, client
  <2> QED
    BY <2>8 DEF Shows, Client!Next
<1> QED
  BY <1>1, <1>2, <1>3, <1>4, <1>5, <1>6, <1>7, <1>8, <1>9, <1>10 DEF ReadLoop

LEMMA MapNext ==
    ASSUME OneOwner, RefinementInv, RefinementInv', [Next]_vars
    PROVE  Shows
<1>1. CASE SenderCloses
  <2>1. UNCHANGED <<client, closed, pc>>
    BY <1>1 DEF SenderCloses, local
  <2>2. LoopState' = LoopState
    BY <2>1, LoopsUnchanged DEF client
  <2> QED
    BY <2>1, <2>2, Stutter DEF client
<1>2. CASE UNCHANGED vars
  <2>1. UNCHANGED <<client, closed, pc>>
    BY <1>2 DEF vars, local
  <2>2. LoopState' = LoopState
    BY <2>1, LoopsUnchanged DEF client
  <2> QED
    BY <2>1, <2>2, Stutter DEF client
<1>3. CASE \E p \in Procs : Dial(p)
  <2>1. PICK p \in Procs : Dial(p)
    BY <1>3
  <2>2. CASE p \in Callers
    BY <2>1, <2>2, MapDialOwner DEF OneOwner
  <2>3. CASE p \in Loops
    BY <2>1, <2>3, MapDialLoop
  <2> QED
    BY <2>2, <2>3 DEF Procs
<1>4. CASE \E c \in Callers : Connect(c) \/ Close(c)
  BY <1>4, MapCaller DEF OneOwner
<1>5. CASE \E l \in Loops : ReadLoop(l)
  BY <1>5, MapLoop
<1> QED
  BY <1>1, <1>2, <1>3, <1>4, <1>5 DEF Next

LEMMA MapInit ==
    ASSUME OneOwner, Init
    PROVE  Client!Init
<1>1. Running = {}
  BY LifecycleAssumption DEF Init, Running, Procs
<1>2. LoopState = "none"
  BY <1>1, NoLoopShown DEF Init
<1>3. (stopCh \in closed) = FALSE
  BY DEF Init
<1>4. CallOf(pc[Owner]) = "none"
  BY CallOfLabels DEF Init, OneOwner, Procs
<1> QED
  BY <1>2, <1>3, <1>4 DEF Init, Client!Init

\* For an owner that connects and closes in turn, the client is a
\* StratumClient: whatever dials fail, connections break and come back,
\* Connect, Close, IsAlive and IsConnected behave as that specification
\* says, and in particular Close returns only when the readLoop has ended
\* (client.go:176-204, 404-520, 916-957).
THEOREM ImplementsClientCorrect ==
    ASSUME NEW owner, Callers = {owner}
    PROVE  Spec => ImplementsClient
<1>1. OneOwner
  BY DEF OneOwner, Owner
<1>2. RefinementInv /\ [Next]_vars => RefinementInv'
  BY <1>1, RefinementNext
<1>3. RefinementInv /\ RefinementInv' /\ [Next]_vars => [Client!Next]_(Client!vars)
  BY <1>1, MapNext DEF Shows
<1>4. Init => Client!Init
  BY <1>1, MapInit
<1> QED
  BY <1>2, <1>3, <1>4, RefinementInit, PTL DEF Spec, ImplementsClient, Client!Spec

=============================================================================
