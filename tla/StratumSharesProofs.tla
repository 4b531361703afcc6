------------------------ MODULE StratumSharesProofs ------------------------
(***************************************************************************)
(* Theorems about StratumShares, for any number of workers, connections,   *)
(* requests and hashes.                                                    *)
(*                                                                         *)
(* Everything rests on two disciplines: sendMu lets one sender at a time   *)
(* hold a socket (SendInv), and a request id belongs to one caller until   *)
(* it leaves it (RequestInv).  Along the way of an id from pendingResults  *)
(* to the readLoop and into its channel (RouteInv) the channel is empty,   *)
(* and what it then holds the pool has answered (VerdictInv), which stays  *)
(* true while the caller records it (RecordInv).                           *)
(***************************************************************************)
EXTENDS StratumShares, FiniteSetTheorems, TLAPS

\* sendMu is held from Lock to Unlock, a socket only between TakeConn and
\* Unlock.
SendInv ==
    /\ \A p \in Senders : pc[p] \in {"conn", "write"} <=> sendMu = p
    /\ \A p \in Senders : pc[p] = "write" <=> sock[p] # NoConn
    /\ pc[Reporter] \notin {"wait", "manager", "monitor"}

\* A request has one caller, which has it until the call returns.
RequestInv ==
    /\ \A w \in Workers : pc[w] = "idle" <=> req[w] = NoReq
    /\ \A w \in Workers : req[w] <= nextRequestID
    /\ \A v, w \in Workers : req[v] = req[w] /\ req[w] # NoReq => v = w

\* A request that is not sent yet is registered, and unknown to the pool.
Unsent(id) ==
    /\ id \in pending
    /\ id \notin wire /\ given[id] = {}
    /\ \A a \in answers \cup reading : a.id # id

RouteInv ==
    /\ pending \cup wire \subseteq 1 .. nextRequestID
    /\ \A id \in Requests : id > nextRequestID => given[id] = {}
    /\ \A w \in Workers : pc[w] \in {"lock", "conn", "write"} => Unsent(req[w])
    /\ \A a \in answers \cup reading : Taken(a.answer) \in given[a.id]
    /\ \A id \in pending : respCh[id] = "empty"
    /\ \A a \in reading : a.id \notin pending /\ respCh[a.id] = "empty"
    /\ \A a, b \in reading : a = b

\* A verdict is one the pool gave.
VerdictInv ==
    \A id \in Requests :
        /\ respCh[id] = "accepted" => TRUE \in given[id]
        /\ respCh[id] = "rejected" => FALSE \in given[id]

\* The verdict on id was read, or will never come.
Settled(id) ==
    /\ id \notin pending /\ respCh[id] = "empty"
    /\ \A a \in reading : a.id # id

\* A worker records a verdict that the pool gave and that it has read.
RecordInv ==
    \A w \in Workers :
        /\ verdict[w] => pc[w] \in {"manager", "monitor"} /\ TRUE \in given[req[w]]
        /\ pc[w] = "manager" =>
             Settled(req[w]) /\ (~verdict[w] => FALSE \in given[req[w]])

\* The ids that the miner, and those that the manager, will count no more.
Done  == {id \in Requests : Settled(id)}
Noted == {id \in Done : \A w \in Workers : req[w] = id => pc[w] # "manager"}

DoneTaken     == {id \in Done  : TRUE \in given[id]}
NotedRefused  == {id \in Noted : FALSE \in given[id]}
NotedAnswered == {id \in Noted : given[id] # {}}

\* A share is counted by the step that makes its id Done, or Noted.
TallyInv ==
    /\ accepted <= Cardinality(DoneTaken)
    /\ poolShares.rejected <= Cardinality(NotedRefused)
    /\ poolShares.accepted + poolShares.rejected <= Cardinality(NotedAnswered)

\* The ids whose caller has returned.
Returned == {id \in Requests : id <= nextRequestID /\ \A w \in Workers : req[w] # id}

MonitorInv == monitorShares.accepted + monitorShares.rejected <= Cardinality(Returned)

\* What the counts of accepted shares differ by.
Lag(labels) == Cardinality(Recording(labels))
LagInv ==
    /\ accepted = monitorShares.accepted + Lag({"manager", "monitor"})
    /\ poolShares.accepted + Lag({"manager"}) <= accepted
    /\ manager = "serving" => accepted = poolShares.accepted + Lag({"manager"})

\* What is reported is taken from lastReported first.
ReportInv ==
    /\ pc[Reporter] = "idle" => increment = 0
    /\ poolHashes + increment <= lastReported
    /\ lastReported <= hashes

\* The failures on conn are among those that writeFails counts; a sender that
\* still holds an earlier connection has kept the others from writing to it.
StuckInv ==
    /\ up => failsHere <= writeFails
    /\ conn = NoConn => failsHere = 0 /\ ~up
    /\ \A p \in Senders : pc[p] = "write" /\ sock[p] # conn => failsHere = 0

IInv == /\ TypeOK /\ SendInv /\ RequestInv /\ RouteInv /\ VerdictInv /\ RecordInv
        /\ TallyInv /\ MonitorInv /\ LagInv /\ ReportInv /\ StuckInv

(***************************************************************************)
(* Sockets.                                                                *)
(***************************************************************************)

\* While conn is nil one sender at most holds a socket, so that another one
\* is there to connect with.
LEMMA FreshConnType ==
    ASSUME TypeOK, SendInv
    PROVE  FreshConn \in Conns /\ \A p \in Senders : sock[p] # FreshConn
<1>1. \A p, q \in Senders : sock[p] # NoConn /\ sock[q] # NoConn => p = q
  BY DEF SendInv
<1>2. PICK j \in Conns, k \in Conns : j # k
  BY SharesAssumption
<1>3. NoConn \notin Conns
  BY SharesAssumption
<1>4. \E c \in Conns : \A p \in Senders : sock[p] # c
  BY <1>1, <1>2, <1>3
<1> QED
  BY <1>4 DEF FreshConn

LEMMA FreshConnInit == Init => conn \in Conns /\ conn # NoConn
<1> SUFFICES ASSUME Init PROVE conn \in Conns /\ conn # NoConn
  OBVIOUS
<1>1. \E c \in Conns : \A p \in Senders : sock[p] # c
  BY SharesAssumption DEF Init
<1> QED
  BY <1>1, SharesAssumption DEF Init, FreshConn

(***************************************************************************)
(* Type correctness.                                                       *)
(***************************************************************************)
LEMMA CountType ==
    ASSUME NEW counters \in Counters, NEW taken \in BOOLEAN
    PROVE  Count(counters, taken) \in Counters
  BY DEF Count, Counters

LEMMA VerdictType == \A a : Verdict(a) \in BOOLEAN
  BY DEF Verdict

LEMMA TypeInit == Init => TypeOK
<1> SUFFICES ASSUME Init PROVE TypeOK
  OBVIOUS
<1>1. conn \in Conns
  BY FreshConnInit
<1>2. MaxWriteFails \in Nat \ {0} /\ MaxRequests \in Nat /\ MaxHashes \in Nat
  BY SharesAssumption
<1>3. 0 \in 0 .. MaxWriteFails - 1 /\ 0 \in 0 .. MaxRequests /\ 0 \in 0 .. MaxHashes
  BY <1>2
<1> QED
  BY <1>1, <1>3 DEF Init, TypeOK, Counters, AnswerSet

LEMMA TypeNext == TypeOK /\ SendInv /\ RequestInv /\ [Next]_vars => TypeOK'
<1> SUFFICES ASSUME TypeOK, SendInv, RequestInv, [Next]_vars PROVE TypeOK'
  OBVIOUS
<1>1. MaxWriteFails \in Nat \ {0} /\ MaxRequests \in Nat /\ MaxHashes \in Nat
  BY SharesAssumption
<1>2. \A w \in Workers : w \in Senders /\ (pc[w] # "idle" => req[w] \in Requests)
  BY DEF RequestInv, TypeOK, Senders
<1>3. Reporter \in Senders
  BY DEF Senders
<1>4. ASSUME NEW w \in Workers, SubmitRegister(w) PROVE TypeOK'
  <2>1. nextRequestID + 1 \in 0 .. MaxRequests /\ nextRequestID + 1 \in Requests
    BY <1>1, <1>4 DEF SubmitRegister, TypeOK, Requests
  <2> QED
    BY <1>2, <1>4, <2>1
       DEF SubmitRegister, Goto, TypeOK, connection, network, shares, counts, report
<1>5. ASSUME NEW p \in Senders, LockSend(p) PROVE TypeOK'
  BY <1>5 DEF LockSend, Goto, TypeOK, connection, network, shares, counts, report, routing
<1>6. ASSUME NEW p \in Senders, TakeConn(p) PROVE TypeOK'
  BY <1>6 DEF TakeConn, Goto, TypeOK, connection, network, shares, counts, report, routing
<1>7. ASSUME NEW w \in Workers, SubmitNotConnected(w) PROVE TypeOK'
  BY <1>2, <1>7
     DEF SubmitNotConnected, Unlock, Goto, TypeOK, connection, network, shares, counts,
         counts, report
<1>8. ASSUME NEW p \in Senders, WriteFails(p)
      PROVE  /\ conn' \in Conns \cup {NoConn} /\ up' \in BOOLEAN /\ torn' \in BOOLEAN
             /\ failsHere' \in Nat /\ writeFails' \in 0 .. MaxWriteFails - 1
  <2>1. up' \in BOOLEAN
    <3>1. up' = up \/ up' = (up /\ sock[p] # conn)
      BY <1>8 DEF WriteFails
    <3> QED
      BY <3>1 DEF TypeOK
  <2>2. torn' \in BOOLEAN
    BY <1>8 DEF WriteFails, TypeOK
  <2>3. failsHere' \in Nat
    BY <1>8 DEF WriteFails, TypeOK
  <2>4. writeFails' \in 0 .. MaxWriteFails - 1
    BY <1>1, <1>8 DEF WriteFails, TypeOK
  <2> QED
    BY <1>8, <2>1, <2>2, <2>3, <2>4 DEF WriteFails, TypeOK
<1>9. ASSUME NEW p \in Senders, Written(p)
      PROVE  /\ conn' \in Conns \cup {NoConn} /\ up' \in BOOLEAN /\ torn' \in BOOLEAN
             /\ failsHere' \in Nat /\ writeFails' \in 0 .. MaxWriteFails - 1
  <2>1. 0 \in 0 .. MaxWriteFails - 1
    BY <1>1
  <2> QED
    BY <1>9, <2>1 DEF Written, TypeOK
<1>10. ASSUME NEW w \in Workers, SubmitWritten(w) PROVE TypeOK'
  <2>1. req[w] \in Requests
    BY <1>2, <1>10 DEF SubmitWritten, Written
  <2> QED
    BY <1>2, <1>9, <1>10, <2>1
       DEF SubmitWritten, Unlock, Goto, TypeOK, shares, counts, report, routing
<1>11. ASSUME NEW w \in Workers, SubmitWriteFails(w) PROVE TypeOK'
  BY <1>2, <1>8, <1>11
     DEF SubmitWriteFails, Unlock, Goto, TypeOK, network, shares, counts, report
<1>12. ASSUME NEW w \in Workers, AwaitVerdict(w) PROVE TypeOK'
  <2>1. verdict' \in [Workers -> BOOLEAN] /\ accepted' \in Nat
    BY <1>12 DEF AwaitVerdict, TypeOK
  <2> QED
    BY <1>2, <1>12, <2>1 DEF AwaitVerdict, Goto, TypeOK, connection, network, report
<1>13. ASSUME NEW w \in Workers, AwaitTimeout(w) PROVE TypeOK'
  BY <1>2, <1>13
     DEF AwaitTimeout, Goto, TypeOK, connection, network, shares, counts, report, routing
<1>24. ASSUME NEW w \in Workers, RecordManager(w) PROVE TypeOK'
  <2>1. poolShares' \in Counters
    BY <1>24, CountType DEF RecordManager, TypeOK
  <2> QED
    BY <1>2, <1>24, <2>1
       DEF RecordManager, Goto, TypeOK, connection, network, report, routing
<1>25. ASSUME NEW w \in Workers, RecordMonitor(w) PROVE TypeOK'
  <2>1. monitorShares' \in Counters /\ verdict' \in [Workers -> BOOLEAN]
    BY <1>25, CountType DEF RecordMonitor, TypeOK
  <2> QED
    BY <1>2, <1>25, <2>1
       DEF RecordMonitor, Goto, TypeOK, connection, network, report, routing
<1>26. CASE Stop
  <2>1. /\ conn' = NoConn /\ up' = FALSE /\ torn' = FALSE /\ failsHere' = 0
        /\ wire' = {} /\ answers' = {} /\ manager' \in {"stopping", "stopped"}
        /\ UNCHANGED <<sending, given, counts, report, routing>>
    BY <1>26 DEF Stop, StopBegins, StopEnds
  <2> QED
    BY <2>1 DEF TypeOK, sending, counts, report, routing
<1>14. CASE Hash
  <2>1. hashes' \in 0 .. MaxHashes
    BY <1>1, <1>14 DEF Hash, TypeOK
  <2> QED
    BY <1>14, <2>1 DEF Hash, TypeOK, connection, sending, network, shares, counts, routing
<1>15. CASE ReportTick
  <2>1. increment' \in Nat /\ lastReported' \in Nat
    BY <1>1, <1>15 DEF ReportTick, TypeOK
  <2> QED
    BY <1>3, <1>15, <2>1
       DEF ReportTick, Goto, TypeOK, connection, network, shares, counts, routing
<1>16. CASE ReportWritten
  <2>1. poolHashes' \in Nat
    BY <1>16 DEF ReportWritten, TypeOK
  <2> QED
    BY <1>3, <1>9, <1>16, <2>1
       DEF ReportWritten, Unlock, Goto, TypeOK, network, shares, counts, routing
<1>17. CASE ReportFails
  <2>1. /\ conn' \in Conns \cup {NoConn} /\ up' \in BOOLEAN /\ torn' \in BOOLEAN
        /\ failsHere' \in Nat /\ writeFails' \in 0 .. MaxWriteFails - 1
    BY <1>3, <1>8, <1>17 DEF ReportFails, TypeOK, connection
  <2> QED
    BY <1>3, <1>17, <2>1
       DEF ReportFails, Unlock, Goto, TypeOK, network, shares, counts, routing
<1>18. ASSUME NEW a \in answers, TakeResponse(a) PROVE TypeOK'
  BY <1>18 DEF TakeResponse, TypeOK, connection, sending, shares, counts, report
<1>19. ASSUME NEW a \in reading, DeliverResponse(a) PROVE TypeOK'
  BY <1>19
     DEF DeliverResponse, Outcome, TypeOK, connection, sending, network, shares, counts, report
<1>20. CASE ReadError
  BY <1>20 DEF ReadError, TypeOK, sending, shares, counts, report, routing
<1>21. CASE Reconnect
  BY <1>21, FreshConnType
     DEF Reconnect, TypeOK, sending, network, shares, counts, report, routing
<1>22. ASSUME NEW id \in Requests, PoolAnswers(id) PROVE TypeOK'
  <2>1. PICK a \in Answers :
          /\ answers' = answers \cup {[id |-> id, answer |-> a]}
          /\ given' = [given EXCEPT ![id] = {Taken(a)}]
    BY <1>22 DEF PoolAnswers
  <2>2. answers' \subseteq AnswerSet /\ given' \in [Requests -> SUBSET BOOLEAN]
    BY <2>1 DEF TypeOK, AnswerSet, Taken
  <2> QED
    BY <1>22, <2>2
       DEF PoolAnswers, TypeOK, connection, sending, shares, counts, report, routing
<1>23. CASE UNCHANGED vars
  BY <1>23 DEF TypeOK, vars, connection, sending, network, shares, counts, report, routing
<1> QED
  BY <1>2, <1>3, <1>4, <1>5, <1>6, <1>7, <1>10, <1>11, <1>12, <1>13, <1>14, <1>15,
     <1>16, <1>17, <1>18, <1>19, <1>20, <1>21, <1>22, <1>23, <1>24, <1>25, <1>26
     DEF Next, SubmitShare, Await, HashReport, ReadLoop

(***************************************************************************)
(* The senders.                                                            *)
(***************************************************************************)

\* What the engines, the readLoop, the pool and the link do.
Elsewhere ==
    Hash \/ ReadLoop \/ Reconnect \/ Stop \/ \E id \in Requests : PoolAnswers(id)

LEMMA ElsewhereFrame == Elsewhere => UNCHANGED sending
  BY DEF Elsewhere, Hash, ReadLoop, TakeResponse, DeliverResponse, ReadError,
         Reconnect, PoolAnswers, Stop, StopBegins, StopEnds

\* How a sender moves: between the sections that hold sendMu, into one, on to
\* its socket, or out.
Moves(p) ==
    \/ /\ pc[p] \in {"idle", "wait", "manager", "monitor"}
       /\ \E label \in {"idle", "lock", "manager", "monitor"} :
            (label \in {"manager", "monitor"} => p \in Workers) /\ Goto(p, label)
       /\ UNCHANGED <<sendMu, sock>>
    \/ /\ pc[p] = "lock" /\ sendMu = Nobody
       /\ sendMu' = p /\ Goto(p, "conn") /\ UNCHANGED sock
    \/ /\ pc[p] = "conn" /\ conn # NoConn
       /\ sock' = [sock EXCEPT ![p] = conn]
       /\ Goto(p, "write") /\ UNCHANGED sendMu
    \/ /\ pc[p] \in {"conn", "write"}
       /\ \E label \in {"idle", "wait", "monitor"} :
            (label # "idle" => p \in Workers) /\ Unlock(p, label)

LEMMA SenderMoves ==
    ASSUME [Next]_vars
    PROVE  \/ UNCHANGED <<pc, sendMu, sock>>
           \/ \E p \in Senders : Moves(p)
<1>1. ASSUME NEW w \in Workers, SubmitShare(w) PROVE Moves(w)
  <2>1. CASE SubmitRegister(w)
    BY <2>1 DEF SubmitRegister, Moves
  <2>2. CASE LockSend(w) \/ TakeConn(w)
    BY <2>2 DEF LockSend, TakeConn, Moves
  <2>3. CASE SubmitNotConnected(w) \/ SubmitWritten(w) \/ SubmitWriteFails(w)
    BY <2>3 DEF SubmitNotConnected, SubmitWritten, SubmitWriteFails, Written,
                WriteFails, Moves
  <2> QED
    BY <1>1, <2>1, <2>2, <2>3 DEF SubmitShare
<1>2. ASSUME NEW w \in Workers, Await(w) PROVE Moves(w)
  BY <1>2 DEF Await, AwaitVerdict, AwaitTimeout, RecordManager, RecordMonitor, Moves
<1>3. ASSUME HashReport PROVE Moves(Reporter)
  <2>1. CASE ReportTick
    BY <2>1 DEF ReportTick, Moves
  <2>2. CASE LockSend(Reporter) \/ TakeConn(Reporter)
    BY <2>2 DEF LockSend, TakeConn, Moves
  <2>3. CASE ReportWritten \/ ReportFails
    BY <2>3 DEF ReportWritten, ReportFails, Written, WriteFails, Moves
  <2> QED
    BY <1>3, <2>1, <2>2, <2>3 DEF HashReport
<1>4. CASE Elsewhere \/ UNCHANGED vars
  BY <1>4, ElsewhereFrame DEF vars, sending
<1> QED
  BY <1>1, <1>2, <1>3, <1>4 DEF Next, Elsewhere, Senders

LEMMA SendInit == Init => SendInv
  BY SharesAssumption DEF Init, SendInv, Senders

LEMMA SendNext == TypeOK /\ SendInv /\ [Next]_vars => SendInv'
<1> SUFFICES ASSUME TypeOK, SendInv, [Next]_vars PROVE SendInv'
  OBVIOUS
<1>1. Reporter \notin Workers /\ Nobody \notin Senders /\ NoConn \notin Conns
  BY SharesAssumption DEF Senders
<1>2. CASE UNCHANGED <<pc, sendMu, sock>>
  BY <1>2 DEF SendInv
<1>3. ASSUME NEW p \in Senders, Moves(p) PROVE SendInv'
  <2>1. CASE /\ pc[p] \in {"idle", "wait", "manager", "monitor"}
             /\ \E label \in {"idle", "lock", "manager", "monitor"} :
                  (label \in {"manager", "monitor"} => p \in Workers) /\ Goto(p, label)
             /\ UNCHANGED <<sendMu, sock>>
    BY <1>1, <2>1 DEF SendInv, Goto, TypeOK
  <2>2. CASE /\ pc[p] = "lock" /\ sendMu = Nobody
             /\ sendMu' = p /\ Goto(p, "conn") /\ UNCHANGED sock
    BY <1>1, <2>2 DEF SendInv, Goto, TypeOK
  <2>3. CASE /\ pc[p] = "conn" /\ conn # NoConn
             /\ sock' = [sock EXCEPT ![p] = conn]
             /\ Goto(p, "write") /\ UNCHANGED sendMu
    BY <1>1, <2>3 DEF SendInv, Goto, TypeOK
  <2>4. CASE /\ pc[p] \in {"conn", "write"}
             /\ \E label \in {"idle", "wait", "monitor"} :
                  (label # "idle" => p \in Workers) /\ Unlock(p, label)
    <3>1. PICK label \in {"idle", "wait", "monitor"} :
                 (label # "idle" => p \in Workers) /\ Unlock(p, label)
      BY <2>4
    <3>2. \A q \in Senders \ {p} : pc[q] \notin {"conn", "write"}
      BY <2>4 DEF SendInv
    <3> QED
      BY <1>1, <3>1, <3>2 DEF SendInv, Unlock, Goto, TypeOK
  <2> QED
    BY <1>3, <2>1, <2>2, <2>3, <2>4 DEF Moves
<1> QED
  BY <1>2, <1>3, SenderMoves

LEMMA RequestInit == Init => RequestInv
  BY SharesAssumption DEF Init, RequestInv, NoReq, Senders

\* Ids are given out in order, so that a new one belongs to nobody.
LEMMA RequestNext == TypeOK /\ SendInv /\ RequestInv /\ [Next]_vars => RequestInv'
<1> SUFFICES ASSUME TypeOK, SendInv, RequestInv, [Next]_vars PROVE RequestInv'
  OBVIOUS
<1>1. /\ \A w \in Workers : w \in Senders /\ req[w] \in Nat /\ w # Reporter
      /\ Reporter \in Senders /\ nextRequestID \in Nat
  BY SharesAssumption DEF TypeOK, Requests, NoReq, Senders
<1>2. ASSUME NEW w \in Workers, SubmitRegister(w) PROVE RequestInv'
  <2>1. /\ nextRequestID' = nextRequestID + 1
        /\ req' = [req EXCEPT ![w] = nextRequestID + 1]
        /\ pc' = [pc EXCEPT ![w] = "lock"]
    BY <1>2 DEF SubmitRegister, Goto
  <2>2. \A v \in Workers : req[v] < nextRequestID + 1
    BY <1>1 DEF RequestInv
  <2> QED
    BY <1>1, <2>1, <2>2 DEF RequestInv, TypeOK, NoReq
\* The caller goes back to being idle.
<1>3. ASSUME NEW w \in Workers, req' = [req EXCEPT ![w] = NoReq], Goto(w, "idle"),
             UNCHANGED nextRequestID
      PROVE  RequestInv'
  BY <1>1, <1>3 DEF RequestInv, TypeOK, Goto, NoReq
\* The caller goes on.
<1>4. ASSUME NEW p \in Senders, UNCHANGED <<req, nextRequestID>>, pc[p] # "idle",
             \E label : label # "idle" /\ Goto(p, label)
      PROVE  RequestInv'
  BY <1>1, <1>4 DEF RequestInv, TypeOK, Goto
\* It is the reporter.
<1>5. ASSUME UNCHANGED <<req, nextRequestID>>, \E label : Goto(Reporter, label)
      PROVE  RequestInv'
  BY <1>1, <1>5 DEF RequestInv, TypeOK, Goto
<1>6. ASSUME NEW w \in Workers, SubmitShare(w) \/ Await(w) PROVE RequestInv'
  <2>1. CASE LockSend(w) \/ TakeConn(w) \/ SubmitWritten(w)
    BY <1>1, <1>4, <2>1 DEF LockSend, TakeConn, SubmitWritten, Written, Unlock
  <2>2. CASE SubmitNotConnected(w) \/ SubmitWriteFails(w)
    BY <1>1, <1>4, <2>2 DEF SubmitNotConnected, SubmitWriteFails, WriteFails, Unlock
  <2>3. CASE AwaitVerdict(w) \/ RecordManager(w)
    BY <1>1, <1>4, <2>3 DEF AwaitVerdict, RecordManager
  <2>4. CASE AwaitTimeout(w) \/ RecordMonitor(w)
    BY <1>3, <2>4 DEF AwaitTimeout, RecordMonitor
  <2> QED
    BY <1>2, <1>6, <2>1, <2>2, <2>3, <2>4 DEF SubmitShare, Await
<1>7. CASE HashReport
  BY <1>5, <1>7 DEF HashReport, ReportTick, LockSend, TakeConn, ReportWritten,
                    ReportFails, Unlock
<1>8. CASE Elsewhere \/ UNCHANGED vars
  BY <1>8, ElsewhereFrame DEF vars, sending, RequestInv
<1> QED
  BY <1>6, <1>7, <1>8 DEF Next, Elsewhere

(***************************************************************************)
(* Failed writes.                                                          *)
(***************************************************************************)
LEMMA StuckInit == Init => StuckInv
  BY FreshConnInit DEF Init, StuckInv, Senders

LEMMA StuckNext == TypeOK /\ SendInv /\ StuckInv /\ [Next]_vars => StuckInv'
<1> SUFFICES ASSUME TypeOK, SendInv, StuckInv, [Next]_vars PROVE StuckInv'
  OBVIOUS
<1>1. /\ failsHere \in Nat /\ writeFails \in Nat
      /\ \A p, q \in Senders : pc[p] = "write" /\ pc[q] = "write" => p = q
      /\ conn \in Conns \cup {NoConn} /\ NoConn \notin Conns
  BY SharesAssumption DEF TypeOK, SendInv
<1>2. \A w \in Workers : w \in Senders
  BY DEF Senders
<1>3. Reporter \in Senders
  BY DEF Senders
\* The steps that end a send leave nobody at a socket.
<1>4. ASSUME NEW p \in Senders, pc[p] = "write", \E label : label # "write" /\ Unlock(p, label)
      PROVE  \A q \in Senders : pc'[q] # "write"
  BY <1>1, <1>4 DEF Unlock, Goto, TypeOK
<1>5. ASSUME NEW p \in Senders, WriteFails(p),
             \E label : label # "write" /\ Unlock(p, label)
      PROVE  StuckInv'
  <2>1. \A q \in Senders : pc'[q] # "write"
    BY <1>4, <1>5 DEF WriteFails
  <2>2. conn' = NoConn => failsHere' = 0 /\ ~up'
    BY <1>5 DEF WriteFails, StuckInv
  <2>3. up' => failsHere' <= writeFails'
    <3>1. CASE sock[p] = conn
      <4>1. CASE writeFails + 1 >= MaxWriteFails
        <5>1. up' = (up /\ sock[p] # conn)
          BY <1>5, <4>1 DEF WriteFails
        <5> QED
          BY <3>1, <5>1
      <4>2. CASE ~(writeFails + 1 >= MaxWriteFails)
        <5>1. /\ writeFails' = writeFails + 1 /\ up' = up
              /\ up => failsHere' = failsHere + 1
          BY <1>5, <3>1, <4>2 DEF WriteFails
        <5> QED
          BY <1>1, <5>1 DEF StuckInv
      <4> QED
        BY <4>1, <4>2
    <3>2. CASE sock[p] # conn
      <4>1. failsHere = 0 /\ failsHere' = failsHere
        BY <1>5, <3>2 DEF WriteFails, StuckInv
      <4>2. writeFails' \in {0, writeFails + 1}
        BY <1>5 DEF WriteFails
      <4> QED
        BY <1>1, <4>1, <4>2
    <3> QED
      BY <3>1, <3>2
  <2> QED
    BY <2>1, <2>2, <2>3 DEF StuckInv
<1>6. ASSUME NEW p \in Senders, Written(p),
             \E label : label # "write" /\ Unlock(p, label)
      PROVE  StuckInv'
  <2>1. \A q \in Senders : pc'[q] # "write"
    BY <1>4, <1>6 DEF Written
  <2> QED
    BY <1>1, <1>6, <2>1 DEF Written, StuckInv
<1>7. ASSUME NEW p \in Senders, TakeConn(p) PROVE StuckInv'
  <2>1. \A q \in Senders : pc'[q] = "write" => q = p /\ sock'[q] = conn
    BY <1>7 DEF TakeConn, Goto, TypeOK, SendInv
  <2> QED
    BY <1>7, <2>1 DEF TakeConn, StuckInv, connection
\* Whoever was at a socket still is.
<1>8. ASSUME UNCHANGED <<connection, writeFails>>,
             \A q \in Senders : pc'[q] = "write" => pc[q] = "write" /\ sock'[q] = sock[q]
      PROVE  StuckInv'
  BY <1>8 DEF StuckInv, connection
<1>9. ASSUME NEW w \in Workers, SubmitShare(w) \/ Await(w) PROVE StuckInv'
  <2>1. CASE SubmitRegister(w) \/ LockSend(w) \/ Await(w)
    BY <1>2, <1>8, <2>1 DEF SubmitRegister, LockSend, Await, AwaitVerdict,
         AwaitTimeout, RecordManager, RecordMonitor, Goto, TypeOK
  <2>2. CASE SubmitNotConnected(w)
    BY <1>2, <1>8, <2>2 DEF SubmitNotConnected, Unlock, Goto, TypeOK, SendInv
  <2>3. CASE SubmitWritten(w) \/ SubmitWriteFails(w)
    BY <1>2, <1>5, <1>6, <2>3 DEF SubmitWritten, SubmitWriteFails
  <2> QED
    BY <1>2, <1>7, <1>9, <2>1, <2>2, <2>3 DEF SubmitShare
<1>10. CASE HashReport
  <2>1. CASE ReportTick \/ LockSend(Reporter)
    BY <1>3, <1>8, <2>1 DEF ReportTick, LockSend, Goto, TypeOK
  <2>2. CASE ReportFails /\ ~WriteFails(Reporter)
    BY <1>3, <1>8, <2>2 DEF ReportFails, Unlock, Goto, TypeOK, SendInv
  <2>3. CASE ReportWritten \/ (ReportFails /\ WriteFails(Reporter))
    BY <1>3, <1>5, <1>6, <2>3 DEF ReportWritten, ReportFails
  <2> QED
    BY <1>3, <1>7, <1>10, <2>1, <2>2, <2>3 DEF HashReport
<1>11. CASE ReadError \/ Stop
  BY <1>11 DEF ReadError, Stop, StopBegins, StopEnds, StuckInv
<1>12. CASE Reconnect
  BY <1>1, <1>12, FreshConnType DEF Reconnect, StuckInv, sending
<1>13. CASE Hash \/ (ReadLoop /\ ~ReadError) \/ (\E id \in Requests : PoolAnswers(id))
  BY <1>13 DEF Hash, ReadLoop, TakeResponse, DeliverResponse, PoolAnswers, StuckInv,
               connection, sending
<1>14. CASE UNCHANGED vars
  BY <1>14 DEF vars, connection, sending, StuckInv
<1> QED
  BY <1>9, <1>10, <1>11, <1>12, <1>13, <1>14 DEF Next

(***************************************************************************)
(* The reports.                                                            *)
(***************************************************************************)
LEMMA ReportInit == Init => ReportInv
  BY DEF Init, ReportInv, Senders

LEMMA ReportNext == TypeOK /\ SendInv /\ ReportInv /\ [Next]_vars => ReportInv'
<1> SUFFICES ASSUME TypeOK, SendInv, ReportInv, [Next]_vars PROVE ReportInv'
  OBVIOUS
<1>1. /\ hashes \in Nat /\ lastReported \in Nat /\ increment \in Nat
      /\ poolHashes \in Nat
  BY SharesAssumption DEF TypeOK
<1>2. Reporter \in Senders /\ \A w \in Workers : w # Reporter
  BY SharesAssumption DEF Senders
<1>3. CASE Hash
  BY <1>1, <1>3 DEF Hash, ReportInv, sending
<1>4. CASE ReportTick
  BY <1>1, <1>2, <1>4 DEF ReportTick, ReportInv, Goto, TypeOK
<1>5. CASE ReportWritten
  <2>1. /\ poolHashes' \in {poolHashes, poolHashes + increment} /\ increment' = 0
        /\ hashes' = hashes /\ lastReported' = lastReported
    BY <1>5 DEF ReportWritten
  <2>2. poolHashes' <= lastReported /\ poolHashes' \in Nat
    BY <1>1, <2>1 DEF ReportInv
  <2> QED
    <3>1. poolHashes' + increment' <= lastReported'
      BY <2>1, <2>2
    <3>2. lastReported' <= hashes'
      BY <2>1 DEF ReportInv
    <3> QED
      BY <2>1, <3>1, <3>2 DEF ReportInv
<1>6. CASE ReportFails
  BY <1>1, <1>2, <1>6 DEF ReportFails, ReportInv, Unlock, Goto, TypeOK
<1>7. CASE LockSend(Reporter) \/ TakeConn(Reporter)
  BY <1>2, <1>7 DEF LockSend, TakeConn, ReportInv, Goto, TypeOK, report
<1>8. ASSUME NEW w \in Workers, SubmitShare(w) \/ Await(w) PROVE ReportInv'
  <2>1. UNCHANGED report
    BY <1>8 DEF SubmitShare, Await, SubmitRegister, LockSend, TakeConn,
                SubmitNotConnected, SubmitWritten, SubmitWriteFails, AwaitVerdict,
                AwaitTimeout, RecordManager, RecordMonitor
  <2>2. \E label : Goto(w, label)
    <3>1. CASE SubmitShare(w)
      BY <3>1 DEF SubmitShare, SubmitRegister, LockSend, TakeConn,
                  SubmitNotConnected, SubmitWritten, SubmitWriteFails, Unlock
    <3>2. CASE Await(w)
      BY <3>2 DEF Await, AwaitVerdict, AwaitTimeout, RecordManager, RecordMonitor
    <3> QED
      BY <1>8, <3>1, <3>2
  <2>3. pc'[Reporter] = pc[Reporter]
    BY <1>2, <2>2 DEF Goto, TypeOK
  <2> QED
    BY <2>1, <2>3 DEF ReportInv, report
<1>9. CASE ReadLoop \/ Reconnect \/ Stop \/ (\E id \in Requests : PoolAnswers(id))
  BY <1>9 DEF ReadLoop, TakeResponse, DeliverResponse, ReadError, Reconnect, Stop,
              StopBegins, StopEnds, PoolAnswers, ReportInv, report, sending
<1>10. CASE UNCHANGED vars
  BY <1>10 DEF vars, ReportInv, report, sending
<1> QED
  BY <1>3, <1>4, <1>5, <1>6, <1>7, <1>8, <1>9, <1>10 DEF Next, HashReport

(***************************************************************************)
(* The way of a request and of its answer.                                 *)
(***************************************************************************)
Sending == {"lock", "conn", "write"}

\* The reporter's steps and those of a worker that touch no request.
LEMMA RouteFrame ==
    ASSUME RouteInv, UNCHANGED <<routing, network, nextRequestID>>,
           \A w \in Workers : pc'[w] \in Sending => pc[w] \in Sending /\ req'[w] = req[w]
    PROVE  RouteInv'
  BY DEF RouteInv, Unsent, Sending, routing, network

\* The ids that are under way have been given out.
LEMMA IdsGivenOut ==
    ASSUME TypeOK, RequestInv, RouteInv
    PROVE  /\ \A id \in pending \cup wire : id \in Requests /\ id <= nextRequestID
           /\ \A a \in answers \cup reading : a.id \in Requests /\ a.id <= nextRequestID
           /\ \A w \in Workers : pc[w] # "idle" =>
                  req[w] \in Requests /\ req[w] <= nextRequestID
           /\ nextRequestID \in Nat
<1>1. nextRequestID \in Nat /\ \A id \in Requests : id \in Nat
  BY SharesAssumption DEF TypeOK, Requests
<1>2. \A id \in pending \cup wire : id \in Requests /\ id <= nextRequestID
  BY <1>1 DEF TypeOK, RouteInv
<1>3. \A a \in answers \cup reading : a.id \in Requests /\ given[a.id] # {}
  BY DEF TypeOK, AnswerSet, RouteInv
<1>4. \A a \in answers \cup reading : a.id <= nextRequestID
  BY <1>1, <1>3 DEF RouteInv
<1>5. \A w \in Workers : pc[w] # "idle" => req[w] \in Requests /\ req[w] <= nextRequestID
  BY DEF TypeOK, RequestInv
<1> QED
  BY <1>1, <1>2, <1>3, <1>4, <1>5

LEMMA RouteInit == Init => RouteInv /\ VerdictInv
  BY DEF Init, RouteInv, VerdictInv, Requests, Senders

\* A new id is unknown to all the others.
LEMMA RouteRegister ==
    ASSUME TypeOK, RequestInv, RouteInv, NEW w \in Workers, SubmitRegister(w)
    PROVE  RouteInv'
<1> DEFINE new == nextRequestID + 1
<1>1. /\ pending' = pending \cup {new} /\ nextRequestID' = new
      /\ respCh' = [respCh EXCEPT ![new] = "empty"]
      /\ req' = [req EXCEPT ![w] = new]
      /\ \A v \in Workers \ {w} : pc'[v] = pc[v]
      /\ UNCHANGED <<wire, answers, given, reading>>
  BY DEF SubmitRegister, Goto, network, TypeOK
<1>2. new \in Requests /\ nextRequestID < new /\ new \in Nat /\ new >= 1
  BY SharesAssumption DEF SubmitRegister, TypeOK, Requests
<1>3. /\ \A id \in pending \cup wire : id \in Requests /\ id <= nextRequestID
      /\ \A a \in answers \cup reading : a.id \in Requests /\ a.id <= nextRequestID
      /\ nextRequestID \in Nat
  BY IdsGivenOut
<1>4. \A id \in Requests : id \in Nat
  BY DEF Requests
<1>5. /\ new \notin wire /\ given[new] = {}
      /\ \A a \in answers \cup reading : a.id # new
  BY <1>2, <1>3, <1>4 DEF RouteInv
<1> HIDE DEF new
<1>6. (pending \cup wire)' \subseteq 1 .. nextRequestID'
  BY <1>1, <1>2, <1>3, <1>4 DEF RouteInv
<1>7. \A id \in Requests : id > nextRequestID' => given'[id] = {}
  BY <1>1, <1>2, <1>3, <1>4 DEF RouteInv
<1>8. \A v \in Workers : pc'[v] \in Sending => Unsent(req[v])'
  <2>1. ASSUME NEW v \in Workers, v # w, pc'[v] \in Sending PROVE Unsent(req[v])'
    <3>1. Unsent(req[v]) /\ req'[v] = req[v]
      BY <1>1, <2>1 DEF RouteInv, Sending, TypeOK
    <3> QED
      BY <1>1, <3>1 DEF Unsent
  <2>2. Unsent(req[w])'
    <3>1. req'[w] = new
      BY <1>1 DEF TypeOK
    <3> QED
      BY <1>1, <1>5, <3>1 DEF Unsent
  <2> QED
    BY <2>1, <2>2
<1>9. /\ \A id \in pending' : respCh'[id] = "empty"
      /\ \A a \in reading' : a.id \notin pending' /\ respCh'[a.id] = "empty"
  BY <1>1, <1>2, <1>3, <1>5 DEF RouteInv, TypeOK
<1> QED
  BY <1>1, <1>6, <1>7, <1>8, <1>9 DEF RouteInv, Sending

\* A request given up before it was sent leaves no trace.
LEMMA RouteForget ==
    ASSUME TypeOK, RequestInv, RouteInv, NEW w \in Workers, pc[w] \in Sending,
           Goto(w, "monitor"), pending' = pending \ {req[w]},
           UNCHANGED <<network, nextRequestID, req, reading>>,
           respCh' \in {respCh, [respCh EXCEPT ![req[w]] = "closed"]}
    PROVE  RouteInv'
<1>1. Unsent(req[w]) /\ req[w] # NoReq
  BY DEF RouteInv, RequestInv, Sending
<1>2. \A v \in Workers : pc'[v] \in Sending =>
          v # w /\ pc[v] \in Sending /\ req'[v] = req[v] /\ req[v] # req[w]
  BY <1>1 DEF Goto, RequestInv, TypeOK, Senders, Sending
<1>3. \A v \in Workers : pc'[v] \in Sending => Unsent(req[v])'
  BY <1>2 DEF RouteInv, Unsent, network, Sending
<1>4. /\ \A id \in pending' : respCh'[id] = "empty"
      /\ \A a \in reading' : a.id \notin pending' /\ respCh'[a.id] = "empty"
  <2>1. \A id : id # req[w] => respCh'[id] = respCh[id] \/ id \notin Requests
    BY DEF TypeOK
  <2>2. \A a \in reading : a.id # req[w] /\ a.id \in Requests
    BY <1>1 DEF Unsent, TypeOK, AnswerSet
  <2> QED
    BY <2>1, <2>2 DEF RouteInv, TypeOK
<1> QED
  BY <1>3, <1>4 DEF RouteInv, network, Sending

LEMMA RouteWritten ==
    ASSUME TypeOK, RequestInv, RouteInv, NEW w \in Workers, SubmitWritten(w)
    PROVE  RouteInv'
<1>1. /\ wire' \subseteq wire \cup {req[w]} /\ pc[w] = "write"
      /\ UNCHANGED <<nextRequestID, req, answers, given, pending, respCh, reading>>
  BY DEF SubmitWritten, Written, routing
<1>2. req[w] \in 1 .. nextRequestID
  BY <1>1, IdsGivenOut DEF Requests
<1>3. \A v \in Workers : pc'[v] \in Sending =>
          v # w /\ pc[v] \in Sending /\ req[v] # req[w]
  BY <1>1 DEF SubmitWritten, Unlock, Goto, RequestInv, TypeOK, Senders, Sending
<1>4. \A v \in Workers : pc'[v] \in Sending => Unsent(req[v])'
  BY <1>1, <1>3 DEF RouteInv, Unsent, Sending
<1> QED
  BY <1>1, <1>2, <1>4 DEF RouteInv, Sending

LEMMA RouteVerdict ==
    ASSUME TypeOK, RouteInv, NEW w \in Workers, AwaitVerdict(w)
    PROVE  RouteInv'
<1>1. /\ respCh' = [respCh EXCEPT ![req[w]] = "empty"]
      /\ UNCHANGED <<nextRequestID, wire, answers, given, pending, reading>>
  BY DEF AwaitVerdict, network
<1>2. \A v \in Workers : pc'[v] \in Sending =>
          v # w /\ pc[v] \in Sending /\ req'[v] = req[v]
  BY DEF AwaitVerdict, Goto, TypeOK, Senders, Sending
<1>3. \A v \in Workers : pc'[v] \in Sending => Unsent(req[v])'
  BY <1>1, <1>2 DEF RouteInv, Unsent, Sending
<1>4. \A id \in Requests : respCh[id] = "empty" => respCh'[id] = "empty"
  BY <1>1 DEF TypeOK
<1> QED
  BY <1>1, <1>3, <1>4 DEF RouteInv, Sending, TypeOK, AnswerSet

\* The entry leaves the map in the step that takes the answer.
LEMMA RouteTake ==
    ASSUME TypeOK, RouteInv, NEW a \in answers, TakeResponse(a)
    PROVE  RouteInv'
<1>1. /\ answers' = answers \ {a} /\ pending' = pending \ {a.id}
      /\ reading' = IF a.id \in pending THEN {a} ELSE {}
      /\ UNCHANGED <<nextRequestID, wire, given, respCh, pc, req>>
  BY DEF TakeResponse, sending
<1>2. \A v \in Workers : pc[v] \in Sending => a.id # req[v]
  BY DEF RouteInv, Unsent, Sending
<1>3. \A v \in Workers : pc[v] \in Sending => Unsent(req[v])'
  BY <1>1, <1>2 DEF RouteInv, Unsent, Sending
<1> QED
  BY <1>1, <1>3 DEF RouteInv, Sending

LEMMA RouteDeliver ==
    ASSUME TypeOK, RouteInv, NEW a \in reading, DeliverResponse(a)
    PROVE  RouteInv'
<1>1. /\ \A id \in Requests : id # a.id => respCh'[id] = respCh[id]
      /\ reading' = {}
      /\ UNCHANGED <<nextRequestID, wire, given, answers, pending, pc, req>>
  BY DEF DeliverResponse, sending, network, TypeOK
<1>2. a.id \notin pending
  BY DEF RouteInv
<1>3. \A v \in Workers : pc[v] \in Sending => Unsent(req[v])'
  BY <1>1 DEF RouteInv, Unsent, Sending
<1> QED
  BY <1>1, <1>2, <1>3 DEF RouteInv, Sending, TypeOK

LEMMA RouteAnswers ==
    ASSUME TypeOK, RequestInv, RouteInv, NEW id \in Requests, PoolAnswers(id)
    PROVE  /\ RouteInv'
           /\ \A i \in Requests : given[i] \subseteq given'[i]
<1>1. PICK a \in Answers : /\ answers' = answers \cup {[id |-> id, answer |-> a]}
                           /\ given' = [given EXCEPT ![id] = {Taken(a)}]
                           /\ given[id] \subseteq {Taken(a)}
  BY DEF PoolAnswers
<1>2. /\ id \in wire /\ wire' \subseteq wire
      /\ UNCHANGED <<nextRequestID, pending, respCh, reading, pc, req>>
  BY DEF PoolAnswers, sending, routing
<1>3. /\ \A i \in Requests : given[i] \subseteq given'[i]
      /\ \A i \in Requests \ {id} : given'[i] = given[i]
      /\ Taken(a) \in given'[id]
  BY <1>1 DEF TypeOK
<1>4. \A v \in Workers : pc[v] \in Sending => Unsent(req[v])'
  <2>1. SUFFICES ASSUME NEW v \in Workers, pc[v] \in Sending PROVE Unsent(req[v])'
    OBVIOUS
  <2>2. Unsent(req[v]) /\ req[v] # id /\ req[v] \in Requests
    BY <1>2, <2>1 DEF RouteInv, Unsent, Sending, TypeOK
  <2>3. \A b \in (answers \cup reading)' : b.id # req[v]
    BY <1>1, <1>2, <2>2 DEF Unsent
  <2> QED
    BY <1>2, <1>3, <2>2, <2>3 DEF Unsent
<1>5. \A b \in (answers \cup reading)' : Taken(b.answer) \in given'[b.id]
  <2>1. \A b \in answers \cup reading : Taken(b.answer) \in given[b.id] /\ b.id \in Requests
    BY DEF RouteInv, TypeOK, AnswerSet
  <2>2. \A b \in answers \cup reading : Taken(b.answer) \in given'[b.id]
    BY <1>3, <2>1
  <2> QED
    BY <1>1, <1>2, <1>3, <2>2
<1>6. \A i \in Requests : i > nextRequestID => given'[i] = {}
  <2>1. id <= nextRequestID /\ id \in Nat /\ nextRequestID \in Nat
    BY <1>2, IdsGivenOut DEF Requests
  <2> QED
    BY <1>3, <2>1 DEF RouteInv
<1> QED
  BY <1>2, <1>3, <1>4, <1>5, <1>6 DEF RouteInv, Sending

LEMMA RouteNext ==
    TypeOK /\ SendInv /\ RequestInv /\ RouteInv /\ [Next]_vars => RouteInv'
<1> SUFFICES ASSUME TypeOK, SendInv, RequestInv, RouteInv, [Next]_vars PROVE RouteInv'
  OBVIOUS
<1>1. Reporter \in Senders /\ \A w \in Workers : w # Reporter /\ w \in Senders
  BY SharesAssumption DEF Senders
<1>2. ASSUME NEW p \in Senders, UNCHANGED <<routing, network, nextRequestID, req>>,
             \E label : /\ Goto(p, label)
                        /\ p \in Workers /\ label \in Sending => pc[p] \in Sending
      PROVE  RouteInv'
  BY <1>2, RouteFrame DEF Goto, TypeOK, Senders
<1>3. ASSUME NEW w \in Workers, SubmitShare(w) PROVE RouteInv'
  <2>1. CASE LockSend(w) \/ TakeConn(w)
    BY <1>1, <1>2, <2>1 DEF LockSend, TakeConn, Sending
  <2>2. CASE SubmitNotConnected(w)
    BY <2>2, RouteForget DEF SubmitNotConnected, Unlock, Sending
  <2>3. CASE SubmitWriteFails(w)
    BY <2>3, RouteForget DEF SubmitWriteFails, WriteFails, Unlock, Sending
  <2> QED
    BY <1>3, <2>1, <2>2, <2>3, RouteRegister, RouteWritten DEF SubmitShare
<1>4. ASSUME NEW w \in Workers, AwaitTimeout(w) \/ RecordManager(w) \/ RecordMonitor(w)
      PROVE  RouteInv'
  BY <1>4, RouteFrame DEF AwaitTimeout, RecordManager, RecordMonitor, Goto, TypeOK,
                          Senders, Sending
<1>5. CASE HashReport
  BY <1>1, <1>2, <1>5 DEF HashReport, ReportTick, LockSend, TakeConn, ReportWritten,
                          ReportFails, Unlock
<1>6. CASE Hash \/ Reconnect \/ UNCHANGED vars
  BY <1>6, RouteFrame DEF Hash, Reconnect, vars, sending
<1>7. CASE ReadError \/ Stop
  BY <1>7 DEF ReadError, Stop, StopBegins, StopEnds, sending, routing, RouteInv, Unsent
<1> QED
  BY <1>3, <1>4, <1>5, <1>6, <1>7, RouteVerdict, RouteTake, RouteDeliver, RouteAnswers
     DEF Next, Await, ReadLoop

(***************************************************************************)
(* Verdicts, and the recording of them.                                    *)
(***************************************************************************)

\* Every step but four leaves the channels as they are, and the pool takes no
\* answer back.
LEMMA ChannelSteps ==
    ASSUME TypeOK, RequestInv, RouteInv, [Next]_vars
    PROVE  /\ \A id \in Requests : given[id] \subseteq given'[id]
           /\ \/ UNCHANGED respCh
              \/ \E w \in Workers : SubmitRegister(w)
              \/ \E w \in Workers : SubmitWriteFails(w)
              \/ \E w \in Workers : AwaitVerdict(w)
              \/ \E a \in reading : DeliverResponse(a)
<1>1. ASSUME NEW w \in Workers, SubmitShare(w) \/ Await(w)
      PROVE  /\ UNCHANGED given
             /\ \/ UNCHANGED respCh \/ SubmitRegister(w) \/ SubmitWriteFails(w)
                \/ AwaitVerdict(w)
  <2>1. CASE SubmitShare(w)
    BY <2>1 DEF SubmitShare, SubmitRegister, LockSend, TakeConn, SubmitNotConnected,
                SubmitWritten, SubmitWriteFails, network, routing
  <2>2. CASE Await(w)
    BY <2>2 DEF Await, AwaitVerdict, AwaitTimeout, RecordManager, RecordMonitor,
                network, routing
  <2> QED
    BY <1>1, <2>1, <2>2
<1>2. CASE HashReport \/ Hash \/ Reconnect \/ UNCHANGED vars
  BY <1>2 DEF HashReport, ReportTick, LockSend, TakeConn, ReportWritten, ReportFails,
              Hash, Reconnect, vars, network, routing
<1>3. CASE ReadLoop \/ Stop
  BY <1>3 DEF ReadLoop, TakeResponse, DeliverResponse, ReadError, Stop, StopBegins,
              StopEnds, network, routing
<1>4. ASSUME NEW id \in Requests, PoolAnswers(id)
      PROVE  UNCHANGED respCh /\ \A i \in Requests : given[i] \subseteq given'[i]
  BY <1>4, RouteAnswers DEF PoolAnswers, routing
<1> QED
  BY <1>1, <1>2, <1>3, <1>4 DEF Next

\* The outcome of an answer says what the pool said.
LEMMA OutcomeOfAnswer ==
    ASSUME NEW a \in Answers
    PROVE  Outcome(Verdict(a)) = IF Taken(a) THEN "accepted" ELSE "rejected"
  BY DEF Answers, Refusals, Taken, Verdict, Outcome

LEMMA VerdictNext ==
    TypeOK /\ RequestInv /\ RouteInv /\ VerdictInv /\ [Next]_vars => VerdictInv'
<1> SUFFICES ASSUME TypeOK, RequestInv, RouteInv, VerdictInv, [Next]_vars,
                    NEW id \in Requests
             PROVE  /\ respCh'[id] = "accepted" => TRUE \in given'[id]
                    /\ respCh'[id] = "rejected" => FALSE \in given'[id]
  BY DEF VerdictInv
<1>1. given[id] \subseteq given'[id]
  BY ChannelSteps
<1>2. CASE respCh'[id] = respCh[id]
  BY <1>1, <1>2 DEF VerdictInv
<1>3. CASE respCh'[id] \in {"empty", "closed"}
  BY <1>3
<1>4. ASSUME NEW a \in reading, DeliverResponse(a), a.id = id
      PROVE  /\ respCh'[id] = "accepted" => TRUE \in given'[id]
             /\ respCh'[id] = "rejected" => FALSE \in given'[id]
  <2>1. respCh'[id] = Outcome(Verdict(a.answer))
    BY <1>4 DEF DeliverResponse, TypeOK
  <2>2. a.answer \in Answers /\ Taken(a.answer) \in given'[id]
    BY <1>1, <1>4 DEF RouteInv, TypeOK, AnswerSet
  <2>3. CASE Taken(a.answer)
    <3>1. Taken(a.answer) = TRUE /\ respCh'[id] = "accepted"
      BY <2>1, <2>2, <2>3, OutcomeOfAnswer DEF Taken
    <3> QED
      BY <2>2, <3>1
  <2>4. CASE ~Taken(a.answer)
    <3>1. Taken(a.answer) = FALSE /\ respCh'[id] = "rejected"
      BY <2>1, <2>2, <2>4, OutcomeOfAnswer DEF Taken
    <3> QED
      BY <2>2, <3>1
  <2> QED
    BY <2>3, <2>4
<1>5. ASSUME NEW w \in Workers, SubmitRegister(w) \/ SubmitWriteFails(w) \/ AwaitVerdict(w)
      PROVE  respCh'[id] \in {respCh[id], "empty", "closed"}
  BY <1>5 DEF SubmitRegister, SubmitWriteFails, AwaitVerdict, TypeOK
<1>6. ASSUME NEW a \in reading, DeliverResponse(a), a.id # id
      PROVE  respCh'[id] = respCh[id]
  BY <1>6 DEF DeliverResponse, TypeOK
<1> QED
  BY <1>2, <1>3, <1>4, <1>5, <1>6, ChannelSteps

\* An id that is settled, and was answered, stays so.
LEMMA SettledStays ==
    ASSUME TypeOK, RequestInv, RouteInv, [Next]_vars,
           NEW id \in Requests, Settled(id), given[id] # {}
    PROVE  Settled(id)'
<1>1. id \in Requests /\ id \notin pending /\ respCh[id] = "empty"
  BY DEF Settled
<1>2. \A w \in Workers : pc[w] \in Sending => req[w] # id
  BY <1>1 DEF RouteInv, Unsent, Sending
<1>3. nextRequestID + 1 # id
  <2>1. nextRequestID \in Nat /\ nextRequestID + 1 > nextRequestID
    BY SharesAssumption DEF TypeOK
  <2> QED
    BY <1>1, <2>1 DEF RouteInv
<1>4. id \notin pending'
  <2>1. pending' \subseteq pending \/ \E w \in Workers : SubmitRegister(w)
    <3>1. ASSUME NEW w \in Workers, SubmitShare(w) \/ Await(w)
          PROVE  pending' \subseteq pending \/ SubmitRegister(w)
      <4>1. CASE SubmitShare(w)
        BY <4>1 DEF SubmitShare, LockSend, TakeConn, SubmitNotConnected, SubmitWritten,
                    SubmitWriteFails, routing
      <4>2. CASE Await(w)
        BY <4>2 DEF Await, AwaitVerdict, AwaitTimeout, RecordManager, RecordMonitor,
                    routing
      <4> QED
        BY <3>1, <4>1, <4>2
    <3>2. CASE HashReport \/ Elsewhere \/ UNCHANGED vars
      BY <3>2 DEF HashReport, ReportTick, LockSend, TakeConn, ReportWritten,
           ReportFails, Elsewhere, Hash, ReadLoop, TakeResponse, DeliverResponse,
           ReadError, Reconnect, Stop, StopBegins, StopEnds, PoolAnswers, vars, routing
    <3> QED
      BY <3>1, <3>2 DEF Next, Elsewhere
  <2> QED
    BY <1>1, <1>3, <2>1 DEF SubmitRegister
<1>5. \A a \in reading' : a.id # id
  <2>1. reading' \subseteq reading \/ \E a \in answers : TakeResponse(a)
    <3>1. ASSUME NEW w \in Workers, SubmitShare(w) \/ Await(w) PROVE UNCHANGED reading
      <4>1. CASE SubmitShare(w)
        BY <4>1 DEF SubmitShare, SubmitRegister, LockSend, TakeConn,
                    SubmitNotConnected, SubmitWritten, SubmitWriteFails, routing
      <4>2. CASE Await(w)
        BY <4>2 DEF Await, AwaitVerdict, AwaitTimeout, RecordManager, RecordMonitor,
                    routing
      <4> QED
        BY <3>1, <4>1, <4>2
    <3>2. CASE HashReport \/ Elsewhere \/ UNCHANGED vars
      BY <3>2 DEF HashReport, ReportTick, LockSend, TakeConn, ReportWritten,
           ReportFails, Elsewhere, Hash, ReadLoop, TakeResponse, DeliverResponse,
           ReadError, Reconnect, Stop, StopBegins, StopEnds, PoolAnswers, vars, routing
    <3> QED
      BY <3>1, <3>2 DEF Next, Elsewhere
  <2> QED
    BY <1>1, <2>1 DEF Settled, TakeResponse
<1>6. respCh'[id] = "empty"
  <2>1. ASSUME NEW w \in Workers, SubmitRegister(w) \/ AwaitVerdict(w)
        PROVE  respCh'[id] = "empty"
    BY <1>1, <2>1 DEF SubmitRegister, AwaitVerdict, TypeOK
  <2>2. ASSUME NEW w \in Workers, SubmitWriteFails(w) PROVE respCh'[id] = "empty"
    <3>1. req[w] # id
      BY <1>2, <2>2 DEF SubmitWriteFails, WriteFails, Sending
    <3> QED
      BY <1>1, <2>2, <3>1 DEF SubmitWriteFails, TypeOK
  <2>3. ASSUME NEW a \in reading, DeliverResponse(a) PROVE respCh'[id] = "empty"
    <3>1. a.id # id
      BY DEF Settled
    <3> QED
      BY <1>1, <2>3, <3>1 DEF DeliverResponse, TypeOK
  <2> QED
    BY <1>1, <2>1, <2>2, <2>3, ChannelSteps
<1> QED
  BY <1>4, <1>5, <1>6 DEF Settled

\* Where a worker is with its request, and what it records, changes only by its
\* own steps.
Place(w) == <<pc[w], req[w], verdict[w]>>

\* The steps of a worker that record nothing: they neither start from the
\* recording of a verdict nor end in it, except to tell the monitor of a share
\* that was not sent.
NothingRecorded(w) ==
    /\ \/ pc[w] \notin {"manager", "monitor"}
       \/ pc[w] = "monitor" /\ pc'[w] = "monitor"
    /\ pc'[w] # "manager" /\ verdict'[w] = verdict[w]

\* The submission a worker has under way stays its own; a new one has a new id.
SameRequest(w) ==
    \/ req'[w] = req[w]
    \/ pc[w] = "idle" /\ req'[w] = nextRequestID + 1 /\ nextRequestID' = nextRequestID + 1
    \/ pc'[w] = "idle" /\ req'[w] = NoReq

Recordings(w) == AwaitVerdict(w) \/ RecordManager(w) \/ RecordMonitor(w)

LEMMA RecordingSteps ==
    ASSUME TypeOK, SendInv, [Next]_vars
    PROVE  \/ \E w \in Workers : Recordings(w)
           \/ /\ UNCHANGED counts
              /\ manager' = "serving" => manager = "serving"
              /\ \/ \A v \in Workers : Place(v)' = Place(v)
                 \/ \E w \in Workers :
                      /\ NothingRecorded(w)
                      /\ SameRequest(w)
                      /\ \A v \in Workers \ {w} : Place(v)' = Place(v)
<1>1. Reporter \in Senders /\ \A w \in Workers : w # Reporter /\ w \in Senders
  BY SharesAssumption DEF Senders
<1>2. ASSUME NEW w \in Workers, SubmitShare(w) \/ AwaitTimeout(w)
      PROVE  /\ UNCHANGED shares
             /\ NothingRecorded(w) /\ SameRequest(w)
             /\ \A v \in Workers \ {w} : Place(v)' = Place(v)
  <2>1. UNCHANGED shares
    BY <1>2 DEF SubmitShare, SubmitRegister, LockSend, TakeConn, SubmitNotConnected,
                SubmitWritten, SubmitWriteFails, AwaitTimeout
  <2>2. /\ pc[w] \in {"idle", "lock", "conn", "write", "wait"}
        /\ \E label \in {"idle", "lock", "conn", "write", "wait", "monitor"} : Goto(w, label)
    BY <1>2 DEF SubmitShare, SubmitRegister, LockSend, TakeConn, SubmitNotConnected,
                SubmitWritten, SubmitWriteFails, Written, WriteFails, Unlock, AwaitTimeout
  <2>3. \/ UNCHANGED req
        \/ /\ pc[w] = "idle" /\ nextRequestID' = nextRequestID + 1
           /\ req' = [req EXCEPT ![w] = nextRequestID + 1]
        \/ Goto(w, "idle") /\ req' = [req EXCEPT ![w] = NoReq]
    BY <1>2 DEF SubmitShare, SubmitRegister, LockSend, TakeConn, SubmitNotConnected,
                SubmitWritten, SubmitWriteFails, AwaitTimeout
  <2>4. NothingRecorded(w)
    BY <1>1, <2>1, <2>2 DEF NothingRecorded, Goto, TypeOK, shares, counts
  <2>5. SameRequest(w)
    BY <1>1, <2>3 DEF SameRequest, Goto, TypeOK
  <2>6. \A v \in Workers \ {w} : Place(v)' = Place(v)
    BY <1>1, <2>1, <2>2, <2>3 DEF Place, Goto, TypeOK, shares, counts
  <2> QED
    BY <2>1, <2>4, <2>5, <2>6
<1>3. CASE HashReport
  <2>1. UNCHANGED <<shares, req>>
    BY <1>3 DEF HashReport, ReportTick, LockSend, TakeConn, ReportWritten, ReportFails
  <2>2. \E label : Goto(Reporter, label)
    BY <1>3 DEF HashReport, ReportTick, LockSend, TakeConn, ReportWritten,
                ReportFails, Unlock
  <2> QED
    BY <1>1, <2>1, <2>2 DEF Place, Goto, TypeOK, shares, counts
<1>4. CASE Elsewhere \/ UNCHANGED vars
  <2>1. UNCHANGED sending
    BY <1>4, ElsewhereFrame DEF vars
  <2>2. UNCHANGED counts /\ (manager' = "serving" => manager = "serving")
    BY <1>4 DEF Elsewhere, Hash, ReadLoop, TakeResponse, DeliverResponse, ReadError,
         Reconnect, Stop, StopBegins, StopEnds, PoolAnswers, vars, shares
  <2> QED
    BY <2>1, <2>2 DEF Place, sending, counts
<1> QED
  BY <1>2, <1>3, <1>4 DEF Next, Elsewhere, Await, Recordings, shares

\* What the three steps that record a verdict do.
LEMMA RecordingTypes ==
    ASSUME TypeOK, NEW w \in Workers, Recordings(w)
    PROVE  /\ \A v \in Workers \ {w} : Place(v)' = Place(v)
           /\ UNCHANGED <<manager, nextRequestID, given, pending, reading>>
           /\ AwaitVerdict(w) =>
                /\ pc[w] = "wait" /\ pc'[w] = "manager" /\ req'[w] = req[w]
                /\ respCh[req[w]] \in {"accepted", "rejected"}
                /\ verdict'[w] = (respCh[req[w]] = "accepted")
                /\ accepted' = IF verdict'[w] THEN accepted + 1 ELSE accepted
                /\ UNCHANGED <<poolShares, monitorShares>>
           /\ RecordManager(w) =>
                /\ pc[w] = "manager" /\ pc'[w] = "monitor" /\ req'[w] = req[w]
                /\ verdict'[w] = verdict[w]
                /\ poolShares' = IF manager = "serving" THEN Count(poolShares, verdict[w])
                                                        ELSE poolShares
                /\ UNCHANGED <<accepted, monitorShares, respCh>>
           /\ RecordMonitor(w) =>
                /\ pc[w] = "monitor" /\ pc'[w] = "idle" /\ req'[w] = NoReq
                /\ verdict'[w] = FALSE
                /\ monitorShares' = Count(monitorShares, verdict[w])
                /\ UNCHANGED <<accepted, poolShares, respCh>>
<1>1. w \in Senders
  BY DEF Senders
<1>2. CASE AwaitVerdict(w)
  BY <1>1, <1>2 DEF AwaitVerdict, RecordManager, RecordMonitor, Goto, Place, TypeOK,
                    network, Senders
<1>3. CASE RecordManager(w)
  BY <1>1, <1>3 DEF AwaitVerdict, RecordManager, RecordMonitor, Goto, Place, TypeOK,
                    network, routing, Senders
<1>4. CASE RecordMonitor(w)
  BY <1>1, <1>4 DEF AwaitVerdict, RecordManager, RecordMonitor, Goto, Place, TypeOK,
                    network, routing, Senders
<1> QED
  BY <1>2, <1>3, <1>4 DEF Recordings

LEMMA RecordInit == Init => RecordInv
  BY DEF Init, RecordInv, Senders

\* The worker that read a verdict holds it against an id that is settled.
LEMMA VerdictSettles ==
    ASSUME TypeOK, RequestInv, RouteInv, VerdictInv, NEW w \in Workers, AwaitVerdict(w)
    PROVE  /\ req[w] \in Requests
           /\ Settled(req[w])' /\ ~Settled(req[w])
           /\ verdict'[w] => TRUE \in given'[req[w]]
           /\ ~verdict'[w] => FALSE \in given'[req[w]]
<1>1. /\ pc[w] = "wait" /\ respCh[req[w]] \in {"accepted", "rejected"}
      /\ verdict'[w] = (respCh[req[w]] = "accepted")
      /\ req'[w] = req[w]
      /\ UNCHANGED <<given, pending, reading>>
  BY RecordingTypes DEF Recordings
<1>2. req[w] \in Requests
  BY <1>1 DEF RequestInv, TypeOK
<1>3. respCh'[req[w]] = "empty"
  BY <1>2 DEF AwaitVerdict, TypeOK
<1>4. req[w] \notin pending /\ \A a \in reading : a.id # req[w]
  BY <1>1 DEF RouteInv
<1>5. Settled(req[w])' /\ ~Settled(req[w])
  BY <1>1, <1>3, <1>4 DEF Settled
<1>6. /\ respCh[req[w]] = "accepted" => TRUE \in given'[req[w]]
      /\ respCh[req[w]] = "rejected" => FALSE \in given'[req[w]]
  BY <1>1, <1>2 DEF VerdictInv
<1>7. CASE respCh[req[w]] = "accepted"
  BY <1>1, <1>2, <1>5, <1>6, <1>7
<1>8. CASE respCh[req[w]] = "rejected"
  BY <1>1, <1>2, <1>5, <1>6, <1>8
<1> QED
  BY <1>1, <1>7, <1>8

LEMMA RecordNext ==
    ASSUME TypeOK, SendInv, RequestInv, RouteInv, VerdictInv, RecordInv, [Next]_vars
    PROVE  RecordInv'
<1> DEFINE R(v) == /\ verdict[v] => pc[v] \in {"manager", "monitor"} /\ TRUE \in given[req[v]]
                   /\ pc[v] = "manager" =>
                        Settled(req[v]) /\ (~verdict[v] => FALSE \in given[req[v]])
<1>1. \A v \in Workers : R(v)
  BY DEF RecordInv
<1>2. \A id \in Requests : given[id] \subseteq given'[id]
  BY ChannelSteps
<1>3. \A v \in Workers : pc[v] # "idle" => req[v] \in Requests
  BY DEF RequestInv, TypeOK
<1>4. \A id \in Requests : Settled(id) /\ given[id] # {} => Settled(id)'
  BY SettledStays
<1>5. \A v \in Workers : verdict[v] \in BOOLEAN
  BY DEF TypeOK
\* A worker that does not move records what it recorded.
<1>6. ASSUME NEW v \in Workers, Place(v)' = Place(v) PROVE R(v)'
  <2>1. pc'[v] = pc[v] /\ req'[v] = req[v] /\ verdict'[v] = verdict[v]
    BY <1>6 DEF Place
  <2>2. ASSUME verdict'[v]
        PROVE  pc'[v] \in {"manager", "monitor"} /\ TRUE \in given'[req'[v]]
    BY <1>1, <1>2, <1>3, <2>1, <2>2
  <2>3. ASSUME pc'[v] = "manager"
        PROVE  Settled(req[v])' /\ (~verdict'[v] => FALSE \in given'[req'[v]])
    <3>1. Settled(req[v]) /\ req[v] \in Requests /\ given[req[v]] # {}
      BY <1>1, <1>3, <2>1, <2>3
    <3>2. Settled(req[v])'
      <4> DEFINE i == req[v]
      <4>1. i \in Requests /\ Settled(i) /\ given[i] # {}
        BY <3>1
      <4>2. i \notin pending' /\ respCh'[i] = "empty" /\ \A a \in reading' : a.id # i
        BY <1>4, <4>1 DEF Settled
      <4> QED
        BY <2>1, <4>2 DEF Settled
    <3> QED
      BY <1>1, <1>2, <2>1, <2>3, <3>1, <3>2
  <2> QED
    BY <2>2, <2>3
<1>7. ASSUME NEW w \in Workers, NothingRecorded(w), SameRequest(w) PROVE R(w)'
  <2>1. ~verdict[w] \/ (pc[w] = "monitor" /\ pc'[w] = "monitor")
    BY <1>1, <1>7 DEF NothingRecorded
  <2>2. pc[w] = "monitor" /\ pc'[w] = "monitor" => req'[w] = req[w]
    BY <1>7 DEF SameRequest
  <2>3. verdict'[w] = verdict[w] /\ pc'[w] # "manager"
    BY <1>7 DEF NothingRecorded
  <2>4. verdict'[w] => pc'[w] \in {"manager", "monitor"} /\ TRUE \in given'[req'[w]]
    BY <1>1, <1>2, <1>3, <2>1, <2>2, <2>3
  <2> QED
    BY <2>3, <2>4
<1>8. ASSUME NEW w \in Workers, Recordings(w) PROVE R(w)'
  <2>1. CASE AwaitVerdict(w)
    <3>1. pc'[w] = "manager" /\ req'[w] = req[w]
      BY <1>8, <2>1, RecordingTypes
    <3>2. Settled(req[w])' /\ (verdict'[w] => TRUE \in given'[req[w]])
          /\ (~verdict'[w] => FALSE \in given'[req[w]])
      BY <2>1, VerdictSettles
    <3> QED
      BY <3>1, <3>2
  <2>2. CASE RecordManager(w)
    <3>1. pc[w] = "manager" /\ pc'[w] = "monitor" /\ req'[w] = req[w]
          /\ verdict'[w] = verdict[w]
      BY <1>8, <2>2, RecordingTypes
    <3> QED
      BY <1>1, <1>2, <1>3, <3>1
  <2>3. CASE RecordMonitor(w)
    <3>1. pc'[w] = "idle" /\ verdict'[w] = FALSE
      BY <1>8, <2>3, RecordingTypes
    <3> QED
      BY <3>1
  <2> QED
    BY <1>8, <2>1, <2>2, <2>3 DEF Recordings
<1>9. \A v \in Workers : R(v)'
  <2>1. ASSUME NEW w \in Workers, Recordings(w) PROVE \A v \in Workers : R(v)'
    <3>1. \A v \in Workers \ {w} : Place(v)' = Place(v)
      BY <2>1, RecordingTypes
    <3> QED
      BY <1>6, <1>8, <2>1, <3>1
  <2> QED
    BY <1>6, <1>7, <2>1, RecordingSteps
<1> QED
  BY <1>9 DEF RecordInv

(***************************************************************************)
(* Counting.                                                               *)
(***************************************************************************)
LEMMA RequestsFinite ==
    /\ IsFiniteSet(Requests)
    /\ \A S \in SUBSET Requests : IsFiniteSet(S) /\ Cardinality(S) \in Nat
    /\ \A S, T \in SUBSET Requests : S \subseteq T => Cardinality(S) <= Cardinality(T)
<1>1. IsFiniteSet(Requests)
  BY SharesAssumption, FS_Interval DEF Requests
<1> QED
  BY <1>1, FS_Subset, FS_CardinalityType

LEMMA CardinalityGrows ==
    ASSUME NEW S \in SUBSET Requests, NEW T \in SUBSET Requests, S \subseteq T,
           NEW x \in T, x \notin S
    PROVE  Cardinality(S) + 1 <= Cardinality(T)
<1>1. IsFiniteSet(S) /\ S \cup {x} \subseteq T /\ S \cup {x} \in SUBSET Requests
  BY RequestsFinite
<1>2. Cardinality(S \cup {x}) = Cardinality(S) + 1
  BY <1>1, FS_AddElement
<1>3. Cardinality(S \cup {x}) <= Cardinality(T)
  BY <1>1, RequestsFinite
<1> QED
  BY <1>2, <1>3

LEMMA TallySets ==
    /\ DoneTaken \in SUBSET Requests /\ NotedRefused \in SUBSET Requests
    /\ NotedAnswered \in SUBSET Requests
    /\ DoneTaken' \in SUBSET Requests /\ NotedRefused' \in SUBSET Requests
    /\ NotedAnswered' \in SUBSET Requests
  BY DEF DoneTaken, NotedRefused, NotedAnswered, Noted, Done

\* An id that is done, or noted, and was answered, stays so.
LEMMA DoneGrows ==
    ASSUME TypeOK, SendInv, RequestInv, RouteInv, VerdictInv, [Next]_vars
    PROVE  /\ DoneTaken \subseteq DoneTaken' /\ NotedRefused \subseteq NotedRefused'
           /\ NotedAnswered \subseteq NotedAnswered'
<1>1. \A id \in Done : given[id] # {} => id \in Done' /\ given[id] \subseteq given'[id]
  BY SettledStays, ChannelSteps DEF Done
<1>2. ASSUME NEW id \in Noted, given[id] # {} PROVE id \in Noted'
  <2>1. id \in Done' /\ id \in Requests /\ Settled(id)
    BY <1>1, <1>2 DEF Noted, Done
  <2>2. id # nextRequestID + 1 /\ id # NoReq
    <3>1. nextRequestID \in Nat /\ nextRequestID + 1 > nextRequestID
      BY SharesAssumption DEF TypeOK
    <3> QED
      BY <1>2, <2>1, <3>1 DEF RouteInv, Requests, NoReq
  <2>3. ASSUME NEW v \in Workers, Place(v)' = Place(v), req'[v] = id
        PROVE  pc'[v] # "manager"
    BY <1>2, <2>3 DEF Place, Noted
  <2>4. ASSUME NEW w \in Workers, Recordings(w), req'[w] = id PROVE pc'[w] # "manager"
    <3>1. CASE AwaitVerdict(w)
      BY <2>1, <2>4, <3>1, VerdictSettles, RecordingTypes
    <3>2. CASE RecordManager(w) \/ RecordMonitor(w)
      BY <2>4, <3>2, RecordingTypes
    <3> QED
      BY <2>4, <3>1, <3>2 DEF Recordings
  <2>5. \A v \in Workers : req'[v] = id => pc'[v] # "manager"
    <3>1. ASSUME NEW w \in Workers, Recordings(w)
          PROVE  \A v \in Workers : req'[v] = id => pc'[v] # "manager"
      <4>1. \A v \in Workers \ {w} : Place(v)' = Place(v)
        BY <3>1, RecordingTypes
      <4> QED
        BY <2>3, <2>4, <3>1, <4>1
    <3>2. ASSUME NEW w \in Workers, NothingRecorded(w) PROVE pc'[w] # "manager"
      BY <3>2 DEF NothingRecorded
    <3> QED
      BY <2>3, <3>1, <3>2, RecordingSteps
  <2> QED
    BY <2>1, <2>5 DEF Noted
<1> QED
  BY <1>1, <1>2 DEF DoneTaken, NotedRefused, NotedAnswered, Noted

LEMMA TallyInit == Init => TallyInv
  BY RequestsFinite, TallySets DEF Init, TallyInv

\* The id whose verdict the manager has counted is noted, which it was not.
LEMMA ManagerNotes ==
    ASSUME TypeOK, RequestInv, RecordInv, NEW w \in Workers, RecordManager(w)
    PROVE  /\ req[w] \in Noted' /\ req[w] \notin Noted
           /\ given'[req[w]] = given[req[w]]
           /\ verdict[w] => TRUE \in given[req[w]]
           /\ ~verdict[w] => FALSE \in given[req[w]]
<1>1. /\ pc[w] = "manager" /\ pc'[w] = "monitor" /\ req'[w] = req[w]
      /\ UNCHANGED <<given, pending, reading, respCh>>
      /\ \A v \in Workers \ {w} : Place(v)' = Place(v)
  BY RecordingTypes DEF Recordings
<1>2. req[w] \in Requests /\ Settled(req[w]) /\ req[w] # NoReq
  BY <1>1 DEF RequestInv, TypeOK, RecordInv
<1>3. \A v \in Workers : req'[v] = req[w] => v = w
  BY <1>1, <1>2 DEF RequestInv, Place
<1>4. req[w] \in Done'
  BY <1>1, <1>2 DEF Done, Settled
<1>5. req[w] \in Noted'
  BY <1>1, <1>3, <1>4 DEF Noted
<1> QED
  BY <1>1, <1>5 DEF Noted, RecordInv

LEMMA TallyNext ==
    ASSUME TypeOK, SendInv, RequestInv, RouteInv, VerdictInv, RecordInv, TallyInv,
           [Next]_vars
    PROVE  TallyInv'
<1>1. /\ DoneTaken \subseteq DoneTaken' /\ NotedRefused \subseteq NotedRefused'
      /\ NotedAnswered \subseteq NotedAnswered'
  BY DoneGrows
<1> DEFINE A == Cardinality(DoneTaken)
           R == Cardinality(NotedRefused)
           G == Cardinality(NotedAnswered)
<1>3. /\ A \in Nat /\ R \in Nat /\ G \in Nat /\ A' \in Nat /\ R' \in Nat /\ G' \in Nat
      /\ A <= A' /\ R <= R' /\ G <= G'
  BY <1>1, TallySets, RequestsFinite
<1>4. /\ poolShares \in Counters /\ poolShares.accepted \in Nat /\ poolShares.rejected \in Nat
      /\ accepted \in Nat
  BY DEF TypeOK, Counters
<1>5. /\ accepted <= A /\ poolShares.rejected <= R
      /\ poolShares.accepted + poolShares.rejected <= G
  BY DEF TallyInv
<1>6. ASSUME NEW w \in Workers, AwaitVerdict(w) PROVE TallyInv'
  <2>1. /\ UNCHANGED poolShares
        /\ accepted' = IF verdict'[w] THEN accepted + 1 ELSE accepted
    BY <1>6, RecordingTypes DEF Recordings
  <2>2. accepted' <= A'
    <3>1. CASE verdict'[w]
      <4>1. req[w] \in DoneTaken' /\ req[w] \notin DoneTaken
        <5>1. req'[w] = req[w]
          BY <1>6, RecordingTypes DEF Recordings
        <5> QED
          BY <1>6, <3>1, <5>1, VerdictSettles DEF DoneTaken, Done, Settled
      <4>2. A + 1 <= A'
        BY <1>1, <4>1, TallySets, CardinalityGrows
      <4> QED
        BY <1>3, <1>4, <1>5, <2>1, <3>1, <4>2
    <3>2. CASE ~verdict'[w]
      BY <1>3, <1>4, <1>5, <2>1, <3>2
    <3> QED
      BY <3>1, <3>2
  <2> QED
    BY <1>3, <1>4, <1>5, <2>1, <2>2 DEF TallyInv
<1>7. ASSUME NEW w \in Workers, RecordManager(w) PROVE TallyInv'
  <2>1. /\ UNCHANGED accepted
        /\ poolShares' = IF manager = "serving" THEN Count(poolShares, verdict[w])
                                                ELSE poolShares
    BY <1>7, RecordingTypes DEF Recordings
  <2>2. CASE manager # "serving"
    BY <1>3, <1>4, <1>5, <2>1, <2>2 DEF TallyInv
  <2>3. CASE manager = "serving" /\ verdict[w]
    <3>1. poolShares'.accepted = poolShares.accepted + 1
          /\ poolShares'.rejected = poolShares.rejected
      BY <1>4, <2>1, <2>3 DEF Count, Counters
    <3>2. req[w] \in NotedAnswered' /\ req[w] \notin NotedAnswered
      BY <1>7, <2>3, ManagerNotes DEF NotedAnswered
    <3>3. G + 1 <= G'
      BY <1>1, <3>2, TallySets, CardinalityGrows
    <3> QED
      BY <1>3, <1>4, <1>5, <2>1, <3>1, <3>3 DEF TallyInv
  <2>4. CASE manager = "serving" /\ ~verdict[w]
    <3>1. poolShares'.accepted = poolShares.accepted
          /\ poolShares'.rejected = poolShares.rejected + 1
      BY <1>4, <2>1, <2>4 DEF Count, Counters
    <3>2. /\ req[w] \in NotedAnswered' /\ req[w] \notin NotedAnswered
          /\ req[w] \in NotedRefused' /\ req[w] \notin NotedRefused
      BY <1>7, <2>4, ManagerNotes DEF NotedAnswered, NotedRefused
    <3>3. G + 1 <= G' /\ R + 1 <= R'
      BY <1>1, <3>2, TallySets, CardinalityGrows
    <3> QED
      BY <1>3, <1>4, <1>5, <2>1, <3>1, <3>3 DEF TallyInv
  <2> QED
    BY <2>2, <2>3, <2>4
<1>8. ASSUME UNCHANGED <<accepted, poolShares>> PROVE TallyInv'
  BY <1>3, <1>4, <1>5, <1>8 DEF TallyInv
<1>9. ASSUME NEW w \in Workers, RecordMonitor(w) PROVE TallyInv'
  BY <1>8, <1>9, RecordingTypes DEF Recordings
<1> QED
  BY <1>6, <1>7, <1>8, <1>9, RecordingSteps DEF Recordings, counts

\* The monitor counts an id as its caller returns.
LEMMA MonitorInit == Init => MonitorInv
<1>1. Returned \in SUBSET Requests
  BY DEF Returned
<1> QED
  BY <1>1, RequestsFinite DEF Init, MonitorInv

LEMMA MonitorNext ==
    ASSUME TypeOK, SendInv, RequestInv, RouteInv, MonitorInv, [Next]_vars
    PROVE  MonitorInv'
<1>1. /\ Returned \in SUBSET Requests /\ Returned' \in SUBSET Requests
      /\ Cardinality(Returned) \in Nat /\ Cardinality(Returned') \in Nat
  BY RequestsFinite DEF Returned
<1>2. /\ monitorShares \in Counters
      /\ monitorShares.accepted \in Nat /\ monitorShares.rejected \in Nat
  BY DEF TypeOK, Counters
<1>3. /\ nextRequestID \in Nat /\ nextRequestID' \in Nat
      /\ nextRequestID <= nextRequestID'
  <2>1. nextRequestID \in Nat
    BY SharesAssumption DEF TypeOK
  <2>2. nextRequestID' \in {nextRequestID, nextRequestID + 1}
    <3>1. ASSUME NEW w \in Workers, SubmitShare(w) \/ Await(w)
          PROVE  nextRequestID' \in {nextRequestID, nextRequestID + 1}
      BY <3>1 DEF SubmitShare, SubmitRegister, LockSend, TakeConn, SubmitNotConnected,
           SubmitWritten, SubmitWriteFails, Await, AwaitVerdict, AwaitTimeout,
           RecordManager, RecordMonitor
    <3>2. CASE HashReport
      BY <3>2 DEF HashReport, ReportTick, LockSend, TakeConn, ReportWritten, ReportFails
    <3>3. CASE Elsewhere \/ UNCHANGED vars
      BY <3>3, ElsewhereFrame DEF sending, vars
    <3> QED
      BY <3>1, <3>2, <3>3 DEF Next, Elsewhere
  <2> QED
    BY <2>1, <2>2
<1>4. Returned \subseteq Returned'
  <2> SUFFICES ASSUME NEW id \in Returned, NEW v \in Workers PROVE req'[v] # id
    BY <1>3 DEF Returned, Requests
  <2>1. id \in Requests /\ id <= nextRequestID /\ req[v] # id /\ id # NoReq
        /\ id # nextRequestID + 1
    BY <1>3 DEF Returned, Requests, NoReq
  <2>2. CASE Place(v)' = Place(v)
    BY <2>1, <2>2 DEF Place
  <2>3. CASE SameRequest(v)
    BY <2>1, <2>3 DEF SameRequest
  <2>4. ASSUME NEW w \in Workers, Recordings(w) PROVE req'[v] # id
    <3>1. v # w => Place(v)' = Place(v)
      BY <2>4, RecordingTypes
    <3>2. req'[w] \in {req[w], NoReq}
      BY <2>4, RecordingTypes DEF Recordings
    <3> QED
      BY <2>1, <2>2, <3>1, <3>2
  <2> QED
    BY <2>2, <2>3, <2>4, RecordingSteps
<1>5. CASE UNCHANGED monitorShares
  <2>1. Cardinality(Returned) <= Cardinality(Returned')
    BY <1>1, <1>4, RequestsFinite
  <2> QED
    BY <1>1, <1>2, <1>5, <2>1 DEF MonitorInv
<1>6. ASSUME NEW w \in Workers, RecordMonitor(w) PROVE MonitorInv'
  <2>1. /\ pc[w] = "monitor" /\ req'[w] = NoReq
        /\ monitorShares' = Count(monitorShares, verdict[w])
        /\ \A v \in Workers \ {w} : Place(v)' = Place(v)
        /\ UNCHANGED nextRequestID
    BY <1>6, RecordingTypes DEF Recordings
  <2>2. req[w] \in Requests /\ req[w] <= nextRequestID /\ req[w] # NoReq
    BY <2>1 DEF RequestInv, TypeOK
  <2>3. req[w] \in Returned' /\ req[w] \notin Returned
    BY <2>1, <2>2 DEF Returned, RequestInv, Place
  <2>4. Cardinality(Returned) + 1 <= Cardinality(Returned')
    BY <1>1, <1>4, <2>3, CardinalityGrows
  <2>5. verdict[w] \in BOOLEAN
    BY DEF TypeOK
  <2>6. \/ /\ monitorShares'.accepted = monitorShares.accepted + 1
           /\ monitorShares'.rejected = monitorShares.rejected
        \/ /\ monitorShares'.accepted = monitorShares.accepted
           /\ monitorShares'.rejected = monitorShares.rejected + 1
    BY <1>2, <2>1, <2>5 DEF Count, Counters
  <2> QED
    BY <1>1, <1>2, <2>4, <2>6 DEF MonitorInv
<1>7. ASSUME NEW w \in Workers, AwaitVerdict(w) \/ RecordManager(w)
      PROVE  UNCHANGED monitorShares
  BY <1>7, RecordingTypes DEF Recordings
<1> QED
  BY <1>5, <1>6, <1>7, RecordingSteps DEF Recordings, counts

(***************************************************************************)
(* The lag between the counts of accepted shares.                          *)
(***************************************************************************)
LEMMA RecordingFinite ==
    ASSUME NEW labels
    PROVE  /\ Recording(labels) \in SUBSET Workers
           /\ IsFiniteSet(Recording(labels)) /\ Lag(labels) \in Nat
           /\ Recording(labels)' \in SUBSET Workers
           /\ IsFiniteSet(Recording(labels)') /\ Lag(labels)' \in Nat
<1>1. Recording(labels) \in SUBSET Workers /\ Recording(labels)' \in SUBSET Workers
  BY DEF Recording
<1>2. IsFiniteSet(Workers)
  BY SharesAssumption
<1> QED
  BY <1>1, <1>2, FS_Subset, FS_CardinalityType DEF Lag

\* One worker enters the set, leaves it, or nobody does.
LEMMA LagSteps ==
    ASSUME NEW labels, NEW w \in Workers,
           \A v \in Workers \ {w} : v \in Recording(labels)' <=> v \in Recording(labels)
    PROVE  /\ w \notin Recording(labels) /\ w \in Recording(labels)' =>
                Lag(labels)' = Lag(labels) + 1
           /\ w \in Recording(labels) /\ w \notin Recording(labels)' =>
                Lag(labels)' = Lag(labels) - 1
           /\ (w \in Recording(labels) <=> w \in Recording(labels)') =>
                Lag(labels)' = Lag(labels)
<1> DEFINE S == Recording(labels)
           T == Recording(labels)'
<1>1. S \in SUBSET Workers /\ T \in SUBSET Workers /\ IsFiniteSet(S) /\ IsFiniteSet(T)
  BY RecordingFinite
<1>2. Lag(labels) = Cardinality(S) /\ Lag(labels)' = Cardinality(T)
  BY DEF Lag
<1> HIDE DEF S, T
<1>3. ASSUME w \notin S, w \in T PROVE Cardinality(T) = Cardinality(S) + 1
  <2>1. T = S \cup {w}
    BY <1>1, <1>3 DEF S, T
  <2> QED
    BY <1>1, <1>3, <2>1, FS_AddElement
<1>4. ASSUME w \in S, w \notin T PROVE Cardinality(T) = Cardinality(S) - 1
  <2>1. T = S \ {w}
    BY <1>1, <1>4 DEF S, T
  <2> QED
    BY <1>1, <1>4, <2>1, FS_RemoveElement
<1>5. ASSUME w \in S <=> w \in T PROVE T = S
  BY <1>1, <1>5 DEF S, T
<1> QED
  BY <1>2, <1>3, <1>4, <1>5 DEF S, T

LEMMA LagInit == Init => LagInv
<1> SUFFICES ASSUME Init PROVE LagInv
  OBVIOUS
<1>1. \A labels : Recording(labels) = {}
  BY DEF Init, Recording
<1>2. \A labels : Lag(labels) = 0
  BY <1>1, FS_EmptySet DEF Lag
<1> QED
  BY <1>2 DEF Init, LagInv

LEMMA LagNext ==
    ASSUME TypeOK, SendInv, RecordInv, LagInv, [Next]_vars
    PROVE  LagInv'
<1> DEFINE All == {"manager", "monitor"}
           One == {"manager"}
<1>1. /\ accepted \in Nat /\ poolShares \in Counters /\ monitorShares \in Counters
      /\ poolShares.accepted \in Nat /\ monitorShares.accepted \in Nat
  BY DEF TypeOK, Counters
<1>2. /\ Lag(All) \in Nat /\ Lag(One) \in Nat /\ Lag(All)' \in Nat /\ Lag(One)' \in Nat
  BY RecordingFinite
<1>3. /\ accepted = monitorShares.accepted + Lag(All)
      /\ poolShares.accepted + Lag(One) <= accepted
      /\ manager = "serving" => accepted = poolShares.accepted + Lag(One)
  BY DEF LagInv
<1>4. ASSUME NEW labels, NEW v \in Workers, Place(v)' = Place(v)
      PROVE  v \in Recording(labels)' <=> v \in Recording(labels)
  BY <1>4 DEF Recording, Place
\* Nothing is recorded.
<1>5. ASSUME UNCHANGED counts, manager' = "serving" => manager = "serving",
             Lag(All)' = Lag(All), Lag(One)' = Lag(One)
      PROVE  LagInv'
  BY <1>3, <1>5 DEF LagInv, counts
<1>6. ASSUME \A v \in Workers : Place(v)' = Place(v), NEW labels
      PROVE  Lag(labels)' = Lag(labels)
  <2>1. Recording(labels)' = Recording(labels)
    BY <1>6 DEF Recording, Place
  <2> QED
    BY <2>1 DEF Lag
<1>7. ASSUME NEW w \in Workers, NothingRecorded(w),
             \A v \in Workers \ {w} : Place(v)' = Place(v)
      PROVE  Lag(All)' = Lag(All) /\ Lag(One)' = Lag(One)
  <2>1. /\ w \in Recording(All)' <=> w \in Recording(All)
        /\ w \in Recording(One)' <=> w \in Recording(One)
    <3>1. ~verdict[w] \/ (pc[w] = "monitor" /\ pc'[w] = "monitor")
      BY <1>7 DEF NothingRecorded, RecordInv
    <3>2. verdict'[w] = verdict[w]
      BY <1>7 DEF NothingRecorded
    <3> QED
      BY <3>1, <3>2 DEF Recording
  <2> HIDE DEF All, One
  <2> QED
    BY <1>4, <1>7, <2>1, LagSteps
<1>8. ASSUME NEW w \in Workers, Recordings(w) PROVE LagInv'
  <2>1. \A v \in Workers \ {w} : Place(v)' = Place(v)
    BY <1>8, RecordingTypes
  <2>2. \A v \in Workers \ {w} : /\ v \in Recording(All)' <=> v \in Recording(All)
                                 /\ v \in Recording(One)' <=> v \in Recording(One)
    BY <1>4, <2>1
  <2>3. manager' = manager
    BY <1>8, RecordingTypes
  <2>4. CASE AwaitVerdict(w)
    <3>1. /\ accepted' = IF verdict'[w] THEN accepted + 1 ELSE accepted
          /\ UNCHANGED <<poolShares, monitorShares>>
          /\ pc[w] = "wait" /\ pc'[w] = "manager"
      BY <1>8, <2>4, RecordingTypes
    <3>2. /\ w \notin Recording(All) /\ w \notin Recording(One)
          /\ w \in Recording(All)' <=> verdict'[w]
          /\ w \in Recording(One)' <=> verdict'[w]
      BY <3>1 DEF Recording
    <3>3. /\ Lag(All)' = IF verdict'[w] THEN Lag(All) + 1 ELSE Lag(All)
          /\ Lag(One)' = IF verdict'[w] THEN Lag(One) + 1 ELSE Lag(One)
      <4> HIDE DEF All, One
      <4> QED
        BY <2>2, <3>2, LagSteps
    <3> HIDE DEF All, One
    <3>4. /\ accepted' = monitorShares'.accepted + Lag(All)'
          /\ poolShares'.accepted + Lag(One)' <= accepted'
          /\ manager' = "serving" => accepted' = poolShares'.accepted + Lag(One)'
      <4>1. CASE verdict'[w]
        BY <1>1, <1>2, <1>3, <2>3, <3>1, <3>3, <4>1
      <4>2. CASE ~verdict'[w]
        BY <1>1, <1>2, <1>3, <2>3, <3>1, <3>3, <4>2
      <4> QED
        BY <4>1, <4>2
    <3> QED
      BY <3>4 DEF LagInv, All, One
  <2>5. CASE RecordManager(w)
    <3>1. /\ UNCHANGED <<accepted, monitorShares>>
          /\ poolShares' = IF manager = "serving" THEN Count(poolShares, verdict[w])
                                                  ELSE poolShares
          /\ pc[w] = "manager" /\ pc'[w] = "monitor" /\ verdict'[w] = verdict[w]
      BY <1>8, <2>5, RecordingTypes
    <3>2. /\ w \in Recording(All)' <=> w \in Recording(All)
          /\ w \in Recording(One) <=> verdict[w]
          /\ w \notin Recording(One)'
      BY <3>1 DEF Recording
    <3>3. /\ Lag(All)' = Lag(All)
          /\ Lag(One)' = IF verdict[w] THEN Lag(One) - 1 ELSE Lag(One)
      <4> HIDE DEF All, One
      <4> QED
        BY <2>2, <3>2, LagSteps
    <3>4. poolShares'.accepted = IF manager = "serving" /\ verdict[w]
                                 THEN poolShares.accepted + 1 ELSE poolShares.accepted
      BY <1>1, <3>1 DEF Count, Counters
    <3> HIDE DEF All, One
    <3>5. /\ accepted' = monitorShares'.accepted + Lag(All)'
          /\ poolShares'.accepted + Lag(One)' <= accepted'
          /\ manager' = "serving" => accepted' = poolShares'.accepted + Lag(One)'
      <4>1. CASE verdict[w]
        <5>1. CASE manager = "serving"
          <6>1. /\ accepted' = accepted /\ monitorShares' = monitorShares
                /\ Lag(All)' = Lag(All) /\ Lag(One)' = Lag(One) - 1
                /\ poolShares'.accepted = poolShares.accepted + 1
            BY <3>1, <3>3, <3>4, <4>1, <5>1
          <6>2. poolShares'.accepted + Lag(One)' = poolShares.accepted + Lag(One)
            BY <1>1, <1>2, <6>1
          <6>3. poolShares.accepted + Lag(One) = accepted
            BY <1>3, <5>1
          <6> QED
            BY <1>1, <1>3, <6>1, <6>2, <6>3
        <5>2. CASE manager # "serving"
          BY <1>1, <1>2, <1>3, <2>3, <3>1, <3>3, <3>4, <4>1, <5>2
        <5> QED
          BY <5>1, <5>2
      <4>2. CASE ~verdict[w]
        BY <1>1, <1>2, <1>3, <2>3, <3>1, <3>3, <3>4, <4>2
      <4> QED
        BY <4>1, <4>2
    <3> QED
      BY <3>5 DEF LagInv, All, One
  <2>6. CASE RecordMonitor(w)
    <3>1. /\ UNCHANGED <<accepted, poolShares>>
          /\ monitorShares' = Count(monitorShares, verdict[w])
          /\ pc[w] = "monitor" /\ pc'[w] = "idle"
      BY <1>8, <2>6, RecordingTypes
    <3>2. /\ w \in Recording(All) <=> verdict[w]
          /\ w \notin Recording(All)'
          /\ w \notin Recording(One) /\ w \notin Recording(One)'
      BY <3>1 DEF Recording
    <3>3. /\ Lag(One)' = Lag(One)
          /\ Lag(All)' = IF verdict[w] THEN Lag(All) - 1 ELSE Lag(All)
      <4> HIDE DEF All, One
      <4> QED
        BY <2>2, <3>2, LagSteps
    <3>4. monitorShares'.accepted = IF verdict[w] THEN monitorShares.accepted + 1
                                                  ELSE monitorShares.accepted
      BY <1>1, <3>1 DEF Count, Counters
    <3> HIDE DEF All, One
    <3>5. /\ accepted' = monitorShares'.accepted + Lag(All)'
          /\ poolShares'.accepted + Lag(One)' <= accepted'
          /\ manager' = "serving" => accepted' = poolShares'.accepted + Lag(One)'
      <4>1. CASE verdict[w]
        BY <1>1, <1>2, <1>3, <2>3, <3>1, <3>3, <3>4, <4>1
      <4>2. CASE ~verdict[w]
        BY <1>1, <1>2, <1>3, <2>3, <3>1, <3>3, <3>4, <4>2
      <4> QED
        BY <4>1, <4>2
    <3> QED
      BY <3>5 DEF LagInv, All, One
  <2> QED
    BY <1>8, <2>4, <2>5, <2>6 DEF Recordings
<1> QED
  <2> HIDE DEF All, One
  <2> QED
    BY <1>5, <1>6, <1>7, <1>8, RecordingSteps

(***************************************************************************)
(* The theorems.                                                           *)
(***************************************************************************)
LEMMA Inductive == Spec => []IInv
<1>1. Init => IInv
  BY TypeInit, SendInit, RequestInit, RouteInit, RecordInit, TallyInit, MonitorInit,
     LagInit, ReportInit, StuckInit DEF IInv
<1>2. IInv /\ [Next]_vars => IInv'
  BY TypeNext, SendNext, RequestNext, RouteNext, VerdictNext, RecordNext, TallyNext,
     MonitorNext, LagNext, ReportNext, StuckNext DEF IInv
<1> QED
  BY <1>1, <1>2, PTL DEF Spec

\* Every variable keeps its type; the counter of failed writes stays below
\* maxWriteFails, and a request that is sent has an id.
THEOREM TypeCorrect == Spec => []TypeOK
<1>1. IInv => TypeOK
  BY DEF IInv
<1> QED
  BY <1>1, Inductive, PTL

\* However many workers share the connection, one that waits reads the pool's
\* verdict on its own share.
THEOREM OwnVerdictCorrect == Spec => []OwnVerdict
<1>1. IInv => OwnVerdict
  BY DEF IInv, TypeOK, RequestInv, VerdictInv, OwnVerdict
<1> QED
  BY <1>1, Inductive, PTL

\* The readLoop finds room in every response channel it sends to.
THEOREM DeliverNeverBlocksCorrect == Spec => []DeliverNeverBlocks
<1>1. IInv => DeliverNeverBlocks
  BY DEF IInv, RouteInv, DeliverNeverBlocks
<1> QED
  BY <1>1, Inductive, PTL

\* No share is counted twice or against the pool's answer; the three counts of
\* accepted shares differ by what is just being recorded, and the manager's by
\* what Stop cuts off; the reports never claim more hashes than were computed.
THEOREM CountedAsAnsweredCorrect == Spec => []CountedAsAnswered
<1>1. IInv => CountedAsAnswered
  <2> SUFFICES ASSUME IInv PROVE CountedAsAnswered
    OBVIOUS
  <2> DEFINE Took     == {id \in Requests : TRUE \in given[id]}
             Refused  == {id \in Requests : FALSE \in given[id]}
             Answered == {id \in Requests : given[id] # {}}
  <2>1. /\ DoneTaken \subseteq Took /\ NotedRefused \subseteq Refused
        /\ NotedAnswered \subseteq Answered
        /\ Took \subseteq Requests /\ Refused \subseteq Requests
        /\ Answered \subseteq Requests
    BY DEF DoneTaken, NotedRefused, NotedAnswered, Noted, Done
  <2>2. /\ Cardinality(DoneTaken) <= Cardinality(Took)
        /\ Cardinality(NotedRefused) <= Cardinality(Refused)
        /\ Cardinality(NotedAnswered) <= Cardinality(Answered)
        /\ Cardinality(Took) \in Nat /\ Cardinality(Refused) \in Nat
        /\ Cardinality(Answered) \in Nat
        /\ Cardinality(DoneTaken) \in Nat /\ Cardinality(NotedRefused) \in Nat
        /\ Cardinality(NotedAnswered) \in Nat
    <3> HIDE DEF Took, Refused, Answered
    <3> QED
      BY <2>1, RequestsFinite, TallySets
  <2>3. /\ poolShares.accepted \in Nat /\ poolShares.rejected \in Nat /\ accepted \in Nat
        /\ monitorShares.accepted \in Nat /\ monitorShares.rejected \in Nat
    BY DEF IInv, TypeOK, Counters
  <2>4. /\ accepted <= Cardinality(Took)
        /\ poolShares.rejected <= Cardinality(Refused)
        /\ poolShares.accepted + poolShares.rejected <= Cardinality(Answered)
    <3> HIDE DEF Took, Refused, Answered
    <3> QED
      BY <2>2, <2>3 DEF IInv, TallyInv
  <2>5. monitorShares.accepted + monitorShares.rejected <= nextRequestID
    <3>1. nextRequestID \in Nat /\ 0 \in Int /\ 1 \in Int
      BY SharesAssumption DEF IInv, TypeOK
    <3>2. /\ Cardinality(1 .. nextRequestID) = nextRequestID
          /\ IsFiniteSet(1 .. nextRequestID)
      BY <3>1, FS_Interval
    <3>3. Returned \subseteq 1 .. nextRequestID
      BY <3>1 DEF Returned, Requests
    <3>4. Cardinality(Returned) <= nextRequestID /\ Cardinality(Returned) \in Nat
      BY <3>2, <3>3, FS_Subset, FS_CardinalityType
    <3> QED
      BY <2>3, <3>1, <3>4 DEF IInv, MonitorInv
  <2>6. poolHashes <= hashes
    <3>1. /\ poolHashes \in Nat /\ increment \in Nat /\ lastReported \in Nat
          /\ hashes \in Nat
      BY SharesAssumption DEF IInv, TypeOK
    <3> QED
      BY <3>1 DEF IInv, ReportInv
  <2> QED
    BY <2>4, <2>5, <2>6 DEF IInv, LagInv, Lag, CountedAsAnswered
<1> QED
  BY <1>1, Inductive, PTL

\* A connection that fails maxWriteFails writes in a row is closed, although
\* failures on earlier connections are counted with its own.
THEOREM StuckConnClosedCorrect == Spec => []StuckConnClosed
<1>1. IInv => StuckConnClosed
  <2> SUFFICES ASSUME IInv, up PROVE failsHere < MaxWriteFails
    BY DEF StuckConnClosed
  <2>1. /\ failsHere \in Nat /\ MaxWriteFails \in Nat
        /\ writeFails \in Nat /\ writeFails <= MaxWriteFails - 1
    BY SharesAssumption DEF IInv, TypeOK
  <2>2. failsHere <= writeFails
    BY DEF IInv, StuckInv
  <2> QED
    BY <2>1, <2>2
<1> QED
  BY <1>1, Inductive, PTL

=============================================================================
