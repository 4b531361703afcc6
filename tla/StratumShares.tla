---------------------------- MODULE StratumShares ----------------------------
(***************************************************************************)
(* Shares and hash reports on their way to the pool and back:              *)
(* SubmitShare, SendHashReport and handleSubmitResponse of                 *)
(* internal/stratum/client.go, with the callers in internal/miner/miner.go *)
(* that wait for a verdict (submitSolution) or report hashes               *)
(* (hashReportLoop).                                                       *)
(*                                                                         *)
(* The workers share one connection under sendMu; the readLoop routes each *)
(* answer to its caller by request id, through pendingResults.  Connecting *)
(* is abstracted to the connection appearing and disappearing: its own     *)
(* steps are in StratumLifecycle.  The manager has this one pool until     *)
(* Miner.Stop stops it.  The pool is external: it answers what it received *)
(* in any order, late, never, or twice over.                               *)
(***************************************************************************)
EXTENDS Naturals, FiniteSets

CONSTANTS Workers,        \* goroutines that submit shares
          Reporter,       \* the goroutine of hashReportLoop
          Conns,          \* connections (sockets)
          NoConn,         \* a nil net.Conn
          Nobody,         \* sendMu is not held
          MaxWriteFails,  \* maxWriteFails
          MaxRequests,    \* bound on nextRequestID
          MaxHashes       \* bound on the hashes computed

ASSUME SharesAssumption ==
    /\ Reporter \notin Workers
    /\ NoConn \notin Conns
    /\ \E j, k \in Conns : j # k   \* a sender may hold an old one
    /\ Nobody \notin Workers \cup {Reporter}
    /\ IsFiniteSet(Workers)
    /\ MaxWriteFails \in Nat \ {0}
    /\ MaxRequests \in Nat /\ MaxHashes \in Nat

VARIABLES
    conn,           \* c.conn
    up,             \* no Close() of that socket, here or at the peer
    torn,           \* the last write to conn stopped in the middle of a line
    nextRequestID,  \* c.nextRequestID
    pending,        \* the keys of c.pendingResults
    sendMu,         \* who holds c.sendMu
    writeFails,     \* c.writeFails
    failsHere,      \* history: failed writes in a row on conn
    respCh,         \* the response channel of each request
    reading,        \* readLoop: the answer taken from the map, not yet sent on
    pc, req, sock,  \* of each sender: its place, its request, its socket
    wire,           \* requests the pool has received
    answers,        \* answers on their way back
    given,          \* history: whether the pool took a request, once it said so
    manager,        \* "serving" its pool, "stopping" with m.mu, or "stopped"
    verdict,        \* TRUE while a worker records an accepted share
    accepted,       \* m.acceptedWork
    poolShares,     \* the manager's accepted and rejected shares
    monitorShares,  \* the monitor's accepted and rejected shares
    hashes,         \* hashes computed by the engines
    lastReported,   \* m.lastReportedHashes
    increment,      \* the increment of the report under way
    poolHashes      \* what the reports the pool received add up to

connection == <<conn, up, torn, failsHere>>
sending    == <<nextRequestID, sendMu, writeFails, pc, req, sock>>
network    == <<wire, answers, given>>
counts     == <<verdict, accepted, poolShares, monitorShares>>
shares     == <<manager, counts>>
report     == <<hashes, lastReported, increment, poolHashes>>
routing    == <<pending, respCh, reading>>
vars       == <<connection, sending, network, shares, report, routing>>

Senders  == Workers \cup {Reporter}
Requests == 1 .. MaxRequests
NoReq    == 0

\* The pool's answers: result true, result false, an error object, and a
\* result that is not a boolean.
Answers == {"true", "false", "error", "other"}
Refusals == {"false", "error"}
Taken(a) == a \notin Refusals

Goto(p, label) == pc' = [pc EXCEPT ![p] = label]

\* Mutant of Verdict: an error with no result passes for accepted.
VerdictIgnoringErrors(a) == a # "false"

\* SubmitResult.Accepted for an answer of the pool (client.go:584-613): an
\* answer that is neither an error nor a boolean counts as accepted.
Verdict(a) == a \in {"true", "other"}

\* What the response channel then holds.
Outcome(taken) == IF taken THEN "accepted" ELSE "rejected"

\* One more share in a pair of counters.
Count(counters, taken) ==
    IF taken THEN [counters EXCEPT !.accepted = @ + 1]
               ELSE [counters EXCEPT !.rejected = @ + 1]

(***************************************************************************)
(* SubmitShare.                                                            *)
(***************************************************************************)

\* submitSolution has a client from the manager; take an id, register the
\* response channel.
SubmitRegister(w) ==
    /\ pc[w] = "idle"
    /\ manager = "serving"
    /\ nextRequestID < MaxRequests
    /\ LET id == nextRequestID + 1
       IN /\ nextRequestID' = id
          /\ req' = [req EXCEPT ![w] = id]
          /\ pending' = pending \cup {id}
          /\ respCh' = [respCh EXCEPT ![id] = "empty"]
    /\ Goto(w, "lock")
    /\ UNCHANGED <<connection, sendMu, writeFails, sock, network, shares,
                   report, reading>>

\* c.sendMu.Lock(), of SubmitShare and of SendHashReport.
LockSend(p) ==
    /\ pc[p] = "lock"
    /\ sendMu = Nobody
    /\ sendMu' = p
    /\ Goto(p, "conn")
    /\ UNCHANGED <<connection, nextRequestID, writeFails, req, sock, network,
                   shares, report, routing>>

\* conn := c.conn.
TakeConn(p) ==
    /\ pc[p] = "conn"
    /\ conn # NoConn
    /\ sock' = [sock EXCEPT ![p] = conn]
    /\ Goto(p, "write")
    /\ UNCHANGED <<connection, nextRequestID, sendMu, writeFails, req,
                   network, shares, report, routing>>

\* A send ends: sendMu is released and p is where its caller goes on.
Unlock(p, label) ==
    /\ sendMu' = Nobody
    /\ sock' = [sock EXCEPT ![p] = NoConn]
    /\ Goto(p, label)

\* SubmitShare returns an error: the registration is undone, and
\* submitSolution goes on to tell the monitor of a rejected share.
SubmitNotConnected(w) ==
    /\ pc[w] = "conn"
    /\ conn = NoConn
    /\ pending' = pending \ {req[w]}
    /\ Unlock(w, "monitor")
    /\ UNCHANGED <<connection, nextRequestID, writeFails, req, network,
                   shares, report, respCh, reading>>

\* The whole line reaches the socket.  The pool can read it unless the end
\* of an earlier, interrupted line is still missing, or the link breaks.
Written(p) ==
    /\ pc[p] = "write"
    /\ sock[p] = conn /\ up
    /\ writeFails' = 0
    /\ failsHere' = 0
    /\ torn' = FALSE
    /\ UNCHANGED <<conn, up>>

SubmitWritten(w) ==
    /\ Written(w)
    /\ wire' = IF torn THEN wire ELSE wire \cup {req[w]}
    /\ Unlock(w, "wait")
    /\ UNCHANGED <<nextRequestID, req, answers, given, shares, report, routing>>

\* Mutant of WriteFails: never closes the connection.
WriteFailsForever(p) ==
    /\ pc[p] = "write"
    /\ torn' \in IF sock[p] = conn THEN {torn, TRUE} ELSE {torn}
    /\ failsHere' = IF sock[p] = conn /\ up THEN failsHere + 1 ELSE failsHere
    /\ failsHere < MaxWriteFails
    /\ writeFails' = IF writeFails + 1 < MaxWriteFails THEN writeFails + 1 ELSE 0
    /\ UNCHANGED <<conn, up>>

\* Mutant of WriteFails: the counter is not reset after the last failure.
WriteFailsCountingOn(p) ==
    /\ pc[p] = "write"
    /\ torn' \in IF sock[p] = conn THEN {torn, TRUE} ELSE {torn}
    /\ failsHere' = IF sock[p] = conn /\ up THEN failsHere + 1 ELSE failsHere
    /\ writeFails' = writeFails + 1
    /\ up' = (up /\ (writeFails' < MaxWriteFails \/ sock[p] # conn))
    /\ UNCHANGED conn

\* The write fails: the socket is closed, or its buffer stays full for
\* writeDeadlineDuration and part of the line is out.  After maxWriteFails
\* of them the socket is closed, for the readLoop to notice.
WriteFails(p) ==
    /\ pc[p] = "write"
    /\ torn' \in IF sock[p] = conn THEN {torn, TRUE} ELSE {torn}
    /\ failsHere' = IF sock[p] = conn /\ up THEN failsHere + 1 ELSE failsHere
    /\ IF writeFails + 1 >= MaxWriteFails
       THEN /\ writeFails' = 0
            /\ up' = (up /\ sock[p] # conn)
       ELSE /\ writeFails' = writeFails + 1
            /\ UNCHANGED up
    /\ UNCHANGED conn

\* Mutant of SubmitWriteFails: returns with sendMu held.
SubmitWriteFailsLocked(w) ==
    /\ WriteFails(w)
    /\ sock' = [sock EXCEPT ![w] = NoConn]
    /\ pending' = pending \ {req[w]}
    /\ respCh' = [respCh EXCEPT ![req[w]] = "closed"]
    /\ Goto(w, "monitor")
    /\ UNCHANGED <<sendMu, nextRequestID, req, network, shares, report,
                   reading>>

SubmitWriteFails(w) ==
    /\ WriteFails(w)
    /\ pending' = pending \ {req[w]}
    /\ respCh' = [respCh EXCEPT ![req[w]] = "closed"]
    /\ Unlock(w, "monitor")
    /\ UNCHANGED <<nextRequestID, req, network, shares, report, reading>>

(***************************************************************************)
(* submitSolution, after SubmitShare has returned a channel.               *)
(***************************************************************************)

\* The verdict is there: take it out of the channel; an accepted share counts
\* for the miner at once, for the manager and the monitor one after the other.
AwaitVerdict(w) ==
    /\ pc[w] = "wait"
    /\ respCh[req[w]] \in {"accepted", "rejected"}
    /\ LET taken == respCh[req[w]] = "accepted"
       IN /\ verdict' = [verdict EXCEPT ![w] = taken]
          /\ accepted' = IF taken THEN accepted + 1 ELSE accepted
    /\ respCh' = [respCh EXCEPT ![req[w]] = "empty"]
    /\ Goto(w, "manager")
    /\ UNCHANGED <<connection, nextRequestID, sendMu, writeFails, req, sock,
                   network, manager, poolShares, monitorShares, report, pending,
                   reading>>

\* Manager.RecordShare: GetCurrentPool waits for m.mu while Stop holds it, and
\* finds no pool to count for afterwards.
RecordManager(w) ==
    /\ pc[w] = "manager"
    /\ manager # "stopping"
    /\ poolShares' = IF manager = "serving" THEN Count(poolShares, verdict[w])
                                            ELSE poolShares
    /\ Goto(w, "monitor")
    /\ UNCHANGED <<connection, nextRequestID, sendMu, writeFails, req, sock,
                   network, manager, verdict, accepted, monitorShares, report,
                   routing>>

\* Monitor.RecordShare, for a verdict or for a share that was not sent.
RecordMonitor(w) ==
    /\ pc[w] = "monitor"
    /\ monitorShares' = Count(monitorShares, verdict[w])
    /\ verdict' = [verdict EXCEPT ![w] = FALSE]
    /\ req' = [req EXCEPT ![w] = NoReq]
    /\ Goto(w, "idle")
    /\ UNCHANGED <<connection, nextRequestID, sendMu, writeFails, sock, network,
                   manager, accepted, poolShares, report, routing>>

\* Mutant of AwaitTimeout: a slow answer counts as a rejection.
AwaitTimeoutRejects(w) ==
    /\ pc[w] = "wait"
    /\ Goto(w, "manager")
    /\ UNCHANGED <<connection, nextRequestID, sendMu, writeFails, req, sock,
                   network, shares, report, routing>>

\* 15 seconds pass, or the miner stops; the entry in pendingResults stays.
AwaitTimeout(w) ==
    /\ pc[w] = "wait"
    /\ req' = [req EXCEPT ![w] = NoReq]
    /\ Goto(w, "idle")
    /\ UNCHANGED <<connection, nextRequestID, sendMu, writeFails, sock,
                   network, shares, report, routing>>

(***************************************************************************)
(* hashReportLoop and SendHashReport.                                      *)
(***************************************************************************)

\* An engine finishes a batch of hashes.
Hash ==
    /\ hashes < MaxHashes
    /\ hashes' = hashes + 1
    /\ UNCHANGED <<connection, sending, network, shares, lastReported,
                   increment, poolHashes, routing>>

\* The ticker: with a client from the manager, the increment counts as
\* reported before it is sent.
ReportTick ==
    /\ pc[Reporter] = "idle"
    /\ manager = "serving"
    /\ hashes > lastReported
    /\ increment' = hashes - lastReported
    /\ lastReported' = hashes
    /\ Goto(Reporter, "lock")
    /\ UNCHANGED <<connection, nextRequestID, sendMu, writeFails, req, sock,
                   network, shares, hashes, poolHashes, routing>>

ReportWritten ==
    /\ Written(Reporter)
    /\ poolHashes' \in {poolHashes} \cup
                       IF torn THEN {} ELSE {poolHashes + increment}
    /\ increment' = 0
    /\ Unlock(Reporter, "idle")
    /\ UNCHANGED <<nextRequestID, req, network, shares, hashes, lastReported,
                   routing>>

\* No connection, or the write fails: the increment is lost.
ReportFails ==
    /\ \/ /\ pc[Reporter] = "conn"
          /\ conn = NoConn
          /\ UNCHANGED <<connection, writeFails>>
       \/ WriteFails(Reporter)
    /\ increment' = 0
    /\ Unlock(Reporter, "idle")
    /\ UNCHANGED <<nextRequestID, req, network, shares, hashes, lastReported,
                   poolHashes, routing>>

(***************************************************************************)
(* The readLoop: handleSubmitResponse, in two steps, and the loss of the   *)
(* connection.                                                             *)
(***************************************************************************)

\* Mutant of TakeResponse: leaves the entry in pendingResults.
TakeResponsePeeks(a) ==
    /\ reading = {}
    /\ manager = "serving"
    /\ a \in answers
    /\ answers' = answers \ {a}
    /\ reading' = IF a.id \in pending THEN {a} ELSE {}
    /\ UNCHANGED <<connection, sending, wire, given, shares, report, pending,
                   respCh>>

\* Take the caller's channel out of pendingResults; without one, drop the
\* answer.  Once Close has closed stopCh the readLoop reads no more.
TakeResponse(a) ==
    /\ reading = {}
    /\ manager = "serving"
    /\ a \in answers
    /\ answers' = answers \ {a}
    /\ pending' = pending \ {a.id}
    /\ reading' = IF a.id \in pending THEN {a} ELSE {}
    /\ UNCHANGED <<connection, sending, wire, given, shares, report, respCh>>

\* Mutant of DeliverResponse: some waiting caller gets the answer.
DeliverResponseToAnyone(a) ==
    /\ a \in reading
    /\ \E w \in Workers :
         /\ pc[w] = "wait" /\ respCh[req[w]] = "empty"
         /\ respCh' = [respCh EXCEPT ![req[w]] = Outcome(Verdict(a.answer))]
    /\ reading' = {}
    /\ UNCHANGED <<connection, sending, network, shares, report, pending>>

\* ch <- result, into a channel with room for one.
DeliverResponse(a) ==
    /\ a \in reading
    /\ respCh[a.id] = "empty"
    /\ respCh' = [respCh EXCEPT ![a.id] = Outcome(Verdict(a.answer))]
    /\ reading' = {}
    /\ UNCHANGED <<connection, sending, network, shares, report, pending>>

\* A read fails: whatever is under way on the connection is lost.
ReadError ==
    /\ reading = {}
    /\ manager = "serving"
    /\ conn # NoConn
    /\ conn' = NoConn
    /\ up' = FALSE
    /\ torn' = FALSE
    /\ failsHere' = 0
    /\ wire' = {} /\ answers' = {}
    /\ UNCHANGED <<sending, given, shares, report, routing>>

\* dialAndHandshake installs a connection that nobody holds from before; one
\* that is under way when Close begins does so even after it.
FreshConn == CHOOSE k \in Conns : \A p \in Senders : sock[p] # k
Reconnect ==
    /\ conn = NoConn
    /\ manager # "stopped"
    /\ conn' = FreshConn
    /\ up' = TRUE
    /\ UNCHANGED <<torn, failsHere, sending, network, shares, report, routing>>

\* The pool answers a request it received, once or twice over.
PoolAnswers(id) ==
    /\ up
    /\ id \in wire
    /\ \E a \in Answers :
         /\ given[id] \subseteq {Taken(a)}
         /\ answers' = answers \cup {[id |-> id, answer |-> a]}
         /\ given' = [given EXCEPT ![id] = {Taken(a)}]
    /\ wire' \in {wire \ {id}} \cup IF given[id] = {} THEN {wire} ELSE {}
    /\ UNCHANGED <<connection, sending, shares, report, routing>>

(***************************************************************************)
(* Manager.Stop, called by Miner.Stop: it closes the client with m.mu held *)
(* and leaves no current pool.                                             *)
(***************************************************************************)

\* Close drops the connection, and a sender that holds it can write no more.
StopBegins ==
    /\ manager = "serving"
    /\ manager' = "stopping"
    /\ conn' = NoConn
    /\ up' = FALSE /\ torn' = FALSE /\ failsHere' = 0
    /\ wire' = {} /\ answers' = {}
    /\ UNCHANGED <<sending, given, counts, report, routing>>

\* The readLoop has left, and dropped a connection installed meanwhile;
\* m.currentPool = -1, and m.mu is released.
StopEnds ==
    /\ manager = "stopping"
    /\ reading = {}
    /\ manager' = "stopped"
    /\ conn' = NoConn
    /\ up' = FALSE /\ torn' = FALSE /\ failsHere' = 0
    /\ wire' = {} /\ answers' = {}
    /\ UNCHANGED <<sending, given, counts, report, routing>>

Stop == StopBegins \/ StopEnds

(***************************************************************************)
(* The specification.  The client starts connected.                        *)
(***************************************************************************)
Init ==
    /\ sock = [p \in Senders |-> NoConn]
    /\ conn = FreshConn
    /\ up = TRUE /\ torn = FALSE /\ failsHere = 0
    /\ nextRequestID = 0
    /\ pending = {} /\ reading = {}
    /\ respCh = [id \in Requests |-> "empty"]
    /\ sendMu = Nobody
    /\ writeFails = 0
    /\ pc = [p \in Senders |-> "idle"]
    /\ req = [w \in Workers |-> NoReq]
    /\ wire = {} /\ answers = {}
    /\ given = [id \in Requests |-> {}]
    /\ manager = "serving"
    /\ verdict = [w \in Workers |-> FALSE]
    /\ accepted = 0
    /\ poolShares = [accepted |-> 0, rejected |-> 0]
    /\ monitorShares = [accepted |-> 0, rejected |-> 0]
    /\ hashes = 0 /\ lastReported = 0 /\ increment = 0 /\ poolHashes = 0

SubmitShare(w) ==
    \/ SubmitRegister(w) \/ LockSend(w) \/ TakeConn(w)
    \/ SubmitNotConnected(w) \/ SubmitWritten(w) \/ SubmitWriteFails(w)

Await(w) ==
    AwaitVerdict(w) \/ AwaitTimeout(w) \/ RecordManager(w) \/ RecordMonitor(w)

HashReport ==
    \/ ReportTick \/ LockSend(Reporter) \/ TakeConn(Reporter)
    \/ ReportWritten \/ ReportFails

ReadLoop ==
    \/ \E a \in answers : TakeResponse(a)
    \/ \E a \in reading : DeliverResponse(a)
    \/ ReadError

Next ==
    \/ \E w \in Workers : SubmitShare(w) \/ Await(w)
    \/ Hash \/ HashReport
    \/ ReadLoop \/ Reconnect \/ Stop
    \/ \E id \in Requests : PoolAnswers(id)

Spec == Init /\ [][Next]_vars

\* Every sender runs on once it has begun, its write ends within
\* writeDeadlineDuration and its wait within 15 seconds; sync.Mutex serves
\* every waiter in the end.  The readLoop sends an answer it has taken on, and
\* Stop runs to its end, unless they are blocked.
Fairness ==
    /\ \A w \in Workers : SF_vars(LockSend(w))
    /\ \A w \in Workers :
         WF_vars(\/ TakeConn(w) \/ SubmitNotConnected(w)
                 \/ SubmitWritten(w) \/ SubmitWriteFails(w) \/ Await(w))
    /\ WF_vars(TakeConn(Reporter) \/ ReportWritten \/ ReportFails)
    /\ WF_vars(\E a \in reading : DeliverResponse(a))
    /\ WF_vars(StopEnds)

FairSpec == Spec /\ Fairness

(***************************************************************************)
(* Properties.                                                             *)
(***************************************************************************)
Counters == [accepted : Nat, rejected : Nat]
AnswerSet == [id : Requests, answer : Answers]

TypeOK ==
    /\ conn \in Conns \cup {NoConn}
    /\ up \in BOOLEAN /\ torn \in BOOLEAN /\ failsHere \in Nat
    /\ nextRequestID \in 0 .. MaxRequests
    /\ sendMu \in Senders \cup {Nobody}
    /\ writeFails \in 0 .. MaxWriteFails - 1
    /\ pc \in [Senders -> {"idle", "lock", "conn", "write", "wait",
                         "manager", "monitor"}]
    /\ req \in [Workers -> Requests \cup {NoReq}]
    /\ sock \in [Senders -> Conns \cup {NoConn}]
    /\ wire \subseteq Requests /\ answers \subseteq AnswerSet
    /\ given \in [Requests -> SUBSET BOOLEAN]
    /\ manager \in {"serving", "stopping", "stopped"}
    /\ verdict \in [Workers -> BOOLEAN]
    /\ accepted \in Nat /\ poolShares \in Counters /\ monitorShares \in Counters
    /\ hashes \in 0 .. MaxHashes /\ lastReported \in Nat
    /\ increment \in Nat /\ poolHashes \in Nat
    /\ pending \subseteq Requests /\ reading \subseteq AnswerSet
    /\ respCh \in [Requests -> {"empty", "closed", "accepted", "rejected"}]

\* A worker that waits reads the pool's verdict on its own share, never on
\* another worker's, whatever order the answers arrive in and however late
\* (client.go:557-561).
OwnVerdict ==
    \A w \in Workers : pc[w] = "wait" =>
        /\ respCh[req[w]] = "accepted" => TRUE \in given[req[w]]
        /\ respCh[req[w]] = "rejected" => FALSE \in given[req[w]]

\* The workers between the verdict that a share was accepted and its count.
Recording(labels) == {w \in Workers : verdict[w] /\ pc[w] \in labels}

\* An answer that comes twice, late, or never is not counted: the miner, the
\* manager and the monitor count a share at most once, as accepted only if the
\* pool took it, and the manager as rejected only if the pool refused it
\* (miner.go:313-338).  The three counts of accepted shares differ by the
\* shares that workers are just recording, and the manager's, once Stop has
\* taken its pool away, also by those that come too late for it
\* (manager.go:340-343).  The reports that reached the pool never add up to
\* more hashes than were computed (miner.go:233-234, "preventing
\* double-counting").  The monitor's rejected shares include those that could
\* not be sent, which the comment at miner.go:307 says are not recorded.
CountedAsAnswered ==
    LET taken   == Cardinality({id \in Requests : TRUE \in given[id]})
        refused == Cardinality({id \in Requests : FALSE \in given[id]})
    IN /\ accepted <= taken
       /\ poolShares.rejected <= refused
       /\ poolShares.accepted + poolShares.rejected <=
            Cardinality({id \in Requests : given[id] # {}})
       /\ monitorShares.accepted + monitorShares.rejected <= nextRequestID
       /\ accepted = monitorShares.accepted +
            Cardinality(Recording({"manager", "monitor"}))
       /\ poolShares.accepted + Cardinality(Recording({"manager"})) <= accepted
       /\ manager = "serving" =>
            accepted = poolShares.accepted + Cardinality(Recording({"manager"}))
       /\ poolHashes <= hashes

\* The readLoop never blocks or panics on a response channel: each has room
\* for the one answer it gets, and is not closed under it.
DeliverNeverBlocks == \A a \in reading : respCh[a.id] = "empty"

\* A connection that fails maxWriteFails writes in a row is closed, so that
\* the readLoop replaces it, although the counter is shared with earlier
\* connections and with senders that still hold one of those.
StuckConnClosed == up => failsHere < MaxWriteFails

\* SubmitShare, the wait for a verdict and the recording of it end, whatever
\* the pool, the connection and the other senders do, and although recording
\* waits for a Stop that waits for the readLoop.
SubmitReturns == \A w \in Workers : []<>(pc[w] = "idle")

=============================================================================
