-------------------------- MODULE HashStatsProofs --------------------------
(***************************************************************************)
(* Theorems about HashStats, for any number of engines and goroutines and  *)
(* without its bounds playing a role: NoHashLost while calls of GetStats   *)
(* overlap in any number and any order, CountedOnceAlone while they do     *)
(* not.                                                                    *)
(*                                                                         *)
(* total - extra is what the monitor was given through GetStats.  NoHash-  *)
(* Lost follows from where a call may be: once it is past its increment,   *)
(* the monitor has at least its sum, however many other calls have moved   *)
(* the mark meanwhile, forwards or back.                                   *)
(***************************************************************************)
EXTENDS HashStats, TLAPS

\* A call that has compared and found nothing to add, or has added.
Given(p) == pc[p] \in {"store", "start time", "rate"} => sum[p] + extra <= total

\* A call that is about to add completes its sum.
Completes(p) == pc[p] = "add" => sum[p] + extra <= total + delta[p]

\* The mark is never ahead of the monitor.
MarkGiven == lastSync + extra <= total

CallsInv == \A p \in Callers : Given(p) /\ Completes(p)

GivenInv == TypeOK /\ MarkGiven /\ CallsInv /\ NoHashLost

(***************************************************************************)
(* Type correctness.                                                       *)
(***************************************************************************)
LEMMA GotoType ==
    ASSUME TypeOK, NEW p \in Goroutines, NEW label \in Places, Goto(p, label)
    PROVE  pc' \in [Goroutines -> Places]
  BY DEF TypeOK, Goto

LEMMA TypeInit == Init => TypeOK
<1> SUFFICES ASSUME Init PROVE TypeOK
  OBVIOUS
<1>1. 1 \in 1 .. NumEngines /\ 0 \in 0 .. MaxHashes /\ 0 \in 0 .. MaxCalls
  BY StatsAssumption
<1>2. "idle" \in Places
  BY DEF Places
<1> QED
  BY <1>1, <1>2 DEF Init, TypeOK

LEMMA TypeCall ==
    ASSUME TypeOK, NEW p \in Callers, Call(p)
    PROVE  /\ calls' \in 0 .. MaxCalls
           /\ sum' \in [Callers -> Nat] /\ at' \in [Callers -> 1 .. NumEngines]
           /\ overlapped' \in BOOLEAN /\ extra' \in Nat /\ returned' \in Nat
           /\ pc' \in [Goroutines -> Places]
<1>1. p \in Goroutines /\ "sum" \in Places
  BY DEF Goroutines, Places, InSync
<1>2. pc' \in [Goroutines -> Places]
  BY <1>1, GotoType DEF Call
<1>3. MaxCalls \in Nat
  BY StatsAssumption
<1>4. calls' \in 0 .. MaxCalls
  BY <1>3 DEF Call, TypeOK
<1>5. sum' \in [Callers -> Nat]
  BY DEF Call, TypeOK
<1>6. overlapped' \in BOOLEAN
  BY DEF Call, TypeOK
<1> QED
  BY <1>2, <1>4, <1>5, <1>6 DEF Call, TypeOK

LEMMA TypeGetStats ==
    ASSUME TypeOK, NEW p \in Callers, GetStats(p)
    PROVE  TypeOK'
<1>1. p \in Goroutines
  BY DEF Goroutines
<1>2. /\ {"sum", "compare", "add", "store", "start time", "rate"} \subseteq Places
      /\ {"main adds", "idle"} \subseteq Places
  BY DEF Places, InSync
<1>3. CASE SumEngine(p)
  <2>1. NumEngines \in Nat /\ MaxHashes \in Nat /\ 1 \in 1 .. NumEngines
    BY StatsAssumption
  <2>2. at[p] \in 1 .. NumEngines /\ sum[p] \in Nat
    BY DEF TypeOK
  <2>3. hashes[at[p]] \in 0 .. MaxHashes
    BY <2>2 DEF TypeOK
  <2>4. sum[p] + hashes[at[p]] \in Nat
    BY <2>1, <2>2, <2>3
  <2>5. sum' \in [Callers -> Nat]
    BY <1>3, <2>4 DEF SumEngine, TypeOK
  <2>6. (IF at[p] = NumEngines THEN 1 ELSE at[p] + 1) \in 1 .. NumEngines
    BY <2>1, <2>2
  <2>7. at' \in [Callers -> 1 .. NumEngines]
    BY <1>3, <2>6 DEF SumEngine, TypeOK
  <2>8. pc' \in [Goroutines -> Places]
    BY <1>1, <1>2, <1>3, GotoType DEF SumEngine
  <2> QED
    BY <1>3, <2>5, <2>7, <2>8 DEF SumEngine, TypeOK, counts, locks, history
<1>4. CASE Compare(p)
  <2>1. sum[p] \in Nat /\ lastSync \in Nat
    BY DEF TypeOK
  <2>2. (IF sum[p] > lastSync THEN sum[p] - lastSync ELSE 0) \in Nat
    BY <2>1
  <2>3. delta' \in [Callers -> Nat]
    BY <1>4, <2>2 DEF Compare, TypeOK
  <2>4. pc' \in [Goroutines -> Places]
    BY <1>1, <1>2, <1>4, GotoType DEF Compare
  <2> QED
    BY <1>4, <2>3, <2>4 DEF Compare, TypeOK, counts, locks, history
<1>5. CASE AddHashes(p)
  <2>1. pc' \in [Goroutines -> Places]
    BY <1>1, <1>2, <1>5, GotoType DEF AddHashes
  <2>2. total' \in Nat
    BY <1>5 DEF AddHashes, TypeOK
  <2> QED
    BY <1>5, <2>1, <2>2 DEF AddHashes, WriteLocked, TypeOK, locals, history
<1>6. CASE Store(p)
  <2>1. pc' \in [Goroutines -> Places]
    BY <1>1, <1>2, <1>6, GotoType DEF Store
  <2> QED
    BY <1>6, <2>1 DEF Store, TypeOK, locals, locks, history
<1>7. CASE ReadStartTime(p)
  <2>1. pc' \in [Goroutines -> Places]
    BY <1>1, <1>2, <1>7, GotoType DEF ReadStartTime
  <2> QED
    BY <1>7, <2>1 DEF ReadStartTime, TypeOK, counts, locals, locks, history
<1>8. CASE UpdateHashRate(p)
  <2>1. pc' \in [Goroutines -> Places]
    BY <1>1, <1>2, <1>8, GotoType DEF UpdateHashRate
  <2>2. returned' \in Nat
    BY <1>8 DEF UpdateHashRate, Max2, TypeOK
  <2> QED
    BY <1>8, <2>1, <2>2 DEF UpdateHashRate, WriteLocked, TypeOK, counts, locals
<1> QED
  BY <1>3, <1>4, <1>5, <1>6, <1>7, <1>8 DEF GetStats

\* A step that moves a goroutine elsewhere and may set the lock of the miner,
\* the lock of the statistics and the flags of the end, but counts nothing.
LEMMA TypeElsewhere ==
    ASSUME TypeOK, NEW p \in Goroutines, NEW label \in Places,
           Goto(p, label) \/ UNCHANGED pc,
           minerLocked' \in BOOLEAN, stopped' \in BOOLEAN, exited' \in BOOLEAN,
           readers' \in Nat, writer' \in Goroutines \cup {NoOne},
           UNCHANGED <<counts, locals, calls, history>>
    PROVE  TypeOK'
<1>1. pc' \in [Goroutines -> Places]
  BY GotoType DEF TypeOK
<1> QED
  BY <1>1 DEF TypeOK, counts, locals, history

LEMMA TypeNext == TypeOK /\ [Next]_vars => TypeOK'
<1> SUFFICES ASSUME TypeOK, [Next]_vars PROVE TypeOK'
  OBVIOUS
<1>1. /\ {"idle", "returned", "update", "stopping"} \subseteq Places
      /\ {"summary", "efficiency"} \subseteq Places
  BY DEF Places
<1>2. /\ Main \in Callers /\ Display \in Callers /\ Callers \subseteq Goroutines
      /\ Updater \in Goroutines
  BY DEF Callers, Goroutines
<1>3. /\ minerLocked \in BOOLEAN /\ stopped \in BOOLEAN /\ exited \in BOOLEAN
      /\ readers \in Nat /\ readers + 1 \in Nat
      /\ writer \in Goroutines \cup {NoOne}
  BY DEF TypeOK
<1>4. ASSUME NEW p \in Callers, GetStats(p) PROVE TypeOK'
  BY <1>4, TypeGetStats
<1>5. ASSUME NEW p \in Goroutines, Announce(p) PROVE TypeOK'
  BY <1>1, <1>3, <1>5, TypeElsewhere DEF Announce
<1>6. ASSUME NEW p \in Goroutines, Send(p) PROVE TypeOK'
  <2>1. p \in Callers /\ Call(p)
    BY <1>6 DEF Send, Callers
  <2> QED
    BY <1>6, <2>1, TypeCall DEF Send, TypeOK, counts, locks
<1>7. ASSUME NEW p \in Goroutines, LoopReturns(p) PROVE TypeOK'
  BY <1>1, <1>3, <1>7, TypeElsewhere DEF LoopReturns, locks
<1>8. ASSUME NEW e \in 1 .. NumEngines, Hash(e) PROVE TypeOK'
  <2>1. hashes' \in [1 .. NumEngines -> 0 .. MaxHashes]
    <3>1. MaxHashes \in Nat /\ hashes[e] \in 0 .. MaxHashes
      BY StatsAssumption DEF TypeOK
    <3>2. hashes[e] + 1 \in 0 .. MaxHashes
      BY <1>8, <3>1 DEF Hash
    <3> QED
      BY <1>8, <3>2 DEF Hash, TypeOK
  <2> QED
    BY <1>8, <2>1 DEF Hash, TypeOK, locals, locks, history
<1>9. CASE DisplayTick
  <2>1. Call(Display)
    BY <1>9 DEF DisplayTick
  <2> QED
    BY <1>2, <1>9, <2>1, TypeCall DEF DisplayTick, TypeOK, counts, locks
<1>10. CASE UpdateTick
  BY <1>1, <1>2, <1>3, <1>10, TypeElsewhere DEF UpdateTick, locks
<1>11. CASE UpdateStats
  BY <1>1, <1>2, <1>3, <1>11, TypeElsewhere DEF UpdateStats, WriteLocked
<1>12. ASSUME NEW stats \in BOOLEAN, MainTick(stats) PROVE TypeOK'
  <2>1. Call(Main)
    BY <1>12 DEF MainTick
  <2> QED
    BY <1>2, <1>12, <2>1, TypeCall DEF MainTick, TypeOK, counts, locks
<1>13. CASE MainAdds
  <2>1. pc' \in [Goroutines -> Places]
    BY <1>1, <1>2, <1>13, GotoType DEF MainAdds
  <2>2. sum[Main] \in Nat /\ total \in Nat /\ extra \in Nat
    BY <1>2 DEF TypeOK
  <2>3. total' = total + sum[Main] /\ extra' = extra + sum[Main]
    BY <1>13 DEF MainAdds
  <2>4. total' \in Nat /\ extra' \in Nat
    BY <2>2, <2>3
  <2> QED
    BY <1>13, <2>1, <2>4 DEF MainAdds, WriteLocked, TypeOK, locals
<1>14. CASE StopBegin
  BY <1>1, <1>2, <1>3, <1>14, TypeElsewhere DEF StopBegin
<1>15. CASE StopEnd
  BY <1>1, <1>2, <1>3, <1>15, TypeElsewhere DEF StopEnd
<1>16. CASE Summary
  BY <1>1, <1>2, <1>3, <1>16, TypeElsewhere DEF Summary
<1>17. CASE Efficiency
  BY <1>1, <1>2, <1>3, <1>17, TypeElsewhere DEF Efficiency
<1>18. CASE UNCHANGED vars
  BY <1>18 DEF vars, counts, locals, locks, history, TypeOK
<1> QED
  BY <1>4, <1>5, <1>6, <1>7, <1>8, <1>9, <1>10, <1>11, <1>12, <1>13, <1>14,
     <1>15, <1>16, <1>17, <1>18 DEF Next, MainLoop, Shutdown

\* Every variable of GetStats, the monitor and main keeps its type.
THEOREM TypeCorrect == Spec => []TypeOK
  BY TypeInit, TypeNext, PTL DEF Spec

(***************************************************************************)
(* No hash is lost.                                                        *)
(***************************************************************************)
LEMMA GivenInit == Init => GivenInv
<1> SUFFICES ASSUME Init PROVE GivenInv
  OBVIOUS
<1>1. CallsInv
  BY DEF Init, CallsInv, Given, Completes, Goroutines
<1> QED
  BY <1>1, TypeInit DEF Init, GivenInv, MarkGiven, NoHashLost

\* A call that begins is before its increment.
LEMMA GivenCall ==
    ASSUME GivenInv, NEW p \in Callers, Call(p),
           UNCHANGED <<counts, delta, extra, returned>>
    PROVE  MarkGiven' /\ CallsInv' /\ NoHashLost'
<1> USE DEF GivenInv, TypeOK, counts
<1>1. MarkGiven' /\ NoHashLost'
  BY DEF MarkGiven, NoHashLost
<1>2. ASSUME NEW q \in Callers PROVE Given(q)' /\ Completes(q)'
  <2>1. CASE q = p
    BY <2>1 DEF Call, Goto, Given, Completes, Goroutines
  <2>2. CASE q # p
    <3>1. pc'[q] = pc[q] /\ sum'[q] = sum[q]
      BY <2>2 DEF Call, Goto, Goroutines
    <3> QED
      BY <3>1 DEF CallsInv, Given, Completes
  <2> QED
    BY <2>1, <2>2
<1> QED
  BY <1>1, <1>2 DEF CallsInv

\* A goroutine that goes on from GetStats to GetStats keeps the others where
\* they are.
LEMMA GotoElsewhere ==
    ASSUME TypeOK, NEW p \in Goroutines, NEW label, Goto(p, label)
    PROVE  /\ pc'[p] = label
           /\ \A q \in Callers \ {p} : pc'[q] = pc[q]
  BY DEF TypeOK, Goto, Goroutines

LEMMA GivenTypes ==
    ASSUME TypeOK
    PROVE  /\ lastSync \in Nat /\ total \in Nat /\ extra \in Nat
           /\ returned \in Nat
           /\ \A q \in Callers : sum[q] \in Nat /\ delta[q] \in Nat
  BY DEF TypeOK

\* The sum of a call is only changed before it is compared.
LEMMA GivenSum ==
    ASSUME GivenInv, NEW p \in Callers, SumEngine(p)
    PROVE  MarkGiven' /\ CallsInv' /\ NoHashLost'
<1>1. /\ UNCHANGED <<lastSync, total, delta, extra, returned>>
      /\ p \in Goroutines /\ pc'[p] \in {"sum", "compare"}
      /\ \A q \in Callers \ {p} : pc'[q] = pc[q] /\ sum'[q] = sum[q]
  <2>1. PICK label \in {"sum", "compare"} : Goto(p, label)
    BY DEF SumEngine
  <2>2. p \in Goroutines
    BY DEF Goroutines
  <2>3. \A q \in Callers \ {p} : sum'[q] = sum[q]
    BY DEF SumEngine, GivenInv, TypeOK
  <2> QED
    BY <2>1, <2>2, <2>3, GotoElsewhere DEF SumEngine, GivenInv, counts, history
<1>2. ASSUME NEW q \in Callers PROVE Given(q)' /\ Completes(q)'
  BY <1>1 DEF GivenInv, CallsInv, Given, Completes
<1> QED
  BY <1>1, <1>2 DEF GivenInv, CallsInv, MarkGiven, NoHashLost

\* The mark is not ahead of the monitor, so an increment over it completes
\* the sum, and a sum that is not over it is complete.
LEMMA GivenCompare ==
    ASSUME GivenInv, NEW p \in Callers, Compare(p)
    PROVE  MarkGiven' /\ CallsInv' /\ NoHashLost'
<1>1. UNCHANGED <<lastSync, total, sum, extra, returned>>
  BY DEF Compare, counts, history
<1>2. Given(p)' /\ Completes(p)'
  <2>1. p \in Goroutines
    BY DEF Goroutines
  <2>2. CASE sum[p] > lastSync
    <3>1. pc'[p] = "add"
      BY <2>1, <2>2, GotoElsewhere DEF Compare, GivenInv
    <3>2. delta'[p] = sum[p] - lastSync
      BY <2>2 DEF Compare, GivenInv, TypeOK
    <3> QED
      BY <1>1, <3>1, <3>2, GivenTypes DEF GivenInv, MarkGiven, Given, Completes
  <2>3. CASE ~(sum[p] > lastSync)
    <3>1. pc'[p] = "store"
      BY <2>1, <2>3, GotoElsewhere DEF Compare, GivenInv
    <3> QED
      BY <1>1, <2>3, <3>1, GivenTypes DEF GivenInv, MarkGiven, Given, Completes
  <2> QED
    BY <2>2, <2>3
<1>3. ASSUME NEW q \in Callers \ {p} PROVE Given(q)' /\ Completes(q)'
  <2>1. PICK label : Goto(p, label)
    BY DEF Compare
  <2>2. p \in Goroutines
    BY DEF Goroutines
  <2>3. pc'[q] = pc[q]
    BY <2>1, <2>2, GotoElsewhere DEF GivenInv
  <2>4. delta'[q] = delta[q]
    BY DEF Compare, GivenInv, TypeOK
  <2> QED
    BY <1>1, <2>3, <2>4 DEF GivenInv, CallsInv, Given, Completes
<1> QED
  BY <1>1, <1>2, <1>3 DEF GivenInv, CallsInv, MarkGiven, NoHashLost

LEMMA GivenAdd ==
    ASSUME GivenInv, NEW p \in Callers, AddHashes(p)
    PROVE  MarkGiven' /\ CallsInv' /\ NoHashLost'
<1>1. total' = total + delta[p] /\ UNCHANGED <<sum, delta, extra, lastSync, returned>>
  BY DEF AddHashes, locals, history
<1>2. pc[p] = "add" /\ pc'[p] = "store"
      /\ \A q \in Callers \ {p} : pc'[q] = pc[q]
  BY GotoElsewhere DEF AddHashes, GivenInv, Goroutines
<1>3. delta[p] \in Nat
  BY GivenTypes DEF GivenInv
<1>4. Given(p)' /\ Completes(p)'
  BY <1>1, <1>2 DEF GivenInv, CallsInv, Given, Completes
<1>5. ASSUME NEW q \in Callers \ {p} PROVE Given(q)' /\ Completes(q)'
  <2>1. pc'[q] = pc[q] /\ Given(q) /\ Completes(q)
    BY <1>2 DEF GivenInv, CallsInv
  <2>2. total \in Nat /\ extra \in Nat /\ sum[q] \in Nat /\ delta[q] \in Nat
    BY GivenTypes DEF GivenInv
  <2>3. /\ sum'[q] = sum[q] /\ delta'[q] = delta[q] /\ extra' = extra
        /\ total' = total + delta[p]
    BY <1>1
  <2>4. sum[q] + extra <= total => sum[q] + extra <= total + delta[p]
    BY <1>3, <2>2
  <2>5. sum[q] + extra <= total + delta[q]
          => sum[q] + extra <= total + delta[p] + delta[q]
    BY <1>3, <2>2
  <2> QED
    BY <2>1, <2>3, <2>4, <2>5 DEF Given, Completes
<1>6. MarkGiven' /\ NoHashLost'
  BY <1>1, <1>3, GivenTypes DEF GivenInv, MarkGiven, NoHashLost
<1> QED
  BY <1>4, <1>5, <1>6 DEF CallsInv

\* A call past its increment may put the mark to its sum, and return it.
LEMMA GivenPast ==
    ASSUME GivenInv, NEW p \in Callers,
           Store(p) \/ ReadStartTime(p) \/ UpdateHashRate(p)
    PROVE  MarkGiven' /\ CallsInv' /\ NoHashLost'
<1>1. UNCHANGED <<total, sum, delta, extra>>
  BY DEF Store, ReadStartTime, UpdateHashRate, counts, locals, history
<1>2. sum[p] + extra <= total
  BY DEF Store, ReadStartTime, UpdateHashRate, GivenInv, CallsInv, Given
<1>3. lastSync' \in {lastSync, sum[p]} /\ returned' \in {returned, sum[p]}
  BY DEF Store, ReadStartTime, UpdateHashRate, counts, history, Max2
<1>4. \A q \in Callers : \/ pc'[q] = pc[q]
                         \/ q = p /\ pc'[q] # "add"
  <2>1. \/ Goto(p, "start time") \/ Goto(p, "rate")
        \/ Goto(p, "main adds") \/ Goto(p, "idle")
    BY DEF Store, ReadStartTime, UpdateHashRate
  <2>2. p \in Goroutines /\ TypeOK
    BY DEF GivenInv, Goroutines
  <2>3. /\ pc'[p] \in {"start time", "rate", "main adds", "idle"}
        /\ \A q \in Callers \ {p} : pc'[q] = pc[q]
    BY <2>1, <2>2, GotoElsewhere
  <2> QED
    BY <2>3
<1>5. ASSUME NEW q \in Callers PROVE Given(q)' /\ Completes(q)'
  BY <1>1, <1>2, <1>4 DEF GivenInv, CallsInv, Given, Completes
<1>6. MarkGiven' /\ NoHashLost'
  BY <1>1, <1>2, <1>3 DEF GivenInv, MarkGiven, NoHashLost
<1> QED
  BY <1>5, <1>6 DEF CallsInv

\* What is not a step of GetStats moves no goroutine into it past its
\* increment, and leaves the sums, the marks and what was returned alone.
LEMMA GivenElsewhere ==
    ASSUME GivenInv,
           \A q \in Callers : \/ pc'[q] = pc[q]
                              \/ pc'[q] \notin {"add", "store", "start time", "rate"},
           UNCHANGED <<lastSync, total, sum, delta, extra, returned>>
    PROVE  MarkGiven' /\ CallsInv' /\ NoHashLost'
<1>1. ASSUME NEW q \in Callers PROVE Given(q)' /\ Completes(q)'
  BY DEF GivenInv, CallsInv, Given, Completes
<1> QED
  BY <1>1 DEF GivenInv, CallsInv, MarkGiven, NoHashLost

LEMMA GivenGoto ==
    ASSUME GivenInv, NEW p \in Goroutines,
           NEW label \in {"idle", "update", "stopping", "summary", "efficiency",
                          "returned"},
           Goto(p, label),
           UNCHANGED <<lastSync, total, sum, delta, extra, returned>>
    PROVE  MarkGiven' /\ CallsInv' /\ NoHashLost'
<1>1. \A q \in Callers : \/ pc'[q] = pc[q]
                         \/ pc'[q] \notin {"add", "store", "start time", "rate"}
  BY GotoElsewhere DEF GivenInv
<1> QED
  BY <1>1, GivenElsewhere

LEMMA GivenNext == GivenInv /\ [Next]_vars => GivenInv'
<1> SUFFICES ASSUME GivenInv, [Next]_vars PROVE MarkGiven' /\ CallsInv' /\ NoHashLost'
  BY TypeNext DEF GivenInv
<1> DEFINE Holds == MarkGiven' /\ CallsInv' /\ NoHashLost'
<1>1. /\ Main \in Callers /\ Display \in Callers /\ Callers \subseteq Goroutines
      /\ Updater \in Goroutines
  BY DEF Callers, Goroutines
<1>2. ASSUME NEW p \in Callers, GetStats(p) PROVE Holds
  BY <1>2, GivenSum, GivenCompare, GivenAdd, GivenPast DEF GetStats
<1>3. ASSUME NEW p \in Goroutines, Announce(p) PROVE Holds
  BY <1>3, GivenElsewhere DEF Announce, counts, locals, history
<1>4. ASSUME NEW p \in Goroutines, Send(p) PROVE Holds
  BY <1>4, GivenCall DEF Send, Callers, Call, counts
<1>5. ASSUME NEW p \in Goroutines, LoopReturns(p) PROVE Holds
  BY <1>5, GivenGoto DEF LoopReturns, counts, locals, history
<1>6. ASSUME NEW e \in 1 .. NumEngines, Hash(e) PROVE Holds
  BY <1>6, GivenElsewhere DEF Hash, locals, history
<1>7. CASE DisplayTick
  BY <1>1, <1>7, GivenCall DEF DisplayTick, Call, counts
<1>8. CASE UpdateTick
  BY <1>1, <1>8, GivenGoto DEF UpdateTick, counts, locals, history
<1>9. CASE UpdateStats
  BY <1>1, <1>9, GivenGoto DEF UpdateStats, counts, locals, history
<1>10. ASSUME NEW stats \in BOOLEAN, MainTick(stats) PROVE Holds
  BY <1>1, <1>10, GivenCall DEF MainTick, Call, counts
<1>11. CASE MainAdds
  <2>1. /\ total' = total + sum[Main] /\ extra' = extra + sum[Main]
        /\ UNCHANGED <<lastSync, sum, delta, returned>>
    BY <1>11 DEF MainAdds, locals
  <2>2. sum[Main] \in Nat
    BY <1>1, GivenTypes DEF GivenInv
  <2>3. ASSUME NEW q \in Callers PROVE Given(q)' /\ Completes(q)'
    <3>1. pc'[q] = pc[q] \/ pc'[q] = "idle"
      BY <1>1, <1>11, GotoElsewhere DEF MainAdds, GivenInv
    <3>2. /\ total \in Nat /\ extra \in Nat
          /\ sum[q] \in Nat /\ delta[q] \in Nat
      BY GivenTypes DEF GivenInv
    <3>3. Given(q) /\ Completes(q)
      BY DEF GivenInv, CallsInv
    <3>4. /\ sum'[q] = sum[q] /\ delta'[q] = delta[q]
          /\ total' = total + sum[Main] /\ extra' = extra + sum[Main]
      BY <2>1
    <3>5. sum[q] + extra <= total
            => sum[q] + (extra + sum[Main]) <= total + sum[Main]
      BY <2>2, <3>2
    <3>6. sum[q] + extra <= total + delta[q]
            => sum[q] + (extra + sum[Main]) <= total + sum[Main] + delta[q]
      BY <2>2, <3>2
    <3> QED
      BY <3>1, <3>3, <3>4, <3>5, <3>6 DEF Given, Completes
  <2> QED
    BY <2>1, <2>2, <2>3, GivenTypes DEF GivenInv, CallsInv, MarkGiven, NoHashLost
<1>12. CASE StopBegin
  BY <1>1, <1>12, GivenGoto DEF StopBegin, counts, locals, history
<1>13. CASE StopEnd
  BY <1>1, <1>13, GivenGoto DEF StopEnd, counts, locals, history
<1>14. CASE Summary
  BY <1>1, <1>14, GivenGoto DEF Summary, counts, locals, history
<1>15. CASE Efficiency
  BY <1>1, <1>15, GivenGoto DEF Efficiency, counts, locals, history
<1>16. CASE UNCHANGED vars
  BY <1>16, GivenElsewhere DEF vars, counts, locals, history
<1> QED
  BY <1>2, <1>3, <1>4, <1>5, <1>6, <1>7, <1>8, <1>9, <1>10, <1>11, <1>12,
     <1>13, <1>14, <1>15, <1>16 DEF Next, MainLoop, Shutdown

\* However many calls of GetStats overlap and overtake each other around the
\* unprotected mark (miner.go:568-573), the monitor has been given every hash
\* that any of them returned.
THEOREM NoHashLostCorrect == Spec => []NoHashLost
<1>1. GivenInv => NoHashLost
  BY DEF GivenInv
<1> QED
  BY <1>1, GivenInit, GivenNext, PTL DEF Spec


(***************************************************************************)
(* As long as calls do not overlap, every hash is counted once.            *)
(*                                                                         *)
(* A call that finds its sum below the mark gives the monitor nothing and  *)
(* moves the mark back, so the mark must never be above a later sum: each  *)
(* engine counts upwards.  The sum over the engines is not an operator     *)
(* here; that a number is the sum of counts the engines have reached is    *)
(* said by the function of its partial sums.                               *)
(***************************************************************************)
PartialSums == [0 .. NumEngines -> Nat]

\* s is reached by engines 1 to n, none counting more than counted, with the
\* partial sums f.
Reached(counted, f, n, s) ==
    f[0] = 0 /\ f[n] = s /\ \A i \in 1 .. n : f[i] <= f[i - 1] + counted[i]

MarkReached == \E g \in PartialSums : Reached(hashes, g, NumEngines, lastSync)

\* A call that has asked the engines before at has a sum not below what the
\* mark has from those.
Summing(p) ==
    pc[p] = "sum" =>
        \E g, h \in PartialSums :
            /\ Reached(hashes, g, NumEngines, lastSync)
            /\ Reached(hashes, h, at[p] - 1, sum[p])
            /\ g[at[p] - 1] <= sum[p]

Summed(p) ==
    /\ pc[p] = "compare" => lastSync <= sum[p]
    /\ pc[p] \in {"compare", "add", "store"} =>
         \E h \in PartialSums : Reached(hashes, h, NumEngines, sum[p])
    /\ pc[p] = "add"   => total + delta[p] = sum[p] + extra
    /\ pc[p] = "store" => total = sum[p] + extra

OneCall == \A p, q \in Callers : pc[p] \in InSync /\ pc[q] \in InSync => p = q

CountedOnce ==
    (\A p \in Callers : pc[p] \notin {"add", "store"}) => total = lastSync + extra

OnceParts ==
    OneCall /\ CountedOnce /\ MarkReached /\ \A p \in Callers : Summing(p) /\ Summed(p)

AsksFirstEngine == \A p \in Callers : pc[p] # "sum" => at[p] = 1

OnceInv == TypeOK /\ AsksFirstEngine /\ (~overlapped => OnceParts)

\* The engines only count up.
LEMMA ReachedLater ==
    ASSUME NEW a \in [1 .. NumEngines -> Nat], NEW b \in [1 .. NumEngines -> Nat],
           \A i \in 1 .. NumEngines : a[i] <= b[i],
           NEW f \in PartialSums, NEW n \in 0 .. NumEngines, NEW s,
           Reached(a, f, n, s)
    PROVE  Reached(b, f, n, s)
<1>1. ASSUME NEW i \in 1 .. n
      PROVE  f[i] <= f[i - 1] + b[i]
  <2>1. NumEngines \in Nat /\ i \in 1 .. NumEngines /\ i - 1 \in 0 .. NumEngines
    BY StatsAssumption
  <2>2. f[i] \in Nat /\ f[i - 1] \in Nat /\ a[i] \in Nat /\ b[i] \in Nat /\ a[i] <= b[i]
    BY <2>1 DEF PartialSums
  <2>3. f[i] <= f[i - 1] + a[i]
    BY DEF Reached
  <2> QED
    BY <2>2, <2>3
<1> QED
  BY <1>1 DEF Reached

\* What is counted by an engine.
LEMMA HashesType ==
    ASSUME TypeOK
    PROVE  hashes \in [1 .. NumEngines -> Nat] /\ NumEngines \in Nat \ {0}
<1>1. 0 .. MaxHashes \subseteq Nat /\ NumEngines \in Nat \ {0}
  BY StatsAssumption
<1> QED
  BY <1>1 DEF TypeOK

\* A step outside GetStats, or out of it: the engines may count, and main may
\* add k on its own.
LEMMA OnceFrame ==
    ASSUME TypeOK, OnceParts, hashes' \in [1 .. NumEngines -> Nat],
           \A i \in 1 .. NumEngines : hashes[i] <= hashes'[i],
           NEW k \in Nat, total' = total + k, extra' = extra + k,
           UNCHANGED lastSync,
           \A q \in Callers : \/ pc'[q] = pc[q] /\ sum'[q] = sum[q]
                                 /\ delta'[q] = delta[q] /\ at'[q] = at[q]
                              \/ pc'[q] \notin InSync /\ pc[q] \notin {"add", "store"}
    PROVE  OnceParts'
<1>1. hashes \in [1 .. NumEngines -> Nat] /\ NumEngines \in Nat \ {0}
  BY HashesType
<1>2. \A f \in PartialSums, n \in 0 .. NumEngines, s \in Nat :
        Reached(hashes, f, n, s) => Reached(hashes', f, n, s)
  BY <1>1, ReachedLater
<1>3. /\ lastSync \in Nat /\ total \in Nat /\ extra \in Nat
      /\ \A q \in Callers : sum[q] \in Nat /\ delta[q] \in Nat
  BY GivenTypes
<1>4. NumEngines \in 0 .. NumEngines
  BY <1>1
<1>5. OneCall'
  BY DEF OnceParts, OneCall
<1>6. CountedOnce'
  <2> SUFFICES ASSUME \A q \in Callers : pc'[q] \notin {"add", "store"}
               PROVE  total' = lastSync' + extra'
    BY DEF CountedOnce
  <2>1. \A q \in Callers : pc[q] \notin {"add", "store"}
    OBVIOUS
  <2>2. total = lastSync + extra
    BY <2>1 DEF OnceParts, CountedOnce
  <2> QED
    BY <1>3, <2>2
<1>7. MarkReached'
  BY <1>2, <1>3, <1>4 DEF OnceParts, MarkReached
<1>8. ASSUME NEW q \in Callers PROVE Summing(q)' /\ Summed(q)'
  <2>1. CASE pc'[q] \notin InSync
    BY <2>1 DEF Summing, Summed, InSync
  <2>2. CASE /\ pc'[q] = pc[q] /\ sum'[q] = sum[q]
             /\ delta'[q] = delta[q] /\ at'[q] = at[q]
    <3>1. Summing(q) /\ Summed(q) /\ sum[q] \in Nat /\ delta[q] \in Nat
      BY <1>3 DEF OnceParts
    <3>2. at[q] - 1 \in 0 .. NumEngines
      BY <1>1 DEF TypeOK
    <3>3. Summing(q)'
      BY <1>2, <1>3, <1>4, <2>2, <3>1, <3>2 DEF Summing
    <3>4. /\ pc[q] = "compare" => lastSync <= sum[q]
          /\ pc[q] = "add" => total + delta[q] = sum[q] + extra
          /\ pc[q] = "store" => total = sum[q] + extra
      BY <3>1 DEF Summed
    <3>5. /\ pc'[q] = "compare" => lastSync' <= sum'[q]
          /\ pc'[q] = "add" => total' + delta'[q] = sum'[q] + extra'
          /\ pc'[q] = "store" => total' = sum'[q] + extra'
      <4>1. total + delta[q] = sum[q] + extra
              => total + k + delta[q] = sum[q] + (extra + k)
        BY <1>3, <3>1
      <4>2. total = sum[q] + extra => total + k = sum[q] + (extra + k)
        BY <1>3, <3>1
      <4> QED
        BY <2>2, <3>4, <4>1, <4>2
    <3>6. pc'[q] \in {"compare", "add", "store"} =>
            \E h \in PartialSums : Reached(hashes', h, NumEngines, sum'[q])
      BY <1>2, <1>4, <2>2, <3>1 DEF Summed
    <3> QED
      BY <3>3, <3>5, <3>6 DEF Summed
  <2> QED
    BY <2>1, <2>2
<1> QED
  BY <1>5, <1>6, <1>7, <1>8 DEF OnceParts

\* A step of the only call p leaves the other callers out of GetStats.
LEMMA OthersOut ==
    ASSUME TypeOK, OneCall, NEW p \in Callers, pc[p] \in InSync,
           NEW label, Goto(p, label)
    PROVE  /\ pc'[p] = label
           /\ \A q \in Callers \ {p} : pc[q] \notin InSync /\ pc'[q] = pc[q]
BY GotoElsewhere DEF OneCall, Goroutines

\* So only what is claimed of p is to be shown.
LEMMA OnceStep ==
    ASSUME TypeOK, OneCall, NEW p \in Callers, pc[p] \in InSync,
           NEW label, Goto(p, label),
           CountedOnce', MarkReached', Summing(p)', Summed(p)'
    PROVE  OnceParts'
<1>1. /\ pc'[p] = label
      /\ \A q \in Callers \ {p} : pc[q] \notin InSync /\ pc'[q] = pc[q]
  BY OthersOut
<1>2. OneCall'
  BY <1>1 DEF OneCall
<1>3. \A q \in Callers \ {p} : Summing(q)' /\ Summed(q)'
  BY <1>1 DEF Summing, Summed, InSync
<1> QED
  BY <1>2, <1>3 DEF OnceParts

\* A call begins: none of the engines has been asked.
LEMMA OnceCall ==
    ASSUME OnceInv, NEW p \in Callers, pc[p] \notin InSync, Call(p),
           UNCHANGED counts, ~overlapped'
    PROVE  OnceParts'
<1>1. OnceParts /\ TypeOK
  BY DEF OnceInv, Call
<1>2. /\ pc'[p] = "sum" /\ sum'[p] = 0 /\ at'[p] = 1
      /\ \A q \in Callers \ {p} : pc'[q] = pc[q]
      /\ UNCHANGED <<extra, lastSync, total, hashes>>
  <2>1. p \in Goroutines
    BY DEF Goroutines
  <2>2. at[p] = 1
    BY DEF OnceInv, AsksFirstEngine, InSync
  <2> QED
    BY <1>1, <2>1, <2>2, GotoElsewhere DEF Call, TypeOK, counts
<1>3. \A q \in Callers : pc[q] \notin InSync
  BY DEF Call
<1>4. OneCall'
  BY <1>2, <1>3 DEF OneCall
<1>5. CountedOnce' /\ MarkReached'
  BY <1>1, <1>2, <1>3 DEF OnceParts, CountedOnce, MarkReached, InSync
<1>6. \A q \in Callers \ {p} : Summing(q)' /\ Summed(q)'
  BY <1>2, <1>3 DEF Summing, Summed, InSync
<1>7. Summing(p)'
  <2>1. PICK g \in PartialSums : Reached(hashes, g, NumEngines, lastSync)
    BY <1>1 DEF OnceParts, MarkReached
  <2>2. g[0] = 0
    BY <2>1 DEF Reached
  <2>3. Reached(hashes, g, 0, 0)
    BY <2>2 DEF Reached
  <2>4. at'[p] - 1 = 0
    BY <1>2
  <2>5. \E h \in PartialSums :
          /\ Reached(hashes', g, NumEngines, lastSync')
          /\ Reached(hashes', h, at'[p] - 1, sum'[p])
          /\ g[at'[p] - 1] <= sum'[p]
    BY <1>2, <2>1, <2>2, <2>3, <2>4
  <2> QED
    BY <2>5 DEF Summing
<1>8. Summed(p)'
  BY <1>2 DEF Summed
<1> QED
  BY <1>4, <1>5, <1>6, <1>7, <1>8 DEF OnceParts

\* One more engine is asked, and has counted at least what the mark has from
\* it.
LEMMA OnceSum ==
    ASSUME OnceInv, OnceParts, NEW p \in Callers, SumEngine(p)
    PROVE  OnceParts'
<1>1. TypeOK /\ OneCall /\ pc[p] = "sum" /\ pc[p] \in InSync
  BY DEF OnceInv, OnceParts, SumEngine, InSync
<1>2. /\ at[p] \in 1 .. NumEngines /\ sum[p] \in Nat
      /\ hashes \in [1 .. NumEngines -> Nat] /\ NumEngines \in Nat \ {0}
  BY <1>1, HashesType DEF TypeOK
<1>3. UNCHANGED <<hashes, lastSync, total, extra>>
  BY DEF SumEngine, counts, history
<1>4. sum'[p] = sum[p] + hashes[at[p]]
  BY <1>1 DEF SumEngine, TypeOK
<1>5. at'[p] = IF at[p] = NumEngines THEN 1 ELSE at[p] + 1
  BY <1>1 DEF SumEngine, TypeOK
<1>6. Goto(p, IF at[p] = NumEngines THEN "compare" ELSE "sum")
  BY DEF SumEngine
<1>7. /\ pc'[p] = IF at[p] = NumEngines THEN "compare" ELSE "sum"
      /\ \A q \in Callers \ {p} : pc[q] \notin InSync /\ pc'[q] = pc[q]
  BY <1>1, <1>6, OthersOut
<1>8. CountedOnce' /\ MarkReached'
  <2>1. total = lastSync + extra
    BY <1>1, <1>7 DEF OnceParts, CountedOnce, InSync
  <2> QED
    BY <1>3, <2>1 DEF OnceParts, CountedOnce, MarkReached
<1>9. PICK g \in PartialSums, h \in PartialSums :
        /\ Reached(hashes, g, NumEngines, lastSync)
        /\ Reached(hashes, h, at[p] - 1, sum[p])
        /\ g[at[p] - 1] <= sum[p]
  BY <1>1 DEF OnceParts, Summing
<1> DEFINE n == at[p]
           e == [h EXCEPT ![n] = sum[p] + hashes[n]]
<1>10. n \in 0 .. NumEngines /\ n - 1 \in 0 .. NumEngines /\ hashes[n] \in Nat
  BY <1>2
<1>11. e \in PartialSums
  <2>1. sum[p] + hashes[n] \in Nat
    BY <1>2, <1>10
  <2> QED
    BY <2>1 DEF PartialSums
<1>12. Reached(hashes, e, n, sum'[p])
  <2>1. n # 0
    BY <1>2
  <2>2. e[0] = 0
    BY <1>2, <1>9, <2>1 DEF Reached, PartialSums
  <2>3. e[n] = sum'[p]
    BY <1>4, <1>10 DEF PartialSums
  <2>4. ASSUME NEW i \in 1 .. n
        PROVE  e[i] <= e[i - 1] + hashes[i]
    <3>1. CASE i = n
      <4>1. e[n - 1] = sum[p]
        BY <1>2, <1>9, <1>10 DEF Reached, PartialSums
      <4> QED
        BY <1>2, <1>4, <1>10, <2>3, <3>1, <4>1
    <3>2. CASE i # n
      <4>1. i \in 1 .. n - 1 /\ i \in 0 .. NumEngines /\ i - 1 \in 0 .. NumEngines
            /\ i - 1 # n
        BY <1>2, <3>2
      <4>2. e[i] = h[i] /\ e[i - 1] = h[i - 1]
        BY <3>2, <4>1 DEF PartialSums
      <4>3. h[i] <= h[i - 1] + hashes[i]
        BY <1>9, <4>1 DEF Reached
      <4> QED
        BY <4>2, <4>3
    <3> QED
      BY <3>1, <3>2
  <2> HIDE DEF e
  <2> QED
    BY <2>2, <2>3, <2>4 DEF Reached
<1>13. g[n] <= sum'[p]
  <2>1. g[n] <= g[n - 1] + hashes[n]
    BY <1>2, <1>9 DEF Reached
  <2>2. g[n] \in Nat /\ g[n - 1] \in Nat
    BY <1>10 DEF PartialSums
  <2> QED
    BY <1>2, <1>4, <1>9, <1>10, <2>1, <2>2
<1>14. CASE n = NumEngines
  <2>1. pc'[p] = "compare"
    BY <1>7, <1>14
  <2>2. lastSync <= sum'[p]
    BY <1>9, <1>13, <1>14 DEF Reached
  <2> HIDE DEF e, n
  <2>3. \E f \in PartialSums : Reached(hashes, f, NumEngines, sum'[p])
    BY <1>11, <1>12, <1>14
  <2>4. Summing(p)' /\ Summed(p)'
    BY <1>3, <2>1, <2>2, <2>3 DEF Summing, Summed
  <2> QED
    BY <1>1, <1>6, <1>8, <2>4, OnceStep
<1>15. CASE n # NumEngines
  <2>1. pc'[p] = "sum" /\ at'[p] - 1 = n
    BY <1>2, <1>5, <1>7, <1>15
  <2> HIDE DEF e, n
  <2>2. \E f \in PartialSums :
          /\ Reached(hashes', g, NumEngines, lastSync')
          /\ Reached(hashes', f, at'[p] - 1, sum'[p])
          /\ g[at'[p] - 1] <= sum'[p]
    BY <1>3, <1>9, <1>11, <1>12, <1>13, <2>1
  <2>3. Summing(p)' /\ Summed(p)'
    BY <2>1, <2>2 DEF Summing, Summed
  <2> QED
    BY <1>1, <1>6, <1>8, <2>3, OnceStep
<1> QED
  BY <1>14, <1>15

\* The sum is not below the mark, so the increment brings the monitor to it.
LEMMA OnceCompare ==
    ASSUME OnceInv, OnceParts, NEW p \in Callers, Compare(p)
    PROVE  OnceParts'
<1>1. TypeOK /\ OneCall /\ pc[p] = "compare" /\ pc[p] \in InSync
  BY DEF OnceInv, OnceParts, Compare, InSync
<1>2. UNCHANGED <<hashes, lastSync, total, sum, extra>>
  BY DEF Compare, counts, history
<1>3. Goto(p, IF sum[p] > lastSync THEN "add" ELSE "store")
  BY DEF Compare
<1>4. /\ pc'[p] = IF sum[p] > lastSync THEN "add" ELSE "store"
      /\ \A q \in Callers \ {p} : pc[q] \notin InSync /\ pc'[q] = pc[q]
  BY <1>1, <1>3, OthersOut
<1>5. /\ lastSync <= sum[p] /\ Summed(p)
      /\ \E h \in PartialSums : Reached(hashes, h, NumEngines, sum[p])
  BY <1>1 DEF OnceParts, Summed
<1>6. total = lastSync + extra
  BY <1>1, <1>4 DEF OnceParts, CountedOnce, InSync
<1>7. lastSync \in Nat /\ total \in Nat /\ extra \in Nat /\ sum[p] \in Nat
  BY <1>1, GivenTypes
<1>8. delta'[p] = IF sum[p] > lastSync THEN sum[p] - lastSync ELSE 0
  BY <1>1 DEF Compare, TypeOK
<1>9. /\ pc'[p] = "add" => total' + delta'[p] = sum'[p] + extra'
      /\ pc'[p] = "store" => total' = sum'[p] + extra'
  BY <1>2, <1>4, <1>5, <1>6, <1>7, <1>8
<1>10. Summing(p)' /\ Summed(p)'
  BY <1>2, <1>4, <1>5, <1>9 DEF Summing, Summed
<1>11. CountedOnce' /\ MarkReached'
  BY <1>2, <1>6 DEF OnceParts, CountedOnce, MarkReached
<1> QED
  BY <1>1, <1>3, <1>10, <1>11, OnceStep

LEMMA OnceAdd ==
    ASSUME OnceInv, OnceParts, NEW p \in Callers, AddHashes(p)
    PROVE  OnceParts'
<1>1. TypeOK /\ OneCall /\ pc[p] = "add" /\ pc[p] \in InSync
  BY DEF OnceInv, OnceParts, AddHashes, InSync
<1>2. /\ UNCHANGED <<hashes, lastSync, sum, extra>> /\ total' = total + delta[p]
      /\ Goto(p, "store")
  BY DEF AddHashes, locals, history
<1>3. pc'[p] = "store"
  BY <1>1, <1>2, OthersOut
<1>4. /\ total + delta[p] = sum[p] + extra
      /\ \E h \in PartialSums : Reached(hashes, h, NumEngines, sum[p])
  BY <1>1 DEF OnceParts, Summed
<1>5. Summing(p)' /\ Summed(p)'
  BY <1>2, <1>3, <1>4 DEF Summing, Summed
<1>6. CountedOnce' /\ MarkReached'
  BY <1>2, <1>3 DEF OnceParts, CountedOnce, MarkReached
<1> QED
  BY <1>1, <1>2, <1>5, <1>6, OnceStep

\* The mark becomes the sum.
LEMMA OnceStore ==
    ASSUME OnceInv, OnceParts, NEW p \in Callers, Store(p)
    PROVE  OnceParts'
<1>1. TypeOK /\ OneCall /\ pc[p] = "store" /\ pc[p] \in InSync
  BY DEF OnceInv, OnceParts, Store, InSync
<1>2. /\ UNCHANGED <<hashes, total, sum, extra>> /\ lastSync' = sum[p]
      /\ Goto(p, "start time")
  BY DEF Store, locals, history
<1>3. pc'[p] = "start time"
  BY <1>1, <1>2, OthersOut
<1>4. /\ total = sum[p] + extra
      /\ \E h \in PartialSums : Reached(hashes, h, NumEngines, sum[p])
  BY <1>1 DEF OnceParts, Summed
<1>5. Summing(p)' /\ Summed(p)'
  BY <1>3 DEF Summing, Summed
<1>6. CountedOnce' /\ MarkReached'
  BY <1>2, <1>4 DEF CountedOnce, MarkReached
<1> QED
  BY <1>1, <1>2, <1>5, <1>6, OnceStep

\* A step of goroutine p, not in the middle of GetStats, to somewhere else.
LEMMA OnceGoto ==
    ASSUME TypeOK, OnceParts, NEW p \in Goroutines,
           p \in Callers => pc[p] \notin {"add", "store"},
           NEW label, label \notin InSync, Goto(p, label),
           UNCHANGED <<hashes, lastSync, total, sum, delta, at, extra>>
    PROVE  OnceParts'
<1>1. hashes' \in [1 .. NumEngines -> Nat] /\ \A i \in 1 .. NumEngines : hashes[i] <= hashes'[i]
  BY HashesType
<1>2. total' = total + 0 /\ extra' = extra + 0
  BY DEF TypeOK
<1>3. pc'[p] = label /\ \A q \in Callers \ {p} : pc'[q] = pc[q]
  BY GotoElsewhere
<1>4. \A q \in Callers : \/ pc'[q] = pc[q] /\ sum'[q] = sum[q]
                            /\ delta'[q] = delta[q] /\ at'[q] = at[q]
                         \/ pc'[q] \notin InSync /\ pc[q] \notin {"add", "store"}
  BY <1>3
<1>5. UNCHANGED lastSync
  OBVIOUS
<1> QED
  BY <1>1, <1>2, <1>4, <1>5, OnceFrame

LEMMA OncePartsNext ==
    ASSUME OnceInv, [Next]_vars, ~overlapped'
    PROVE  OnceParts'
<1>1. /\ Main \in Callers /\ Display \in Callers /\ Callers \subseteq Goroutines
      /\ Updater \in Goroutines /\ Updater \notin Callers
  BY StatsAssumption DEF Callers, Goroutines
<1>2. TypeOK
  BY DEF OnceInv
<1>3. /\ "idle" \notin InSync /\ "update" \notin InSync /\ "stopping" \notin InSync
      /\ "summary" \notin InSync /\ "efficiency" \notin InSync
      /\ "returned" \notin InSync /\ "rate" \notin InSync /\ "main adds" \notin InSync
  BY DEF InSync
<1>4. ASSUME UNCHANGED overlapped PROVE OnceParts
  BY <1>4 DEF OnceInv
<1>5. ASSUME NEW p \in Callers, GetStats(p) PROVE OnceParts'
  <2>1. OnceParts
    BY <1>4, <1>5 DEF GetStats, SumEngine, Compare, AddHashes, Store,
                      ReadStartTime, UpdateHashRate, history
  <2>2. CASE ReadStartTime(p)
    BY <1>1, <1>2, <1>3, <2>1, <2>2, OnceGoto DEF ReadStartTime, counts, locals, history
  <2>3. CASE UpdateHashRate(p)
    <3>1. PICK label \in {"main adds", "idle"} : Goto(p, label)
      BY <2>3 DEF UpdateHashRate
    <3>2. /\ pc[p] = "rate"
          /\ UNCHANGED <<hashes, lastSync, total, sum, delta, at, extra>>
      BY <2>3 DEF UpdateHashRate, counts, locals
    <3> QED
      BY <1>1, <1>2, <1>3, <2>1, <3>1, <3>2, OnceGoto
  <2> QED
    BY <1>5, <2>1, <2>2, <2>3, OnceSum, OnceCompare, OnceAdd, OnceStore DEF GetStats
<1>6. ASSUME UNCHANGED <<hashes, lastSync, total, pc, sum, delta, at, extra, overlapped>>
      PROVE  OnceParts'
  <2>1. total' = total + 0 /\ extra' = extra + 0
    BY <1>2, <1>6 DEF TypeOK
  <2>2. /\ hashes' \in [1 .. NumEngines -> Nat]
        /\ \A i \in 1 .. NumEngines : hashes[i] <= hashes'[i]
    BY <1>2, <1>6, HashesType
  <2>3. UNCHANGED lastSync
    BY <1>6
  <2>4. \A q \in Callers : /\ pc'[q] = pc[q] /\ sum'[q] = sum[q]
                           /\ delta'[q] = delta[q] /\ at'[q] = at[q]
    BY <1>6
  <2> QED
    BY <1>2, <1>4, <1>6, <2>1, <2>2, <2>3, <2>4, OnceFrame
<1>7. ASSUME NEW p \in Goroutines, Announce(p) PROVE OnceParts'
  BY <1>6, <1>7 DEF Announce, counts, locals, history
<1>8. ASSUME NEW p \in Goroutines, Send(p) PROVE OnceParts'
  BY <1>3, <1>8, OnceCall DEF Send, Callers
<1>9. ASSUME NEW p \in Goroutines, LoopReturns(p) PROVE OnceParts'
  BY <1>2, <1>3, <1>4, <1>9, OnceGoto DEF LoopReturns, counts, locals, history
<1>10. ASSUME NEW e \in 1 .. NumEngines, Hash(e) PROVE OnceParts'
  <2>1. /\ hashes' = [hashes EXCEPT ![e] = @ + 1]
        /\ UNCHANGED <<lastSync, total, pc, sum, delta, at, extra, overlapped>>
    BY <1>10 DEF Hash, locals, history
  <2>2. hashes \in [1 .. NumEngines -> Nat]
    BY <1>2, HashesType
  <2>3. /\ hashes' \in [1 .. NumEngines -> Nat]
        /\ \A i \in 1 .. NumEngines : hashes[i] <= hashes'[i]
    BY <2>1, <2>2
  <2>4. total' = total + 0 /\ extra' = extra + 0
    BY <1>2, <2>1 DEF TypeOK
  <2>5. \A q \in Callers : /\ pc'[q] = pc[q] /\ sum'[q] = sum[q]
                           /\ delta'[q] = delta[q] /\ at'[q] = at[q]
    BY <2>1
  <2>6. OnceParts /\ UNCHANGED lastSync
    BY <1>4, <2>1
  <2> QED
    BY <1>2, <2>3, <2>4, <2>5, <2>6, OnceFrame
<1>11. CASE DisplayTick
  BY <1>1, <1>3, <1>11, OnceCall DEF DisplayTick
<1>12. CASE UpdateTick
  BY <1>1, <1>2, <1>3, <1>4, <1>12, OnceGoto DEF UpdateTick, counts, locals, history
<1>13. CASE UpdateStats
  BY <1>1, <1>2, <1>3, <1>4, <1>13, OnceGoto DEF UpdateStats, counts, locals, history
<1>14. ASSUME NEW stats \in BOOLEAN, MainTick(stats) PROVE OnceParts'
  BY <1>1, <1>3, <1>14, OnceCall DEF MainTick
<1>15. CASE MainAdds
  <2>1. /\ pc[Main] = "main adds" /\ Goto(Main, "idle")
        /\ total' = total + sum[Main] /\ extra' = extra + sum[Main]
        /\ UNCHANGED <<hashes, lastSync, sum, delta, at, overlapped>>
    BY <1>15 DEF MainAdds, locals
  <2>2. sum[Main] \in Nat
    BY <1>1, <1>2, GivenTypes
  <2>3. /\ hashes' \in [1 .. NumEngines -> Nat]
        /\ \A i \in 1 .. NumEngines : hashes[i] <= hashes'[i]
    <3>1. hashes' = hashes
      BY <2>1
    <3> QED
      BY <1>2, <3>1, HashesType
  <2>4. pc'[Main] = "idle" /\ \A q \in Callers \ {Main} : pc'[q] = pc[q]
    BY <1>1, <1>2, <2>1, GotoElsewhere
  <2>5. \A q \in Callers : \/ pc'[q] = pc[q] /\ sum'[q] = sum[q]
                              /\ delta'[q] = delta[q] /\ at'[q] = at[q]
                           \/ pc'[q] \notin InSync /\ pc[q] \notin {"add", "store"}
    BY <1>3, <2>1, <2>4
  <2>6. OnceParts /\ UNCHANGED lastSync
    BY <1>4, <2>1
  <2> QED
    BY <1>2, <2>1, <2>2, <2>3, <2>5, <2>6, OnceFrame
<1>16. CASE StopBegin
  BY <1>1, <1>2, <1>3, <1>4, <1>16, OnceGoto DEF StopBegin, counts, locals, history
<1>17. CASE StopEnd
  BY <1>1, <1>2, <1>3, <1>4, <1>17, OnceGoto DEF StopEnd, counts, locals, history
<1>18. CASE Summary
  BY <1>1, <1>2, <1>3, <1>4, <1>18, OnceGoto DEF Summary, counts, locals, history
<1>19. CASE Efficiency
  BY <1>1, <1>2, <1>3, <1>4, <1>19, OnceGoto DEF Efficiency, counts, locals, history
<1>20. CASE UNCHANGED vars
  BY <1>6, <1>20 DEF vars, counts, locals, history
<1> QED
  BY <1>5, <1>7, <1>8, <1>9, <1>10, <1>11, <1>12, <1>13, <1>14, <1>15, <1>16,
     <1>17, <1>18, <1>19, <1>20 DEF Next, MainLoop, Shutdown

LEMMA AsksFirstEngineNext ==
    ASSUME TypeOK, AsksFirstEngine, [Next]_vars
    PROVE  AsksFirstEngine'
<1>1. ASSUME NEW p \in Callers, SumEngine(p) PROVE AsksFirstEngine'
  <2>1. /\ at' = [at EXCEPT ![p] = IF @ = NumEngines THEN 1 ELSE @ + 1]
        /\ Goto(p, IF at[p] = NumEngines THEN "compare" ELSE "sum")
    BY <1>1 DEF SumEngine
  <2>2. /\ pc'[p] = IF at[p] = NumEngines THEN "compare" ELSE "sum"
        /\ \A q \in Callers \ {p} : pc'[q] = pc[q]
    BY <2>1, GotoElsewhere DEF Goroutines
  <2>3. /\ at'[p] = IF at[p] = NumEngines THEN 1 ELSE at[p] + 1
        /\ \A q \in Callers \ {p} : at'[q] = at[q]
    BY <2>1 DEF TypeOK
  <2> QED
    BY <2>2, <2>3 DEF AsksFirstEngine
<1>2. ASSUME UNCHANGED at, NEW p \in Goroutines, NEW label, Goto(p, label),
             p \in Callers => pc[p] # "sum"
      PROVE  AsksFirstEngine'
  <2>1. pc'[p] = label /\ \A q \in Callers \ {p} : pc'[q] = pc[q]
    BY <1>2, GotoElsewhere
  <2> QED
    BY <1>2, <2>1 DEF AsksFirstEngine
<1>3. ASSUME UNCHANGED <<at, pc>> PROVE AsksFirstEngine'
  BY <1>3 DEF AsksFirstEngine
<1>4. /\ Main \in Callers /\ Display \in Callers /\ Callers \subseteq Goroutines
      /\ Updater \in Goroutines /\ Updater \notin Callers
  BY StatsAssumption DEF Callers, Goroutines
<1>5. ASSUME NEW p \in Callers, GetStats(p) PROVE AsksFirstEngine'
  <2>1. CASE SumEngine(p)
    BY <1>1, <2>1
  <2>2. CASE Compare(p)
    BY <1>2, <1>4, <2>2 DEF Compare
  <2>3. CASE AddHashes(p)
    BY <1>2, <1>4, <2>3 DEF AddHashes, locals
  <2>4. CASE Store(p)
    BY <1>2, <1>4, <2>4 DEF Store, locals
  <2>5. CASE ReadStartTime(p)
    BY <1>2, <1>4, <2>5 DEF ReadStartTime, locals
  <2>6. CASE UpdateHashRate(p)
    BY <1>2, <1>4, <2>6 DEF UpdateHashRate, locals
  <2> QED
    BY <1>5, <2>1, <2>2, <2>3, <2>4, <2>5, <2>6 DEF GetStats
<1>6. ASSUME NEW p \in Goroutines, Announce(p) PROVE AsksFirstEngine'
  BY <1>3, <1>6 DEF Announce, locals
<1>7. ASSUME NEW p \in Goroutines, Send(p) PROVE AsksFirstEngine'
  BY <1>2, <1>7 DEF Send, Call
<1>8. ASSUME NEW p \in Goroutines, LoopReturns(p) PROVE AsksFirstEngine'
  BY <1>2, <1>8 DEF LoopReturns, locals
<1>9. ASSUME NEW e \in 1 .. NumEngines, Hash(e) PROVE AsksFirstEngine'
  BY <1>3, <1>9 DEF Hash, locals
<1>10. CASE DisplayTick
  BY <1>2, <1>4, <1>10 DEF DisplayTick, Call
<1>11. CASE UpdateTick \/ UpdateStats
  BY <1>2, <1>4, <1>11 DEF UpdateTick, UpdateStats, locals
<1>12. ASSUME NEW stats \in BOOLEAN, MainTick(stats) PROVE AsksFirstEngine'
  BY <1>2, <1>4, <1>12 DEF MainTick, Call
<1>13. CASE MainAdds
  BY <1>2, <1>4, <1>13 DEF MainAdds, locals
<1>14. CASE StopBegin \/ StopEnd
  BY <1>2, <1>4, <1>14 DEF StopBegin, StopEnd, locals
<1>15. CASE Summary \/ Efficiency
  BY <1>2, <1>4, <1>15 DEF Summary, Efficiency, locals
<1>16. CASE UNCHANGED vars
  BY <1>3, <1>16 DEF vars, locals
<1> QED
  BY <1>5, <1>6, <1>7, <1>8, <1>9, <1>10, <1>11, <1>12, <1>13, <1>14, <1>15,
     <1>16 DEF Next, MainLoop, Shutdown

LEMMA OnceInit == Init => OnceInv
<1> SUFFICES ASSUME Init PROVE OnceInv
  OBVIOUS
<1>1. \A p \in Callers : pc[p] = "idle" /\ at[p] = 1
  BY DEF Init, Goroutines
<1>2. OneCall /\ CountedOnce /\ AsksFirstEngine
  BY <1>1 DEF Init, OneCall, CountedOnce, AsksFirstEngine, InSync
<1>3. \A p \in Callers : Summing(p) /\ Summed(p)
  BY <1>1 DEF Summing, Summed
<1>4. MarkReached
  <2> DEFINE none == [i \in 0 .. NumEngines |-> 0]
  <2>1. NumEngines \in Nat /\ none \in PartialSums
    BY StatsAssumption DEF PartialSums
  <2>2. none[0] = 0 /\ none[NumEngines] = 0
    BY <2>1
  <2>3. \A i \in 1 .. NumEngines : none[i] <= none[i - 1] + hashes[i]
    BY <2>1 DEF Init
  <2>4. lastSync = 0
    BY DEF Init
  <2>5. Reached(hashes, none, NumEngines, lastSync)
    BY <2>2, <2>3, <2>4 DEF Reached
  <2> HIDE DEF none
  <2> QED
    BY <2>1, <2>5 DEF MarkReached
<1> QED
  BY <1>2, <1>3, <1>4, TypeInit DEF OnceInv, OnceParts

\* As long as calls of GetStats do not overlap, the monitor's total between
\* two of them is the mark plus what main's ticker added (miner.go:553-580,
\* main.go:132): however the engines count and main, display and senders take
\* turns, no hash is given twice.
THEOREM CountedOnceAloneCorrect == Spec => []CountedOnceAlone
<1>1. OnceInv /\ [Next]_vars => OnceInv'
  <2> SUFFICES ASSUME OnceInv, [Next]_vars PROVE OnceInv'
    OBVIOUS
  <2>1. TypeOK' /\ AsksFirstEngine'
    BY TypeNext, AsksFirstEngineNext DEF OnceInv
  <2>2. ~overlapped' => OnceParts'
    BY OncePartsNext
  <2> QED
    BY <2>1, <2>2 DEF OnceInv
<1>2. OnceInv => CountedOnceAlone
  BY DEF OnceInv, OnceParts, CountedOnce, CountedOnceAlone
<1> QED
  BY <1>1, <1>2, OnceInit, PTL DEF Spec

(***************************************************************************)
(* Where a shutdown gets stuck it stays stuck.                             *)
(***************************************************************************)

\* Only main holds the read lock from one step to another.
ReadersInv == readers \in Nat /\ (readers # 0 <=> pc[Main] = "efficiency")

\* A step of another goroutine, or of main elsewhere.
LEMMA ReadersFrame ==
    ASSUME TypeOK, ReadersInv, NEW p \in Goroutines, NEW label, Goto(p, label),
           UNCHANGED readers,
           p = Main => pc[Main] # "efficiency" /\ label # "efficiency"
    PROVE  ReadersInv' /\ (pc[Main] = "efficiency" => pc'[Main] = "efficiency")
<1>1. CASE p = Main
  <2>1. pc'[Main] = label
    BY <1>1 DEF TypeOK, Goto
  <2> QED
    BY <1>1, <2>1 DEF ReadersInv
<1>2. CASE p # Main
  <2>1. pc'[Main] = pc[Main]
    BY <1>2 DEF TypeOK, Goto
  <2> QED
    BY <2>1 DEF ReadersInv
<1> QED
  BY <1>1, <1>2

LEMMA DeadlockNext ==
    ASSUME TypeOK, ReadersInv, [Next]_vars
    PROVE  ReadersInv' /\ (SummaryDeadlock => SummaryDeadlock')
<1>0. Main \in Goroutines /\ \A p \in Callers : p \in Goroutines
  BY DEF Goroutines, Callers
<1> DEFINE Kept == ReadersInv' /\ (SummaryDeadlock => SummaryDeadlock')
<1>1. CASE UNCHANGED vars
  BY <1>1 DEF vars, locks, ReadersInv, SummaryDeadlock
<1>2. ASSUME NEW p \in Callers, GetStats(p)
      PROVE  Kept
  <2>1. CASE SumEngine(p) \/ Compare(p) \/ Store(p) \/ ReadStartTime(p)
    <3>1. PICK label \in InSync \cup {"start time", "rate"} : Goto(p, label)
      BY <2>1 DEF SumEngine, Compare, Store, ReadStartTime, InSync
    <3>3. label # "efficiency"
      BY DEF InSync
    <3>2. UNCHANGED <<readers, writer>> /\ pc[p] # "efficiency"
      BY <2>1 DEF SumEngine, Compare, Store, ReadStartTime, locks
    <3> QED
      BY <1>0, <3>1, <3>2, <3>3, ReadersFrame DEF SummaryDeadlock
  <2>2. CASE AddHashes(p) \/ UpdateHashRate(p)
    <3>1. PICK label \in {"store", "main adds", "idle"} : Goto(p, label)
      BY <2>2 DEF AddHashes, UpdateHashRate
    <3>2. UNCHANGED readers /\ pc[p] # "efficiency" /\ readers = 0
      BY <2>2 DEF AddHashes, UpdateHashRate, WriteLocked
    <3>3. ~SummaryDeadlock
      BY <3>2 DEF ReadersInv, SummaryDeadlock
    <3> QED
      BY <1>0, <3>1, <3>2, <3>3, ReadersFrame
  <2> QED
    BY <1>2, <2>1, <2>2 DEF GetStats
<1>3. ASSUME NEW p \in Goroutines, Announce(p)
      PROVE  Kept
  BY <1>3 DEF Announce, ReadersInv, SummaryDeadlock
<1>4. ASSUME NEW p \in Goroutines, Send(p) \/ LoopReturns(p)
      PROVE  Kept
  <2>1. PICK label : Goto(p, label) /\ label # "efficiency"
    BY <1>4 DEF Send, LoopReturns, Call
  <2>2. UNCHANGED <<readers, writer>> /\ pc[p] # "efficiency"
    BY <1>4 DEF Send, LoopReturns, locks
  <2> QED
    BY <1>0, <2>1, <2>2, ReadersFrame DEF SummaryDeadlock
<1>5. CASE \E e \in 1 .. NumEngines : Hash(e)
  BY <1>5 DEF Hash, locks, ReadersInv, SummaryDeadlock
<1>6. CASE DisplayTick \/ UpdateTick \/ UpdateStats
  <2>1. PICK p \in {Display, Updater} : \E label :
            Goto(p, label) /\ label # "efficiency" /\ pc[p] # "efficiency"
    BY <1>6 DEF DisplayTick, UpdateTick, UpdateStats, Call
  <2>2. /\ UNCHANGED readers
        /\ UNCHANGED writer \/ readers = 0
    BY <1>6 DEF DisplayTick, UpdateTick, UpdateStats, WriteLocked, locks
  <2>3. p \in Goroutines
    BY DEF Goroutines, Callers
  <2>4. ReadersInv' /\ (pc[Main] = "efficiency" => pc'[Main] = "efficiency")
    BY <2>1, <2>2, <2>3, ReadersFrame
  <2> QED
    BY <2>2, <2>4 DEF ReadersInv, SummaryDeadlock
<1>7. CASE MainLoop
  <2>1. PICK label \in {"sum", "idle"} : Goto(Main, label)
    BY <1>7 DEF MainLoop, MainTick, MainAdds, Call
  <2>2. UNCHANGED readers /\ pc[Main] # "efficiency"
    BY <1>7 DEF MainLoop, MainTick, MainAdds, locks
  <2> QED
    BY <1>0, <2>1, <2>2, ReadersFrame DEF SummaryDeadlock
<1>8. CASE Shutdown
  <2>1. CASE StopBegin \/ StopEnd
    <3>1. PICK label : Goto(Main, label) /\ label # "efficiency"
      BY <2>1 DEF StopBegin, StopEnd
    <3>2. UNCHANGED readers /\ pc[Main] # "efficiency"
      BY <2>1 DEF StopBegin, StopEnd
    <3> QED
      BY <1>0, <3>1, <3>2, ReadersFrame DEF SummaryDeadlock
  <2>2. CASE Summary
    <3>1. pc'[Main] = "efficiency" /\ pc[Main] = "summary"
      BY <1>0, <2>2 DEF Summary, Goto, TypeOK
    <3> QED
      BY <2>2, <3>1 DEF Summary, ReadersInv, SummaryDeadlock
  <2>3. CASE Efficiency
    <3>1. pc'[Main] = "returned"
      BY <1>0, <2>3 DEF Efficiency, Goto, TypeOK
    <3> QED
      BY <2>3, <3>1 DEF Efficiency, MayRead, ReadersInv, SummaryDeadlock
  <2> QED
    BY <1>8, <2>1, <2>2, <2>3 DEF Shutdown
<1> QED
  BY <1>1, <1>2, <1>3, <1>4, <1>5, <1>6, <1>7, <1>8 DEF Next

\* Once a writer has announced itself between the two read locks of GetSummary
\* (monitor.go:304, 291), main never gets the second: the writer waits for main,
\* and nobody else can help.  That it happens is shown by stats_summary.
THEOREM DeadlockIsForever == Spec => [](SummaryDeadlock => []SummaryDeadlock)
<1>1. Init => ReadersInv
  BY DEF Init, ReadersInv, Goroutines, Callers
<1>2. TypeOK /\ ReadersInv /\ [Next]_vars => ReadersInv'
  BY DeadlockNext
<1>3. TypeOK /\ ReadersInv /\ [Next]_vars /\ SummaryDeadlock => SummaryDeadlock'
  BY DeadlockNext
<1> QED
  BY <1>1, <1>2, <1>3, TypeCorrect, PTL DEF Spec

=============================================================================
