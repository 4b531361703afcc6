------------------------- MODULE MinerWorkersProofs -------------------------
(***************************************************************************)
(* Theorems about MinerWorkers, for any number of workers, goroutines,     *)
(* jobs and calls to Pause.                                                *)
(*                                                                         *)
(* EngineExclusive needs that an engine is marked running while a          *)
(* goroutine is in it, CaughtAreSignalled that every channel a field held  *)
(* before is closed, and JobsGoForward that jobs wait in the order they    *)
(* are to be mined.                                                        *)
(***************************************************************************)
EXTENDS MinerWorkers, SequenceTheorems, TLAPS

\* The loops over the workers stay within them where they touch one.
LoopInv ==
    /\ monitor \in {"close", "replace"} => at.monitor \in Workers
    /\ owner \in {"stop close", "pause replace"} => at.owner \in Workers

\* A goroutine is in an engine that is running, and alone.
EngineInv ==
    \A g \in Goroutines : pc[g] = "mining" =>
        /\ engine[Worker(g)]
        /\ \A h \in Goroutines : pc[h] = "mining" /\ Worker(h) = Worker(g) => h = g

\* Who was caught is there still, with a channel its worker's field has, or
\* had before.
CaughtInv ==
    /\ \A g \in inEngine : g \in Goroutines /\ pc[g] = "mining"
    /\ \A g \in Goroutines : ch[g] <= stopCh[Worker(g)]

\* Unless Pause is called, a channel is closed before the field leaves it, and
\* handleNewJob has signalled those caught in the workers it is through with.
SignalInv ==
    calls = 0 =>
        /\ owner \notin {"pause", "pause replace"}
        /\ \A w \in Workers : \A n \in Nat : n < stopCh[w] => <<w, n>> \in closed
        /\ monitor = "replace" => IsClosed(at.monitor)
        /\ monitor \in {"signal", "close", "replace"} =>
               \A g \in inEngine : Worker(g) < at.monitor =>
                   <<Worker(g), ch[g]>> \in closed

\* Jobs that are on their way to the workers, behind the current one.
Coming == {jobCh[i] : i \in 1 .. Len(jobCh)} \cup ({newJob} \ {NoJob})

\* No worker is at a later job than the current one, or than one on its way;
\* and the jobs on their way are in order.
JobsInv ==
    /\ \A g \in Goroutines :
         /\ currentJob # NoJob => job[g] <= currentJob
         /\ \A j \in Coming : job[g] < j
         /\ job[g] <= sent
    /\ \A j \in Coming : currentJob < j /\ j <= sent
    /\ currentJob <= sent
    /\ newJob # NoJob => \A i \in 1 .. Len(jobCh) : newJob < jobCh[i]
    /\ \A i, k \in 1 .. Len(jobCh) : i < k => jobCh[i] < jobCh[k]

IInv == TypeOK /\ LoopInv /\ EngineInv /\ CaughtInv /\ SignalInv /\ JobsInv

(***************************************************************************)
(* The job channel: what sending and receiving does to a sequence of jobs. *)
(***************************************************************************)
LEMMA SendsJob ==
    ASSUME NEW s \in Seq(Jobs), NEW j \in Jobs
    PROVE  /\ Append(s, j) \in Seq(Jobs) /\ Len(Append(s, j)) = Len(s) + 1
           /\ \A i \in 1 .. Len(s) : Append(s, j)[i] = s[i]
           /\ Append(s, j)[Len(s) + 1] = j
  OBVIOUS

LEMMA ReceivesJob ==
    ASSUME NEW s \in Seq(Jobs), s # <<>>
    PROVE  /\ Head(s) \in Jobs /\ Tail(s) \in Seq(Jobs)
           /\ Len(Tail(s)) = Len(s) - 1 /\ Len(s) >= 1
           /\ Head(s) = s[1]
           /\ \A i \in 1 .. Len(Tail(s)) : i + 1 \in 1 .. Len(s)
                                           /\ Tail(s)[i] = s[i + 1]
  OBVIOUS

(***************************************************************************)
(* Type correctness.                                                       *)
(***************************************************************************)
LEMMA GoroutineType == \A g \in Goroutines : Worker(g) \in Workers
  BY DEF Goroutines, Worker

LEMMA LoopType ==
    /\ \A i \in 1 .. NWorkers + 1 : ~(i > NWorkers) => i \in Workers
    /\ \A i \in Workers : i + 1 \in 1 .. NWorkers + 1
    /\ 1 \in 1 .. NWorkers + 1
  BY WorkersAssumption DEF Workers

LEMMA ClosesType ==
    ASSUME TypeOK, NEW w \in Workers, CloseField(w)
    PROVE  closed' \subseteq Workers \X Nat /\ crashed' \in BOOLEAN
                                            /\ closed \subseteq closed'
                                            /\ <<w, stopCh[w]>> \in closed'
<1>1. stopCh[w] \in Nat
  BY DEF TypeOK
<1>2. <<w, stopCh[w]>> \in Workers \X Nat
  BY <1>1
<1>3. CASE IsClosed(w)
  BY <1>3 DEF TypeOK, CloseField, IsClosed
<1>4. CASE ~IsClosed(w)
  BY <1>2, <1>4 DEF TypeOK, CloseField
<1> QED
  BY <1>3, <1>4

LEMMA ReplacesType ==
    ASSUME TypeOK, NEW w \in Workers, ReplaceField(w)
    PROVE  /\ stopCh' \in [Workers -> Nat]
           /\ stopCh'[w] = stopCh[w] + 1
           /\ \A v \in Workers \ {w} : stopCh'[v] = stopCh[v]
<1>0. stopCh \in [Workers -> Nat] /\ stopCh[w] \in Nat
  BY DEF TypeOK
<1>1. stopCh[w] + 1 \in Nat
  BY <1>0
<1>2. stopCh' = [stopCh EXCEPT ![w] = stopCh[w] + 1]
  BY DEF ReplaceField
<1> QED
  BY <1>0, <1>1, <1>2

LEMMA TypeInit == Init => TypeOK /\ LoopInv
<1> SUFFICES ASSUME Init PROVE TypeOK /\ LoopInv
  OBVIOUS
<1>1. 0 \in Jobs /\ 0 \in 0 .. MaxCalls /\ <<>> \in Seq(Jobs)
      /\ Len(<<>>) <= JobChCap
  BY WorkersAssumption DEF Jobs
<1>2. at \in [monitor : 1 .. NWorkers + 1, owner : 1 .. NWorkers + 1]
  BY LoopType DEF Init
<1>3. pc \in [Goroutines -> {"off", "top", "take", "enter", "mine", "mining",
                             "submit", "leave", "leave close"}]
  BY DEF Init
<1>4. /\ stopCh \in [Workers -> Nat] /\ ch \in [Goroutines -> Nat]
      /\ engine \in [Workers -> BOOLEAN] /\ job \in [Goroutines -> Jobs]
  BY <1>1 DEF Init, NoJob
<1> QED
  BY <1>1, <1>2, <1>3, <1>4 DEF Init, TypeOK, LoopInv, NoJob

\* A goroutine's step.
LEMMA TypeRunWorker ==
    ASSUME TypeOK, LoopInv, NEW g \in Goroutines, RunWorker(g) \/ MineFound(g)
    PROVE  TypeOK' /\ LoopInv'
<1>1. Worker(g) \in Workers
  BY GoroutineType
<1>2. /\ UNCHANGED <<queue, monitoring, control, stopCh, at>>
      /\ inEngine' \subseteq Goroutines
  BY DEF RunWorker, MineFound, MineStopped, WorkerLoop, TakeJob, ReadStopCh,
     EngineEnter, EngineLeave, Submit, LeaveCheck, LeaveClose, TypeOK
<1>3. /\ pc' \in [Goroutines -> {"off", "top", "take", "enter", "mine", "mining",
                                 "submit", "leave", "leave close"}]
      /\ engine' \in [Workers -> BOOLEAN]
      /\ job' \in [Goroutines -> Jobs] /\ ch' \in [Goroutines -> Nat]
      /\ closed' \subseteq Workers \X Nat /\ crashed' \in BOOLEAN
  <2>1. CASE WorkerLoop(g)
    BY <2>1 DEF TypeOK, WorkerLoop, Goto
  <2>2. CASE TakeJob(g)
    BY <2>2 DEF TypeOK, TakeJob, Goto
  <2>3. CASE ReadStopCh(g)
    BY <1>1, <2>3 DEF TypeOK, ReadStopCh, Goto
  <2>4. CASE EngineEnter(g)
    BY <1>1, <2>4 DEF TypeOK, EngineEnter, Goto
  <2>5. CASE MineStopped(g) \/ MineFound(g)
    <3>1. PICK label \in {"top", "submit"} : EngineLeave(g, label)
      BY <2>5 DEF MineStopped, MineFound
    <3> QED
      BY <1>1, <3>1 DEF TypeOK, EngineLeave, Goto
  <2>6. CASE Submit(g)
    BY <2>6 DEF TypeOK, Submit, Goto
  <2>7. CASE LeaveCheck(g)
    BY <2>7 DEF TypeOK, LeaveCheck, Goto
  <2>8. CASE LeaveClose(g)
    BY <1>1, <2>8, ClosesType DEF TypeOK, LeaveClose, Goto
  <2> QED
    BY <2>1, <2>2, <2>3, <2>4, <2>5, <2>6, <2>7, <2>8 DEF RunWorker
<1> QED
  BY <1>2, <1>3 DEF TypeOK, LoopInv, queue, monitoring, control

\* The pool and the monitor.
LEMMA TypeMonitor ==
    ASSUME TypeOK, LoopInv, HandleNotify \/ MonitorJobs
    PROVE  TypeOK' /\ LoopInv'
<1> USE DEF queue, workers, monitoring, control
<1>1. CASE HandleNotify
  <2>1. sent + 1 \in Jobs
    <3>1. sent \in 0 .. MaxJobs /\ sent < MaxJobs
      BY <1>1 DEF TypeOK, HandleNotify, Jobs
    <3> QED
      BY <3>1, WorkersAssumption DEF Jobs
  <2>2. jobCh' \in Seq(Jobs) /\ Len(jobCh') <= JobChCap
    <3>1. CASE Len(jobCh) < JobChCap
      <4>1. jobCh' = Append(jobCh, sent + 1)
        BY <1>1, <3>1 DEF HandleNotify
      <4>2. jobCh \in Seq(Jobs)
        BY DEF TypeOK
      <4>3. Len(jobCh) \in Nat
        BY <4>2
      <4> QED
        BY <2>1, <3>1, <4>1, <4>2, <4>3, SendsJob, WorkersAssumption
    <3>2. CASE ~(Len(jobCh) < JobChCap)
      BY <1>1, <3>2 DEF HandleNotify, TypeOK
    <3> QED
      BY <3>1, <3>2
  <2> QED
    BY <1>1, <2>1, <2>2 DEF TypeOK, LoopInv, HandleNotify
<1>2. CASE FetchClient
  <2>1. NoJob \in Jobs
    BY WorkersAssumption DEF NoJob, Jobs
  <2> QED
    BY <1>2, <2>1 DEF TypeOK, LoopInv, FetchClient
<1>3. CASE ListenEnds
  BY <1>3 DEF TypeOK, LoopInv, ListenEnds
<1>4. CASE ListenJob
  <2>1. /\ jobCh' \in Seq(Jobs) /\ newJob' \in Jobs
        /\ Len(jobCh') = Len(jobCh) - 1
    BY <1>4, ReceivesJob DEF TypeOK, ListenJob
  <2>2. Len(jobCh') <= JobChCap
    <3>1. jobCh \in Seq(Jobs) /\ Len(jobCh) <= JobChCap
      BY DEF TypeOK
    <3>2. Len(jobCh) \in Nat
      BY <3>1
    <3> QED
      BY <2>1, <3>1, <3>2, WorkersAssumption
  <2> QED
    BY <1>4, <2>1, <2>2 DEF TypeOK, LoopInv, ListenJob
<1>5. CASE RefuseJob
  <2>1. NoJob \in Jobs
    BY WorkersAssumption DEF NoJob, Jobs
  <2> QED
    BY <1>5, <2>1 DEF TypeOK, LoopInv, RefuseJob
<1>6. CASE StoreJob
  <2>1. NoJob \in Jobs
    BY WorkersAssumption DEF NoJob, Jobs
  <2>2. at' \in [monitor : 1 .. NWorkers + 1, owner : 1 .. NWorkers + 1]
        /\ at'.owner = at.owner
    BY <1>6, LoopType DEF TypeOK, StoreJob
  <2> QED
    BY <1>6, <2>1, <2>2 DEF TypeOK, LoopInv, StoreJob
<1>7. CASE SignalCheck
  <2>1. at.monitor \in 1 .. NWorkers + 1
    BY DEF TypeOK
  <2>2. monitor' \in {"close", "replace"} => at.monitor \in Workers
    BY <1>7, <2>1, LoopType DEF SignalCheck
  <2> QED
    BY <1>7, <2>2 DEF TypeOK, LoopInv, SignalCheck
<1>8. CASE SignalClose
  <2>1. at.monitor \in Workers
    BY <1>8 DEF SignalClose, LoopInv
  <2> QED
    BY <1>8, <2>1, ClosesType DEF TypeOK, LoopInv, SignalClose
<1>9. CASE SignalReplace
  <2>1. at.monitor \in Workers
    BY <1>9 DEF SignalReplace, LoopInv
  <2>2. at' \in [monitor : 1 .. NWorkers + 1, owner : 1 .. NWorkers + 1]
        /\ at'.owner = at.owner
    BY <1>9, <2>1, LoopType DEF TypeOK, SignalReplace
  <2> QED
    BY <1>9, <2>1, <2>2, ReplacesType DEF TypeOK, LoopInv, SignalReplace
<1> QED
  BY <1>1, <1>2, <1>3, <1>4, <1>5, <1>6, <1>7, <1>8, <1>9
     DEF MonitorJobs, HandleNewJob

\* Stop, Pause and Resume.
LEMMA TypeOwner ==
    ASSUME TypeOK, LoopInv, Owner
    PROVE  TypeOK' /\ LoopInv'
<1> USE DEF queue, workers, monitoring, control
<1>1. at.owner \in 1 .. NWorkers + 1 /\ at.monitor \in 1 .. NWorkers + 1
  BY DEF TypeOK
<1>2. \A i \in 1 .. NWorkers + 1 :
          /\ [at EXCEPT !.owner = i] \in [monitor : 1 .. NWorkers + 1,
                                          owner : 1 .. NWorkers + 1]
          /\ [at EXCEPT !.owner = i].monitor = at.monitor
          /\ [at EXCEPT !.owner = i].owner = i
  BY DEF TypeOK
<1>3. CASE StopCancel
  BY <1>2, <1>3, LoopType DEF TypeOK, LoopInv, StopCancel
<1>4. CASE Pause
  <2>1. calls + 1 \in 0 .. MaxCalls
    <3>1. calls \in 0 .. MaxCalls /\ calls < MaxCalls
      BY <1>4 DEF TypeOK, Pause
    <3> QED
      BY <3>1, WorkersAssumption
  <2> QED
    BY <1>2, <1>4, <2>1, LoopType DEF TypeOK, LoopInv, Pause
<1>5. CASE StopCheck
  <2>1. CASE at.owner > NWorkers
    BY <1>5, <2>1 DEF TypeOK, LoopInv, StopCheck
  <2>2. CASE ~(at.owner > NWorkers)
    <3>1. at.owner \in Workers
      BY <1>1, <2>2, LoopType
    <3>2. at.owner + 1 \in 1 .. NWorkers + 1
      BY <3>1, LoopType
    <3>3. CASE IsClosed(at.owner)
      <4>1. /\ at' = [at EXCEPT !.owner = at.owner + 1] /\ owner' = owner
            /\ owner = "stop"
        BY <1>5, <2>2, <3>3 DEF StopCheck
      <4> QED
        BY <1>2, <1>5, <2>2, <3>2, <4>1 DEF TypeOK, LoopInv, StopCheck
    <3>4. CASE ~IsClosed(at.owner)
      BY <1>5, <2>2, <3>1, <3>4 DEF TypeOK, LoopInv, StopCheck
    <3> QED
      BY <3>3, <3>4
  <2> QED
    BY <2>1, <2>2
<1>6. CASE StopClose
  <2>1. at.owner \in Workers
    BY <1>6 DEF StopClose, LoopInv
  <2>2. at.owner + 1 \in 1 .. NWorkers + 1
    BY <2>1, LoopType
  <2>3. at' = [at EXCEPT !.owner = at.owner + 1]
    BY <1>6 DEF StopClose
  <2> QED
    BY <1>2, <1>6, <2>1, <2>2, <2>3, ClosesType DEF TypeOK, LoopInv, StopClose
<1>7. CASE PauseClose
  <2>1. CASE at.owner > NWorkers
    BY <1>7, <2>1 DEF TypeOK, LoopInv, PauseClose
  <2>2. CASE ~(at.owner > NWorkers)
    <3>1. at.owner \in Workers
      BY <1>1, <2>2, LoopType
    <3> QED
      BY <1>7, <2>2, <3>1, ClosesType DEF TypeOK, LoopInv, PauseClose
  <2> QED
    BY <2>1, <2>2
<1>8. CASE PauseReplace
  <2>1. at.owner \in Workers
    BY <1>8 DEF PauseReplace, LoopInv
  <2>2. at.owner + 1 \in 1 .. NWorkers + 1
    BY <2>1, LoopType
  <2>3. at' = [at EXCEPT !.owner = at.owner + 1]
    BY <1>8 DEF PauseReplace
  <2> QED
    BY <1>2, <1>8, <2>1, <2>2, <2>3, ReplacesType
       DEF TypeOK, LoopInv, PauseReplace
<1>9. CASE Resume
  BY <1>9 DEF TypeOK, LoopInv, Resume
<1> QED
  BY <1>3, <1>4, <1>5, <1>6, <1>7, <1>8, <1>9 DEF Owner

LEMMA TypeNext == TypeOK /\ LoopInv /\ [Next]_vars => TypeOK' /\ LoopInv'
<1> SUFFICES ASSUME TypeOK, LoopInv, [Next]_vars PROVE TypeOK' /\ LoopInv'
  OBVIOUS
<1>1. CASE UNCHANGED vars
  BY <1>1 DEF vars, queue, workers, monitoring, control, TypeOK, LoopInv
<1> QED
  BY <1>1, TypeRunWorker, TypeMonitor, TypeOwner DEF Next

(***************************************************************************)
(* Engines.                                                                *)
(***************************************************************************)

\* A goroutine's step leaves the others where they are.
LEMMA StepsAlone ==
    ASSUME TypeOK, NEW g \in Goroutines, RunWorker(g) \/ MineFound(g)
    PROVE  \A h \in Goroutines \ {g} :
               pc'[h] = pc[h] /\ job'[h] = job[h] /\ ch'[h] = ch[h]
<1>1. CASE WorkerLoop(g) \/ TakeJob(g) \/ ReadStopCh(g) \/ EngineEnter(g)
  BY <1>1 DEF TypeOK, WorkerLoop, TakeJob, ReadStopCh, EngineEnter, Goto
<1>2. CASE MineStopped(g) \/ MineFound(g)
  BY <1>2 DEF TypeOK, MineStopped, MineFound, EngineLeave, Goto
<1>3. CASE Submit(g) \/ LeaveCheck(g) \/ LeaveClose(g)
  BY <1>3 DEF TypeOK, Submit, LeaveCheck, LeaveClose, Goto
<1> QED
  BY <1>1, <1>2, <1>3 DEF RunWorker

\* Only Engine.Mine moves a goroutine into an engine, or out of it.
LEMMA EngineSteps ==
    ASSUME TypeOK, NEW g \in Goroutines, RunWorker(g) \/ MineFound(g)
    PROVE  \/ EngineEnter(g)
           \/ \E label \in {"top", "submit"} : EngineLeave(g, label)
           \/ /\ pc[g] # "mining" /\ pc'[g] # "mining"
              /\ UNCHANGED <<engine, inEngine>>
<1>1. CASE WorkerLoop(g) \/ TakeJob(g) \/ ReadStopCh(g)
  BY <1>1 DEF TypeOK, WorkerLoop, TakeJob, ReadStopCh, Goto
<1>2. CASE Submit(g) \/ LeaveCheck(g) \/ LeaveClose(g)
  BY <1>2 DEF TypeOK, Submit, LeaveCheck, LeaveClose, Goto
<1>3. CASE MineStopped(g) \/ MineFound(g)
  BY <1>3 DEF MineStopped, MineFound
<1> QED
  BY <1>1, <1>2, <1>3 DEF RunWorker

LEMMA EngineEnters ==
    ASSUME TypeOK, NEW g \in Goroutines, EngineEnter(g)
    PROVE  /\ engine' = [engine EXCEPT ![Worker(g)] = TRUE]
           /\ pc[g] # "mining" /\ engine'[Worker(g)]
           /\ pc'[g] = "mining" => ~engine[Worker(g)]
           /\ inEngine' = inEngine
<1>1. Worker(g) \in Workers
  BY GoroutineType
<1> QED
  BY <1>1 DEF TypeOK, EngineEnter, Goto

LEMMA EngineLeaves ==
    ASSUME TypeOK, NEW g \in Goroutines, NEW label \in {"top", "submit"},
           EngineLeave(g, label)
    PROVE  /\ engine' = [engine EXCEPT ![Worker(g)] = FALSE]
           /\ pc[g] = "mining" /\ pc'[g] # "mining"
           /\ inEngine' = inEngine \ {g} /\ ch'[g] = 0
  BY DEF TypeOK, EngineLeave, Goto

\* Nobody but the goroutines touches an engine; Resume starts goroutines
\* outside of it.
LEMMA EngineAlone ==
    ASSUME TypeOK, HandleNotify \/ MonitorJobs \/ Owner \/ UNCHANGED vars
    PROVE  /\ engine' = engine /\ ch' = ch /\ job' = job
           /\ \A g \in Goroutines : pc'[g] = "mining" <=> pc[g] = "mining"
<1> USE DEF queue, workers, monitoring, control
<1>1. CASE HandleNotify \/ MonitorJobs
  BY <1>1 DEF HandleNotify, MonitorJobs, FetchClient, ListenEnds, ListenJob,
     HandleNewJob, RefuseJob, StoreJob, SignalCheck, SignalClose, SignalReplace
<1>2. CASE StopCancel \/ StopCheck \/ StopClose \/ Pause \/ PauseClose
           \/ PauseReplace
  BY <1>2 DEF StopCancel, StopCheck, StopClose, Pause, PauseClose, PauseReplace
<1>3. CASE Resume
  <2>1. PICK run \in 2 .. MaxRuns :
          /\ \A w \in Workers : pc[<<w, run>>] = "off"
          /\ pc' = [g \in Goroutines |-> IF g[2] = run THEN "top" ELSE pc[g]]
    BY <1>3 DEF Resume
  <2>2. \A g \in Goroutines : g[2] = run => pc[g] = "off"
    BY <2>1 DEF Goroutines
  <2> QED
    BY <1>3, <2>1, <2>2 DEF Resume
<1>4. CASE UNCHANGED vars
  BY <1>4 DEF vars
<1> QED
  BY <1>1, <1>2, <1>3, <1>4 DEF Owner

LEMMA EngineNext == TypeOK /\ EngineInv /\ [Next]_vars => EngineInv'
<1> SUFFICES ASSUME TypeOK, EngineInv, [Next]_vars PROVE EngineInv'
  OBVIOUS
<1>1. CASE HandleNotify \/ MonitorJobs \/ Owner \/ UNCHANGED vars
  BY <1>1, EngineAlone DEF EngineInv
<1>2. ASSUME NEW g \in Goroutines, RunWorker(g) \/ MineFound(g)
      PROVE  EngineInv'
  <2>1. \A h \in Goroutines \ {g} : pc'[h] = pc[h]
    BY <1>2, StepsAlone
  <2>2. \A h \in Goroutines : Worker(h) \in Workers
    BY GoroutineType
  <2>3. CASE EngineEnter(g)
    <3>1. CASE pc'[g] = "mining"
      <4>1. \A h \in Goroutines : pc[h] = "mining" => Worker(h) # Worker(g)
        BY <2>3, <3>1, EngineEnters DEF EngineInv
      <4>2. \A w \in Workers \ {Worker(g)} : engine'[w] = engine[w]
        <5>1. engine' = [engine EXCEPT ![Worker(g)] = TRUE]
          BY <2>3, EngineEnters
        <5>2. engine \in [Workers -> BOOLEAN]
          BY DEF TypeOK
        <5> QED
          BY <5>1, <5>2
      <4> QED
        BY <2>1, <2>2, <2>3, <3>1, <4>1, <4>2, EngineEnters DEF EngineInv
    <3>2. CASE pc'[g] # "mining"
      <4>1. \A w \in Workers : engine[w] => engine'[w]
        <5>1. engine' = [engine EXCEPT ![Worker(g)] = TRUE]
          BY <2>3, EngineEnters
        <5>2. engine \in [Workers -> BOOLEAN]
          BY DEF TypeOK
        <5>3. ASSUME NEW w \in Workers, engine[w] PROVE engine'[w]
          <6>1. CASE w = Worker(g)
            BY <5>1, <5>2, <6>1
          <6>2. CASE w # Worker(g)
            BY <5>1, <5>2, <5>3, <6>2
          <6> QED
            BY <6>1, <6>2
        <5> QED
          BY <5>3
      <4> QED
        BY <2>1, <2>2, <3>2, <4>1 DEF EngineInv
    <3> QED
      BY <3>1, <3>2
  <2>4. ASSUME NEW label \in {"top", "submit"}, EngineLeave(g, label)
        PROVE  EngineInv'
    <3>1. \A h \in Goroutines \ {g} : pc[h] = "mining" => Worker(h) # Worker(g)
      BY <2>4, EngineLeaves DEF EngineInv
    <3>2. \A w \in Workers \ {Worker(g)} : engine'[w] = engine[w]
      BY <2>4, EngineLeaves DEF TypeOK
    <3> QED
      BY <2>1, <2>2, <2>4, <3>1, <3>2, EngineLeaves DEF EngineInv
  <2>5. CASE pc[g] # "mining" /\ pc'[g] # "mining" /\ UNCHANGED engine
    BY <2>1, <2>5 DEF EngineInv
  <2> QED
    BY <1>2, <2>3, <2>4, <2>5, EngineSteps
<1> QED
  BY <1>1, <1>2 DEF Next

(***************************************************************************)
(* Channels.                                                               *)
(***************************************************************************)

\* A field only ever gets a newer channel.
LEMMA FieldGrows ==
    ASSUME TypeOK, LoopInv, [Next]_vars, NEW w \in Workers
    PROVE  stopCh'[w] \in Nat /\ stopCh[w] <= stopCh'[w]
<1> USE DEF queue, workers, monitoring, control
<1>0. stopCh[w] \in Nat
  BY DEF TypeOK
<1>1. CASE SignalReplace \/ PauseReplace
  <2>1. PICK v \in Workers : ReplaceField(v)
    BY <1>1 DEF SignalReplace, PauseReplace, LoopInv
  <2>2. stopCh'[w] = stopCh[w] \/ stopCh'[w] = stopCh[w] + 1
    BY <2>1, ReplacesType
  <2> QED
    BY <1>0, <2>2
<1>2. ASSUME NEW g \in Goroutines, RunWorker(g) \/ MineFound(g)
      PROVE  stopCh' = stopCh
  BY <1>2 DEF RunWorker, MineFound, MineStopped, WorkerLoop, TakeJob, ReadStopCh,
     EngineEnter, EngineLeave, Submit, LeaveCheck, LeaveClose
<1>3. CASE \/ HandleNotify \/ FetchClient \/ ListenEnds \/ ListenJob \/ RefuseJob
           \/ StoreJob \/ SignalCheck \/ SignalClose
           \/ UNCHANGED vars
  BY <1>0, <1>3 DEF HandleNotify, FetchClient, ListenEnds, ListenJob, RefuseJob,
     StoreJob, SignalCheck, SignalClose, vars
<1>4. CASE StopCancel \/ StopCheck \/ StopClose \/ Pause \/ PauseClose \/ Resume
  <2>1. stopCh' = stopCh
    BY <1>4 DEF StopCancel, StopCheck, StopClose, Pause, PauseClose, Resume
  <2> QED
    BY <1>0, <2>1
<1> QED
  BY <1>0, <1>1, <1>2, <1>3, <1>4 DEF Next, MonitorJobs, HandleNewJob, Owner

\* What is closed stays closed.
LEMMA ClosedGrows ==
    ASSUME TypeOK, LoopInv, [Next]_vars
    PROVE  closed \subseteq closed'
<1> USE DEF queue, workers, monitoring, control
<1>1. ASSUME NEW g \in Goroutines, RunWorker(g) \/ MineFound(g)
      PROVE  closed \subseteq closed'
  BY <1>1, ClosesType, GoroutineType DEF RunWorker, MineFound, MineStopped,
     WorkerLoop, TakeJob, ReadStopCh, EngineEnter, EngineLeave, Submit,
     LeaveCheck, LeaveClose
<1>2. CASE SignalClose \/ StopClose
  BY <1>2, ClosesType DEF SignalClose, StopClose, LoopInv
<1>3. CASE PauseClose
  <2>1. at.owner \in 1 .. NWorkers + 1
    BY DEF TypeOK
  <2> QED
    BY <1>3, <2>1, ClosesType, LoopType DEF PauseClose
<1>4. CASE \/ HandleNotify \/ FetchClient \/ ListenEnds \/ ListenJob \/ RefuseJob
           \/ StoreJob \/ SignalCheck \/ SignalReplace
           \/ UNCHANGED vars
  BY <1>4 DEF HandleNotify, FetchClient, ListenEnds, ListenJob, RefuseJob,
     StoreJob, SignalCheck, SignalReplace, vars
<1>5. CASE StopCancel \/ StopCheck \/ Pause \/ PauseReplace \/ Resume
  BY <1>5 DEF StopCancel, StopCheck, Pause, PauseReplace, Resume
<1> QED
  BY <1>1, <1>2, <1>3, <1>4, <1>5 DEF Next, MonitorJobs, HandleNewJob, Owner

\* Goroutines read stopCh, and forget it when they leave the engine.
LEMMA ChannelSteps ==
    ASSUME TypeOK, NEW g \in Goroutines, RunWorker(g) \/ MineFound(g)
    PROVE  /\ stopCh' = stopCh
           /\ \/ ch'[g] = ch[g]
              \/ ch'[g] = stopCh[Worker(g)] /\ pc[g] = "enter"
              \/ ch'[g] = 0 /\ inEngine' = inEngine \ {g}
<1>1. CASE ReadStopCh(g)
  BY <1>1 DEF ReadStopCh, TypeOK
<1>2. CASE MineStopped(g) \/ MineFound(g)
  BY <1>2 DEF MineStopped, MineFound, EngineLeave, TypeOK
<1>3. CASE WorkerLoop(g) \/ TakeJob(g) \/ EngineEnter(g)
  BY <1>3 DEF WorkerLoop, TakeJob, EngineEnter
<1>4. CASE Submit(g) \/ LeaveCheck(g) \/ LeaveClose(g)
  BY <1>4 DEF Submit, LeaveCheck, LeaveClose
<1> QED
  BY <1>1, <1>2, <1>3, <1>4 DEF RunWorker

LEMMA CaughtNext == TypeOK /\ LoopInv /\ CaughtInv /\ [Next]_vars => CaughtInv'
<1> SUFFICES ASSUME TypeOK, LoopInv, CaughtInv, [Next]_vars PROVE CaughtInv'
  OBVIOUS
<1>1. \A g \in Goroutines : /\ Worker(g) \in Workers
                            /\ ch[g] \in Nat /\ stopCh[Worker(g)] \in Nat
  BY GoroutineType DEF TypeOK
<1>2. \A g \in Goroutines : stopCh'[Worker(g)] \in Nat
                            /\ stopCh[Worker(g)] <= stopCh'[Worker(g)]
  BY <1>1, FieldGrows
<1>3. \A g \in Goroutines : ch[g] <= stopCh'[Worker(g)]
  BY <1>1, <1>2 DEF CaughtInv
<1>4. CASE HandleNotify \/ MonitorJobs \/ Owner \/ UNCHANGED vars
  <2>1. inEngine' = inEngine \/ inEngine' = {g \in Goroutines : pc[g] = "mining"}
    BY <1>4 DEF HandleNotify, MonitorJobs, FetchClient, ListenEnds, ListenJob,
       HandleNewJob, RefuseJob, StoreJob, SignalCheck, SignalClose,
       SignalReplace, Owner, StopCancel, StopCheck, StopClose, Pause,
       PauseClose, PauseReplace, Resume, vars
  <2> QED
    BY <1>3, <1>4, <2>1, EngineAlone DEF CaughtInv
<1>5. ASSUME NEW g \in Goroutines, RunWorker(g) \/ MineFound(g)
      PROVE  CaughtInv'
  <2>1. \A h \in inEngine' : h \in Goroutines /\ pc'[h] = "mining"
    <3>1. \A h \in Goroutines \ {g} : pc'[h] = pc[h]
      BY <1>5, StepsAlone
    <3>2. CASE EngineEnter(g)
      BY <3>1, <3>2, EngineEnters DEF CaughtInv
    <3>3. ASSUME NEW label \in {"top", "submit"}, EngineLeave(g, label)
          PROVE  \A h \in inEngine' : h \in Goroutines /\ pc'[h] = "mining"
      BY <3>1, <3>3, EngineLeaves DEF CaughtInv
    <3>4. CASE pc[g] # "mining" /\ inEngine' = inEngine
      BY <3>1, <3>4 DEF CaughtInv
    <3> QED
      BY <1>5, <3>2, <3>3, <3>4, EngineSteps
  <2>2. ASSUME NEW h \in Goroutines PROVE ch'[h] <= stopCh'[Worker(h)]
    <3>1. CASE h # g
      BY <1>3, <1>5, <3>1, StepsAlone
    <3>2. CASE h = g
      BY <1>1, <1>2, <1>3, <1>5, <3>2, ChannelSteps
    <3> QED
      BY <3>1, <3>2
  <2> QED
    BY <2>1, <2>2 DEF CaughtInv
<1> QED
  BY <1>4, <1>5 DEF Next

(***************************************************************************)
(* Signals.                                                                *)
(***************************************************************************)

\* Pause is never unsaid.
LEMMA CallsGrow ==
    ASSUME TypeOK, [Next]_vars, calls' = 0
    PROVE  calls = 0
<1>1. calls \in Nat
  <2>1. calls \in 0 .. MaxCalls
    BY DEF TypeOK
  <2> QED
    BY <2>1, WorkersAssumption
<1>2. CASE Pause
  BY <1>1, <1>2 DEF Pause
<1>3. ASSUME NEW g \in Goroutines, RunWorker(g) \/ MineFound(g)
      PROVE  calls' = calls
  BY <1>3 DEF RunWorker, MineFound, MineStopped, WorkerLoop, TakeJob, ReadStopCh,
     EngineEnter, EngineLeave, Submit, LeaveCheck, LeaveClose, control
<1>4. CASE HandleNotify \/ MonitorJobs
  BY <1>4 DEF HandleNotify, MonitorJobs, FetchClient, ListenEnds, ListenJob,
     HandleNewJob, RefuseJob, StoreJob, SignalCheck, SignalClose, SignalReplace,
     control
<1>5. CASE StopCancel \/ StopCheck \/ StopClose \/ PauseClose \/ PauseReplace
           \/ Resume
  BY <1>5 DEF StopCancel, StopCheck, StopClose, PauseClose, PauseReplace, Resume,
     control
<1>6. CASE UNCHANGED vars
  BY <1>6 DEF vars, control
<1> QED
  BY <1>2, <1>3, <1>4, <1>5, <1>6 DEF Next, Owner

\* A step that changes neither fields nor who was caught, and closes no less,
\* keeps what was signalled.
LEMMA SignalStutters ==
    ASSUME TypeOK, LoopInv, CaughtInv, SignalInv, calls = 0,
           stopCh' = stopCh, at'.monitor = at.monitor, closed \subseteq closed',
           inEngine' \subseteq inEngine,
           \A g \in inEngine' : ch'[g] = ch[g],
           owner' \notin {"pause", "pause replace"},
           monitor' \in {"signal", "close", "replace"} =>
               monitor \in {"signal", "close", "replace"},
           monitor' = "replace" =>
               monitor = "replace" \/ <<at.monitor, stopCh[at.monitor]>> \in closed'
    PROVE  SignalInv'
<1>1. \A w \in Workers : \A n \in Nat : n < stopCh'[w] => <<w, n>> \in closed'
  BY DEF SignalInv
<1>2. monitor' = "replace" => IsClosed(at.monitor)'
  BY DEF SignalInv, IsClosed
<1>3. monitor' \in {"signal", "close", "replace"} =>
          \A g \in inEngine' : Worker(g) < at'.monitor =>
              <<Worker(g), ch'[g]>> \in closed'
  BY DEF SignalInv
<1> QED
  BY <1>1, <1>2, <1>3 DEF SignalInv

LEMMA SignalNext ==
    TypeOK /\ LoopInv /\ CaughtInv /\ SignalInv /\ [Next]_vars => SignalInv'
<1> SUFFICES ASSUME TypeOK, LoopInv, CaughtInv, SignalInv, [Next]_vars, calls' = 0
             PROVE  SignalInv'
  BY DEF SignalInv
<1> USE DEF queue, workers, monitoring, control
<1>0. calls = 0
  BY CallsGrow
<1>o. owner \notin {"pause", "pause replace"}
  BY <1>0 DEF SignalInv
<1>c. closed \subseteq closed'
  BY ClosedGrows
<1>1. CASE HandleNotify \/ UNCHANGED vars
  <2>1. UNCHANGED <<stopCh, ch, at, owner, monitor, inEngine>>
    BY <1>1 DEF HandleNotify, vars
  <2> QED
    BY <1>0, <1>o, <1>c, <2>1, SignalStutters
<1>2. ASSUME NEW g \in Goroutines, RunWorker(g) \/ MineFound(g)
      PROVE  SignalInv'
  <2>1. /\ stopCh' = stopCh /\ at' = at /\ owner' = owner /\ monitor' = monitor
    BY <1>2 DEF RunWorker, MineFound, MineStopped, WorkerLoop, TakeJob,
       ReadStopCh, EngineEnter, EngineLeave, Submit, LeaveCheck, LeaveClose
  <2>2. inEngine' \subseteq inEngine
    BY <1>2 DEF RunWorker, MineFound, MineStopped, WorkerLoop, TakeJob,
       ReadStopCh, EngineEnter, EngineLeave, Submit, LeaveCheck, LeaveClose
  <2>3. ASSUME NEW h \in inEngine' PROVE ch'[h] = ch[h]
    <3>1. h \in Goroutines /\ pc[h] = "mining"
      BY <2>2, <2>3 DEF CaughtInv
    <3>2. CASE h # g
      BY <1>2, <3>1, <3>2, StepsAlone
    <3>3. CASE h = g
      BY <1>2, <2>3, <3>1, <3>3, ChannelSteps
    <3> QED
      BY <3>2, <3>3
  <2> QED
    BY <1>0, <1>o, <1>c, <2>1, <2>2, <2>3, SignalStutters
<1>3. CASE FetchClient \/ ListenEnds \/ ListenJob \/ RefuseJob
  BY <1>0, <1>o, <1>3, <1>c, SignalStutters DEF FetchClient, ListenEnds, ListenJob,
     RefuseJob
<1>4. CASE StoreJob
  <2>1. /\ stopCh' = stopCh /\ owner' = owner /\ monitor' = "signal"
        /\ at'.monitor = 1 /\ inEngine' \subseteq Goroutines
    BY <1>4 DEF StoreJob, TypeOK
  <2>2. \A g \in Goroutines : ~(Worker(g) < 1)
    BY GoroutineType DEF Workers
  <2> QED
    BY <1>0, <1>o, <1>c, <2>1, <2>2 DEF SignalInv
<1>5. CASE SignalCheck
  <2>1. monitor' = "replace" => <<at.monitor, stopCh[at.monitor]>> \in closed'
    BY <1>5 DEF SignalCheck, IsClosed
  <2> QED
    BY <1>0, <1>o, <1>5, <1>c, <2>1, SignalStutters DEF SignalCheck
<1>6. CASE SignalClose
  <2>1. at.monitor \in Workers
    BY <1>6 DEF SignalClose, LoopInv
  <2>2. <<at.monitor, stopCh[at.monitor]>> \in closed'
    BY <1>6, <2>1, ClosesType DEF SignalClose
  <2> QED
    BY <1>0, <1>o, <1>6, <1>c, <2>2, SignalStutters DEF SignalClose
<1>7. CASE SignalReplace
  <2>0. at.monitor \in Workers
    BY <1>7 DEF SignalReplace, LoopInv
  <2>1. at.monitor \in Workers /\ at.monitor \in Nat
    BY <2>0 DEF Workers
  <2>2. /\ at'.monitor = at.monitor + 1 /\ monitor' = "signal"
        /\ owner' = owner /\ closed' = closed /\ ch' = ch
        /\ inEngine' = inEngine
    BY <1>7 DEF SignalReplace, TypeOK
  <2>3. <<at.monitor, stopCh[at.monitor]>> \in closed
    BY <1>0, <1>o, <1>7 DEF SignalReplace, SignalInv, IsClosed
  <2>4. /\ stopCh'[at.monitor] = stopCh[at.monitor] + 1
        /\ \A w \in Workers \ {at.monitor} : stopCh'[w] = stopCh[w]
    BY <1>7, <2>1, ReplacesType DEF SignalReplace
  <2>5. \A w \in Workers : stopCh[w] \in Nat
    BY DEF TypeOK
  <2>6. \A w \in Workers : \A n \in Nat : n < stopCh[w] => <<w, n>> \in closed
    BY <1>0 DEF SignalInv
  <2>7. ASSUME NEW w \in Workers, NEW n \in Nat, n < stopCh'[w]
        PROVE  <<w, n>> \in closed
    <3>1. CASE w = at.monitor
      <4>1. n < stopCh[w] \/ n = stopCh[w]
        BY <2>4, <2>5, <2>7, <3>1
      <4> QED
        BY <2>3, <2>6, <3>1, <4>1
    <3>2. CASE w # at.monitor
      BY <2>4, <2>6, <2>7, <3>2
    <3> QED
      BY <3>1, <3>2
  <2>8. ASSUME NEW g \in inEngine, Worker(g) < at.monitor + 1
        PROVE  <<Worker(g), ch[g]>> \in closed
    <3>1. g \in Goroutines /\ Worker(g) \in Workers /\ Worker(g) \in Nat
      BY GoroutineType DEF CaughtInv, Workers
    <3>2. ch[g] \in Nat /\ ch[g] <= stopCh[Worker(g)]
      BY <3>1 DEF CaughtInv, TypeOK
    <3>3. CASE Worker(g) = at.monitor
      <4>1. ch[g] < stopCh[Worker(g)] \/ ch[g] = stopCh[Worker(g)]
        BY <2>5, <3>1, <3>2
      <4> QED
        BY <2>3, <2>6, <3>1, <3>2, <3>3, <4>1
    <3>4. CASE Worker(g) # at.monitor
      <4>1. Worker(g) < at.monitor
        BY <2>1, <2>8, <3>1, <3>4
      <4>2. monitor = "replace"
        BY <1>7 DEF SignalReplace
      <4> QED
        BY <1>0, <1>o, <4>1, <4>2 DEF SignalInv
    <3> QED
      BY <3>3, <3>4
  <2> QED
    BY <1>0, <1>o, <2>2, <2>7, <2>8 DEF SignalInv
<1>8. CASE StopCancel \/ StopCheck \/ StopClose \/ Resume
  <2>1. at'.monitor = at.monitor
    BY <1>8 DEF StopCancel, StopCheck, StopClose, Resume, TypeOK
  <2>2. /\ UNCHANGED <<stopCh, ch, monitor, inEngine>>
        /\ owner' \notin {"pause", "pause replace"}
    BY <1>0, <1>o, <1>8 DEF StopCancel, StopCheck, StopClose, Resume
  <2> QED
    BY <1>0, <1>o, <1>c, <2>1, <2>2, SignalStutters
<1>9. CASE Pause \/ PauseClose \/ PauseReplace
  <2>1. CASE Pause
    <3>1. calls' = calls + 1
      BY <2>1 DEF Pause
    <3>2. calls' = 1
      BY <1>0, <3>1
    <3> QED
      BY <3>2
  <2>2. CASE PauseClose \/ PauseReplace
    BY <1>0, <1>o, <2>2 DEF PauseClose, PauseReplace
  <2> QED
    BY <1>9, <2>1, <2>2
<1> QED
  BY <1>1, <1>2, <1>3, <1>4, <1>5, <1>6, <1>7, <1>8, <1>9
     DEF Next, MonitorJobs, HandleNewJob, Owner

(***************************************************************************)
(* Jobs.                                                                   *)
(***************************************************************************)
LEMMA JobType ==
    ASSUME TypeOK
    PROVE  /\ Coming \subseteq Nat /\ currentJob \in Nat /\ newJob \in Nat
           /\ sent \in Nat /\ \A g \in Goroutines : job[g] \in Nat
           /\ Len(jobCh) \in Nat /\ \A i \in 1 .. Len(jobCh) : jobCh[i] \in Nat
<1>1. Jobs \subseteq Nat
  BY WorkersAssumption DEF Jobs
<1>2. jobCh \in Seq(Jobs) /\ newJob \in Jobs
  BY DEF TypeOK
<1>3. Len(jobCh) \in Nat /\ \A i \in 1 .. Len(jobCh) : jobCh[i] \in Jobs
  BY <1>2
<1>4. Coming \subseteq Jobs
  BY <1>2, <1>3 DEF Coming
<1>5. /\ currentJob \in Jobs /\ newJob \in Jobs /\ sent \in Jobs
      /\ \A g \in Goroutines : job[g] \in Jobs
  BY DEF TypeOK
<1> QED
  BY <1>1, <1>3, <1>4, <1>5

\* A step that only takes jobs off the way keeps the order of the others.
LEMMA JobsStutter ==
    ASSUME TypeOK, JobsInv,
           job' = job, sent' = sent, jobCh' = jobCh,
           currentJob' = currentJob \/ currentJob' = NoJob,
           newJob' = newJob \/ newJob' = NoJob
    PROVE  JobsInv'
<1>1. Coming' \subseteq Coming
  BY DEF Coming
<1>2. ASSUME NEW j \in Coming PROVE currentJob' < j
  <2>1. currentJob < j /\ j \in Nat /\ currentJob \in Nat
    BY JobType DEF JobsInv
  <2> QED
    BY <2>1 DEF NoJob
<1>3. currentJob' <= sent
  BY JobType DEF JobsInv, NoJob
<1>4. ASSUME NEW g \in Goroutines
      PROVE  /\ currentJob' # NoJob => job[g] <= currentJob'
             /\ \A j \in Coming : job[g] < j
             /\ job[g] <= sent
  BY DEF JobsInv
<1>5. newJob' # NoJob => \A i \in 1 .. Len(jobCh) : newJob' < jobCh[i]
  BY DEF JobsInv
<1>6. \A i, k \in 1 .. Len(jobCh) : i < k => jobCh[i] < jobCh[k]
  BY DEF JobsInv
<1>7. \A j \in Coming : j <= sent
  BY DEF JobsInv
<1> QED
  BY <1>1, <1>2, <1>3, <1>4, <1>5, <1>6, <1>7 DEF JobsInv

\* The pool's next job is later than all there are.
LEMMA JobsNotify == TypeOK /\ JobsInv /\ HandleNotify => JobsInv'
<1> SUFFICES ASSUME TypeOK, JobsInv, HandleNotify PROVE JobsInv'
  OBVIOUS
<1>1. /\ sent' = sent + 1 /\ currentJob' = currentJob /\ newJob' = newJob
      /\ job' = job
  BY DEF HandleNotify, workers, monitoring
<1>2. sent \in Nat /\ sent < sent + 1
  BY JobType
<1>3. ASSUME NEW j \in Nat, j <= sent PROVE j <= sent + 1 /\ j < sent + 1
  BY <1>2, <1>3
<1>4. CASE jobCh' = jobCh
  <2>1. Coming' = Coming
    BY <1>1, <1>4 DEF Coming
  <2> QED
    BY <1>1, <1>3, <1>4, <2>1, JobType DEF JobsInv
<1>5. CASE jobCh' = Append(jobCh, sent + 1)
  <2>1. jobCh \in Seq(Jobs) /\ sent + 1 \in Jobs
    <3>1. sent \in 0 .. MaxJobs /\ sent < MaxJobs
      BY DEF TypeOK, HandleNotify, Jobs
    <3>2. sent + 1 \in Jobs
      BY <3>1, WorkersAssumption DEF Jobs
    <3> QED
      BY <3>2 DEF TypeOK
  <2>2. /\ Len(jobCh') = Len(jobCh) + 1
        /\ \A i \in 1 .. Len(jobCh) : jobCh'[i] = jobCh[i]
        /\ jobCh'[Len(jobCh) + 1] = sent + 1
    BY <1>5, <2>1, SendsJob
  <2>3. \A i \in 1 .. Len(jobCh') : i \in 1 .. Len(jobCh) \/ i = Len(jobCh) + 1
    BY <2>2, JobType
  <2>4. Coming' \subseteq Coming \cup {sent + 1}
    BY <1>1, <2>2, <2>3 DEF Coming
  <2>5. ASSUME NEW j \in Coming' PROVE currentJob < j /\ j <= sent + 1
    BY <1>3, <2>4, JobType DEF JobsInv
  <2>6. ASSUME NEW g \in Goroutines
        PROVE  /\ currentJob # NoJob => job[g] <= currentJob
               /\ \A j \in Coming' : job[g] < j
               /\ job[g] <= sent + 1
    BY <1>3, <2>4, JobType DEF JobsInv
  <2>7. ASSUME NEW i \in 1 .. Len(jobCh) PROVE jobCh[i] \in Coming
    BY DEF Coming
  <2>8. newJob # NoJob => newJob \in Coming
    BY DEF Coming
  <2>9. newJob # NoJob => \A i \in 1 .. Len(jobCh') : newJob < jobCh'[i]
    BY <1>3, <2>2, <2>3, <2>8, JobType DEF JobsInv
  <2>10. ASSUME NEW i \in 1 .. Len(jobCh'), NEW k \in 1 .. Len(jobCh'), i < k
         PROVE  jobCh'[i] < jobCh'[k]
    <3>1. i \in 1 .. Len(jobCh)
      BY <2>2, <2>3, <2>10, JobType
    <3>2. CASE k \in 1 .. Len(jobCh)
      BY <2>2, <2>10, <3>1, <3>2 DEF JobsInv
    <3>3. CASE k = Len(jobCh) + 1
      BY <1>3, <2>2, <2>7, <3>1, <3>3, JobType DEF JobsInv
    <3> QED
      BY <2>3, <3>2, <3>3
  <2>11. currentJob <= sent + 1
    BY <1>3, JobType DEF JobsInv
  <2> QED
    BY <1>1, <2>5, <2>6, <2>9, <2>10, <2>11 DEF JobsInv
<1> QED
  BY <1>4, <1>5 DEF HandleNotify

\* The job that is received was ahead of the others in the channel.
LEMMA JobsListen == TypeOK /\ JobsInv /\ ListenJob => JobsInv'
<1> SUFFICES ASSUME TypeOK, JobsInv, ListenJob PROVE JobsInv'
  OBVIOUS
<1>1. /\ sent' = sent /\ currentJob' = currentJob /\ job' = job
      /\ newJob' = Head(jobCh) /\ jobCh' = Tail(jobCh) /\ jobCh # <<>>
  BY DEF ListenJob, workers
<1>2. /\ newJob' = jobCh[1] /\ Len(jobCh') = Len(jobCh) - 1 /\ Len(jobCh) >= 1
      /\ \A i \in 1 .. Len(jobCh') : i + 1 \in 1 .. Len(jobCh)
                                     /\ jobCh'[i] = jobCh[i + 1]
  BY <1>1, ReceivesJob DEF TypeOK
<1>3. 1 \in 1 .. Len(jobCh) /\ \A i \in 1 .. Len(jobCh') : 1 < i + 1
  BY <1>2, JobType
<1>4. \A i \in 1 .. Len(jobCh') : newJob' < jobCh'[i]
  BY <1>2, <1>3 DEF JobsInv
<1>5. \A i, k \in 1 .. Len(jobCh') : i < k => jobCh'[i] < jobCh'[k]
  <2> SUFFICES ASSUME NEW i \in 1 .. Len(jobCh'), NEW k \in 1 .. Len(jobCh'),
                      i < k
               PROVE  jobCh'[i] < jobCh'[k]
    OBVIOUS
  <2>1. i + 1 < k + 1
    OBVIOUS
  <2> QED
    BY <1>2, <2>1 DEF JobsInv
<1>6. Coming' \subseteq Coming
  BY <1>2, <1>3 DEF Coming
<1> QED
  BY <1>1, <1>4, <1>5, <1>6 DEF JobsInv

\* The job that is stored was the first of those on their way.
LEMMA JobsStore == TypeOK /\ JobsInv /\ StoreJob => JobsInv'
<1> SUFFICES ASSUME TypeOK, JobsInv, StoreJob PROVE JobsInv'
  OBVIOUS
<1>1. /\ sent' = sent /\ job' = job /\ jobCh' = jobCh
      /\ currentJob' = newJob /\ newJob' = NoJob
  BY DEF StoreJob, queue, workers
<1>2. CASE newJob = NoJob
  BY <1>1, <1>2, JobsStutter
<1>3. CASE newJob # NoJob
  <2>1. newJob \in Coming
    BY <1>3 DEF Coming
  <2>2. Coming' \subseteq Coming /\ \A j \in Coming' : newJob < j
    BY <1>1, <1>3 DEF Coming, JobsInv
  <2>3. ASSUME NEW g \in Goroutines PROVE job[g] <= newJob
    <3>1. job[g] < newJob
      BY <2>1 DEF JobsInv
    <3> QED
      BY <3>1, JobType
  <2> QED
    BY <1>1, <2>1, <2>2, <2>3 DEF JobsInv
<1> QED
  BY <1>2, <1>3

\* A worker that takes the current job does not go back by it.
LEMMA TakesLater ==
    ASSUME TypeOK, JobsInv, NEW g \in Goroutines, TakeJob(g)
    PROVE  /\ \A h \in Goroutines \ {g} : job'[h] = job[h]
           /\ job'[g] \in {job[g], currentJob}
           /\ job[g] <= job'[g]
<1>1. CASE currentJob = NoJob
  <2>1. job' = job
    BY <1>1 DEF TakeJob
  <2>2. job[g] <= job[g]
    BY JobType
  <2> QED
    BY <2>1, <2>2
<1>2. CASE currentJob # NoJob
  BY <1>2 DEF TakeJob, TypeOK, JobsInv
<1> QED
  BY <1>1, <1>2

LEMMA JobsTake ==
    ASSUME TypeOK, JobsInv, NEW g \in Goroutines, TakeJob(g)
    PROVE  JobsInv'
<1>1. /\ sent' = sent /\ jobCh' = jobCh /\ currentJob' = currentJob
      /\ newJob' = newJob
  BY DEF TakeJob, queue, monitoring
<1>2. Coming' = Coming
  BY <1>1 DEF Coming
<1>3. ASSUME NEW h \in Goroutines
      PROVE  /\ currentJob # NoJob => job'[h] <= currentJob
             /\ \A j \in Coming : job'[h] < j
             /\ job'[h] <= sent
  <2>1. CASE job'[h] = job[h]
    BY <2>1 DEF JobsInv
  <2>2. CASE job'[h] = currentJob
    BY <2>2, JobType DEF JobsInv
  <2> QED
    BY <2>1, <2>2, TakesLater
<1> QED
  BY <1>1, <1>2, <1>3 DEF JobsInv

\* The other steps leave jobs alone, or let go of one.
LEMMA OtherSteps ==
    ASSUME [Next]_vars
    PROVE  \/ HandleNotify \/ ListenJob \/ StoreJob
           \/ \E g \in Goroutines : TakeJob(g)
           \/ /\ job' = job /\ sent' = sent /\ jobCh' = jobCh
              /\ currentJob' = currentJob \/ currentJob' = NoJob
              /\ newJob' = newJob \/ newJob' = NoJob
<1> USE DEF queue, workers, monitoring
<1>1. ASSUME NEW g \in Goroutines, RunWorker(g) \/ MineFound(g), ~TakeJob(g)
      PROVE  job' = job /\ UNCHANGED <<queue, monitoring>>
  BY <1>1 DEF RunWorker, MineFound, MineStopped, WorkerLoop, ReadStopCh,
     EngineEnter, EngineLeave, Submit, LeaveCheck, LeaveClose
<1>2. CASE \/ FetchClient \/ ListenEnds \/ RefuseJob
           \/ SignalCheck \/ SignalClose \/ SignalReplace
  BY <1>2 DEF FetchClient, ListenEnds, RefuseJob, SignalCheck, SignalClose,
     SignalReplace
<1>3. CASE StopCancel \/ StopCheck \/ StopClose \/ Pause \/ PauseClose
           \/ PauseReplace \/ Resume
  BY <1>3 DEF StopCancel, StopCheck, StopClose, Pause, PauseClose, PauseReplace,
     Resume
<1>4. CASE UNCHANGED vars
  BY <1>4 DEF vars
<1> QED
  BY <1>1, <1>2, <1>3, <1>4 DEF Next, MonitorJobs, HandleNewJob, Owner

LEMMA JobsNext == TypeOK /\ JobsInv /\ [Next]_vars => JobsInv'
  BY OtherSteps, JobsStutter, JobsNotify, JobsListen, JobsStore, JobsTake

(***************************************************************************)
(* The properties.                                                         *)
(***************************************************************************)
LEMMA InvInit == Init => IInv
<1> SUFFICES ASSUME Init PROVE IInv
  OBVIOUS
<1>1. TypeOK /\ LoopInv
  BY TypeInit
<1>2. EngineInv
  BY DEF Init, EngineInv
<1>3. CaughtInv
  BY GoroutineType DEF Init, CaughtInv
<1>4. SignalInv
  BY DEF Init, SignalInv
<1>5. Coming = {}
  BY DEF Init, Coming
<1>6. JobsInv
  BY <1>5 DEF Init, JobsInv, NoJob
<1> QED
  BY <1>1, <1>2, <1>3, <1>4, <1>6 DEF IInv

\* In every behaviour the invariant holds.
THEOREM Invariant == Spec => []IInv
<1>1. IInv /\ [Next]_vars => IInv'
  BY TypeNext, EngineNext, CaughtNext, SignalNext, JobsNext DEF IInv
<1> QED
  BY InvInit, <1>1, PTL DEF Spec

\* Type correctness: among others, the job channel never holds more than its
\* capacity (client.go:722), and the loops over the workers touch no other.
THEOREM TypeCorrect == Spec => []TypeOK
  BY Invariant, PTL DEF IInv

\* The engine of a worker is searched by one goroutine at a time, although
\* Resume starts more of them (engine.go:67-72, miner.go:561-566).
THEOREM EngineExclusiveCorrect == Spec => []EngineExclusive
<1>1. IInv => EngineExclusive
  BY DEF IInv, EngineInv, EngineExclusive
<1> QED
  BY <1>1, Invariant, PTL

\* handleNewJob signals every worker that it caught in its engine
\* (miner.go:474-489).
THEOREM CaughtAreSignalledCorrect == Spec => []CaughtAreSignalled
<1>1. IInv => CaughtAreSignalled
  <2> SUFFICES ASSUME IInv, calls = 0, monitor = "signal", at.monitor > NWorkers,
                      NEW g \in inEngine
               PROVE  <<Worker(g), ch[g]>> \in closed
    BY DEF CaughtAreSignalled
  <2>1. Worker(g) \in Workers /\ at.monitor \in 1 .. NWorkers + 1
    BY GoroutineType DEF IInv, CaughtInv, TypeOK
  <2>2. Worker(g) < at.monitor
    BY <2>1, WorkersAssumption DEF Workers
  <2> QED
    BY <2>2 DEF IInv, SignalInv
<1> QED
  BY <1>1, Invariant, PTL

\* No worker goes back to an older job, whatever is dropped, refused or
\* cleared on the way (client.go:722, miner.go:447-472).
THEOREM JobsGoForwardCorrect == Spec => JobsGoForward
<1>1. IInv /\ [Next]_vars => [\A g \in Goroutines : job'[g] >= job[g]]_job
  <2> SUFFICES ASSUME IInv, [Next]_vars, job' # job, NEW g \in Goroutines
               PROVE  job'[g] >= job[g]
    OBVIOUS
  <2>1. job' = job \/ \E h \in Goroutines : TakeJob(h)
    BY OtherSteps DEF HandleNotify, ListenJob, StoreJob, workers
  <2>2. PICK h \in Goroutines : TakeJob(h)
    BY <2>1
  <2>3. job[g] \in Nat /\ job'[g] \in Nat
    <3>1. TypeOK'
      BY TypeNext DEF IInv
    <3>2. job[g] \in Jobs /\ job'[g] \in Jobs
      BY <3>1 DEF IInv, TypeOK
    <3> QED
      BY <3>2, WorkersAssumption DEF Jobs
  <2>4. job[g] <= job'[g]
    <3>1. CASE g = h
      BY <2>2, <3>1, TakesLater DEF IInv
    <3>2. CASE g # h
      BY <2>2, <2>3, <3>2, TakesLater DEF IInv
    <3> QED
      BY <3>1, <3>2
  <2> QED
    BY <2>3, <2>4
<1> QED
  BY <1>1, Invariant, PTL DEF Spec, JobsGoForward

(***************************************************************************)
(* Who can panic.  NoPanic fails when Stop or Pause meets another close of *)
(* the same channel (workers_stop); handleNewJob by itself never closes a  *)
(* channel twice.                                                          *)
(***************************************************************************)
UndisturbedInv ==
    calls = 0 /\ ~cancelled =>
        /\ ~crashed /\ owner = "running"
        /\ monitor = "close" => ~IsClosed(at.monitor)
        /\ \A g \in Goroutines : pc[g] \notin {"leave", "leave close"}

LEMMA UndisturbedNext ==
    TypeOK /\ LoopInv /\ UndisturbedInv /\ [Next]_vars => UndisturbedInv'
<1> SUFFICES ASSUME TypeOK, LoopInv, UndisturbedInv, [Next]_vars,
                    calls' = 0, ~cancelled'
             PROVE  UndisturbedInv'
  BY DEF UndisturbedInv
<1> USE DEF queue, workers, monitoring, control
<1>0. calls = 0
  BY CallsGrow
<1>1. ~cancelled
  <2>1. CASE StopCancel
    BY <2>1 DEF StopCancel
  <2>2. ASSUME NEW g \in Goroutines, RunWorker(g) \/ MineFound(g)
        PROVE  cancelled' = cancelled
    BY <2>2 DEF RunWorker, MineFound, MineStopped, WorkerLoop, TakeJob,
       ReadStopCh, EngineEnter, EngineLeave, Submit, LeaveCheck, LeaveClose
  <2>3. CASE HandleNotify \/ MonitorJobs
    BY <2>3 DEF HandleNotify, MonitorJobs, FetchClient, ListenEnds, ListenJob,
       HandleNewJob, RefuseJob, StoreJob, SignalCheck, SignalClose, SignalReplace
  <2>4. CASE StopCheck \/ StopClose \/ Pause \/ PauseClose \/ PauseReplace
             \/ Resume
    BY <2>4 DEF StopCheck, StopClose, Pause, PauseClose, PauseReplace, Resume
  <2>5. CASE UNCHANGED vars
    BY <2>5 DEF vars
  <2> QED
    BY <2>1, <2>2, <2>3, <2>4, <2>5 DEF Next, Owner
<1>2. /\ ~crashed /\ owner = "running"
      /\ \A g \in Goroutines : pc[g] \notin {"leave", "leave close"}
  BY <1>0, <1>1 DEF UndisturbedInv
<1>3. monitor = "close" => ~IsClosed(at.monitor)
  BY <1>0, <1>1 DEF UndisturbedInv
<1>4. CASE HandleNotify \/ FetchClient \/ ListenEnds \/ ListenJob \/ RefuseJob
           \/ StoreJob \/ UNCHANGED vars
  <2>1. UNCHANGED <<crashed, owner, pc>>
    BY <1>4 DEF HandleNotify, FetchClient, ListenEnds, ListenJob, RefuseJob,
       StoreJob, vars
  <2>2. monitor' = "close" => monitor = "close" /\ at' = at
    BY <1>4 DEF HandleNotify, FetchClient, ListenEnds, ListenJob, RefuseJob,
       StoreJob, vars
  <2>3. stopCh' = stopCh /\ closed' = closed
    BY <1>4 DEF HandleNotify, FetchClient, ListenEnds, ListenJob, RefuseJob,
       StoreJob, vars
  <2> QED
    BY <1>2, <1>3, <2>1, <2>2, <2>3 DEF UndisturbedInv, IsClosed
<1>5. CASE SignalCheck
  <2>1. UNCHANGED <<crashed, owner, pc, at, stopCh, closed>>
    BY <1>5 DEF SignalCheck
  <2>2. monitor' = "close" => ~IsClosed(at.monitor)
    BY <1>5 DEF SignalCheck
  <2> QED
    BY <1>2, <2>1, <2>2 DEF UndisturbedInv, IsClosed
<1>6. CASE SignalClose
  <2>1. /\ crashed' = crashed /\ owner' = owner /\ pc' = pc
        /\ monitor' = "replace"
    BY <1>3, <1>6 DEF SignalClose, CloseField
  <2> QED
    BY <1>2, <2>1 DEF UndisturbedInv
<1>7. CASE SignalReplace
  BY <1>2, <1>7 DEF SignalReplace, UndisturbedInv
<1>8. ASSUME NEW g \in Goroutines, RunWorker(g) \/ MineFound(g)
      PROVE  UndisturbedInv'
  <2>1. \A h \in Goroutines \ {g} : pc'[h] = pc[h]
    BY <1>8, StepsAlone
  <2>2. ~LeaveCheck(g) /\ ~LeaveClose(g)
    BY <1>2 DEF LeaveCheck, LeaveClose
  <2>3. pc'[g] \notin {"leave", "leave close"}
    <3>1. CASE WorkerLoop(g)
      BY <1>1, <3>1 DEF WorkerLoop, Goto, TypeOK
    <3>2. CASE TakeJob(g) \/ ReadStopCh(g) \/ EngineEnter(g) \/ Submit(g)
      BY <3>2 DEF TakeJob, ReadStopCh, EngineEnter, Submit, Goto, TypeOK
    <3>3. CASE MineStopped(g) \/ MineFound(g)
      BY <3>3 DEF MineStopped, MineFound, EngineLeave, Goto, TypeOK
    <3> QED
      BY <1>8, <2>2, <3>1, <3>2, <3>3 DEF RunWorker
  <2>4. UNCHANGED <<crashed, owner, monitor, at, stopCh, closed>>
    BY <1>8, <2>2 DEF RunWorker, MineFound, MineStopped, WorkerLoop, TakeJob,
       ReadStopCh, EngineEnter, EngineLeave, Submit
  <2> QED
    BY <1>2, <1>3, <2>1, <2>3, <2>4 DEF UndisturbedInv, IsClosed
<1>9. CASE Resume
  <2>1. \A g \in Goroutines : pc'[g] \in {"top", pc[g]}
    BY <1>9 DEF Resume
  <2>2. UNCHANGED <<crashed, owner, monitor, at, stopCh, closed>>
    BY <1>9 DEF Resume
  <2> QED
    BY <1>2, <1>3, <2>1, <2>2 DEF UndisturbedInv, IsClosed
<1>10. CASE StopCancel
  BY <1>10 DEF StopCancel
<1>11. CASE Pause
  <2>1. calls' = 1
    BY <1>0, <1>11 DEF Pause
  <2> QED
    BY <2>1
<1>12. CASE StopCheck \/ StopClose \/ PauseClose \/ PauseReplace
  BY <1>2, <1>12 DEF StopCheck, StopClose, PauseClose, PauseReplace
<1> QED
  BY <1>4, <1>5, <1>6, <1>7, <1>8, <1>9, <1>10, <1>11, <1>12
     DEF Next, MonitorJobs, HandleNewJob, Owner

\* No goroutine panics over a channel closed twice before Stop or Pause is
\* called: the check and the close of handleNewJob (miner.go:479-486) are then
\* the only ones.
THEOREM NoPanicUndisturbed == Spec => [](crashed => cancelled \/ calls > 0)
<1>1. Init => UndisturbedInv
  BY DEF Init, UndisturbedInv
<1>2. IInv /\ UndisturbedInv /\ [Next]_vars => UndisturbedInv'
  BY UndisturbedNext DEF IInv
<1>3. IInv /\ UndisturbedInv => (crashed => cancelled \/ calls > 0)
  <2> SUFFICES ASSUME IInv, UndisturbedInv, crashed, ~cancelled PROVE calls > 0
    OBVIOUS
  <2>1. calls # 0
    BY DEF UndisturbedInv
  <2>2. calls \in 0 .. MaxCalls
    BY DEF IInv, TypeOK
  <2> QED
    BY <2>1, <2>2, WorkersAssumption
<1> QED
  BY <1>1, <1>2, <1>3, Invariant, PTL DEF Spec

=============================================================================
