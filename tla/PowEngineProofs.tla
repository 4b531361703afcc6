-------------------------- MODULE PowEngineProofs --------------------------
(***************************************************************************)
(* Theorems about PowEngine, for any number of callers, jobs and nonces,   *)
(* and any size of the cache.                                              *)
(*                                                                         *)
(* The cache needs that its order has no repetition.  The properties of    *)
(* the nonces need that, without Stop, one caller is in Mine at a time     *)
(* (Exclusive); then all that was hashed lies below lastNonce or below     *)
(* the place of that caller.                                               *)
(*                                                                         *)
(* The second part is about the operators of PowHash, for all their        *)
(* arguments but for FoldRows, which TLC evaluates at the size of the code.*)
(***************************************************************************)
EXTENDS PowEngine, PowHash, FiniteSetTheorems, FunctionTheorems, SequenceTheorems,
        WellFoundedInduction, TLAPS

Filling   == {"warm", "warm fill", "data", "data fill"}
AtNonce   == {"data", "data fill", "hash", "count"}
Searching == {"loop"} \cup AtNonce
Places    == {"idle", "start", "leave"} \cup Filling \cup Searching

\* A caller in Mine has a job, and at a nonce it is one below MaxNonce.
CallerOK(p) ==
    /\ pc[p] # "idle" => job[p] \in Jobs
    /\ pc[p] \in AtNonce => nonce[p] < MaxNonce

\* The order has each key of the map once.
CacheInv ==
    /\ data \subseteq Jobs /\ order \in Seq(Jobs)
    /\ CacheInStep
    /\ IsFiniteSet(data)
    /\ \A i, j \in 1 .. Len(order) : order[i] = order[j] => i = j

TypeInv == TypeOK /\ CacheInv /\ \A p \in Callers : CallerOK(p)

(***************************************************************************)
(* The cache.                                                              *)
(***************************************************************************)
LEMMA CacheInit == Init => CacheInv
  BY EngineAssumption, FS_EmptySet DEF Init, CacheInv, CacheInStep

\* The oldest entry leaves the map and the order together.
LEMMA CacheEvict ==
    ASSUME CacheInv, order # <<>>
    PROVE  /\ Tail(order) \in Seq(Jobs) /\ data \ {Head(order)} \subseteq Jobs
           /\ IsFiniteSet(data \ {Head(order)})
           /\ Cardinality(data \ {Head(order)}) = Len(Tail(order))
           /\ Len(Tail(order)) = Len(order) - 1
           /\ data \ {Head(order)} = {Tail(order)[i] : i \in 1 .. Len(Tail(order))}
           /\ \A i, j \in 1 .. Len(Tail(order)) : Tail(order)[i] = Tail(order)[j] => i = j
<1>1. /\ Tail(order) \in Seq(Jobs) /\ Len(order) \in Nat \ {0}
      /\ Len(Tail(order)) = Len(order) - 1
      /\ \A i \in 1 .. Len(Tail(order)) : Tail(order)[i] = order[i + 1]
  BY HeadTailProperties, EmptySeq DEF CacheInv
<1>2. Head(order) = order[1] /\ Head(order) \in data
  BY <1>1 DEF CacheInv, CacheInStep
<1>3. /\ IsFiniteSet(data \ {Head(order)})
      /\ Cardinality(data \ {Head(order)}) = Cardinality(data) - 1
  BY <1>2, FS_RemoveElement DEF CacheInv
<1>4. \A i, j \in 1 .. Len(Tail(order)) : Tail(order)[i] = Tail(order)[j] => i = j
  <2>1. ASSUME NEW i \in 1 .. Len(Tail(order)), NEW j \in 1 .. Len(Tail(order)),
               Tail(order)[i] = Tail(order)[j]
        PROVE  i = j
    <3>1. i + 1 \in 1 .. Len(order) /\ j + 1 \in 1 .. Len(order)
      BY <1>1
    <3>2. order[i + 1] = order[j + 1]
      BY <1>1, <2>1
    <3>3. i + 1 = j + 1
      BY <3>1, <3>2 DEF CacheInv
    <3> QED
      BY <3>3
  <2> QED
    BY <2>1
<1>5. data \ {Head(order)} = {Tail(order)[i] : i \in 1 .. Len(Tail(order))}
  <2>1. ASSUME NEW x \in data, x # Head(order)
        PROVE  \E i \in 1 .. Len(Tail(order)) : x = Tail(order)[i]
    <3>1. PICK k \in 1 .. Len(order) : x = order[k]
      BY DEF CacheInv, CacheInStep
    <3>2. k - 1 \in 1 .. Len(Tail(order)) /\ (k - 1) + 1 = k
      BY <1>1, <1>2, <2>1, <3>1
    <3> QED
      BY <1>1, <3>1, <3>2
  <2>2. ASSUME NEW i \in 1 .. Len(Tail(order))
        PROVE  Tail(order)[i] \in data /\ Tail(order)[i] # Head(order)
    <3>1. i + 1 \in 1 .. Len(order) /\ 1 \in 1 .. Len(order) /\ i + 1 # 1
      BY <1>1
    <3>2. Tail(order)[i] = order[i + 1]
      BY <1>1
    <3>3. order[i + 1] # order[1]
      BY <3>1 DEF CacheInv
    <3> QED
      BY <1>2, <3>1, <3>2, <3>3 DEF CacheInv, CacheInStep
  <2> QED
    BY <2>1, <2>2
<1> QED
  BY <1>1, <1>3, <1>4, <1>5 DEF CacheInv, CacheInStep

\* A new entry enters both.
LEMMA CacheInsert ==
    ASSUME NEW D \in SUBSET Jobs, NEW o \in Seq(Jobs), NEW j \in Jobs,
           IsFiniteSet(D), Cardinality(D) = Len(o), j \notin D,
           D = {o[i] : i \in 1 .. Len(o)},
           \A i, k \in 1 .. Len(o) : o[i] = o[k] => i = k
    PROVE  LET o2 == Append(o, j)
               D2 == D \cup {j}
           IN /\ D2 \subseteq Jobs /\ o2 \in Seq(Jobs) /\ IsFiniteSet(D2)
              /\ Cardinality(D2) = Len(o2) /\ Len(o2) = Len(o) + 1
              /\ D2 = {o2[i] : i \in 1 .. Len(o2)}
              /\ \A i, k \in 1 .. Len(o2) : o2[i] = o2[k] => i = k
<1> DEFINE o2 == Append(o, j)
<1>1. /\ o2 \in Seq(Jobs) /\ Len(o2) = Len(o) + 1 /\ Len(o) \in Nat
      /\ \A i \in 1 .. Len(o) : o2[i] = o[i]
      /\ o2[Len(o) + 1] = j
  BY AppendProperties, LenProperties
<1>2. IsFiniteSet(D \cup {j}) /\ Cardinality(D \cup {j}) = Cardinality(D) + 1
  BY FS_AddElement
<1>3. 1 .. Len(o) + 1 = (1 .. Len(o)) \cup {Len(o) + 1}
  BY <1>1
<1> HIDE DEF o2
<1>4. D \cup {j} = {o2[i] : i \in 1 .. Len(o2)}
  <2>1. \A x \in D : \E i \in 1 .. Len(o) : x = o2[i]
    BY <1>1
  <2>2. \A i \in 1 .. Len(o) : o2[i] \in D
    BY <1>1
  <2> QED
    BY <1>1, <1>3, <2>1, <2>2
<1>5. \A i, k \in 1 .. Len(o2) : o2[i] = o2[k] => i = k
  <2>1. \A i \in 1 .. Len(o) : o2[i] # j
    BY <1>1
  <2> QED
    BY <1>1, <1>3, <2>1
<1> QED
  BY <1>1, <1>2, <1>4, <1>5 DEF o2

\* Under the write lock the second look keeps a key from entering twice.
LEMMA CacheKept ==
    ASSUME CacheInv, NEW p \in Callers, job[p] \in Jobs, CacheFill(p)
    PROVE  CacheInv'
<1>1. MaxItems \in Nat \ {0}
  BY EngineAssumption
<1>2. CASE job[p] \in data
  BY <1>2 DEF CacheFill, cache, CacheInv, CacheInStep
<1>3. CASE job[p] \notin data /\ Cardinality(data) >= MaxItems
  <2>1. data' = (data \ {Head(order)}) \cup {job[p]} /\ order' = Append(Tail(order), job[p])
    BY <1>3 DEF CacheFill
  <2>2. order # <<>> /\ Len(order) <= MaxItems /\ Len(order) \in Nat
    BY <1>1, <1>3 DEF CacheInv, CacheInStep
  <2> DEFINE D == data \ {Head(order)}
             o == Tail(order)
  <2>3. /\ o \in Seq(Jobs) /\ D \in SUBSET Jobs /\ IsFiniteSet(D)
        /\ Cardinality(D) = Len(o) /\ Len(o) = Len(order) - 1
        /\ D = {o[i] : i \in 1 .. Len(o)}
        /\ \A i, k \in 1 .. Len(o) : o[i] = o[k] => i = k
    BY <2>2, CacheEvict
  <2>4. job[p] \notin D
    BY <1>3
  <2>5. data' = D \cup {job[p]} /\ order' = Append(o, job[p])
    BY <2>1
  <2> HIDE DEF D, o
  <2>6. /\ data' \subseteq Jobs /\ order' \in Seq(Jobs) /\ IsFiniteSet(data')
        /\ Cardinality(data') = Len(order') /\ Len(order') = Len(o) + 1
        /\ data' = {order'[i] : i \in 1 .. Len(order')}
        /\ \A i, k \in 1 .. Len(order') : order'[i] = order'[k] => i = k
    BY <2>3, <2>4, <2>5, CacheInsert
  <2> QED
    BY <2>2, <2>3, <2>6 DEF CacheInv, CacheInStep
<1>4. CASE job[p] \notin data /\ ~(Cardinality(data) >= MaxItems)
  <2>1. data' = data \cup {job[p]} /\ order' = Append(order, job[p])
    BY <1>4 DEF CacheFill
  <2>2. /\ data' \subseteq Jobs /\ order' \in Seq(Jobs) /\ IsFiniteSet(data')
        /\ Cardinality(data') = Len(order') /\ Len(order') = Len(order) + 1
        /\ data' = {order'[i] : i \in 1 .. Len(order')}
        /\ \A i, k \in 1 .. Len(order') : order'[i] = order'[k] => i = k
    BY <1>4, <2>1, CacheInsert DEF CacheInv, CacheInStep
  <2>3. Len(order) + 1 <= MaxItems
    BY <1>1, <1>4 DEF CacheInv, CacheInStep
  <2> QED
    BY <2>2, <2>3 DEF CacheInv, CacheInStep
<1> QED
  BY <1>2, <1>3, <1>4

(***************************************************************************)
(* Type correctness.                                                       *)
(***************************************************************************)
LEMMA TypeInit == Init => TypeInv
<1> SUFFICES ASSUME Init PROVE TypeInv
  OBVIOUS
<1>1. MaxNonce \in Nat /\ MaxCalls \in Nat /\ MaxStops \in Nat
  BY EngineAssumption
<1>2. 0 \in 0 .. MaxNonce /\ 0 \in 0 .. MaxCalls /\ 0 \in 0 .. MaxStops
  BY <1>1
<1>3. order \in Seq(Jobs) /\ data \subseteq Jobs
  BY CacheInit DEF CacheInv
<1>4. \A p \in Callers : CallerOK(p)
  BY DEF Init, CallerOK, AtNonce
<1> QED
  BY <1>2, <1>3, <1>4, CacheInit DEF Init, TypeOK, TypeInv

\* The parts of the state that no caller has to itself.
Counted ==
    /\ running \in BOOLEAN /\ lastNonce \in 0 .. MaxNonce /\ hashCount \in Nat
    /\ calls \in 0 .. MaxCalls /\ stops \in 0 .. MaxStops
    /\ exhausted \in BOOLEAN /\ tried \in Nat

Outcomes ==
    /\ solved \subseteq Jobs \X Nonces /\ missed \subseteq Jobs \X Nonces
    /\ rehashed \subseteq Nonces /\ repeated \subseteq Jobs \X Nonces

Located ==
    /\ pc \in [Callers -> Places]
    /\ job \in [Callers -> Jobs \cup {NoJob}]
    /\ nonce \in [Callers -> 0 .. MaxNonce]
    /\ lastN \in [Callers -> 0 .. MaxNonce]

LEMMA PlacesAre ==
    Places = {"idle", "warm", "warm fill", "start", "loop", "data", "data fill",
              "hash", "count", "leave"}
  BY DEF Places, Filling, Searching, AtNonce

LEMMA TypeParts ==
    TypeInv <=> /\ Counted /\ Outcomes /\ Located /\ CacheInv
                /\ \A p \in Callers : CallerOK(p)
  BY PlacesAre DEF TypeInv, TypeOK, Counted, Outcomes, Located, CacheInv

\* What a caller does to itself, and to nobody else.
Moves(p, label, j, n, l) ==
    /\ Goto(p, label)
    /\ job' = [job EXCEPT ![p] = j]
    /\ nonce' = [nonce EXCEPT ![p] = n]
    /\ lastN' = [lastN EXCEPT ![p] = l]

LEMMA TypeMove ==
    ASSUME TypeInv, NEW p \in Callers, NEW label \in Places,
           NEW j \in Jobs \cup {NoJob}, NEW n \in 0 .. MaxNonce,
           NEW l \in 0 .. MaxNonce, Moves(p, label, j, n, l),
           label # "idle" => j \in Jobs, label \in AtNonce => n < MaxNonce
    PROVE  Located' /\ \A q \in Callers : CallerOK(q)'
<1>1. Located /\ \A q \in Callers : CallerOK(q)
  BY TypeParts
<1>2. Located'
  BY <1>1 DEF Moves, Goto, Located
<1>3. CallerOK(p)'
  BY <1>1 DEF Moves, Goto, CallerOK, Located
<1>4. ASSUME NEW q \in Callers \ {p} PROVE CallerOK(q)'
  <2>1. pc'[q] = pc[q] /\ job'[q] = job[q] /\ nonce'[q] = nonce[q]
    BY <1>1 DEF Moves, Goto, Located
  <2> QED
    BY <1>1, <2>1 DEF CallerOK
<1> QED
  BY <1>2, <1>3, <1>4

\* What stays as it is, written as a part of a move.
LEMMA Stays ==
    ASSUME TypeInv, NEW p \in Callers
    PROVE  /\ job = [job EXCEPT ![p] = job[p]] /\ job[p] \in Jobs \cup {NoJob}
           /\ nonce = [nonce EXCEPT ![p] = nonce[p]] /\ nonce[p] \in 0 .. MaxNonce
           /\ lastN = [lastN EXCEPT ![p] = lastN[p]] /\ lastN[p] \in 0 .. MaxNonce
           /\ pc[p] \in Places /\ CallerOK(p)
<1>1. Located /\ CallerOK(p)
  BY TypeParts
<1> QED
  BY <1>1 DEF Located

\* Every step of Mine is a move of its caller.
LEMMA MineMoves ==
    ASSUME TypeInv, NEW p \in Callers, Mine(p)
    PROVE  Located' /\ \A q \in Callers : CallerOK(q)'
<1>1. /\ MaxNonce \in Nat /\ 0 \in 0 .. MaxNonce
      /\ StartNonces \subseteq 0 .. MaxNonce
  BY EngineAssumption
<1>2. lastNonce \in 0 .. MaxNonce
  BY TypeParts DEF Counted
<1>3. /\ {"idle", "warm", "warm fill", "start", "loop"} \subseteq Places
      /\ {"data", "data fill", "hash", "count", "leave"} \subseteq Places
      /\ AtNonce = {"data", "data fill", "hash", "count"}
  BY DEF Places, Filling, Searching, AtNonce
<1>4. CASE MineBegin(p)
  <2>1. PICK j \in Jobs : job' = [job EXCEPT ![p] = j]
    BY <1>4 DEF MineBegin
  <2>2. Moves(p, "warm", j, nonce[p], 0)
    BY <1>4, <2>1, Stays DEF MineBegin, Moves
  <2> QED
    BY <1>1, <1>3, <2>2, Stays, TypeMove
<1>5. CASE CacheLookup(p)
  <2>1. job[p] \in Jobs
    BY <1>5, Stays DEF CacheLookup, CallerOK
  <2>2. pc[p] = "data" => nonce[p] < MaxNonce
    BY <1>3, Stays DEF CallerOK
  <2>3. PICK label \in Places :
          /\ Goto(p, label)
          /\ label \in {"start", "hash", "warm fill", "data fill"}
          /\ label \in AtNonce => pc[p] = "data"
    BY <1>3, <1>5 DEF CacheLookup, Fetched
  <2>4. Moves(p, label, job[p], nonce[p], lastN[p])
    BY <1>5, <2>3, Stays DEF CacheLookup, Moves
  <2> QED
    BY <2>1, <2>2, <2>3, <2>4, Stays, TypeMove
<1>6. CASE CacheFill(p)
  <2>1. job[p] \in Jobs
    BY <1>6, Stays DEF CacheFill, CallerOK
  <2>2. pc[p] = "data fill" => nonce[p] < MaxNonce
    BY <1>3, Stays DEF CallerOK
  <2>3. PICK label \in Places :
          /\ Goto(p, label)
          /\ label \in {"start", "hash"}
          /\ label \in AtNonce => pc[p] = "data fill"
    BY <1>3, <1>6 DEF CacheFill, Fetched
  <2>4. Moves(p, label, job[p], nonce[p], lastN[p])
    BY <1>6, <2>3, Stays DEF CacheFill, Moves
  <2> QED
    BY <2>1, <2>2, <2>3, <2>4, Stays, TypeMove
<1>7. CASE StartNonce(p)
  <2>1. job[p] \in Jobs
    BY <1>7, Stays DEF StartNonce, CallerOK
  <2>2. PICK n \in 0 .. MaxNonce : nonce' = [nonce EXCEPT ![p] = n]
    BY <1>1, <1>2, <1>7 DEF StartNonce
  <2>3. Moves(p, "loop", job[p], n, lastN[p])
    BY <1>7, <2>2, Stays DEF StartNonce, Moves
  <2> QED
    BY <1>3, <2>1, <2>3, Stays, TypeMove
<1>8. CASE LoopNext(p)
  <2>1. job[p] \in Jobs
    BY <1>8, Stays DEF LoopNext, CallerOK
  <2>2. CASE nonce[p] < MaxNonce
    <3>1. Moves(p, "data", job[p], nonce[p], lastN[p])
      BY <1>8, <2>2, Stays DEF LoopNext, Moves
    <3> QED
      BY <1>3, <2>1, <2>2, <3>1, Stays, TypeMove
  <2>3. CASE ~(nonce[p] < MaxNonce)
    <3>1. Moves(p, "leave", job[p], nonce[p], 0)
      BY <1>8, <2>3, Stays DEF LoopNext, Moves
    <3> QED
      BY <1>1, <1>3, <2>1, <3>1, Stays, TypeMove
  <2> QED
    BY <2>2, <2>3
<1>9. CASE LoopStopped(p)
  <2>1. job[p] \in Jobs
    BY <1>9, Stays DEF LoopStopped, CallerOK
  <2>2. Moves(p, "leave", job[p], nonce[p], nonce[p])
    BY <1>9, Stays DEF LoopStopped, Moves
  <2> QED
    BY <1>3, <2>1, <2>2, Stays, TypeMove
<1>10. CASE HashMisses(p)
  <2>1. job[p] \in Jobs /\ nonce[p] < MaxNonce
    BY <1>3, <1>10, Stays DEF HashMisses, CallerOK
  <2>2. Moves(p, "count", job[p], nonce[p], lastN[p])
    BY <1>10, Stays DEF HashMisses, Moves
  <2> QED
    BY <1>3, <2>1, <2>2, Stays, TypeMove
<1>11. CASE HashSolves(p)
  <2>1. job[p] \in Jobs /\ nonce[p] < MaxNonce
    BY <1>3, <1>11, Stays DEF HashSolves, CallerOK
  <2>2. nonce[p] + 1 \in 0 .. MaxNonce
    BY <1>1, <2>1, Stays
  <2>3. Moves(p, "leave", job[p], nonce[p], nonce[p] + 1)
    BY <1>11, Stays DEF HashSolves, Moves
  <2> QED
    BY <1>3, <2>1, <2>2, <2>3, Stays, TypeMove
<1>12. CASE CountHash(p)
  <2>1. job[p] \in Jobs /\ nonce[p] < MaxNonce
    BY <1>3, <1>12, Stays DEF CountHash, CallerOK
  <2>2. nonce[p] + 1 \in 0 .. MaxNonce
    BY <1>1, <2>1, Stays
  <2>3. Moves(p, "loop", job[p], nonce[p] + 1, lastN[p])
    BY <1>12, Stays DEF CountHash, Moves
  <2> QED
    BY <1>3, <2>1, <2>2, <2>3, Stays, TypeMove
<1>13. CASE MineLeave(p)
  <2>1. Moves(p, "idle", NoJob, 0, 0)
    BY <1>13 DEF MineLeave, Moves
  <2> QED
    BY <1>1, <1>3, <2>1, TypeMove
<1> QED
  BY <1>4, <1>5, <1>6, <1>7, <1>8, <1>9, <1>10, <1>11, <1>12, <1>13
     DEF Mine, GetData

\* A caller in front of a hash.
LEMMA HashType ==
    ASSUME TypeInv, NEW p \in Callers, pc[p] = "hash"
    PROVE  /\ job[p] \in Jobs /\ nonce[p] \in Nonces
           /\ nonce[p] + 1 \in 0 .. MaxNonce
<1>1. "hash" \in AtNonce
  BY DEF AtNonce
<1>2. job[p] \in Jobs /\ nonce[p] < MaxNonce /\ nonce[p] \in 0 .. MaxNonce
  BY <1>1, Stays DEF CallerOK
<1>3. MaxNonce \in Nat
  BY EngineAssumption
<1> QED
  BY <1>2, <1>3 DEF Nonces

LEMMA MineCounts ==
    ASSUME TypeInv, NEW p \in Callers, Mine(p)
    PROVE  Counted' /\ Outcomes' /\ CacheInv'
<1> USE DEF Counted, Outcomes
<1>1. Counted /\ Outcomes /\ CacheInv
  BY TypeParts
<1>2. /\ MaxNonce \in Nat /\ MaxCalls \in Nat
      /\ lastN[p] \in 0 .. MaxNonce
  BY EngineAssumption, Stays
<1>3. CacheInv' \/ CacheFill(p)
  <2>1. UNCHANGED cache \/ CacheFill(p)
    BY DEF Mine, GetData, MineBegin, CacheLookup, StartNonce, LoopNext,
           LoopStopped, HashMisses, HashSolves, CountHash, MineLeave
  <2> QED
    BY <1>1, <2>1 DEF cache, CacheInv, CacheInStep
<1>4. CASE MineBegin(p)
  BY <1>1, <1>2, <1>3, <1>4 DEF MineBegin, CacheFill, history
<1>5. CASE CacheLookup(p)
  BY <1>1, <1>3, <1>5 DEF CacheLookup, CacheFill, engine, bounds, history
<1>6. CASE CacheFill(p)
  <2>1. job[p] \in Jobs
    BY <1>6, Stays DEF CacheFill, CallerOK
  <2> QED
    BY <1>1, <1>6, <2>1, CacheKept DEF CacheFill, engine, bounds, history
<1>7. CASE StartNonce(p)
  BY <1>1, <1>3, <1>7 DEF StartNonce, CacheFill, engine, bounds, history
<1>8. CASE LoopNext(p)
  BY <1>1, <1>3, <1>8 DEF LoopNext, CacheFill, engine, bounds
<1>9. CASE LoopStopped(p)
  BY <1>1, <1>3, <1>9 DEF LoopStopped, CacheFill, engine, bounds, history
<1>10. CASE HashMisses(p)
  <2>1. /\ missed' = missed \cup {<<job[p], nonce[p]>>}
        /\ tried' = tried + 1
        /\ rehashed' = rehashed \cup ({nonce[p]} \cap Hashed)
    BY <1>10 DEF HashMisses, Record
  <2>2. missed' \subseteq Jobs \X Nonces /\ rehashed' \subseteq Nonces
    BY <1>1, <1>10, <2>1, HashType DEF HashMisses
  <2> QED
    BY <1>1, <1>3, <1>10, <2>1, <2>2 DEF HashMisses, Record, CacheFill, engine, bounds
<1>11. CASE HashSolves(p)
  <2>1. /\ solved' = solved \cup {<<job[p], nonce[p]>>}
        /\ repeated' = repeated \cup ({<<job[p], nonce[p]>>} \cap solved)
        /\ tried' = tried + 1
        /\ rehashed' = rehashed \cup ({nonce[p]} \cap Hashed)
    BY <1>11 DEF HashSolves, Record
  <2>2. /\ solved' \subseteq Jobs \X Nonces /\ rehashed' \subseteq Nonces
        /\ repeated' \subseteq Jobs \X Nonces
    BY <1>1, <1>11, <2>1, HashType DEF HashSolves
  <2> QED
    BY <1>1, <1>3, <1>11, <2>1, <2>2 DEF HashSolves, Record, CacheFill, engine, bounds
<1>12. CASE CountHash(p)
  BY <1>1, <1>3, <1>12 DEF CountHash, CacheFill, engine, bounds, history
<1>13. CASE MineLeave(p)
  BY <1>1, <1>2, <1>3, <1>13 DEF MineLeave, CacheFill, bounds, history
<1> QED
  BY <1>4, <1>5, <1>6, <1>7, <1>8, <1>9, <1>10, <1>11, <1>12, <1>13
     DEF Mine, GetData

LEMMA TypeNext == TypeInv /\ [Next]_vars => TypeInv'
<1> SUFFICES ASSUME TypeInv, [Next]_vars PROVE TypeInv'
  OBVIOUS
<1>1. ASSUME NEW p \in Callers, Mine(p) PROVE TypeInv'
  <2>1. /\ Counted' /\ Outcomes' /\ Located' /\ CacheInv'
        /\ \A q \in Callers : CallerOK(q)'
    BY <1>1, MineMoves, MineCounts
  <2> QED
    BY <2>1, PlacesAre DEF TypeInv, TypeOK, Counted, Outcomes, Located, CacheInv
<1>2. CASE EngineStop
  <2>1. MaxStops \in Nat
    BY EngineAssumption
  <2>2. /\ stops' \in 0 .. MaxStops /\ running' \in BOOLEAN
        /\ UNCHANGED <<lastNonce, hashCount, cache, search, calls, history>>
    <3>1. stops \in 0 .. MaxStops
      BY TypeParts DEF Counted
    <3>2. stops < MaxStops /\ stops' = stops + 1
      BY <1>2 DEF EngineStop
    <3>3. stops' \in 0 .. MaxStops
      BY <2>1, <3>1, <3>2
    <3> QED
      BY <1>2, <3>3 DEF EngineStop
  <2> QED
    BY <2>2 DEF TypeInv, TypeOK, CacheInv, CacheInStep, CallerOK, cache, search,
                history
<1>3. CASE UNCHANGED vars
  BY <1>3 DEF vars, TypeInv, TypeOK, CacheInv, CacheInStep, CallerOK, engine,
              cache, search, bounds, history
<1> QED
  BY <1>1, <1>2, <1>3 DEF Next

\* Every variable keeps its type; nonces stay between 0 and MaxNonce.
THEOREM TypeCorrect == Spec => []TypeOK
<1>1. TypeInv => TypeOK
  BY DEF TypeInv
<1> QED
  BY <1>1, TypeInit, TypeNext, PTL DEF Spec

\* The map and the eviction order of the cache stay in step however many
\* callers search with it at once.
THEOREM CacheInStepCorrect == Spec => []CacheInStep
<1>1. TypeInv => CacheInStep
  BY DEF TypeInv, CacheInv
<1> QED
  BY <1>1, TypeInit, TypeNext, PTL DEF Spec

(***************************************************************************)
(* The nonces, as long as Stop is not called.                              *)
(***************************************************************************)

\* One caller is in Mine at a time.
Exclusive ==
    \A p \in Callers : pc[p] # "idle" =>
        running /\ \A q \in Callers \ {p} : pc[q] = "idle"

\* No search began below the mark of an earlier one.
SearchAhead == \A p \in Callers : pc[p] \in Searching => lastNonce <= nonce[p]

\* The nonce from which on p has hashed nothing.
Reach(p) == CASE pc[p] \in {"loop", "data", "data fill", "hash"} -> nonce[p]
              [] pc[p] = "count" -> nonce[p] + 1
              [] pc[p] = "leave" -> lastN[p]
              [] OTHER -> 0

\* What was hashed lies below the mark or in the reach of a caller, until a
\* search ends at MaxNonce and the mark stays behind.
HashedBelow ==
    ~exhausted => \A n \in Hashed :
        n < lastNonce \/ \E p \in Callers : n < Reach(p)

\* Solutions do so even then: a search that reached MaxNonce found none.
SolvedBelow ==
    \A h \in solved :
        h[2] < lastNonce \/ \E p \in Callers : pc[p] = "leave" /\ h[2] < lastN[p]

Counting == {p \in Callers : pc[p] = "count"}

Tally == /\ IsFiniteSet(solved)
         /\ tried = hashCount + Cardinality(solved) + Cardinality(Counting)

\* What holds of the nonces as long as Stop is not called.
NonceInv ==
    stops = 0 => /\ Exclusive /\ SearchAhead /\ HashedBelow /\ SolvedBelow
                 /\ ~exhausted => rehashed = {}
                 /\ repeated = {}
                 /\ Tally

LEMMA NonceInit == Init => NonceInv
<1> SUFFICES ASSUME Init PROVE NonceInv
  OBVIOUS
<1>1. Counting = {} /\ solved = {} /\ Hashed = {}
  BY DEF Init, Counting, Hashed
<1>2. Tally
  BY <1>1, FS_EmptySet DEF Init, Tally
<1> QED
  BY <1>1, <1>2 DEF Init, NonceInv, Exclusive, SearchAhead, HashedBelow,
                    SolvedBelow, Searching, AtNonce

\* Without Stop, whoever takes a step of Mine is alone in it.
LEMMA MineAlone ==
    ASSUME TypeInv, Exclusive, NEW p \in Callers, Mine(p)
    PROVE  /\ \A q \in Callers \ {p} : pc[q] = "idle" /\ pc'[q] = "idle"
           /\ Exclusive'
<1>1. \A q \in Callers \ {p} : pc[q] = "idle"
  BY DEF Exclusive, Mine, GetData, MineBegin, CacheLookup, CacheFill, StartNonce,
         LoopNext, LoopStopped, HashMisses, HashSolves, CountHash, MineLeave
<1>2. PICK label : Goto(p, label)
  BY DEF Mine, GetData, MineBegin, CacheLookup, CacheFill, Fetched, StartNonce,
         LoopNext, LoopStopped, HashMisses, HashSolves, CountHash, MineLeave
<1>3. pc'[p] = label /\ \A q \in Callers \ {p} : pc'[q] = "idle"
  BY <1>1, <1>2 DEF Goto, TypeInv, TypeOK
<1>4. running' \/ pc'[p] = "idle"
  <2>1. CASE MineBegin(p)
    BY <2>1 DEF MineBegin
  <2>2. CASE MineLeave(p)
    <3>1. Goto(p, "idle")
      BY <2>2 DEF MineLeave
    <3> QED
      BY <3>1 DEF Goto, TypeInv, TypeOK
  <2>3. CASE ~MineBegin(p) /\ ~MineLeave(p)
    <3>1. pc[p] # "idle" /\ UNCHANGED running
      BY <2>3 DEF Mine, GetData, CacheLookup, CacheFill, StartNonce, LoopNext,
                  LoopStopped, HashMisses, HashSolves, CountHash, engine
    <3> QED
      BY <3>1 DEF Exclusive
  <2> QED
    BY <2>1, <2>2, <2>3
<1> QED
  BY <1>1, <1>3, <1>4 DEF Exclusive

\* Where a step of Mine leaves its caller.
LEMMA MinePlace ==
    ASSUME TypeInv, NEW p \in Callers
    PROVE  /\ \A label : Goto(p, label) => pc'[p] = label
           /\ \A n : nonce' = [nonce EXCEPT ![p] = n] => nonce'[p] = n
           /\ \A l : lastN' = [lastN EXCEPT ![p] = l] => lastN'[p] = l
           /\ nonce[p] \in Nat /\ lastN[p] \in Nat /\ lastNonce \in Nat
           /\ MaxNonce \in Nat
<1>1. Located /\ lastNonce \in 0 .. MaxNonce
  BY TypeParts DEF Counted
<1>2. MaxNonce \in Nat
  BY EngineAssumption
<1>3. nonce[p] \in 0 .. MaxNonce /\ lastN[p] \in 0 .. MaxNonce
  BY <1>1 DEF Located
<1>4. nonce[p] \in Nat /\ lastN[p] \in Nat /\ lastNonce \in Nat
  BY <1>1, <1>2, <1>3
<1> QED
  BY <1>1, <1>2, <1>4 DEF Goto, Located

LEMMA AheadStep ==
    ASSUME TypeInv, Exclusive, SearchAhead, NEW p \in Callers, Mine(p)
    PROVE  SearchAhead'
<1>1. \A q \in Callers \ {p} : pc'[q] \notin Searching
  BY MineAlone DEF Searching, AtNonce
<1>2. ASSUME pc'[p] \in Searching PROVE lastNonce' <= nonce'[p]
  <2>1. CASE StartNonce(p)
    <3>1. nonce'[p] = lastNonce \/ lastNonce = 0
      BY <2>1, MinePlace DEF StartNonce
    <3>2. nonce'[p] \in Nat /\ lastNonce \in Nat
      <4>1. PICK n \in StartNonces \cup {lastNonce} : nonce' = [nonce EXCEPT ![p] = n]
        BY <2>1 DEF StartNonce
      <4>2. n \in Nat
        BY <4>1, EngineAssumption, MinePlace
      <4> QED
        BY <4>1, <4>2, MinePlace
    <3> QED
      BY <2>1, <3>1, <3>2 DEF StartNonce, engine
  <2>2. CASE CountHash(p)
    <3>1. lastNonce <= nonce[p]
      BY <2>2 DEF CountHash, SearchAhead, Searching, AtNonce
    <3> QED
      BY <2>2, <3>1, MinePlace DEF CountHash, engine
  <2>3. CASE CacheLookup(p) \/ CacheFill(p)
    <3>1. pc[p] \in Searching
      BY <1>2, <2>3, MinePlace DEF CacheLookup, CacheFill, Fetched, Searching, AtNonce
    <3> QED
      BY <2>3, <3>1 DEF CacheLookup, CacheFill, SearchAhead, engine
  <2>4. CASE LoopNext(p) \/ HashMisses(p)
    BY <2>4 DEF LoopNext, HashMisses, SearchAhead, Searching, AtNonce, engine
  <2>5. CASE MineBegin(p) \/ LoopStopped(p) \/ HashSolves(p) \/ MineLeave(p)
    BY <1>2, <2>5, MinePlace DEF MineBegin, LoopStopped, HashSolves, MineLeave,
                                 Searching, AtNonce
  <2> QED
    BY <2>1, <2>2, <2>3, <2>4, <2>5 DEF Mine, GetData
<1> QED
  BY <1>1, <1>2 DEF SearchAhead

\* The only caller in Mine has hashed nothing from its nonce on, nor has one
\* before it.
LEMMA NotHashed ==
    ASSUME TypeInv, Exclusive, SearchAhead, HashedBelow, ~exhausted,
           NEW p \in Callers, pc[p] = "hash"
    PROVE  nonce[p] \notin Hashed
<1>1. lastNonce <= nonce[p]
  BY DEF SearchAhead, Searching, AtNonce
<1>2. \A q \in Callers \ {p} : pc[q] = "idle"
  BY DEF Exclusive
<1>3. /\ Reach(p) = nonce[p]
      /\ \A q \in Callers \ {p} : Reach(q) = 0
  BY <1>2 DEF Reach
<1> QED
  BY <1>1, <1>3, MinePlace DEF HashedBelow

LEMMA NotSolved ==
    ASSUME TypeInv, Exclusive, SearchAhead, SolvedBelow,
           NEW p \in Callers, pc[p] = "hash"
    PROVE  <<job[p], nonce[p]>> \notin solved
<1>1. lastNonce <= nonce[p]
  BY DEF SearchAhead, Searching, AtNonce
<1>2. \A q \in Callers : pc[q] # "leave"
  BY DEF Exclusive
<1>3. SUFFICES ASSUME <<job[p], nonce[p]>> \in solved PROVE FALSE
  OBVIOUS
<1>4. nonce[p] < lastNonce
  BY <1>2, <1>3 DEF SolvedBelow
<1> QED
  BY <1>1, <1>4, MinePlace

LEMMA SolvedStep ==
    ASSUME TypeInv, Exclusive, SolvedBelow, NEW p \in Callers, Mine(p)
    PROVE  SolvedBelow'
<1>1. \A q \in Callers \ {p} : pc[q] = "idle"
  BY MineAlone
<1>2. \A h \in solved : h[2] < lastNonce \/ (pc[p] = "leave" /\ h[2] < lastN[p])
  BY <1>1 DEF SolvedBelow
<1>3. \A h \in solved : h[2] \in Nat
  BY TypeParts DEF Outcomes, Nonces
<1>4. CASE HashSolves(p)
  <2>1. solved' = solved \cup {<<job[p], nonce[p]>>} /\ pc[p] # "leave"
    BY <1>4 DEF HashSolves
  <2>2. pc'[p] = "leave" /\ lastN'[p] = nonce[p] + 1 /\ lastNonce' = lastNonce
    BY <1>4, MinePlace DEF HashSolves, engine
  <2>3. nonce[p] < lastN'[p]
    BY <2>2, MinePlace
  <2> QED
    BY <1>2, <2>1, <2>2, <2>3 DEF SolvedBelow
<1>5. CASE MineLeave(p)
  <2>1. /\ solved' = solved
        /\ lastNonce' = IF lastN[p] > lastNonce THEN lastN[p] ELSE lastNonce
    BY <1>5 DEF MineLeave, history
  <2>2. \A h \in solved : h[2] < lastNonce'
    BY <1>2, <1>3, <2>1, MinePlace
  <2> QED
    BY <2>1, <2>2 DEF SolvedBelow
<1>6. CASE ~HashSolves(p) /\ ~MineLeave(p)
  <2>1. solved' = solved /\ lastNonce' = lastNonce /\ pc[p] # "leave"
    BY <1>6 DEF Mine, GetData, MineBegin, CacheLookup, CacheFill, StartNonce,
                LoopNext, LoopStopped, HashMisses, CountHash, engine, history
  <2> QED
    BY <1>2, <2>1 DEF SolvedBelow
<1> QED
  BY <1>4, <1>5, <1>6

\* Hashing nonce[p] and counting it move the reach of p behind it.
LEMMA HashedStep ==
    ASSUME TypeInv, Exclusive, HashedBelow, NEW p \in Callers, Mine(p)
    PROVE  HashedBelow'
<1>1. \A q \in Callers \ {p} : Reach(q) = 0
  BY MineAlone DEF Reach
<1>2. Hashed \subseteq Nat
  BY TypeParts DEF Outcomes, Nonces, Hashed
<1>3. ~exhausted => \A n \in Hashed : n < lastNonce \/ n < Reach(p)
  BY <1>1, <1>2 DEF HashedBelow
<1>4. SUFFICES ASSUME ~exhausted', NEW n \in Hashed'
               PROVE  n < lastNonce' \/ n < Reach(p)'
  BY DEF HashedBelow
<1>5. CASE HashMisses(p) \/ HashSolves(p)
  <2>1. n \in Hashed \cup {nonce[p]}
    BY <1>5 DEF HashMisses, HashSolves, Hashed
  <2>2. ~exhausted /\ lastNonce' = lastNonce /\ Reach(p) = nonce[p]
    <3>1. pc[p] = "hash" /\ lastNonce' = lastNonce
      BY <1>5 DEF HashMisses, HashSolves, engine
    <3>2. exhausted' = exhausted
      BY <1>5 DEF HashMisses, HashSolves, Record
    <3> QED
      BY <1>4, <3>1, <3>2 DEF Reach
  <2>3. Reach(p)' = nonce[p] + 1
    <3>1. CASE HashMisses(p)
      BY <3>1, MinePlace DEF HashMisses, Reach
    <3>2. CASE HashSolves(p)
      BY <3>2, MinePlace DEF HashSolves, Reach
    <3> QED
      BY <1>5, <3>1, <3>2
  <2> QED
    BY <1>2, <1>3, <2>1, <2>2, <2>3, MinePlace
<1>6. CASE MineLeave(p)
  <2>1. /\ n \in Hashed /\ ~exhausted /\ Reach(p) = lastN[p]
        /\ lastNonce' = IF lastN[p] > lastNonce THEN lastN[p] ELSE lastNonce
    BY <1>4, <1>6 DEF MineLeave, Hashed, Reach, history
  <2> QED
    BY <1>2, <1>3, <2>1, MinePlace
<1>7. CASE ~HashMisses(p) /\ ~HashSolves(p) /\ ~MineLeave(p)
  <2>1. n \in Hashed /\ lastNonce' = lastNonce /\ ~exhausted
    <3>1. UNCHANGED <<solved, missed, lastNonce>>
      BY <1>7 DEF Mine, GetData, MineBegin, CacheLookup, CacheFill, StartNonce,
                  LoopNext, LoopStopped, CountHash, engine, history
    <3>2. exhausted' = exhausted \/ exhausted'
      BY <1>7 DEF Mine, GetData, MineBegin, CacheLookup, CacheFill, StartNonce,
                  LoopNext, LoopStopped, CountHash, history
    <3> QED
      BY <1>4, <3>1, <3>2 DEF Hashed
  <2>2. Reach(p)' = Reach(p) \/ Reach(p) = 0
    <3>1. CASE MineBegin(p) \/ StartNonce(p)
      BY <3>1 DEF MineBegin, StartNonce, Reach
    <3>2. CASE CacheLookup(p)
      <4>1. CASE pc[p] = "warm"
        BY <4>1 DEF Reach
      <4>2. CASE pc[p] = "data"
        <5>1. pc'[p] \in {"data fill", "hash"} /\ nonce' = nonce
          BY <3>2, <4>2, MinePlace DEF CacheLookup, Fetched
        <5> QED
          BY <4>2, <5>1 DEF Reach
      <4> QED
        BY <3>2, <4>1, <4>2 DEF CacheLookup
    <3>3. CASE CacheFill(p)
      <4>1. CASE pc[p] = "warm fill"
        BY <4>1 DEF Reach
      <4>2. CASE pc[p] = "data fill"
        <5>1. pc'[p] = "hash" /\ nonce' = nonce
          BY <3>3, <4>2, MinePlace DEF CacheFill, Fetched
        <5> QED
          BY <4>2, <5>1 DEF Reach
      <4> QED
        BY <3>3, <4>1, <4>2 DEF CacheFill
    <3>4. CASE LoopNext(p)
      <4>1. pc[p] = "loop" /\ pc'[p] = "data" /\ nonce' = nonce
        BY <1>4, <3>4, MinePlace DEF LoopNext
      <4> QED
        BY <4>1 DEF Reach
    <3>5. CASE LoopStopped(p)
      <4>1. pc[p] = "loop" /\ pc'[p] = "leave" /\ lastN'[p] = nonce[p]
        BY <3>5, MinePlace DEF LoopStopped
      <4> QED
        BY <4>1 DEF Reach
    <3>6. CASE CountHash(p)
      <4>1. pc[p] = "count" /\ pc'[p] = "loop" /\ nonce'[p] = nonce[p] + 1
        BY <3>6, MinePlace DEF CountHash, TypeInv, TypeOK
      <4> QED
        BY <4>1 DEF Reach
    <3> QED
      BY <1>7, <3>1, <3>2, <3>3, <3>4, <3>5, <3>6 DEF Mine, GetData
  <2> QED
    BY <1>2, <1>3, <2>1, <2>2
<1> QED
  BY <1>5, <1>6, <1>7

\* A hash is counted by the step after it, or is a new solution.
LEMMA TallyStep ==
    ASSUME TypeInv, Exclusive, SearchAhead, SolvedBelow, Tally,
           NEW p \in Callers, Mine(p)
    PROVE  Tally'
<1>1. \A q \in Callers \ {p} : pc[q] = "idle" /\ pc'[q] = "idle"
  BY MineAlone
<1>2. /\ Counting = IF pc[p] = "count" THEN {p} ELSE {}
      /\ Counting' = IF pc'[p] = "count" THEN {p} ELSE {}
  BY <1>1 DEF Counting
<1>3. /\ tried \in Nat /\ hashCount \in Nat /\ Cardinality(solved) \in Nat
      /\ Cardinality({}) = 0 /\ Cardinality({p}) = 1
  BY TypeParts, FS_EmptySet, FS_Singleton, FS_CardinalityType DEF Counted, Tally
<1>4. CASE HashMisses(p)
  <2>1. /\ Counting = {} /\ Counting' = {p}
        /\ tried' = tried + 1 /\ UNCHANGED <<hashCount, solved>>
    BY <1>2, <1>4, MinePlace DEF HashMisses, Record
  <2>2. Cardinality(Counting) = 0 /\ Cardinality(Counting') = 1
    BY <1>3, <2>1
  <2>3. tried = hashCount + Cardinality(solved) + 0
    BY <2>2 DEF Tally
  <2>4. tried' = hashCount' + Cardinality(solved') + 1
    BY <1>3, <2>1, <2>3
  <2> QED
    BY <2>1, <2>2, <2>4 DEF Tally
<1>5. CASE HashSolves(p)
  <2>1. /\ Counting = {} /\ Counting' = {}
        /\ tried' = tried + 1 /\ UNCHANGED hashCount
        /\ solved' = solved \cup {<<job[p], nonce[p]>>}
    BY <1>2, <1>5, MinePlace DEF HashSolves, Record
  <2>2. <<job[p], nonce[p]>> \notin solved
    BY <1>5, NotSolved DEF HashSolves
  <2>3. IsFiniteSet(solved') /\ Cardinality(solved') = Cardinality(solved) + 1
    BY <2>1, <2>2, FS_AddElement DEF Tally
  <2>4. Cardinality(Counting) = 0 /\ Cardinality(Counting') = 0
    BY <1>3, <2>1
  <2>5. tried = hashCount + Cardinality(solved) + 0
    BY <2>4 DEF Tally
  <2>6. tried' = hashCount' + Cardinality(solved') + 0
    BY <1>3, <2>1, <2>3, <2>5
  <2> QED
    BY <2>3, <2>4, <2>6 DEF Tally
<1>6. CASE CountHash(p)
  <2>1. /\ Counting = {p} /\ Counting' = {}
        /\ hashCount' = hashCount + 1 /\ UNCHANGED <<tried, solved>>
    BY <1>2, <1>6, MinePlace DEF CountHash, history
  <2> QED
    BY <1>3, <2>1 DEF Tally
<1>7. CASE ~HashMisses(p) /\ ~HashSolves(p) /\ ~CountHash(p)
  <2>1. UNCHANGED <<tried, solved, hashCount>> /\ pc[p] # "count"
    BY <1>7 DEF Mine, GetData, MineBegin, CacheLookup, CacheFill, StartNonce,
                LoopNext, LoopStopped, MineLeave, engine, history
  <2>2. pc'[p] # "count"
    BY <1>7, MinePlace
       DEF Mine, GetData, MineBegin, CacheLookup, CacheFill, Fetched, StartNonce,
           LoopNext, LoopStopped, MineLeave
  <2> QED
    BY <1>2, <2>1, <2>2 DEF Tally
<1> QED
  BY <1>4, <1>5, <1>6, <1>7

LEMMA NonceNext == TypeInv /\ NonceInv /\ [Next]_vars => NonceInv'
<1> SUFFICES ASSUME TypeInv, NonceInv, [Next]_vars, stops' = 0 PROVE NonceInv'
  BY DEF NonceInv
<1>1. ASSUME NEW p \in Callers, Mine(p) PROVE NonceInv'
  <2>1. stops = 0
    BY <1>1 DEF Mine, GetData, MineBegin, CacheLookup, CacheFill, StartNonce,
                LoopNext, LoopStopped, HashMisses, HashSolves, CountHash,
                MineLeave, bounds
  <2>2. /\ Exclusive /\ SearchAhead /\ HashedBelow /\ SolvedBelow
        /\ ~exhausted => rehashed = {}
        /\ repeated = {}
        /\ Tally
    BY <2>1 DEF NonceInv
  <2>3. Exclusive' /\ SearchAhead' /\ HashedBelow' /\ SolvedBelow' /\ Tally'
    BY <1>1, <2>2, MineAlone, AheadStep, HashedStep, SolvedStep, TallyStep
  <2>4. ~exhausted' => rehashed' = {}
    <3>1. CASE HashMisses(p) \/ HashSolves(p)
      <4>1. /\ pc[p] = "hash" /\ exhausted' = exhausted
            /\ rehashed' = rehashed \cup ({nonce[p]} \cap Hashed)
        BY <3>1 DEF HashMisses, HashSolves, Record
      <4>2. ~exhausted => nonce[p] \notin Hashed
        BY <2>2, <4>1, NotHashed
      <4> QED
        BY <2>2, <4>1, <4>2
    <3>2. CASE ~HashMisses(p) /\ ~HashSolves(p)
      <4>1. rehashed' = rehashed
        BY <1>1, <3>2 DEF Mine, GetData, MineBegin, CacheLookup, CacheFill,
             StartNonce, LoopNext, LoopStopped, CountHash, MineLeave, history
      <4>2. exhausted' = exhausted \/ exhausted'
        BY <1>1, <3>2 DEF Mine, GetData, MineBegin, CacheLookup, CacheFill,
             StartNonce, LoopNext, LoopStopped, CountHash, MineLeave, history
      <4> QED
        BY <2>2, <4>1, <4>2
    <3> QED
      BY <3>1, <3>2
  <2>5. repeated' = {}
    <3>1. CASE HashSolves(p)
      <4>1. /\ pc[p] = "hash"
            /\ repeated' = repeated \cup ({<<job[p], nonce[p]>>} \cap solved)
        BY <3>1 DEF HashSolves
      <4>2. <<job[p], nonce[p]>> \notin solved
        BY <2>2, <4>1, NotSolved
      <4> QED
        BY <2>2, <4>1, <4>2
    <3>2. CASE ~HashSolves(p)
      <4>1. repeated' = repeated
        BY <1>1, <3>2 DEF Mine, GetData, MineBegin, CacheLookup, CacheFill,
             StartNonce, LoopNext, LoopStopped, HashMisses, CountHash, MineLeave,
             history
      <4> QED
        BY <2>2, <4>1
    <3> QED
      BY <3>1, <3>2
  <2> QED
    BY <2>3, <2>4, <2>5 DEF NonceInv
<1>2. CASE EngineStop
  <2>1. stops' = stops + 1 /\ stops \in Nat
    <3>1. stops \in 0 .. MaxStops /\ MaxStops \in Nat
      BY TypeParts, EngineAssumption DEF Counted
    <3>2. stops' = stops + 1
      BY <1>2 DEF EngineStop
    <3> QED
      BY <3>1, <3>2
  <2> QED
    BY <2>1
<1>3. CASE UNCHANGED vars
  BY <1>3 DEF vars, NonceInv, Exclusive, SearchAhead, HashedBelow, SolvedBelow,
              Tally, Counting, Hashed, Reach, engine, search, bounds, history
<1> QED
  BY <1>1, <1>2, <1>3 DEF Next

LEMMA NonceCorrect == Spec => []NonceInv
  BY TypeInit, TypeNext, NonceInit, NonceNext, PTL DEF Spec

\* Without Stop no nonce is hashed twice before the range is exhausted, for
\* any length of the range and any stops, solutions and changes of job.
THEOREM NoRescanCorrect == Spec => []NoRescan
<1>1. NonceInv => NoRescan
  BY DEF NonceInv, NoRescan
<1> QED
  BY <1>1, NonceCorrect, PTL

\* Nor is a solution ever returned twice, though the end of the range is
\* searched again.
THEOREM NoDuplicateShareCorrect == Spec => []NoDuplicateShare
<1>1. NonceInv => NoDuplicateShare
  BY DEF NonceInv, NoDuplicateShare
<1> QED
  BY <1>1, NonceCorrect, PTL

\* HashCount is documented as "the true cumulative total" (engine.go:162-164).
\* It falls short of the hashes tried by every solution, and by the misses
\* about to be counted: so much and no more, through any stops of the search,
\* jobs and rescans.
THEOREM HashCountFallsShort ==
    Spec => [](stops = 0 =>
                 tried = hashCount + Cardinality(solved)
                           + Cardinality({p \in Callers : pc[p] = "count"}))
<1>1. NonceInv => (stops = 0 =>
                     tried = hashCount + Cardinality(solved)
                               + Cardinality({p \in Callers : pc[p] = "count"}))
  BY DEF NonceInv, Tally, Counting
<1> QED
  BY <1>1, NonceCorrect, PTL

(***************************************************************************)
(* Targets, hashes and fixed-point numbers.                                *)
(***************************************************************************)

\* A target is never 0, which no hash would meet, and never above the maximum:
\* it is the quotient, or 1 beyond it (engine.go:228).
THEOREM TargetIsQuotient ==
    ASSUME NEW maxTarget \in Nat \ {0}, NEW difficulty \in Int
    PROVE  LET target == DifficultyToTarget(difficulty, maxTarget)
           IN /\ target \in 1 .. maxTarget
              /\ difficulty < 1 => target = maxTarget
              /\ difficulty \in 1 .. maxTarget =>
                     /\ target * difficulty <= maxTarget
                     /\ maxTarget < (target + 1) * difficulty
              /\ difficulty > maxTarget => target = 1
<1> DEFINE q == maxTarget \div difficulty
           r == maxTarget % difficulty
<1>1. CASE difficulty < 1
  BY <1>1 DEF DifficultyToTarget
<1>2. CASE difficulty >= 1
  <2>1. q \in Int /\ r \in 0 .. difficulty - 1 /\ maxTarget = q * difficulty + r
    BY <1>2
  <2> HIDE DEF q, r
  <2>2. q >= 0
    <3>1. CASE q <= -1
      <4>1. q * difficulty <= -difficulty
        BY <1>2, <2>1, <3>1
      <4> QED
        BY <1>2, <2>1, <4>1
    <3> QED
      BY <2>1, <3>1
  <2>3. q <= maxTarget
    <3>1. q * difficulty >= q
      BY <1>2, <2>1, <2>2
    <3> QED
      BY <2>1, <3>1
  <2>4. DifficultyToTarget(difficulty, maxTarget) = IF q = 0 THEN 1 ELSE q
    BY <1>2 DEF DifficultyToTarget, q
  <2>5. CASE q = 0
    BY <1>2, <2>1, <2>4, <2>5
  <2>6. CASE q # 0
    <3>1. q \in 1 .. maxTarget
      BY <2>1, <2>2, <2>3, <2>6
    <3>2. q * difficulty <= maxTarget /\ maxTarget < (q + 1) * difficulty
      BY <1>2, <2>1
    <3>3. difficulty <= maxTarget
      BY <1>2, <2>1, <3>1, <3>2
    <3> QED
      BY <1>2, <2>4, <2>6, <3>1, <3>2, <3>3
  <2> QED
    BY <2>5, <2>6
<1> QED
  BY <1>1, <1>2

\* A harder job never has an easier target.
THEOREM HarderIsLower ==
    ASSUME NEW maxTarget \in Nat \ {0}, NEW d \in Int, NEW e \in Int, d <= e, d >= 1
    PROVE  DifficultyToTarget(e, maxTarget) <= DifficultyToTarget(d, maxTarget)
<1> DEFINE s == DifficultyToTarget(d, maxTarget)
           t == DifficultyToTarget(e, maxTarget)
<1>1. s \in 1 .. maxTarget /\ t \in 1 .. maxTarget
  BY TargetIsQuotient
<1>2. CASE e > maxTarget
  <2>1. t = 1
    BY <1>2, TargetIsQuotient
  <2> QED
    BY <1>1, <2>1
<1>3. CASE e <= maxTarget
  <2>1. t * e <= maxTarget /\ maxTarget < (s + 1) * d
    BY <1>3, TargetIsQuotient
  <2> HIDE DEF s, t
  <2>2. t * d <= t * e
    BY <1>1
  <2>3. t * d < (s + 1) * d
    BY <1>1, <2>1, <2>2
  <2>4. ASSUME t > s PROVE FALSE
    <3>1. t * d >= (s + 1) * d
      BY <1>1, <2>4
    <3> QED
      BY <1>1, <2>3, <3>1
  <2>5. t <= s
    BY <1>1, <2>4
  <2> QED
    BY <2>5 DEF s, t
<1> QED
  BY <1>2, <1>3

\* Fixed-point numbers of 24 bits keep every int8, saturate outside of its range
\* instead of wrapping, and keep the order (engine.go:551).
FixedPointFactor == 16777216

THEOREM FixedKeepsInt8 ==
    /\ \A v \in -128 .. 127 :
         FromFixed(ToFixedShift(v, FixedPointFactor), FixedPointFactor) = v
    /\ \A v \in Int : FromFixed(v, FixedPointFactor) \in -128 .. 127
    /\ \A v, w \in Int :
         v <= w => FromFixed(v, FixedPointFactor) <= FromFixed(w, FixedPointFactor)
<1> DEFINE F == FixedPointFactor
           R(v) == (v + 8388608) \div 16777216
<1>1. \A v \in Int : Rounded(v, F) = R(v)
  BY DEF Rounded, FixedPointFactor
<1>2. \A v \in Int : R(v) \in Int
  OBVIOUS
<1>3. \A v \in -128 .. 127 : R(v * 16777216) = v
  OBVIOUS
<1>4. \A v, w \in Int : v <= w => R(v) <= R(w)
  OBVIOUS
<1>5. \A v \in -128 .. 127 : ToFixedShift(v, F) = v * 16777216 /\ v * 16777216 \in Int
  BY DEF ToFixedShift, FixedPointFactor
<1> HIDE DEF R, F
<1>6. \A v \in Int : FromFixed(v, F) =
         IF R(v) > 127 THEN 127 ELSE IF R(v) < -128 THEN -128 ELSE R(v)
  BY <1>1 DEF FromFixed
<1>7. \A v \in -128 .. 127 : FromFixed(ToFixedShift(v, F), F) = v
  BY <1>3, <1>5, <1>6
<1>8. \A v \in Int : FromFixed(v, F) \in -128 .. 127
  <2> TAKE v \in Int
  <2>1. R(v) \in Int
    BY <1>2
  <2>2. \A n \in Int :
          (IF n > 127 THEN 127 ELSE IF n < -128 THEN -128 ELSE n) \in -128 .. 127
    OBVIOUS
  <2> QED
    BY <1>6, <2>1, <2>2
<1>9. \A v, w \in Int : v <= w => FromFixed(v, F) <= FromFixed(w, F)
  BY <1>2, <1>4, <1>6
<1> QED
  BY <1>7, <1>8, <1>9 DEF F

\* A hash has the length it is asked for: the low end of the bytes it is made
\* from, after zeros if they are too few (engine.go:393).
THEOREM HashHasItsLength ==
    ASSUME NEW Byte, 0 \in Byte, NEW b \in Seq(Byte), NEW length \in Nat
    PROVE  /\ BytesToHash(b, length) \in Seq(Byte)
           /\ Len(BytesToHash(b, length)) = length
           /\ \A i \in 1 .. length :
                BytesToHash(b, length)[i] =
                  IF i + Len(b) > length THEN b[i + Len(b) - length] ELSE 0
<1>1. Len(b) \in Nat
  OBVIOUS
<1>2. CASE Len(b) > length
  BY <1>1, <1>2 DEF BytesToHash
<1>3. CASE ~(Len(b) > length)
  <2> DEFINE zeros == [i \in 1 .. length - Len(b) |-> 0]
  <2>1. zeros \in Seq(Byte) /\ Len(zeros) = length - Len(b)
    BY <1>1, <1>3
  <2>2. BytesToHash(b, length) = zeros \o b
    BY <1>3 DEF BytesToHash
  <2>3. \A i \in 1 .. length - Len(b) : zeros[i] = 0
    OBVIOUS
  <2> HIDE DEF zeros
  <2>4. ASSUME NEW i \in 1 .. length
        PROVE  (zeros \o b)[i] =
                 IF i + Len(b) > length THEN b[i + Len(b) - length] ELSE 0
    BY <1>1, <1>3, <2>1, <2>3
  <2> QED
    BY <1>1, <1>3, <2>1, <2>2, <2>4
<1> QED
  BY <1>2, <1>3

(***************************************************************************)
(* The order of blocks, bytes and words.                                   *)
(***************************************************************************)

\* blockMix sends the blocks to the 2 * r places one to one, the even ones
\* first.
THEOREM BlocksEvenFirst ==
    ASSUME NEW r \in Nat
    PROVE  /\ {BlockPlace(i, r) : i \in 0 .. 2 * r - 1} = 0 .. 2 * r - 1
           /\ \A i, j \in 0 .. 2 * r - 1 :
                BlockPlace(i, r) < BlockPlace(j, r) <=>
                    i % 2 < j % 2 \/ (i % 2 = j % 2 /\ i < j)
<1>1. ASSUME NEW i \in 0 .. 2 * r - 1
      PROVE  \/ i % 2 = 0 /\ i = 2 * (i \div 2) /\ BlockPlace(i, r) = i \div 2
             \/ i % 2 = 1 /\ i = 2 * (i \div 2) + 1 /\ BlockPlace(i, r) = r + (i \div 2)
  <2>1. \/ i % 2 = 0 /\ i = 2 * (i \div 2)
        \/ i % 2 = 1 /\ i = 2 * (i \div 2) + 1
    OBVIOUS
  <2>2. i \div 2 \in Int
    OBVIOUS
  <2> QED
    BY <2>1, <2>2 DEF BlockPlace
<1>2. ASSUME NEW i \in 0 .. 2 * r - 1
      PROVE  i \div 2 \in 0 .. r - 1 /\ BlockPlace(i, r) \in 0 .. 2 * r - 1
  <2>1. i \div 2 \in Int
    OBVIOUS
  <2> QED
    BY <1>1, <2>1
<1>3. ASSUME NEW p \in 0 .. 2 * r - 1
      PROVE  \E i \in 0 .. 2 * r - 1 : BlockPlace(i, r) = p
  <2>1. CASE p < r
    <3>1. 2 * p \in 0 .. 2 * r - 1 /\ (2 * p) % 2 = 0 /\ (2 * p) \div 2 = p
      BY <2>1
    <3>2. BlockPlace(2 * p, r) = p
      BY <3>1 DEF BlockPlace
    <3> QED
      BY <3>1, <3>2
  <2>2. CASE p >= r
    <3> DEFINE i == 2 * (p - r) + 1
    <3>1. i \in 0 .. 2 * r - 1 /\ i % 2 = 1 /\ i \div 2 = p - r
      BY <2>2
    <3>2. BlockPlace(i, r) = p
      BY <3>1 DEF BlockPlace
    <3> QED
      BY <3>1, <3>2
  <2> QED
    BY <2>1, <2>2
<1>4. {BlockPlace(i, r) : i \in 0 .. 2 * r - 1} = 0 .. 2 * r - 1
  BY <1>2, <1>3
<1>5. ASSUME NEW i \in 0 .. 2 * r - 1, NEW j \in 0 .. 2 * r - 1
      PROVE  BlockPlace(i, r) < BlockPlace(j, r) <=>
                 i % 2 < j % 2 \/ (i % 2 = j % 2 /\ i < j)
  <2> DEFINE hi == i \div 2
             hj == j \div 2
             pi == i % 2
             pj == j % 2
  <2>1. hi \in 0 .. r - 1 /\ hj \in 0 .. r - 1
    BY <1>2
  <2>2. \/ pi = 0 /\ i = 2 * hi /\ BlockPlace(i, r) = hi
        \/ pi = 1 /\ i = 2 * hi + 1 /\ BlockPlace(i, r) = r + hi
    BY <1>1
  <2>3. \/ pj = 0 /\ j = 2 * hj /\ BlockPlace(j, r) = hj
        \/ pj = 1 /\ j = 2 * hj + 1 /\ BlockPlace(j, r) = r + hj
    BY <1>1
  <2> HIDE DEF hi, hj, pi, pj
  <2>4. BlockPlace(i, r) < BlockPlace(j, r) <=> pi < pj \/ (pi = pj /\ i < j)
    BY <2>1, <2>2, <2>3
  <2> QED
    BY <2>4 DEF pi, pj
<1> QED
  BY <1>4, <1>5

\* Each byte of a row of the matrix goes into one word of the hash: the columns
\* of the words cover the row and do not meet.
THEOREM RowBytesAllUsed ==
    ASSUME NEW size \in Nat, size % 4 = 0
    PROVE  LET words == 0 .. (size \div 4) - 1
           IN /\ UNION {WordColumns(j, size) : j \in words} = 0 .. size - 1
              /\ \A i, j \in words :
                   WordColumns(i, size) \cap WordColumns(j, size) # {} => i = j
<1> DEFINE n == size \div 4
           words == 0 .. n - 1
<1>1. n \in Nat /\ size = 4 * n
  OBVIOUS
<1>2. \A j : WordColumns(j, size) = {j + q * n : q \in 0 .. 3}
  BY DEF WordColumns
<1> HIDE DEF n
<1>3. ASSUME NEW i \in words, NEW j \in words,
             WordColumns(i, size) \cap WordColumns(j, size) # {}
      PROVE  i = j
  <2>1. PICK q \in 0 .. 3, s \in 0 .. 3 : i + q * n = j + s * n
    BY <1>2, <1>3
  <2>2. q \in {0, 1, 2, 3} /\ s \in {0, 1, 2, 3}
    OBVIOUS
  <2>3. q * n \in {0, n, 2 * n, 3 * n} /\ s * n \in {0, n, 2 * n, 3 * n}
    BY <1>1, <2>2
  <2> QED
    BY <1>1, <2>1, <2>2, <2>3
<1>4. ASSUME NEW j \in words
      PROVE  WordColumns(j, size) = {j, j + n, j + 2 * n, j + 3 * n}
  <2>1. 0 .. 3 = {0, 1, 2, 3}
    OBVIOUS
  <2>2. \A c : c \in WordColumns(j, size) <=>
                 c \in {j + 0 * n, j + 1 * n, j + 2 * n, j + 3 * n}
    BY <1>2, <2>1
  <2> QED
    BY <1>1, <2>2
<1>5. ASSUME NEW c \in 0 .. size - 1
      PROVE  \E j \in words : c \in WordColumns(j, size)
  <2>1. \E j \in words : c \in {j, j + n, j + 2 * n, j + 3 * n}
    <3>1. CASE c < n
      BY <1>1, <3>1
    <3>2. CASE n <= c /\ c < 2 * n
      <4>1. c - n \in words /\ c = (c - n) + n
        BY <1>1, <3>2
      <4> QED
        BY <4>1
    <3>3. CASE 2 * n <= c /\ c < 3 * n
      <4>1. c - 2 * n \in words /\ c = (c - 2 * n) + 2 * n
        BY <1>1, <3>3
      <4> QED
        BY <4>1
    <3>4. CASE 3 * n <= c
      <4>1. c - 3 * n \in words /\ c = (c - 3 * n) + 3 * n
        BY <1>1, <3>4
      <4> QED
        BY <4>1
    <3> QED
      BY <1>1, <3>1, <3>2, <3>3, <3>4
  <2> QED
    BY <1>4, <2>1
<1>6. \A j \in words : WordColumns(j, size) \subseteq 0 .. size - 1
  BY <1>1, <1>4
<1>7. UNION {WordColumns(j, size) : j \in words} = 0 .. size - 1
  BY <1>5, <1>6
<1> QED
  BY <1>3, <1>7 DEF n

\* Quotient and remainder of a number put together from both.
LEMMA DivMod ==
    ASSUME NEW d \in Nat \ {0}, NEW q \in Nat, NEW r \in 0 .. d - 1
    PROVE  (q * d + r) \div d = q /\ (q * d + r) % d = r
<1> DEFINE a == q * d + r
           x == a \div d
           y == a % d
<1>1. a \in Nat
  <2>1. q * d \in Nat
    OBVIOUS
  <2> QED
    BY <2>1
<1>2. x \in Int /\ y \in 0 .. d - 1 /\ a = x * d + y
  BY <1>1
<1> HIDE DEF x, y
<1>3. ASSUME x < q PROVE FALSE
  <2>1. (x + 1) * d <= q * d
    BY <1>2, <1>3
  <2> QED
    BY <1>2, <2>1
<1>4. ASSUME x > q PROVE FALSE
  <2>1. (q + 1) * d <= x * d
    BY <1>2, <1>4
  <2> QED
    BY <1>2, <2>1
<1>5. x = q
  BY <1>2, <1>3, <1>4
<1>6. y = r
  BY <1>2, <1>5
<1> QED
  BY <1>5, <1>6 DEF x, y

\* The two digits of a number below n * d.
LEMMA Digits ==
    ASSUME NEW d \in Nat \ {0}, NEW n \in Nat, NEW a \in 0 .. n * d - 1
    PROVE  /\ a \div d \in 0 .. n - 1 /\ a % d \in 0 .. d - 1
           /\ a = (a \div d) * d + (a % d)
<1> DEFINE x == a \div d
           y == a % d
<1>1. n * d \in Nat /\ a \in Nat /\ a < n * d
  OBVIOUS
<1>2. x \in Int /\ y \in 0 .. d - 1 /\ a = x * d + y
  BY <1>1
<1> HIDE DEF x, y
<1>3. ASSUME x < 0 PROVE FALSE
  <2>1. x * d <= -d
    BY <1>2, <1>3
  <2> QED
    BY <1>1, <1>2, <2>1
<1>4. ASSUME x >= n PROVE FALSE
  <2>1. n * d <= x * d
    BY <1>2, <1>4
  <2> QED
    BY <1>1, <1>2, <2>1
<1>5. x \in 0 .. n - 1
  BY <1>2, <1>3, <1>4
<1> QED
  BY <1>2, <1>5 DEF x, y

\* The same, for d = 2.
LEMMA BinaryDigit ==
    ASSUME NEW n \in Nat, NEW a \in 0 .. n * 2 - 1
    PROVE  /\ a \div 2 \in 0 .. n - 1 /\ a % 2 \in 0 .. 1
           /\ a = (a \div 2) * 2 + (a % 2)
  OBVIOUS

\* A number put together from two digits.
LEMMA FromDigits ==
    ASSUME NEW d \in Nat \ {0}, NEW n \in Nat, NEW q \in 0 .. n - 1, NEW r \in 0 .. d - 1
    PROVE  q * d + r \in 0 .. n * d - 1
<1>1. q * d >= 0 /\ (q + 1) * d <= n * d
  OBVIOUS
<1>2. (q + 1) * d = q * d + d /\ q * d \in Int /\ n * d \in Int
  OBVIOUS
<1> QED
  BY <1>1, <1>2

\* The place of word w of the given half of a line of a chunk, and the word of
\* the cache that comes there.
PlaceOf(chunk, half, line, w, lines, width) ==
    ((chunk * 2 + half) * lines + line) * width + w
WordOf(chunk, half, line, w, lines, width) ==
    ((chunk * lines + line) * 2 + half) * width + w

LEMMA CacheWordOf ==
    ASSUME NEW lines \in Nat \ {0}, NEW width \in Nat \ {0}, NEW chunk \in Nat,
           NEW half \in 0 .. 1, NEW line \in 0 .. lines - 1, NEW w \in 0 .. width - 1
    PROVE  CacheWord(PlaceOf(chunk, half, line, w, lines, width), lines, width)
             = WordOf(chunk, half, line, w, lines, width)
<1> DEFINE lw     == lines * width
           inside == half * lw + (line * width + w)
           place  == ((chunk * 2 + half) * lines + line) * width + w
<1>1. lw \in Nat \ {0} /\ 2 * lw \in Nat \ {0} /\ 2 * lines * width = 2 * lw
  OBVIOUS
<1>2. line * width + w \in 0 .. lw - 1
  BY FromDigits
<1> HIDE DEF lw
<1>3. inside \in 0 .. 2 * lw - 1
  BY <1>1, <1>2, FromDigits
<1>4. place = chunk * (2 * lw) + inside
  BY DEF lw
<1>5. place \div (2 * lw) = chunk /\ place % (2 * lw) = inside
  <2> HIDE DEF place, inside
  <2> QED
    BY <1>1, <1>3, <1>4, DivMod
<1>6. inside \div lw = half /\ inside % lw = line * width + w
  BY <1>1, <1>2, DivMod
<1>7. (line * width + w) \div width = line
  BY DivMod
<1>8. place % width = w
  <2> DEFINE q == (chunk * 2 + half) * lines + line
  <2>1. q \in Nat
    OBVIOUS
  <2> HIDE DEF q
  <2>2. (q * width + w) % width = w
    BY <2>1, DivMod
  <2> QED
    BY <2>2 DEF q
<1> HIDE DEF place, inside
<1>9. CacheWord(place, lines, width) =
        chunk * 2 * lines * width + line * 2 * width + half * width + w
  BY <1>1, <1>5, <1>6, <1>7, <1>8 DEF CacheWord, lw
<1>10. chunk * 2 * lines * width + line * 2 * width + half * width + w
         = ((chunk * lines + line) * 2 + half) * width + w
  OBVIOUS
<1> QED
  BY <1>9, <1>10 DEF place, PlaceOf, WordOf

\* Splitting the chunks of the cache in two moves its words about, and leaves
\* none of them out.
THEOREM CacheWordsAllUsed ==
    ASSUME NEW chunks \in Nat, NEW lines \in Nat \ {0}, NEW width \in Nat \ {0}
    PROVE  LET places == 0 .. chunks * 2 * lines * width - 1
           IN {CacheWord(p, lines, width) : p \in places} = places
<1> DEFINE places == 0 .. chunks * 2 * lines * width - 1
<1>1. ASSUME NEW c \in 0 .. chunks - 1, NEW h \in 0 .. 1,
             NEW l \in 0 .. lines - 1, NEW w \in 0 .. width - 1
      PROVE  /\ PlaceOf(c, h, l, w, lines, width) \in places
             /\ WordOf(c, h, l, w, lines, width) \in places
             /\ CacheWord(PlaceOf(c, h, l, w, lines, width), lines, width)
                  = WordOf(c, h, l, w, lines, width)
  <2>1. c * 2 + h \in 0 .. chunks * 2 - 1 /\ chunks * 2 \in Nat
    BY FromDigits
  <2>2. (c * 2 + h) * lines + l \in 0 .. chunks * 2 * lines - 1
        /\ chunks * 2 * lines \in Nat
    BY <2>1, FromDigits
  <2>3. PlaceOf(c, h, l, w, lines, width) \in places
    BY <2>2, FromDigits DEF PlaceOf
  <2>4. c * lines + l \in 0 .. chunks * lines - 1 /\ chunks * lines \in Nat
    BY FromDigits
  <2>5. (c * lines + l) * 2 + h \in 0 .. (chunks * lines) * 2 - 1
        /\ (chunks * lines) * 2 \in Nat
    BY <2>4, FromDigits
  <2>6. WordOf(c, h, l, w, lines, width) \in 0 .. ((chunks * lines) * 2) * width - 1
    BY <2>5, FromDigits DEF WordOf
  <2>7. ((chunks * lines) * 2) * width = chunks * 2 * lines * width
    OBVIOUS
  <2>8. CacheWord(PlaceOf(c, h, l, w, lines, width), lines, width)
          = WordOf(c, h, l, w, lines, width)
    <3>1. c \in Nat
      OBVIOUS
    <3> QED
      BY <3>1, CacheWordOf
  <2> QED
    BY <2>3, <2>6, <2>7, <2>8
<1>2. ASSUME NEW p \in places
      PROVE  \E c \in 0 .. chunks - 1, h \in 0 .. 1, l \in 0 .. lines - 1,
                w \in 0 .. width - 1 : p = PlaceOf(c, h, l, w, lines, width)
  <2> DEFINE a == p \div width
             b == a \div lines
  <2>1. chunks * 2 \in Nat /\ chunks * 2 * lines \in Nat
    OBVIOUS
  <2>2. a \in 0 .. chunks * 2 * lines - 1 /\ p % width \in 0 .. width - 1
        /\ p = a * width + (p % width)
    BY <2>1, Digits
  <2> HIDE DEF a
  <2>3. b \in 0 .. chunks * 2 - 1 /\ a % lines \in 0 .. lines - 1
        /\ a = b * lines + (a % lines)
    BY <2>1, <2>2, Digits
  <2> HIDE DEF b
  <2>4. b \div 2 \in 0 .. chunks - 1 /\ b % 2 \in 0 .. 1 /\ b = (b \div 2) * 2 + (b % 2)
    BY <2>3, BinaryDigit
  <2>5. p = PlaceOf(b \div 2, b % 2, a % lines, p % width, lines, width)
    BY <2>2, <2>3, <2>4 DEF PlaceOf
  <2> QED
    BY <2>2, <2>3, <2>4, <2>5
<1>3. ASSUME NEW p \in places
      PROVE  \E c \in 0 .. chunks - 1, h \in 0 .. 1, l \in 0 .. lines - 1,
                w \in 0 .. width - 1 : p = WordOf(c, h, l, w, lines, width)
  <2> DEFINE a == p \div width
             b == a \div 2
  <2>1. chunks * lines \in Nat /\ (chunks * lines) * 2 \in Nat
        /\ chunks * 2 * lines * width = ((chunks * lines) * 2) * width
    OBVIOUS
  <2>2. a \in 0 .. (chunks * lines) * 2 - 1 /\ p % width \in 0 .. width - 1
        /\ p = a * width + (p % width)
    BY <2>1, Digits
  <2> HIDE DEF a
  <2>3. b \in 0 .. chunks * lines - 1 /\ a % 2 \in 0 .. 1 /\ a = b * 2 + (a % 2)
    BY <2>1, <2>2, BinaryDigit
  <2> HIDE DEF b
  <2>4. b \div lines \in 0 .. chunks - 1 /\ b % lines \in 0 .. lines - 1
        /\ b = (b \div lines) * lines + (b % lines)
    BY <2>3, Digits
  <2>5. p = WordOf(b \div lines, a % 2, b % lines, p % width, lines, width)
    BY <2>2, <2>3, <2>4 DEF WordOf
  <2> QED
    BY <2>2, <2>3, <2>4, <2>5
<1> HIDE DEF places
<1>4. \A p \in places : CacheWord(p, lines, width) \in places
  BY <1>1, <1>2
<1>5. \A q \in places : \E p \in places : CacheWord(p, lines, width) = q
  BY <1>1, <1>3
<1>6. {CacheWord(p, lines, width) : p \in places} = places
  BY <1>4, <1>5
<1> QED
  BY <1>6 DEF places

(***************************************************************************)
(* The blocked product of matrices.  The community modules' sum over a set *)
(* takes its elements in an order of its own; by induction over the        *)
(* subsets of a finite set the order does not matter.  Each index is in    *)
(* one block, so an entry is visited once for each of its products.        *)
(***************************************************************************)
LEMMA LeastNumber ==
    ASSUME NEW T, T \subseteq Nat, T # {}
    PROVE  \E n \in T : \A m \in T : n <= m
<1>1. PICK n \in T : \A m \in T : ~ (<<m, n>> \in OpToRel(<, Nat))
  BY WFMin, NatLessThanWellFounded
<1>2. \A m \in T : ~ (m < n)
  BY <1>1 DEF OpToRel
<1> QED
  BY <1>2

\* Induction over numbers: a set of them has a least one, here the first that
\* is not good.
LEMMA CountingUp ==
    ASSUME NEW n \in Nat, NEW Good, 0 \in Good,
           \A k \in 1 .. n : k - 1 \in Good => k \in Good
    PROVE  n \in Good
<1> DEFINE Bad == {k \in 0 .. n : k \notin Good}
<1> SUFFICES ASSUME Bad # {} PROVE FALSE
  OBVIOUS
<1>1. PICK k \in Bad : \A m \in Bad : k <= m
  <2>1. Bad \subseteq Nat
    OBVIOUS
  <2> QED
    BY <2>1, LeastNumber
<1>2. k # 0 /\ k \in 1 .. n
  BY <1>1
<1>3. k - 1 \in 0 .. n /\ ~(k <= k - 1)
  BY <1>2
<1>4. k - 1 \in Good
  BY <1>1, <1>3
<1> QED
  BY <1>1, <1>2, <1>4

\* The element that a sum over s takes first.
Chosen(s) == CHOOSE x \in s : TRUE

\* What the sums of f over the sets of a family have to be.
IsSumOn(family, f, sum) ==
    \A s \in family :
        sum[s] = IF s = {} THEN 0 ELSE f[Chosen(s)] + sum[s \ {Chosen(s)}]

\* f gives the terms of sums over the finite set S, and sum the sums of them
\* over its subsets.
AreTerms(S, f) == IsFiniteSet(S) /\ DOMAIN f = S /\ \A x \in S : f[x] \in Int

IsSum(S, f, sum) ==
    AreTerms(S, f) /\ sum \in [SUBSET S -> Int] /\ IsSumOn(SUBSET S, f, sum)

\* The subsets with k elements or fewer.
UpTo(S, k) == {s \in SUBSET S : Cardinality(s) <= k}

LEMMA Smaller ==
    ASSUME NEW S, IsFiniteSet(S), NEW s \in SUBSET S, NEW x \in s
    PROVE  /\ IsFiniteSet(s) /\ s \ {x} \in SUBSET S
           /\ Cardinality(s) \in Nat /\ Cardinality(s) >= 1
           /\ Cardinality(s \ {x}) = Cardinality(s) - 1
<1>1. IsFiniteSet(s)
  BY FS_Subset
<1>2. Cardinality(s) \in Nat /\ (Cardinality(s) = 0 <=> s = {})
  BY <1>1, FS_CardinalityType, FS_EmptySet
<1>3. Cardinality(s \ {x}) = Cardinality(s) - 1
  BY <1>1, FS_RemoveElement
<1> QED
  BY <1>1, <1>2, <1>3

LEMMA UpToAll ==
    ASSUME NEW S, IsFiniteSet(S)
    PROVE  Cardinality(S) \in Nat /\ UpTo(S, Cardinality(S)) = SUBSET S
  BY FS_CardinalityType, FS_Subset DEF UpTo

\* Induction over the subsets of a finite set.
LEMMA SubsetInduction ==
    ASSUME NEW S, IsFiniteSet(S), NEW Good,
           {} \in Good,
           \A s \in SUBSET S : s # {} /\ (\A x \in s : s \ {x} \in Good) => s \in Good
    PROVE  \A s \in SUBSET S : s \in Good
<1> DEFINE Done == {k \in 0 .. Cardinality(S) : UpTo(S, k) \subseteq Good}
<1>1. Cardinality(S) \in Nat /\ UpTo(S, Cardinality(S)) = SUBSET S
  BY UpToAll
<1>2. 0 \in Done
  <2>1. ASSUME NEW s \in UpTo(S, 0) PROVE s = {}
    <3>1. s \in SUBSET S /\ Cardinality(s) <= 0
      BY DEF UpTo
    <3>2. ASSUME NEW x \in s PROVE FALSE
      <4>1. Cardinality(s) \in Nat /\ Cardinality(s) >= 1
        BY <3>1, Smaller
      <4> QED
        BY <3>1, <4>1
    <3> QED
      BY <3>2
  <2>2. UpTo(S, 0) \subseteq Good
    BY <2>1
  <2>3. 0 \in 0 .. Cardinality(S)
    BY <1>1
  <2> QED
    BY <2>2, <2>3
<1>3. ASSUME NEW k \in 1 .. Cardinality(S), k - 1 \in Done
      PROVE  k \in Done
  <2>1. UpTo(S, k - 1) \subseteq Good
    BY <1>3
  <2>2. ASSUME NEW s \in UpTo(S, k) PROVE s \in Good
    <3>1. s \in SUBSET S /\ Cardinality(s) <= k
      BY DEF UpTo
    <3>2. ASSUME NEW x \in s PROVE s \ {x} \in Good
      <4>1. /\ s \ {x} \in SUBSET S /\ Cardinality(s) \in Nat
            /\ Cardinality(s \ {x}) = Cardinality(s) - 1
        BY <3>1, Smaller
      <4>2. Cardinality(s \ {x}) <= k - 1
        BY <3>1, <4>1
      <4> QED
        BY <2>1, <4>1, <4>2 DEF UpTo
    <3> QED
      BY <3>1, <3>2
  <2> QED
    BY <1>1, <2>2
<1> HIDE DEF Done
<1>4. Cardinality(S) \in Done
  BY <1>1, <1>2, <1>3, CountingUp
<1> QED
  BY <1>1, <1>4 DEF Done

\* The sums exist.
LEMMA SumsExist ==
    ASSUME NEW S, IsFiniteSet(S), NEW f, \A x \in S : f[x] \in Int
    PROVE  \E sum \in [SUBSET S -> Int] : IsSumOn(SUBSET S, f, sum)
<1> DEFINE Done == {k \in 0 .. Cardinality(S) :
                      \E sum \in [UpTo(S, k) -> Int] : IsSumOn(UpTo(S, k), f, sum)}
<1>1. Cardinality(S) \in Nat /\ UpTo(S, Cardinality(S)) = SUBSET S
  BY UpToAll
<1>2. 0 \in Done
  <2> DEFINE sum == [s \in UpTo(S, 0) |-> 0]
  <2>1. ASSUME NEW s \in UpTo(S, 0) PROVE s = {}
    <3>1. s \in SUBSET S /\ Cardinality(s) <= 0
      BY DEF UpTo
    <3>2. ASSUME NEW x \in s PROVE FALSE
      <4>1. Cardinality(s) \in Nat /\ Cardinality(s) >= 1
        BY <3>1, Smaller
      <4> QED
        BY <3>1, <4>1
    <3> QED
      BY <3>2
  <2>2. sum \in [UpTo(S, 0) -> Int] /\ IsSumOn(UpTo(S, 0), f, sum)
    BY <2>1 DEF IsSumOn
  <2>3. 0 \in 0 .. Cardinality(S)
    BY <1>1
  <2> HIDE DEF sum
  <2> QED
    BY <2>2, <2>3
<1>3. ASSUME NEW k \in 1 .. Cardinality(S), k - 1 \in Done
      PROVE  k \in Done
  <2>1. PICK old \in [UpTo(S, k - 1) -> Int] : IsSumOn(UpTo(S, k - 1), f, old)
    BY <1>3
  <2> DEFINE sum == [s \in UpTo(S, k) |->
                       IF s = {} THEN 0 ELSE f[Chosen(s)] + old[s \ {Chosen(s)}]]
  <2>2. ASSUME NEW s \in UpTo(S, k), s # {}
        PROVE  /\ Chosen(s) \in s /\ f[Chosen(s)] \in Int
               /\ s \ {Chosen(s)} \in UpTo(S, k - 1)
               /\ s \ {Chosen(s)} \in UpTo(S, k)
    <3>1. s \in SUBSET S /\ Cardinality(s) <= k
      BY DEF UpTo
    <3>2. Chosen(s) \in s
      BY <2>2 DEF Chosen
    <3>3. /\ s \ {Chosen(s)} \in SUBSET S /\ Cardinality(s) \in Nat
          /\ Cardinality(s \ {Chosen(s)}) = Cardinality(s) - 1
      BY <3>1, <3>2, Smaller
    <3>4. k \in Int /\ Cardinality(s \ {Chosen(s)}) <= k - 1
      BY <1>1, <3>1, <3>3
    <3>5. Cardinality(s \ {Chosen(s)}) <= k
      BY <3>3, <3>4
    <3> QED
      BY <3>1, <3>2, <3>3, <3>4, <3>5 DEF UpTo
  <2>3. sum \in [UpTo(S, k) -> Int]
    BY <2>2
  <2>4. ASSUME NEW s \in UpTo(S, k - 1)
        PROVE  s \in UpTo(S, k) /\ sum[s] = old[s]
    <3>1. s \in SUBSET S /\ Cardinality(s) <= k - 1 /\ k \in Int
      BY <1>1 DEF UpTo
    <3>2. Cardinality(s) \in Nat
      BY <3>1, FS_Subset, FS_CardinalityType
    <3>3. s \in UpTo(S, k)
      BY <3>1, <3>2 DEF UpTo
    <3> QED
      BY <2>1, <3>3 DEF IsSumOn
  <2>5. ASSUME NEW s \in UpTo(S, k)
        PROVE  sum[s] = IF s = {} THEN 0 ELSE f[Chosen(s)] + sum[s \ {Chosen(s)}]
    <3>1. CASE s = {}
      BY <3>1
    <3>2. CASE s # {}
      <4>1. sum[s] = f[Chosen(s)] + old[s \ {Chosen(s)}]
        BY <3>2
      <4>2. sum[s \ {Chosen(s)}] = old[s \ {Chosen(s)}]
        BY <2>2, <2>4, <3>2
      <4> HIDE DEF sum
      <4> QED
        BY <3>2, <4>1, <4>2
    <3> QED
      BY <3>1, <3>2
  <2> HIDE DEF sum
  <2>6. IsSumOn(UpTo(S, k), f, sum)
    BY <2>5 DEF IsSumOn
  <2> QED
    BY <1>1, <2>3, <2>6
<1> HIDE DEF Done
<1>4. Cardinality(S) \in Done
  BY <1>1, <1>2, <1>3, CountingUp
<1> QED
  BY <1>1, <1>4 DEF Done

\* What the community modules' sum over a set is.
LEMMA SumOverIs ==
    ASSUME NEW S, NEW f, AreTerms(S, f)
    PROVE  \E sum : IsSum(S, f, sum) /\ SumOver(f) = sum[S]
<1>0. IsFiniteSet(S) /\ DOMAIN f = S /\ \A x \in S : f[x] \in Int
  BY DEF AreTerms
<1> DEFINE Iter(g) == g = [s \in SUBSET S |->
                             IF s = {} THEN 0
                             ELSE f[CHOOSE x \in s : TRUE]
                                  + g[s \ {CHOOSE x \in s : TRUE}]]
           sum == CHOOSE g : Iter(g)
<1>1. PICK g \in [SUBSET S -> Int] : IsSumOn(SUBSET S, f, g)
  BY <1>0, SumsExist
<1>2. Iter(g)
  BY <1>1 DEF IsSumOn, Chosen
<1>3. Iter(sum)
  BY <1>2
<1>4. SumOver(f) = sum[S]
  BY <1>0 DEF SumOver, MapThenSumSet, MapThenFoldSet
<1> HIDE DEF sum
<1>5. IsSumOn(SUBSET S, f, sum)
  BY <1>3 DEF IsSumOn, Chosen
<1>6. \A s \in SUBSET S : sum[s] \in Int
  <2> DEFINE Good == {s \in SUBSET S : sum[s] \in Int}
  <2>0. sum[{}] = 0 /\ {} \in SUBSET S
    BY <1>5 DEF IsSumOn
  <2>1. {} \in Good
    BY <2>0
  <2>2. ASSUME NEW s \in SUBSET S, s # {}, \A x \in s : s \ {x} \in Good
        PROVE  s \in Good
    <3>1. Chosen(s) \in s
      BY <2>2 DEF Chosen
    <3>2. f[Chosen(s)] \in Int /\ sum[s \ {Chosen(s)}] \in Int
      BY <1>0, <2>2, <3>1
    <3>3. sum[s] = f[Chosen(s)] + sum[s \ {Chosen(s)}]
      BY <1>5, <2>2 DEF IsSumOn
    <3> QED
      BY <3>2, <3>3
  <2> HIDE DEF Good
  <2>3. \A s \in SUBSET S : s \in Good
    BY <1>0, <2>1, <2>2, SubsetInduction
  <2> QED
    BY <2>3 DEF Good
<1>7. sum \in [SUBSET S -> Int]
  <2>1. sum = [s \in SUBSET S |-> sum[s]]
    BY <1>3
  <2> QED
    BY <1>6, <2>1
<1> QED
  BY <1>4, <1>5, <1>7 DEF IsSum

\* Any element may be taken first.
LEMMA TakeAny ==
    ASSUME NEW S, NEW f, NEW sum, IsSum(S, f, sum)
    PROVE  \A s \in SUBSET S : \A x \in s : sum[s] = f[x] + sum[s \ {x}]
<1>0. /\ IsFiniteSet(S) /\ \A x \in S : f[x] \in Int
      /\ sum \in [SUBSET S -> Int] /\ IsSumOn(SUBSET S, f, sum)
  BY DEF IsSum, AreTerms
<1> DEFINE Good == {s \in SUBSET S : \A x \in s : sum[s] = f[x] + sum[s \ {x}]}
<1>1. {} \in Good
  OBVIOUS
<1>2. ASSUME NEW s \in SUBSET S, s # {}, \A x \in s : s \ {x} \in Good
      PROVE  s \in Good
  <2> DEFINE y == Chosen(s)
  <2>1. y \in s
    BY <1>2 DEF Chosen
  <2>2. sum[s] = f[y] + sum[s \ {y}]
    BY <1>0, <1>2 DEF IsSumOn
  <2> HIDE DEF y
  <2>3. ASSUME NEW x \in s PROVE sum[s] = f[x] + sum[s \ {x}]
    <3>1. CASE x = y
      BY <2>2, <3>1
    <3>2. CASE x # y
      <4>1. x \in s \ {y} /\ y \in s \ {x}
        BY <2>1, <3>2
      <4>2. sum[s \ {y}] = f[x] + sum[(s \ {y}) \ {x}]
        BY <1>2, <2>1, <4>1
      <4>3. sum[s \ {x}] = f[y] + sum[(s \ {x}) \ {y}]
        BY <1>2, <4>1
      <4>4. (s \ {y}) \ {x} = (s \ {x}) \ {y} /\ (s \ {x}) \ {y} \in SUBSET S
        OBVIOUS
      <4>5. f[x] \in Int /\ f[y] \in Int /\ sum[(s \ {x}) \ {y}] \in Int
        BY <1>0, <2>1, <4>4
      <4> DEFINE rest == sum[(s \ {x}) \ {y}]
      <4>6. sum[s \ {y}] = f[x] + rest /\ sum[s \ {x}] = f[y] + rest
        BY <4>2, <4>3, <4>4
      <4> HIDE DEF rest
      <4> QED
        BY <2>2, <4>5, <4>6 DEF rest
    <3> QED
      BY <3>1, <3>2
  <2> QED
    BY <2>3
<1> HIDE DEF Good
<1>3. \A s \in SUBSET S : s \in Good
  BY <1>0, <1>1, <1>2, SubsetInduction
<1> QED
  BY <1>3 DEF Good

\* Two sums with the same terms are equal, whatever the order.
LEMMA SumsCarry ==
    ASSUME NEW S, NEW f, NEW F, IsSum(S, f, F),
           NEW T, NEW g, NEW G, IsSum(T, g, G),
           NEW to \in Bijection(S, T), \A x \in S : f[x] = g[to[x]]
    PROVE  F[S] = G[T]
<1>0. /\ IsFiniteSet(S) /\ IsSumOn(SUBSET S, f, F) /\ IsSumOn(SUBSET T, g, G)
  BY DEF IsSum, AreTerms
<1> DEFINE Image(s) == {to[x] : x \in s}
           Good == {s \in SUBSET S : F[s] = G[Image(s)]}
<1>1. /\ to \in [S -> T]
      /\ \A a, b \in S : to[a] = to[b] => a = b
      /\ \A y \in T : \E x \in S : to[x] = y
  BY Fun_BijectionProperties
<1>2. {} \in Good
  <2>1. F[{}] = 0 /\ G[{}] = 0 /\ Image({}) = {}
    BY <1>0 DEF IsSumOn
  <2> QED
    BY <2>1
<1>3. ASSUME NEW s \in SUBSET S, s # {}, \A x \in s : s \ {x} \in Good
      PROVE  s \in Good
  <2>1. PICK x \in s : TRUE
    BY <1>3
  <2>2. Image(s) \in SUBSET T /\ to[x] \in Image(s)
    BY <1>1
  <2>3. Image(s \ {x}) = Image(s) \ {to[x]}
    BY <1>1
  <2>4. F[s] = f[x] + F[s \ {x}]
    BY TakeAny
  <2>5. G[Image(s)] = g[to[x]] + G[Image(s) \ {to[x]}]
    <3> HIDE DEF Image
    <3> QED
      BY <2>2, TakeAny
  <2>6. F[s \ {x}] = G[Image(s \ {x})]
    BY <1>3
  <2>7. f[x] = g[to[x]]
    OBVIOUS
  <2> HIDE DEF Image
  <2>8. F[s] = G[Image(s)]
    BY <2>3, <2>4, <2>5, <2>6, <2>7
  <2> QED
    BY <2>8
<1> HIDE DEF Good
<1>4. S \in Good
  <2>1. \A s \in SUBSET S : s \in Good
    BY <1>0, <1>2, <1>3, SubsetInduction
  <2> QED
    BY <2>1
<1>5. Image(S) = T
  BY <1>1
<1> HIDE DEF Image
<1> QED
  BY <1>4, <1>5 DEF Good

\* A sum over a set is the sum over another with the same terms.
LEMMA SameTerms ==
    ASSUME NEW S, NEW f, AreTerms(S, f), NEW T, NEW g, AreTerms(T, g),
           NEW to \in Bijection(S, T), \A x \in S : f[x] = g[to[x]]
    PROVE  SumOver(f) = SumOver(g)
<1>1. PICK F : IsSum(S, f, F) /\ SumOver(f) = F[S]
  BY SumOverIs
<1>2. PICK G : IsSum(T, g, G) /\ SumOver(g) = G[T]
  BY SumOverIs
<1> QED
  BY <1>1, <1>2, SumsCarry

\* Each index is in one block.
LEMMA OneBlock ==
    ASSUME NEW size \in Nat, NEW block \in Nat \ {0}, NEW x \in 0 .. size - 1
    PROVE  \E s \in Starts(size, block) :
             /\ x \in Block(s, size, block)
             /\ \A t \in Starts(size, block) : x \in Block(t, size, block) => t = s
<1> DEFINE q == x \div block
           s == q * block
<1>1. x \in Nat /\ x < size /\ q \in Nat /\ s \in Nat /\ s <= x /\ x < s + block
  <2>1. x \in Nat /\ x < size
    OBVIOUS
  <2>2. q \in Nat /\ x % block \in 0 .. block - 1 /\ x = q * block + (x % block)
    BY <2>1
  <2> HIDE DEF q
  <2>3. s \in Nat /\ x = s + (x % block)
    BY <2>2
  <2> HIDE DEF s
  <2> QED
    BY <2>1, <2>2, <2>3
<1> HIDE DEF q
<1>2. s % block = 0
  <2>1. (q * block + 0) % block = 0
    BY <1>1, DivMod
  <2>2. q * block + 0 = q * block
    BY <1>1
  <2> QED
    BY <2>1, <2>2
<1>3. s \in Starts(size, block)
  <2> HIDE DEF s
  <2> QED
    BY <1>1, <1>2 DEF Starts
<1>4. x \in Block(s, size, block)
  <2> HIDE DEF s
  <2> QED
    BY <1>1 DEF Block
<1>5. ASSUME NEW t \in Starts(size, block), x \in Block(t, size, block)
      PROVE  t = s
  <2>1. t \in Nat /\ t % block = 0
    BY DEF Starts
  <2>2. t <= x /\ x < t + block
    BY <1>1, <1>5, <2>1 DEF Block
  <2> DEFINE p == t \div block
  <2>3. p \in Nat /\ t = p * block
    BY <2>1
  <2> HIDE DEF p
  <2>4. ~(p < q)
    <3> SUFFICES ASSUME p < q PROVE FALSE
      OBVIOUS
    <3>1. (p + 1) * block <= q * block
      BY <1>1, <2>3
    <3>2. (p + 1) * block = t + block
      BY <2>3
    <3> QED
      BY <1>1, <2>1, <2>2, <3>1, <3>2
  <2>5. ~(q < p)
    <3> SUFFICES ASSUME q < p PROVE FALSE
      OBVIOUS
    <3>1. (q + 1) * block <= p * block
      BY <1>1, <2>3
    <3>2. (q + 1) * block = s + block
      BY <1>1
    <3> HIDE DEF s
    <3> QED
      BY <1>1, <2>1, <2>2, <2>3, <3>1, <3>2
  <2>6. p = q
    BY <1>1, <2>3, <2>4, <2>5
  <2> QED
    BY <2>3, <2>6
<1> HIDE DEF s
<1> QED
  BY <1>3, <1>4, <1>5

\* An entry is visited once for each index that its products are over.
LEMMA VisitsOnce ==
    ASSUME NEW size \in Nat, NEW block \in Nat \ {0},
           NEW i \in 0 .. size - 1, NEW j \in 0 .. size - 1
    PROVE  [v \in Visits(<<i, j>>, size, block) |-> v[4]]
             \in Bijection(Visits(<<i, j>>, size, block), 0 .. size - 1)
<1> DEFINE V == Visits(<<i, j>>, size, block)
           starts == Starts(size, block)
           index == [v \in V |-> v[4]]
<1>1. \A v : v \in V <=> /\ v \in starts \X starts \X starts \X (0 .. size - 1)
                         /\ i \in Block(v[1], size, block)
                         /\ v[4] \in Block(v[2], size, block)
                         /\ j \in Block(v[3], size, block)
  BY DEF Visits
<1> HIDE DEF V
<1>2. index \in [V -> 0 .. size - 1] /\ \A v \in V : index[v] = v[4]
  BY <1>1
<1> HIDE DEF index
<1>3. ASSUME NEW v \in V, NEW w \in V, index[v] = index[w]
      PROVE  v = w
  <2>1. v[1] = w[1]
    BY <1>1, OneBlock
  <2>2. v[4] = w[4] /\ v[4] \in 0 .. size - 1
    BY <1>1, <1>2, <1>3
  <2>3. v[2] = w[2]
    BY <1>1, <2>2, OneBlock
  <2>4. v[3] = w[3]
    BY <1>1, OneBlock
  <2> QED
    BY <1>1, <2>1, <2>2, <2>3, <2>4
<1>4. ASSUME NEW k \in 0 .. size - 1
      PROVE  \E v \in V : index[v] = k
  <2>1. PICK i0 \in starts : i \in Block(i0, size, block)
    BY OneBlock
  <2>2. PICK k0 \in starts : k \in Block(k0, size, block)
    BY OneBlock
  <2>3. PICK j0 \in starts : j \in Block(j0, size, block)
    BY OneBlock
  <2> DEFINE v == <<i0, k0, j0, k>>
  <2>4. v \in V
    BY <1>1, <2>1, <2>2, <2>3
  <2>5. index[v] = k
    BY <1>2, <2>4
  <2> QED
    BY <2>4, <2>5
<1>5. index \in Bijection(V, 0 .. size - 1)
  BY <1>2, <1>3, <1>4, Fun_IsBij
<1> QED
  BY <1>5 DEF index, V

\* Skipping the products with a zero of the left matrix leaves out zeros.
LEMMA ProductIsRounded ==
    ASSUME NEW x \in Int, NEW y \in Int, NEW factor \in Nat \ {0}
    PROVE  Product(x, y, factor) = Rounded(x * y, factor) /\ Rounded(x * y, factor) \in Int
<1> DEFINE p == x * y
<1>1. p \in Int /\ (x = 0 => p = 0)
  BY SMT
<1>2. Rounded(0, factor) = 0
  BY DEF Rounded
<1> HIDE DEF p
<1>3. Rounded(p, factor) \in Int
  BY <1>1 DEF Rounded
<1> QED
  BY <1>1, <1>2, <1>3 DEF Product, p

\* The blocked product of mulMatrixBlocked is the product of the textbook, for
\* matrices of any size, blocks of any size, the last of which may be shorter,
\* and zeros skipped (engine.go:568-615).
THEOREM BlockedIsProduct ==
    ASSUME NEW size \in Nat, NEW block \in Nat \ {0}, NEW factor \in Nat \ {0},
           NEW a \in [(0 .. size - 1) \X (0 .. size - 1) -> Int],
           NEW b \in [(0 .. size - 1) \X (0 .. size - 1) -> Int]
    PROVE  MulMatrixBlocked(a, b, size, block, factor)
             = TextbookProduct(a, b, size, factor)
<1> DEFINE f(i, j) == [v \in Visits(<<i, j>>, size, block) |->
                         Product(a[<<i, v[4]>>], b[<<v[4], j>>], factor)]
           g(i, j) == [k \in 0 .. size - 1 |-> Rounded(a[<<i, k>>] * b[<<k, j>>], factor)]
<1>1. ASSUME NEW i \in 0 .. size - 1, NEW j \in 0 .. size - 1
      PROVE  SumOver(f(i, j)) = SumOver(g(i, j))
  <2> DEFINE V == Visits(<<i, j>>, size, block)
             K == 0 .. size - 1
             F == f(i, j)
             G == g(i, j)
             index == [v \in V |-> v[4]]
  <2>1. index \in Bijection(V, K)
    BY VisitsOnce
  <2>a. \A v \in V : index[v] = v[4]
    OBVIOUS
  <2> HIDE DEF index, V, K
  <2>b. index \in [V -> K]
    BY <2>1, Fun_BijectionProperties
  <2>2. index \in [V -> K] /\ \A v \in V : index[v] = v[4]
    BY <2>a, <2>b
  <2> USE DEF V, K
  <2>3. ASSUME NEW k \in K
        PROVE  /\ Product(a[<<i, k>>], b[<<k, j>>], factor) = G[k]
               /\ G[k] \in Int
    <3>1. a[<<i, k>>] \in Int /\ b[<<k, j>>] \in Int
      OBVIOUS
    <3>2. G[k] = Rounded(a[<<i, k>>] * b[<<k, j>>], factor)
      OBVIOUS
    <3> QED
      BY <3>1, <3>2, ProductIsRounded
  <2>4. DOMAIN F = V /\ DOMAIN G = K
    OBVIOUS
  <2>5. ASSUME NEW v \in V PROVE F[v] = G[index[v]] /\ F[v] \in Int
    <3>1. index[v] \in K /\ index[v] = v[4]
      BY <2>2
    <3>2. F[v] = Product(a[<<i, index[v]>>], b[<<index[v], j>>], factor)
      BY <3>1
    <3> HIDE DEF F, G
    <3> QED
      BY <2>3, <3>1, <3>2
  <2> HIDE DEF F, G
  <2>6. IsFiniteSet(K)
    BY FS_Interval
  <2>7. IsFiniteSet(V)
    <3>1. Inverse(index, V, K) \in Bijection(K, V)
      BY <2>1, Fun_BijInverse
    <3>2. ExistsBijection(K, V)
      BY <3>1 DEF ExistsBijection
    <3> QED
      BY <2>6, <3>2, FS_Bijection
  <2>8. AreTerms(V, F) /\ AreTerms(K, G)
    BY <2>3, <2>4, <2>5, <2>6, <2>7 DEF AreTerms
  <2> HIDE DEF V, K
  <2>9. SumOver(F) = SumOver(G)
    BY <2>1, <2>5, <2>8, SameTerms
  <2> QED
    BY <2>9 DEF F, G
<1>2. ASSUME NEW ij \in (0 .. size - 1) \X (0 .. size - 1)
      PROVE  SumOver([v \in Visits(ij, size, block) |->
                        Product(a[<<ij[1], v[4]>>], b[<<v[4], ij[2]>>], factor)])
             = SumOver([k \in 0 .. size - 1 |->
                          Rounded(a[<<ij[1], k>>] * b[<<k, ij[2]>>], factor)])
  <2>1. PICK i \in 0 .. size - 1, j \in 0 .. size - 1 : ij = <<i, j>>
    OBVIOUS
  <2>2. ij[1] = i /\ ij[2] = j
    BY <2>1
  <2>3. SumOver(f(i, j)) = SumOver(g(i, j))
    BY <1>1
  <2> QED
    BY <2>1, <2>2, <2>3
<1> HIDE DEF f, g
<1> QED
  BY <1>2, Zenon DEF MulMatrixBlocked, TextbookProduct

(***************************************************************************)
(* A hash as a number.                                                     *)
(***************************************************************************)
\* What a loop holds that starts with first and, at turn i, multiplies by base
\* and adds digit[i].
IsLoop(n, first, base, digit, f) ==
    /\ f \in [0 .. n -> Nat]
    /\ f[0] = first
    /\ \A i \in 1 .. n : f[i] = f[i - 1] * base + digit[i]

LEMMA LoopExists ==
    ASSUME NEW n \in Nat, NEW first \in Nat, NEW base \in Nat, NEW digit,
           \A i \in 1 .. n : digit[i] \in Nat
    PROVE  \E f : IsLoop(n, first, base, digit, f)
<1> DEFINE Good == {m \in 0 .. n : \E f : IsLoop(m, first, base, digit, f)}
<1>1. 0 \in Good
  <2> DEFINE f == [i \in 0 .. 0 |-> first]
  <2>1. IsLoop(0, first, base, digit, f)
    BY DEF IsLoop
  <2> HIDE DEF f
  <2> QED
    BY <2>1
<1>2. ASSUME NEW m \in 1 .. n, m - 1 \in Good
      PROVE  m \in Good
  <2>1. PICK f : IsLoop(m - 1, first, base, digit, f)
    BY <1>2
  <2> DEFINE g == [i \in 0 .. m |-> IF i = m THEN f[m - 1] * base + digit[m] ELSE f[i]]
  <2>2. f \in [0 .. m - 1 -> Nat] /\ f[0] = first
        /\ \A i \in 1 .. m - 1 : f[i] = f[i - 1] * base + digit[i]
    BY <2>1 DEF IsLoop
  <2>3. m \in Nat /\ m >= 1 /\ m - 1 \in 0 .. m - 1 /\ digit[m] \in Nat
    OBVIOUS
  <2>4. f[m - 1] \in Nat
    BY <2>2, <2>3
  <2>5. f[m - 1] * base + digit[m] \in Nat
    BY <2>3, <2>4
  <2>6. g \in [0 .. m -> Nat]
    BY <2>2, <2>3, <2>5
  <2>7. g[0] = first
    BY <2>2, <2>3
  <2>8. ASSUME NEW i \in 1 .. m PROVE g[i] = g[i - 1] * base + digit[i]
    <3>1. i - 1 \in 0 .. m - 1 /\ i - 1 \in 0 .. m /\ i - 1 # m
      BY <2>3
    <3>2. g[i - 1] = f[i - 1]
      BY <3>1
    <3>3. CASE i = m
      BY <3>2, <3>3
    <3>4. CASE i # m
      <4>1. i \in 1 .. m - 1 /\ g[i] = f[i]
        BY <2>3, <3>4
      <4> HIDE DEF g
      <4> QED
        BY <2>2, <3>2, <4>1
    <3> QED
      BY <3>3, <3>4
  <2> HIDE DEF g
  <2>9. IsLoop(m, first, base, digit, g)
    BY <2>6, <2>7, <2>8 DEF IsLoop
  <2> QED
    BY <2>9
<1> HIDE DEF Good
<1>3. n \in Good
  BY <1>1, <1>2, CountingUp
<1> QED
  BY <1>3 DEF Good

\* So the number of a sequence is what its loop holds in the end.
LEMMA NumberIs ==
    ASSUME NEW base \in Nat, NEW b \in Seq(Nat)
    PROVE  \E f : IsLoop(Len(b), 0, base, b, f) /\ Number(b, base) = f[Len(b)]
<1> DEFINE Is(g) == g = [i \in 0 .. Len(b) |-> IF i = 0 THEN 0 ELSE g[i - 1] * base + b[i]]
           upTo == CHOOSE g : Is(g)
<1>1. Len(b) \in Nat /\ \A i \in 1 .. Len(b) : b[i] \in Nat
  OBVIOUS
<1>2. PICK f : IsLoop(Len(b), 0, base, b, f)
  BY <1>1, LoopExists
<1>3. Is(f)
  BY <1>1, <1>2 DEF IsLoop
<1>4. Is(upTo)
  BY <1>3
<1>5. Number(b, base) = upTo[Len(b)]
  BY DEF Number
<1> HIDE DEF upTo
<1>6. \A i \in 0 .. Len(b) : upTo[i] = IF i = 0 THEN 0 ELSE upTo[i - 1] * base + b[i]
  BY <1>4
<1> HIDE DEF Is
<1>7. \A i \in 0 .. Len(b) : upTo[i] = f[i]
  <2> DEFINE Good == {i \in 0 .. Len(b) : upTo[i] = f[i]}
  <2>1. 0 \in Good
    BY <1>1, <1>2, <1>6 DEF IsLoop
  <2>2. ASSUME NEW i \in 1 .. Len(b), i - 1 \in Good PROVE i \in Good
    BY <1>1, <1>2, <1>6, <2>2 DEF IsLoop
  <2> SUFFICES ASSUME NEW n \in 0 .. Len(b) PROVE n \in Good
    OBVIOUS
  <2>3. n \in Nat /\ \A k \in 1 .. n : k \in 1 .. Len(b)
    BY <1>1
  <2> HIDE DEF Good
  <2> QED
    BY <2>1, <2>2, <2>3, CountingUp
<1>8. upTo[Len(b)] = f[Len(b)]
  BY <1>1, <1>7
<1> QED
  BY <1>2, <1>5, <1>8

LEMMA PowerIs ==
    ASSUME NEW base \in Nat, NEW n \in Nat
    PROVE  \E f : IsLoop(n, 1, base, [i \in 1 .. n |-> 0], f) /\ Power(base, n) = f[n]
<1> DEFINE Is(g) == g = [i \in 0 .. n |-> IF i = 0 THEN 1 ELSE g[i - 1] * base]
           upTo == CHOOSE g : Is(g)
           none == [i \in 1 .. n |-> 0]
<1>1. \A i \in 1 .. n : none[i] = 0 /\ none[i] \in Nat
  OBVIOUS
<1> HIDE DEF none
<1>2. PICK f : IsLoop(n, 1, base, none, f)
  BY <1>1, LoopExists
<1>3. Is(f)
  <2>1. f \in [0 .. n -> Nat] /\ f[0] = 1
    BY <1>2 DEF IsLoop
  <2>2. ASSUME NEW i \in 1 .. n PROVE f[i] = f[i - 1] * base
    <3>1. f[i] = f[i - 1] * base + 0
      BY <1>1, <1>2 DEF IsLoop
    <3>2. i - 1 \in 0 .. n
      OBVIOUS
    <3>3. f[i - 1] * base \in Nat
      BY <2>1, <3>2
    <3> QED
      BY <3>1, <3>3
  <2> QED
    BY <2>1, <2>2
<1>4. Is(upTo)
  BY <1>3
<1>5. Power(base, n) = upTo[n]
  BY DEF Power
<1> HIDE DEF upTo
<1>6. \A i \in 0 .. n : upTo[i] = IF i = 0 THEN 1 ELSE upTo[i - 1] * base
  BY <1>4
<1>7. \A i \in 0 .. n : f[i] = IF i = 0 THEN 1 ELSE f[i - 1] * base
  BY <1>3
<1> HIDE DEF Is
<1> DEFINE Good == {i \in 0 .. n : upTo[i] = f[i]}
<1>8. 0 \in Good
  BY <1>6, <1>7
<1>9. ASSUME NEW i \in 1 .. n, i - 1 \in Good PROVE i \in Good
  BY <1>6, <1>7, <1>9
<1> HIDE DEF Good
<1>10. n \in Good
  BY <1>8, <1>9, CountingUp
<1>11. upTo[n] = f[n]
  BY <1>10 DEF Good
<1> QED
  BY <1>2, <1>5, <1>11 DEF none

\* The digits of a base.
DigitsOf(base) == 0 .. base - 1

\* The last length digits of a number give what is left modulo the power.
LEMMA LowDigits ==
    ASSUME NEW base \in Nat \ {0}, NEW b \in Seq(DigitsOf(base)),
           NEW c \in Seq(DigitsOf(base)), Len(c) <= Len(b),
           \A i \in 1 .. Len(c) : c[i] = b[Len(b) - Len(c) + i]
    PROVE  \E q \in Nat :
             /\ Number(b, base) = q * Power(base, Len(c)) + Number(c, base)
             /\ Number(c, base) \in 0 .. Power(base, Len(c)) - 1
             /\ Power(base, Len(c)) \in Nat \ {0}
             /\ Len(c) = Len(b) => q = 0
<1> DEFINE n == Len(c)
           d == Len(b) - Len(c)
           none == [i \in 1 .. n |-> 0]
<1>1. /\ n \in Nat /\ d \in Nat /\ Len(b) = d + n /\ base \in Nat
      /\ \A i \in 1 .. n : c[i] \in 0 .. base - 1 /\ b[d + i] = c[i]
  BY DEF DigitsOf
<1>2. b \in Seq(Nat) /\ c \in Seq(Nat)
  BY DEF DigitsOf
<1>3. PICK N : IsLoop(Len(b), 0, base, b, N) /\ Number(b, base) = N[Len(b)]
  BY <1>2, NumberIs
<1>4. PICK M : IsLoop(Len(c), 0, base, c, M) /\ Number(c, base) = M[Len(c)]
  BY <1>2, NumberIs
<1>5. PICK P : IsLoop(n, 1, base, none, P) /\ Power(base, n) = P[n]
  BY <1>1, PowerIs
<1>6. \A i \in 1 .. n : none[i] = 0
  OBVIOUS
<1> HIDE DEF n, d, none
<1>7. /\ N \in [0 .. d + n -> Nat] /\ N[0] = 0
      /\ \A i \in 1 .. d + n : N[i] = N[i - 1] * base + b[i]
  BY <1>1, <1>3 DEF IsLoop
<1>8. /\ M \in [0 .. n -> Nat] /\ M[0] = 0
      /\ \A i \in 1 .. n : M[i] = M[i - 1] * base + c[i]
  BY <1>4 DEF IsLoop, n
<1>9. /\ P \in [0 .. n -> Nat] /\ P[0] = 1
      /\ \A i \in 1 .. n : P[i] = P[i - 1] * base + none[i]
  BY <1>5 DEF IsLoop
<1> DEFINE Good == {i \in 0 .. n : /\ N[d + i] = N[d] * P[i] + M[i]
                                   /\ M[i] <= P[i] - 1}
<1>10. 0 \in Good
  <2>1. d \in 0 .. d + n /\ N[d] \in Nat /\ d + 0 = d /\ 0 \in 0 .. n
    BY <1>1, <1>7
  <2>2. N[d] * 1 + 0 = N[d]
    BY <2>1
  <2> QED
    BY <1>8, <1>9, <2>1, <2>2
<1>11. ASSUME NEW i \in 1 .. n, i - 1 \in Good PROVE i \in Good
  <2>1. /\ i \in 0 .. n /\ i - 1 \in 0 .. n /\ d \in 0 .. d + n
        /\ d + i \in 1 .. d + n /\ d + i - 1 = d + (i - 1) /\ d + (i - 1) \in 0 .. d + n
    BY <1>1
  <2> DEFINE p == P[i - 1]
             m == M[i - 1]
             top == N[d]
  <2>2. p \in Nat /\ m \in Nat /\ top \in Nat /\ m <= p - 1
    BY <1>7, <1>8, <1>9, <1>11, <2>1
  <2>3. N[d + (i - 1)] = top * p + m
    BY <1>11
  <2>4. N[d + i] = N[d + (i - 1)] * base + b[d + i]
    BY <1>7, <2>1
  <2>5. M[i] = m * base + c[i]
    BY <1>8
  <2>6. P[i] = p * base + 0
    BY <1>6, <1>9
  <2>7. c[i] \in 0 .. base - 1 /\ b[d + i] = c[i]
    BY <1>1
  <2> HIDE DEF p, m, top, Good
  <2>8. (top * p + m) * base + c[i] = top * (p * base + 0) + (m * base + c[i])
    BY <1>1, <2>2, <2>7
  <2>9. N[d + i] = top * P[i] + M[i]
    BY <2>3, <2>4, <2>5, <2>6, <2>7, <2>8
  <2>10. M[i] <= P[i] - 1
    <3>1. m * base <= (p - 1) * base
      BY <1>1, <2>2
    <3>2. (p - 1) * base = p * base - base /\ m * base \in Nat /\ p * base \in Nat
      BY <1>1, <2>2
    <3> QED
      BY <1>1, <2>5, <2>6, <2>7, <3>1, <3>2
  <2> QED
    BY <2>1, <2>9, <2>10 DEF top, Good
<1> HIDE DEF Good
<1>12. n \in Good
  BY <1>1, <1>10, <1>11, CountingUp
<1>13. N[d + n] = N[d] * P[n] + M[n] /\ M[n] <= P[n] - 1
  BY <1>12 DEF Good
<1>14. N[d] \in Nat /\ M[n] \in Nat /\ P[n] \in Nat
  BY <1>1, <1>7, <1>8, <1>9
<1>15. Len(c) = Len(b) => N[d] = 0
  BY <1>1, <1>7 DEF n, d
<1>16. /\ Number(b, base) = N[d] * Power(base, Len(c)) + Number(c, base)
       /\ Number(c, base) \in 0 .. Power(base, Len(c)) - 1
       /\ Power(base, Len(c)) \in Nat \ {0}
  <2>1. Number(c, base) = M[n] /\ Power(base, Len(c)) = P[n]
        /\ Number(b, base) = N[d + n]
    BY <1>1, <1>3, <1>4, <1>5 DEF n
  <2>2. M[n] \in 0 .. P[n] - 1 /\ P[n] \in Nat \ {0}
    BY <1>13, <1>14
  <2> QED
    BY <1>13, <2>1, <2>2
<1> QED
  BY <1>14, <1>15, <1>16

\* Zeros before a number change nothing.
LEMMA ZerosFirst ==
    ASSUME NEW base \in Nat \ {0}, NEW b \in Seq(DigitsOf(base)),
           NEW c \in Seq(DigitsOf(base)), Len(b) <= Len(c),
           \A i \in 1 .. Len(c) - Len(b) : c[i] = 0,
           \A i \in 1 .. Len(b) : c[Len(c) - Len(b) + i] = b[i]
    PROVE  Number(c, base) = Number(b, base)
<1> DEFINE n == Len(b)
           d == Len(c) - Len(b)
<1>1. /\ n \in Nat /\ d \in Nat /\ Len(c) = d + n /\ base \in Nat
      /\ \A i \in 1 .. n : c[d + i] = b[i]
      /\ \A i \in 1 .. d : c[i] = 0
  OBVIOUS
<1>2. b \in Seq(Nat) /\ c \in Seq(Nat)
  BY DEF DigitsOf
<1>3. PICK N : IsLoop(Len(b), 0, base, b, N) /\ Number(b, base) = N[Len(b)]
  BY <1>2, NumberIs
<1>4. PICK M : IsLoop(Len(c), 0, base, c, M) /\ Number(c, base) = M[Len(c)]
  BY <1>2, NumberIs
<1>5. /\ N \in [0 .. n -> Nat] /\ N[0] = 0
      /\ \A i \in 1 .. n : N[i] = N[i - 1] * base + b[i]
  BY <1>3 DEF IsLoop
<1> HIDE DEF n, d
<1>6. /\ M[0] = 0
      /\ \A i \in 1 .. d + n : M[i] = M[i - 1] * base + c[i]
  BY <1>1, <1>4 DEF IsLoop
<1> DEFINE Zero == {i \in 0 .. d : M[i] = 0}
<1>7. 0 \in Zero
  BY <1>1, <1>6
<1>8. ASSUME NEW i \in 1 .. d, i - 1 \in Zero PROVE i \in Zero
  <2>1. i \in 1 .. d + n /\ i \in 0 .. d
    BY <1>1
  <2>2. M[i] = 0 * base + 0
    BY <1>1, <1>6, <1>8, <2>1
  <2> QED
    BY <1>1, <2>1, <2>2
<1> HIDE DEF Zero
<1>9. M[d] = 0
  <2>1. d \in Zero
    BY <1>1, <1>7, <1>8, CountingUp
  <2> QED
    BY <2>1 DEF Zero
<1> DEFINE Same == {i \in 0 .. n : M[d + i] = N[i]}
<1>10. 0 \in Same
  BY <1>1, <1>5, <1>9
<1>11. ASSUME NEW i \in 1 .. n, i - 1 \in Same PROVE i \in Same
  <2>1. i \in 0 .. n /\ d + i \in 1 .. d + n /\ d + i - 1 = d + (i - 1)
    BY <1>1
  <2>2. M[d + (i - 1)] = N[i - 1] /\ M[d + i] = M[d + (i - 1)] * base + c[d + i]
    <3>1. M[d + (i - 1)] = N[i - 1]
      BY <1>11
    <3>2. M[d + i] = M[d + i - 1] * base + c[d + i]
      <4>1. PICK k \in 1 .. d + n : k = d + i
        BY <2>1
      <4>2. M[k] = M[k - 1] * base + c[k]
        BY <1>6
      <4> QED
        BY <1>1, <4>1, <4>2
    <3> QED
      BY <2>1, <3>1, <3>2
  <2>3. N[i] = N[i - 1] * base + b[i] /\ c[d + i] = b[i]
    BY <1>1, <1>5
  <2>4. M[d + i] = N[i]
    BY <2>2, <2>3
  <2> QED
    BY <2>1, <2>4
<1> HIDE DEF Same
<1>12. M[d + n] = N[n]
  <2>1. n \in Same
    BY <1>1, <1>10, <1>11, CountingUp
  <2> QED
    BY <2>1 DEF Same
<1> QED
  BY <1>1, <1>3, <1>4, <1>12 DEF n

\* A hash is the number of the bytes that it is made from, modulo the numbers
\* of its length: cut at the front, or filled there with zeros (engine.go:393).
THEOREM HashIsNumber ==
    ASSUME NEW base \in Nat \ {0}, NEW b \in Seq(0 .. base - 1), NEW length \in Nat
    PROVE  Number(BytesToHash(b, length), base) = Number(b, base) % Power(base, length)
<1> DEFINE h == BytesToHash(b, length)
           power == Power(base, length)
<1>1. 0 \in DigitsOf(base) /\ b \in Seq(DigitsOf(base)) /\ Len(b) \in Nat
  BY DEF DigitsOf
<1>2. /\ h \in Seq(DigitsOf(base)) /\ Len(h) = length
      /\ \A i \in 1 .. length :
           h[i] = IF i + Len(b) > length THEN b[i + Len(b) - length] ELSE 0
  BY <1>1, HashHasItsLength
<1> HIDE DEF h
<1>3. /\ Number(h, base) \in 0 .. power - 1 /\ power \in Nat \ {0}
      /\ \E q \in Nat : Number(b, base) = q * power + Number(h, base)
  <2>1. CASE Len(b) > length
    <3>1. \A i \in 1 .. Len(h) : h[i] = b[Len(b) - Len(h) + i]
      BY <1>1, <1>2, <2>1
    <3>2. Len(h) <= Len(b)
      BY <1>1, <1>2, <2>1
    <3> QED
      BY <1>1, <1>2, <3>1, <3>2, LowDigits
  <2>2. CASE Len(b) <= length
    <3>1. \A i \in 1 .. Len(h) : h[i] = h[Len(h) - Len(h) + i]
      BY <1>2
    <3>2. /\ Number(h, base) \in 0 .. power - 1 /\ power \in Nat \ {0}
      BY <1>2, <3>1, LowDigits
    <3>3. \A i \in 1 .. Len(h) - Len(b) : h[i] = 0
      BY <1>1, <1>2, <2>2
    <3>4. \A i \in 1 .. Len(b) : h[Len(h) - Len(b) + i] = b[i]
      BY <1>1, <1>2, <2>2
    <3>5. Number(h, base) = Number(b, base)
      BY <1>1, <1>2, <2>2, <3>3, <3>4, ZerosFirst
    <3>6. Number(b, base) = 0 * power + Number(h, base)
      BY <3>2, <3>5
    <3> QED
      BY <3>2, <3>6
  <2> QED
    BY <1>1, <2>1, <2>2
<1>4. PICK q \in Nat : Number(b, base) = q * power + Number(h, base)
  BY <1>3
<1> HIDE DEF power
<1>5. Number(b, base) % power = Number(h, base)
  BY <1>3, <1>4, DivMod
<1> QED
  BY <1>5 DEF h, power

=============================================================================
