-------------------------- MODULE KafkaWorkerProofs --------------------------
(***************************************************************************)
(* Theorems of KafkaWorker, for every set of items, partitions and workers *)
(* and any number of copies, rebalances and crashes.                       *)
(***************************************************************************)
EXTENDS KafkaWorker, TLAPS

(* Positions stay inside the log, and a batch begins before it ends. *)

InBatch(w, p) == p \in todo[w] \/ p = cur[w]

PositionsInLog == \A w \in Worker, p \in Partition : pos[w][p] <= Len(log[p])

BatchesForward ==
    \A w \in Worker, p \in Partition :
        /\ InBatch(w, p) => start[w][p] <= pos[w][p]
        /\ p = cur[w] => done[w] <= pos[w][p]

Typed == TypeOK /\ PositionsInLog /\ BatchesForward

\* The group and the worker loops are left alone by requests.
LEMMA PublishTyped ==
  ASSUME Typed, NEW e \in Item, Publish(e)
  PROVE  Typed'
  <1> USE DEF Typed
  <1>1. PICK n \in 0 .. MaxLog[KeyPartition[e]] - Len(log[KeyPartition[e]]) :
           log' = [log EXCEPT ![KeyPartition[e]] = @ \o [i \in 1..n |-> e]]
    BY DEF Publish
  <1> DEFINE k == KeyPartition[e]
             new == [i \in 1..n |-> e]
  <1>2. k \in Partition /\ n \in Nat
    BY WorkerAssumption
  <1>3. new \in Seq(Item) /\ Len(new) = n
    BY <1>2
  <1>4. log[k] \in Seq(Item)
    BY <1>2 DEF TypeOK
  <1>5. log[k] \o new \in Seq(Item) /\ Len(log[k] \o new) = Len(log[k]) + n
    BY <1>3, <1>4
  <1> HIDE DEF k, new
  <1>6. log' \in [Partition -> Seq(Item)]
    BY <1>1, <1>2, <1>5 DEF TypeOK, k, new
  <1>7. \A p \in Partition : Len(log[p]) \in Nat /\ Len(log'[p]) \in Nat /\ Len(log[p]) <= Len(log'[p])
    <2> TAKE p \in Partition
    <2>1. log[p] \in Seq(Item) /\ log'[p] \in Seq(Item)
      BY <1>6 DEF TypeOK
    <2>2. CASE p = k
      BY <1>1, <1>2, <1>5, <2>1, <2>2 DEF TypeOK, k, new
    <2>3. CASE p # k
      BY <1>1, <1>2, <2>1, <2>3 DEF TypeOK, k, new
    <2> QED
      BY <2>2, <2>3
  <1>8. UNCHANGED <<committed, member, assigned, pos, start, todo, cur, done, handled, passed, faults>>
    BY DEF Publish, groupVars, loopVars, batchVars, msgVars
  <1>9. request' \in [Item -> {"none", "queued", "direct", "worked"}]
    BY DEF Publish, TypeOK
  <1>10. TypeOK'
    <2>1. \A p \in Partition : committed'[p] <= Len(log'[p])
      BY <1>7, <1>8 DEF TypeOK
    <2> QED
      BY <1>6, <1>8, <1>9, <2>1 DEF TypeOK
  <1>11. PositionsInLog'
    BY <1>7, <1>8 DEF PositionsInLog, TypeOK
  <1>12. BatchesForward'
    BY <1>8 DEF BatchesForward, InBatch
  <1> QED
    BY <1>10, <1>11, <1>12

\* A position that is given to w stays inside the log.
LEMMA PollTyped ==
  ASSUME Typed, NEW w \in Worker, Poll(w)
  PROVE  Typed'
  <1> USE DEF Typed
  <1>1. PICK D \in (SUBSET assigned[w]) \ {{}} :
           /\ todo' = [todo EXCEPT ![w] = D]
           /\ start' = [start EXCEPT ![w] = [p \in Partition |-> IF p \in D THEN pos[w][p] ELSE 0]]
           /\ \E upto \in [D -> UNION {1..Len(log[p]) : p \in D}] :
                 /\ \A p \in D : pos[w][p] < upto[p] /\ upto[p] <= Len(log[p])
                 /\ pos' = [pos EXCEPT ![w] = [p \in Partition |-> IF p \in D THEN upto[p] ELSE @[p]]]
    BY DEF Poll
  <1>2. PICK upto \in [D -> UNION {1..Len(log[p]) : p \in D}] :
           /\ \A p \in D : pos[w][p] < upto[p] /\ upto[p] <= Len(log[p])
           /\ pos' = [pos EXCEPT ![w] = [p \in Partition |-> IF p \in D THEN upto[p] ELSE @[p]]]
    BY <1>1
  <1>3. D \subseteq Partition
    BY DEF TypeOK
  <1>4. \A p \in D : upto[p] \in Nat
    <2> TAKE p \in D
    <2>1. PICK q \in D : upto[p] \in 1..Len(log[q])
      BY <1>2
    <2>2. Len(log[q]) \in Nat
      BY <1>3 DEF TypeOK
    <2> QED
      BY <2>1, <2>2
  <1>5. /\ \A v \in Worker \ {w} : pos'[v] = pos[v] /\ start'[v] = start[v] /\ todo'[v] = todo[v]
        /\ \A p \in Partition : pos'[w][p] = IF p \in D THEN upto[p] ELSE pos[w][p]
        /\ \A p \in Partition : start'[w][p] = IF p \in D THEN pos[w][p] ELSE 0
        /\ todo'[w] = D
    BY <1>1, <1>2 DEF TypeOK
  <1>6. /\ UNCHANGED <<request, log, committed, member, assigned, cur, done, handled, passed, faults>>
        /\ cur[w] = None
    BY DEF Poll, Polling, groupVars, msgVars
  <1>7. pos' \in [Worker -> [Partition -> Nat]]
    <2>1. [p \in Partition |-> IF p \in D THEN upto[p] ELSE pos[w][p]] \in [Partition -> Nat]
      BY <1>4 DEF TypeOK
    <2> QED
      BY <1>2, <2>1 DEF TypeOK
  <1>8. start' \in [Worker -> [Partition -> Nat]]
    <2>1. [p \in Partition |-> IF p \in D THEN pos[w][p] ELSE 0] \in [Partition -> Nat]
      BY DEF TypeOK
    <2> QED
      BY <1>1, <2>1 DEF TypeOK
  <1>9. TypeOK'
    <2>1. todo' \in [Worker -> SUBSET Partition]
      BY <1>1, <1>3 DEF TypeOK
    <2> QED
      BY <1>6, <1>7, <1>8, <2>1 DEF TypeOK
  <1>10. PositionsInLog'
    <2>1. UNCHANGED log
      BY DEF Poll
    <2>2. \A p \in Partition : pos'[w][p] <= Len(log[p])
      <3> TAKE p \in Partition
      <3>1. CASE p \in D
        BY <1>2, <1>5, <3>1
      <3>2. CASE p \notin D
        BY <1>5, <3>2 DEF PositionsInLog
      <3> QED
        BY <3>1, <3>2
    <2> QED
      BY <1>5, <2>1, <2>2 DEF PositionsInLog
  <1>11. BatchesForward'
    <2> SUFFICES ASSUME NEW v \in Worker, NEW p \in Partition
                 PROVE  /\ InBatch(v, p)' => start'[v][p] <= pos'[v][p]
                        /\ p = cur'[v] => done'[v] <= pos'[v][p]
      BY DEF BatchesForward
    <2>1. CASE v # w
      BY <1>5, <1>6, <2>1 DEF BatchesForward, InBatch
    <2>2. CASE v = w
      <3>1. p # cur[w]
        BY <1>6, WorkerAssumption
      <3>2. p \in D => start'[w][p] <= pos'[w][p]
        <4> SUFFICES ASSUME p \in D PROVE pos[w][p] <= pos'[w][p]
          BY <1>5
        <4>1. pos[w][p] \in Nat
          <5>1. pos \in [Worker -> [Partition -> Nat]]
            BY DEF TypeOK
          <5> HIDE DEF Typed
          <5> QED
            BY <5>1
        <4>2. upto[p] \in Nat /\ pos[w][p] < upto[p]
          BY <1>2, <1>4
        <4>3. pos'[w][p] = upto[p]
          BY <1>5
        <4>4. \A m, n \in Nat : m < n => m <= n
          OBVIOUS
        <4> HIDE DEF Typed
        <4> QED
          BY <4>1, <4>2, <4>3, <4>4, Zenon
      <3>3. InBatch(w, p)' => p \in D
        BY <1>5, <1>6, <3>1 DEF InBatch
      <3>4. p # cur'[w]
        BY <1>6, <3>1
      <3> HIDE DEF Typed
      <3> QED
        BY <2>2, <3>2, <3>3, <3>4
    <2> QED
      BY <2>1, <2>2
  <1> QED
    BY <1>9, <1>10, <1>11

LEMMA RebalanceTyped ==
  ASSUME Typed, NEW G \in SUBSET Worker, Rebalance(G)
  PROVE  Typed'
  <1> USE DEF Typed
  <1>1. /\ pos' = [w \in Worker |-> IF w \in G THEN [p \in Partition |-> committed[p]] ELSE pos[w]]
        /\ member' = G
        /\ UNCHANGED <<request, log, committed, start, todo, cur, done, handled, passed>>
        /\ \A w \in G : todo[w] = {} /\ cur[w] = None
    BY DEF Rebalance, Resumed, batchVars, msgVars, Polling
  <1>2. faults' \in Nat
    BY DEF Rebalance, TypeOK
  <1>3. assigned' \in [Worker -> SUBSET Partition]
    <2>1. PICK share \in [Partition -> G] :
             assigned' = [w \in Worker |->
                             IF w \in G THEN {p \in Partition : share[p] = w} ELSE assigned[w]]
      BY DEF Rebalance
    <2> QED
      BY <2>1 DEF TypeOK
  <1>4. pos' \in [Worker -> [Partition -> Nat]]
    <2>1. [p \in Partition |-> committed[p]] \in [Partition -> Nat]
      BY DEF TypeOK
    <2> QED
      BY <1>1, <2>1 DEF TypeOK
  <1>5. TypeOK'
    BY <1>1, <1>2, <1>3, <1>4 DEF TypeOK
  <1>6. PositionsInLog'
    BY <1>1 DEF PositionsInLog, TypeOK
  <1>7. BatchesForward'
    <2>1. \A w \in G, p \in Partition : ~ InBatch(w, p)
      BY <1>1, WorkerAssumption DEF InBatch
    <2>2. \A w \in Worker \ G : pos'[w] = pos[w]
      BY <1>1
    <2> QED
      BY <1>1, <2>1, <2>2 DEF BatchesForward, InBatch
  <1> QED
    BY <1>5, <1>6, <1>7

\* Leaving a partition keeps the batch in shape, wherever its position goes to.
LEMMA LeaveTyped ==
  ASSUME Typed, NEW w \in Worker, cur[w] \in Partition, Leave(w),
         NEW n \in Nat, n <= pos[w][cur[w]], start[w][cur[w]] <= n,
         pos' = [pos EXCEPT ![w][cur[w]] = n] \/ UNCHANGED pos,
         UNCHANGED <<request, log, member, assigned, todo, handled, faults>>,
         passed' \in SUBSET Message,
         committed' \in [Partition -> Nat],
         \A p \in Partition : committed'[p] <= Len(log[p])
  PROVE  Typed'
  <1> USE DEF Typed
  <1> DEFINE k == cur[w]
  <1>1. /\ cur' = [cur EXCEPT ![w] = None]
        /\ start' = [start EXCEPT ![w][k] = 0]
        /\ done' = [done EXCEPT ![w] = 0]
    BY DEF Leave
  <1>2. /\ start' \in [Worker -> [Partition -> Nat]]
        /\ pos' \in [Worker -> [Partition -> Nat]]
    <2>1. start[w] \in [Partition -> Nat] /\ pos[w] \in [Partition -> Nat]
      BY DEF TypeOK
    <2>2. [start[w] EXCEPT ![k] = 0] \in [Partition -> Nat]
      BY <2>1
    <2>3. [pos[w] EXCEPT ![k] = n] \in [Partition -> Nat]
      BY <2>1
    <2>4. start' = [start EXCEPT ![w] = [start[w] EXCEPT ![k] = 0]]
      BY <1>1
    <2>5. pos' = [pos EXCEPT ![w] = [pos[w] EXCEPT ![k] = n]] \/ pos' = pos
      OBVIOUS
    <2>6. start' \in [Worker -> [Partition -> Nat]]
      BY <2>2, <2>4 DEF TypeOK
    <2>7. pos' \in [Worker -> [Partition -> Nat]]
      BY <2>3, <2>5 DEF TypeOK
    <2> QED
      BY <2>6, <2>7
  <1>3. TypeOK'
    BY <1>1, <1>2 DEF TypeOK
  <1>4. \A v \in Worker, p \in Partition :
           /\ pos'[v][p] = pos[v][p] \/ (v = w /\ p = k /\ pos'[v][p] = n)
           /\ start'[v][p] = IF v = w /\ p = k THEN 0 ELSE start[v][p]
           /\ cur'[v] = IF v = w THEN None ELSE cur[v]
           /\ done'[v] = IF v = w THEN 0 ELSE done[v]
    <2> TAKE v \in Worker, p \in Partition
    <2>1. pos'[v][p] = pos[v][p] \/ (v = w /\ p = k /\ pos'[v][p] = n)
      <3>1. CASE pos' = pos
        BY <3>1
      <3>2. CASE pos' = [pos EXCEPT ![w][k] = n]
        <4>1. pos \in [Worker -> [Partition -> Nat]]
          BY DEF TypeOK
        <4> HIDE DEF Typed
        <4> QED
          BY <3>2, <4>1
      <3> QED
        BY <3>1, <3>2
    <2>2. start'[v][p] = IF v = w /\ p = k THEN 0 ELSE start[v][p]
      BY <1>1 DEF TypeOK
    <2>3. /\ cur'[v] = IF v = w THEN None ELSE cur[v]
          /\ done'[v] = IF v = w THEN 0 ELSE done[v]
      BY <1>1 DEF TypeOK
    <2> QED
      BY <2>1, <2>2, <2>3
  <1>5. \A v \in Worker, p \in Partition : pos'[v][p] \in Nat /\ pos'[v][p] <= pos[v][p]
    <2> TAKE v \in Worker, p \in Partition
    <2>1. pos'[v][p] \in Nat /\ pos[v][p] \in Nat
      BY <1>2 DEF TypeOK
    <2> HIDE DEF Typed
    <2> QED
      BY <1>4, <2>1
  <1>6. PositionsInLog'
    <2> SUFFICES ASSUME NEW v \in Worker, NEW p \in Partition
                 PROVE  pos'[v][p] <= Len(log[p])
      BY DEF PositionsInLog
    <2>1. pos[v][p] <= Len(log[p]) /\ pos[v][p] \in Nat /\ Len(log[p]) \in Nat
      BY DEF PositionsInLog, TypeOK
    <2> QED
      BY <1>5, <2>1
  <1>7. BatchesForward'
    <2> SUFFICES ASSUME NEW v \in Worker, NEW p \in Partition
                 PROVE  /\ InBatch(v, p)' => start'[v][p] <= pos'[v][p]
                        /\ p = cur'[v] => done'[v] <= pos'[v][p]
      BY DEF BatchesForward
    <2>1. CASE v = w /\ p = k
      BY <1>4, <1>5, <2>1, WorkerAssumption
    <2>2. CASE v = w /\ p # k
      BY <1>4, <2>2, WorkerAssumption DEF BatchesForward, InBatch
    <2>3. CASE v # w
      BY <1>4, <2>3 DEF BatchesForward, InBatch
    <2> QED
      BY <2>1, <2>2, <2>3
  <1> QED
    BY <1>3, <1>6, <1>7

LEMMA WaitingTyped ==
  ASSUME TypeOK, NEW w \in Worker
  PROVE  Waiting(w) \subseteq Message
  <1> SUFFICES ASSUME NEW p \in todo[w], NEW i \in start[w][p] + 1 .. pos[w][p]
               PROVE  <<p, i>> \in Message
    BY DEF Waiting
  <1>1. p \in Partition
    BY DEF TypeOK
  <1>2. start[w][p] \in Nat
    BY <1>1 DEF TypeOK
  <1>3. i \in Nat
    BY <1>2
  <1> QED
    BY <1>1, <1>3 DEF Message

LEMMA WorkTyped ==
  ASSUME Typed, NEW w \in Worker, Work(w)
  PROVE  Typed'
  <1> USE DEF Typed
  <1>1. CASE Turn(w)
    <2>1. PICK p \in todo[w] :
             /\ cur'  = [cur EXCEPT ![w] = p]
             /\ todo' = [todo EXCEPT ![w] = @ \ {p}]
             /\ done' = [done EXCEPT ![w] = start[w][p]]
      BY <1>1 DEF Turn
    <2>2. UNCHANGED <<request, log, committed, member, assigned, pos, start, handled, passed, faults>>
      BY <1>1 DEF Turn, groupVars, msgVars
    <2>3. p \in Partition
      BY DEF TypeOK
    <2>4. TypeOK'
      BY <2>1, <2>2, <2>3 DEF TypeOK
    <2>5. PositionsInLog'
      BY <2>2 DEF PositionsInLog
    <2>6. BatchesForward'
      BY <2>1, <2>2, <2>3 DEF BatchesForward, InBatch, TypeOK
    <2> QED
      BY <2>4, <2>5, <2>6
  <1>2. CASE Handle(w)
    <2> USE <1>2 DEF Handle, More, groupVars
    <2>1. cur[w] \in Partition /\ done[w] + 1 \in Nat /\ done[w] + 1 <= pos[w][cur[w]]
      BY DEF TypeOK
    <2>2. handled' \in SUBSET Message
      BY <2>1 DEF TypeOK, Message
    <2>3. TypeOK'
      BY <2>1, <2>2 DEF TypeOK
    <2>4. PositionsInLog'
      BY DEF PositionsInLog
    <2>5. BatchesForward'
      BY <2>1 DEF BatchesForward, InBatch, TypeOK
    <2> QED
      BY <2>3, <2>4, <2>5
  <1>3. CASE Retry(w)
    <2>1. cur[w] \in Partition
      BY <1>3 DEF Retry, More, TypeOK
    <2>2. start[w][cur[w]] \in Nat /\ start[w][cur[w]] <= pos[w][cur[w]]
      BY <2>1 DEF TypeOK, BatchesForward, InBatch
    <2>3. committed \in [Partition -> Nat] /\ \A p \in Partition : committed[p] <= Len(log[p])
      BY DEF TypeOK
    <2>4. /\ Leave(w) /\ pos' = [pos EXCEPT ![w][cur[w]] = start[w][cur[w]]]
          /\ UNCHANGED <<committed, request, log, member, assigned, todo, handled, faults>>
      BY <1>3 DEF Retry, groupVars, msgVars
    <2>5. start[w][cur[w]] <= start[w][cur[w]]
      BY <2>2
    <2>6. passed' \in SUBSET Message
      BY <1>3 DEF Retry, msgVars, TypeOK
    <2> HIDE DEF Typed
    <2> QED
      BY <2>1, <2>2, <2>3, <2>4, <2>5, <2>6, LeaveTyped
  <1>4. CASE Commit(w)
    <2>1. cur[w] \in Partition
      BY <1>4 DEF Commit, Finished, TypeOK
    <2>2. /\ start[w][cur[w]] <= pos[w][cur[w]]
          /\ pos[w][cur[w]] \in Nat
      BY <2>1 DEF TypeOK, BatchesForward, InBatch
    <2>3. committed' = [p \in Partition |-> IF p \in assigned[w] THEN pos[w][p] ELSE committed[p]]
      BY <1>4 DEF Commit
    <2>4. committed' \in [Partition -> Nat] /\ \A p \in Partition : committed'[p] <= Len(log[p])
      BY <2>3 DEF TypeOK, PositionsInLog
    <2>5. Leave(w) /\ UNCHANGED <<pos, request, log, member, assigned, todo, handled, faults>>
      BY <1>4 DEF Commit
    <2>6. pos[w][cur[w]] <= pos[w][cur[w]]
      BY <2>2
    <2>7. passed' \in SUBSET Message
      BY <1>4, WaitingTyped DEF Commit, TypeOK
    <2> QED
      BY <2>1, <2>2, <2>4, <2>5, <2>6, <2>7, LeaveTyped
  <1>5. CASE CommitFails(w)
    <2> USE <1>5 DEF CommitFails, groupVars
    <2>1. Zero \in [Partition -> Nat] /\ passed' \in SUBSET Message
      BY WaitingTyped DEF Zero, TypeOK
    <2>2. TypeOK'
      BY <2>1 DEF TypeOK
    <2>3. PositionsInLog'
      BY DEF PositionsInLog
    <2>4. BatchesForward'
      BY WorkerAssumption DEF BatchesForward, InBatch, TypeOK
    <2> QED
      BY <2>2, <2>3, <2>4
  <1> QED
    BY <1>1, <1>2, <1>3, <1>4, <1>5 DEF Work

LEMMA CrashTyped ==
  ASSUME Typed, NEW w \in Worker, Crash(w)
  PROVE  Typed'
  <1> USE DEF Typed, Crash, msgVars
  <1>1. Zero \in [Partition -> Nat] /\ \A p \in Partition : Zero[p] = 0
    BY DEF Zero
  <1>2. TypeOK'
    BY <1>1 DEF TypeOK
  <1>3. \A v \in Worker, p \in Partition : pos'[v][p] = IF v = w THEN 0 ELSE pos[v][p]
    BY <1>1 DEF TypeOK
  <1>4. PositionsInLog'
    <2> SUFFICES ASSUME NEW v \in Worker, NEW p \in Partition PROVE pos'[v][p] <= Len(log[p])
      BY DEF PositionsInLog
    <2>1. Len(log[p]) \in Nat
      BY DEF TypeOK
    <2> QED
      BY <1>3, <2>1 DEF PositionsInLog
  <1>5. BatchesForward'
    <2>1. \A v \in Worker \ {w} :
             /\ pos'[v] = pos[v] /\ start'[v] = start[v] /\ done'[v] = done[v]
             /\ todo'[v] = todo[v] /\ cur'[v] = cur[v]
      BY DEF TypeOK
    <2>2. todo'[w] = {} /\ cur'[w] = None
      BY DEF TypeOK
    <2> QED
      BY <2>1, <2>2, WorkerAssumption DEF BatchesForward, InBatch
  <1> QED
    BY <1>2, <1>4, <1>5

LEMMA TypedInit == Init => Typed
  <1> SUFFICES ASSUME Init PROVE Typed
    OBVIOUS
  <1>1. Zero \in [Partition -> Nat] /\ \A p \in Partition : Zero[p] = 0
    BY DEF Zero
  <1>2. \A p \in Partition : Len(log[p]) = 0
    BY DEF Init
  <1>3. TypeOK
    BY <1>1, <1>2 DEF Init, TypeOK
  <1>4. PositionsInLog
    BY <1>1, <1>2 DEF Init, PositionsInLog
  <1>5. BatchesForward
    BY WorkerAssumption DEF Init, BatchesForward, InBatch
  <1> QED
    BY <1>3, <1>4, <1>5 DEF Typed

LEMMA TypedStep == Typed /\ [Next]_vars => Typed'
  <1> SUFFICES ASSUME Typed, [Next]_vars PROVE Typed'
    OBVIOUS
  <1>1. ASSUME NEW e \in Item, Direct(e) PROVE Typed'
    BY <1>1 DEF Direct, Typed, TypeOK, PositionsInLog, BatchesForward, InBatch,
                groupVars, loopVars, batchVars, msgVars
  <1>2. CASE UNCHANGED vars
    BY <1>2 DEF vars, Typed, TypeOK, PositionsInLog, BatchesForward, InBatch,
                groupVars, loopVars, batchVars, msgVars
  <1> QED
    BY <1>1, <1>2, PublishTyped, RebalanceTyped, PollTyped, WorkTyped, CrashTyped DEF Next

\* Every variable keeps its type, and no committed offset is beyond its partition's
\* end: what is committed are positions, and poll() and seek() keep those inside.
THEOREM WorkerTypeCorrect == Spec => []TypeOK
  <1>1. Spec => []Typed
    BY TypedInit, TypedStep, PTL DEF Spec
  <1>2. Typed => TypeOK
    BY DEF Typed
  <1> QED
    BY <1>1, <1>2, PTL

-----------------------------------------------------------------------------
(* What a worker has let go of was handled, or passed before its turn, and  *)
(* what it still holds begins where its batch began.                       *)

\* What w would commit of p if it gave up the batch it has now.
Base(w, p) == IF InBatch(w, p) THEN start[w][p] ELSE pos[w][p]

HandledUpTo(p, n) == \A i \in 1..n : <<p, i>> \in handled \cup passed

CurrentIsNotWaiting == \A w \in Worker : cur[w] \notin todo[w]

BatchIsAssigned ==
    \A w \in Worker, p \in Partition : InBatch(w, p) => p \in assigned[w]

LeftIsHandled ==
    \A w \in Worker : \A p \in assigned[w] :
        /\ HandledUpTo(p, Base(w, p))
        /\ p = cur[w] => HandledUpTo(p, done[w])

Shape    == CurrentIsNotWaiting /\ BatchIsAssigned
Delivery == OnlyWaitingIsPassed /\ LeftIsHandled

\* A batch is of partitions the worker was given, one at a time.
LEMMA ShapeStep ==
  ASSUME Typed, Shape, [Next]_vars
  PROVE  Shape'
  <1> USE DEF Typed, Shape
  <1>1. ASSUME NEW w \in Worker, Poll(w) PROVE Shape'
    <2>1. PICK D \in (SUBSET assigned[w]) \ {{}} : todo' = [todo EXCEPT ![w] = D]
      BY <1>1 DEF Poll
    <2>2. UNCHANGED <<assigned, cur>> /\ cur[w] = None
      BY <1>1 DEF Poll, Polling, groupVars
    <2>3. \A v \in Worker : todo'[v] = IF v = w THEN D ELSE todo[v]
      BY <2>1 DEF TypeOK
    <2>4. D \subseteq Partition
      BY DEF TypeOK
    <2>5. CurrentIsNotWaiting'
      BY <2>2, <2>3, <2>4, WorkerAssumption DEF CurrentIsNotWaiting
    <2>6. BatchIsAssigned'
      BY <2>2, <2>3, WorkerAssumption DEF BatchIsAssigned, InBatch
    <2> QED
      BY <2>5, <2>6
  <1>2. ASSUME NEW w \in Worker, Work(w) PROVE Shape'
    <2>1. /\ UNCHANGED assigned
          /\ \A v \in Worker \ {w} : todo'[v] = todo[v] /\ cur'[v] = cur[v]
          /\ \/ cur[w] = None /\ \E p \in todo[w] : cur'[w] = p /\ todo'[w] = todo[w] \ {p}
             \/ cur'[w] = cur[w] /\ todo'[w] = todo[w]
             \/ cur'[w] = None /\ todo'[w] \in {todo[w], {}}
      <3>1. CASE Turn(w)
        BY <3>1 DEF Turn, groupVars, TypeOK
      <3>2. CASE Handle(w)
        BY <3>2 DEF Handle, groupVars
      <3>3. CASE Retry(w) \/ Commit(w)
        BY <3>3 DEF Retry, Commit, Leave, groupVars, TypeOK
      <3>4. CASE CommitFails(w)
        BY <3>4 DEF CommitFails, groupVars, TypeOK
      <3> QED
        BY <1>2, <3>1, <3>2, <3>3, <3>4 DEF Work
    <2>2. CurrentIsNotWaiting'
      <3>1. None \notin todo[w]
        BY WorkerAssumption DEF TypeOK
      <3> QED
        BY <2>1, <3>1 DEF CurrentIsNotWaiting
    <2>3. BatchIsAssigned'
      BY <2>1, WorkerAssumption DEF BatchIsAssigned, InBatch
    <2> QED
      BY <2>2, <2>3
  <1>3. ASSUME NEW w \in Worker, Crash(w) PROVE Shape'
    <2>1. \A v \in Worker \ {w} : todo'[v] = todo[v] /\ cur'[v] = cur[v] /\ assigned'[v] = assigned[v]
      BY <1>3 DEF Crash, TypeOK
    <2>2. todo'[w] = {} /\ cur'[w] = None
      BY <1>3 DEF Crash, TypeOK
    <2> QED
      BY <2>1, <2>2, WorkerAssumption DEF CurrentIsNotWaiting, BatchIsAssigned, InBatch
  <1>4. ASSUME NEW G \in SUBSET Worker, Rebalance(G) PROVE Shape'
    <2>1. UNCHANGED <<todo, cur>> /\ \A w \in G : todo[w] = {} /\ cur[w] = None
      BY <1>4 DEF Rebalance, batchVars, Polling
    <2>2. \A w \in Worker \ G : assigned'[w] = assigned[w]
      BY <1>4 DEF Rebalance
    <2> QED
      BY <2>1, <2>2, WorkerAssumption DEF CurrentIsNotWaiting, BatchIsAssigned, InBatch
  <1>5. ASSUME NEW e \in Item, Publish(e) \/ Direct(e) PROVE Shape'
    BY <1>5 DEF Publish, Direct, groupVars, loopVars, batchVars, CurrentIsNotWaiting, BatchIsAssigned, InBatch
  <1>6. CASE UNCHANGED vars
    BY <1>6 DEF vars, groupVars, loopVars, batchVars, CurrentIsNotWaiting, BatchIsAssigned, InBatch
  <1> QED
    BY <1>1, <1>2, <1>3, <1>4, <1>5, <1>6 DEF Next

\* Until it commits or its commit fails, what a worker has let go of stays the same.
LEMMA BaseStays ==
  ASSUME Typed, Shape, NEW w \in Worker, Poll(w) \/ Turn(w) \/ Handle(w) \/ Retry(w)
  PROVE  \A v \in Worker, p \in Partition : Base(v, p)' = Base(v, p)
  <1> USE DEF Typed, Shape
  <1> SUFFICES ASSUME NEW v \in Worker, NEW p \in Partition PROVE Base(v, p)' = Base(v, p)
    OBVIOUS
  <1>1. CASE v # w
    <2>1. /\ todo'[v] = todo[v] /\ cur'[v] = cur[v]
          /\ start'[v] = start[v] /\ pos'[v] = pos[v]
      <3>1. CASE Poll(w)
        BY <1>1, <3>1 DEF Poll, TypeOK
      <3>2. CASE Turn(w) \/ Handle(w)
        BY <1>1, <3>2 DEF Turn, Handle, TypeOK
      <3>3. CASE Retry(w)
        BY <1>1, <3>3 DEF Retry, Leave, TypeOK
      <3> QED
        BY <3>1, <3>2, <3>3
    <2> QED
      BY <2>1 DEF Base, InBatch
  <1>2. CASE v = w /\ Poll(w)
    <2>1. PICK D \in (SUBSET assigned[w]) \ {{}} :
             /\ todo' = [todo EXCEPT ![w] = D]
             /\ start' = [start EXCEPT ![w] = [q \in Partition |-> IF q \in D THEN pos[w][q] ELSE 0]]
             /\ \E upto : pos' = [pos EXCEPT ![w] =
                                     [q \in Partition |-> IF q \in D THEN upto[q] ELSE @[q]]]
      BY <1>2 DEF Poll
    <2>2. /\ todo'[w] = D
          /\ p \in D => start'[w][p] = pos[w][p]
          /\ p \notin D => pos'[w][p] = pos[w][p]
      BY <2>1 DEF TypeOK
    <2>3. cur'[w] = None /\ cur[w] = None /\ todo[w] = {}
      BY <1>2 DEF Poll, Polling
    <2> QED
      BY <1>2, <2>2, <2>3, WorkerAssumption DEF Base, InBatch
  <1>3. CASE v = w /\ Turn(w)
    <2>1. PICK q \in todo[w] : cur'[w] = q /\ todo'[w] = todo[w] \ {q}
      BY <1>3 DEF Turn, TypeOK
    <2>2. UNCHANGED <<start, pos>> /\ cur[w] = None
      BY <1>3 DEF Turn
    <2> QED
      BY <1>3, <2>1, <2>2, WorkerAssumption DEF Base, InBatch
  <1>4. CASE v = w /\ Handle(w)
    BY <1>4 DEF Handle, Base, InBatch
  <1>5. CASE v = w /\ Retry(w)
    <2>1. cur[w] \in Partition /\ cur[w] \notin todo[w]
      BY <1>5 DEF Retry, More, CurrentIsNotWaiting, TypeOK
    <2>2. cur'[w] = None /\ todo'[w] = todo[w]
      BY <1>5, <2>1 DEF Retry, Leave, TypeOK
    <2>4. start'[w][p] = IF p = cur[w] THEN 0 ELSE start[w][p]
      <3>1. start' = [start EXCEPT ![w][cur[w]] = 0]
        BY <1>5 DEF Retry, Leave
      <3> QED
        BY <2>1, <3>1 DEF TypeOK
    <2>3. pos'[w][p] = IF p = cur[w] THEN start[w][p] ELSE pos[w][p]
      <3>1. pos' = [pos EXCEPT ![w][cur[w]] = start[w][cur[w]]]
        BY <1>5 DEF Retry
      <3> QED
        BY <2>1, <3>1 DEF TypeOK
    <2> QED
      BY <1>5, <2>1, <2>2, <2>3, <2>4, WorkerAssumption DEF Base, InBatch
  <1> QED
    BY <1>1, <1>2, <1>3, <1>4, <1>5

\* When a worker is through with a partition and commits, or fails to, everything
\* up to its positions was let go of before, is of the partition it is through
\* with, or is passed now.
LEMMA BatchEnds ==
  ASSUME Typed, Shape, NEW w \in Worker, Commit(w) \/ CommitFails(w)
  PROVE  /\ cur[w] \in Partition /\ done[w] = pos[w][cur[w]]
         /\ \A p \in Partition : \/ p = cur[w]
                                 \/ Base(w, p) = pos[w][p]
                                 \/ /\ Base(w, p) = start[w][p]
                                    /\ \A i \in start[w][p] + 1 .. pos[w][p] : <<p, i>> \in passed'
         /\ \A p \in Partition : Base(w, p)' \in {Base(w, p), pos[w][p]}
         /\ \A p \in Partition : p = cur[w] => Base(w, p)' = pos[w][p]
         /\ \A v \in Worker \ {w}, p \in Partition : Base(v, p)' = Base(v, p)
         /\ cur'[w] = None
         /\ \A v \in Worker \ {w} : cur'[v] = cur[v] /\ done'[v] = done[v]
         /\ UNCHANGED <<assigned, handled, member>>
         /\ passed \subseteq passed'
  <1> USE DEF Typed, Shape
  <1>1. cur[w] \in Partition /\ cur[w] \notin todo[w] /\ todo[w] \subseteq Partition
    BY DEF Commit, CommitFails, Finished, CurrentIsNotWaiting, TypeOK
  <1>2. done[w] = pos[w][cur[w]]
    <2>1. done[w] \in Nat /\ pos[w][cur[w]] \in Nat /\ done[w] <= pos[w][cur[w]]
      BY <1>1 DEF BatchesForward, TypeOK
    <2>2. ~ (done[w] < pos[w][cur[w]])
      BY DEF Commit, CommitFails, Finished, More
    <2> QED
      BY <2>1, <2>2
  <1>3. UNCHANGED <<pos, assigned, handled, member>> /\ passed' = passed \cup Waiting(w)
    BY DEF Commit, CommitFails, groupVars
  <1>4. cur'[w] = None /\ todo'[w] \in {todo[w], {}}
    BY <1>1 DEF Commit, CommitFails, Leave, TypeOK
  <1>5. \A v \in Worker \ {w} : /\ cur'[v] = cur[v] /\ done'[v] = done[v]
                               /\ todo'[v] = todo[v] /\ start'[v] = start[v]
    BY DEF Commit, CommitFails, Leave, TypeOK
  <1>6. todo'[w] = todo[w] => \A p \in todo[w] : start'[w][p] = start[w][p] \/ todo[w] = {}
    <2>1. CASE Commit(w)
      <3>1. start' = [start EXCEPT ![w][cur[w]] = 0]
        BY <2>1 DEF Commit, Leave
      <3> QED
        BY <1>1, <3>1 DEF TypeOK
    <2>2. CASE CommitFails(w)
      BY <2>2 DEF CommitFails, TypeOK
    <2> QED
      BY <2>1, <2>2
  <1>7. ASSUME NEW p \in Partition, p # cur[w]
        PROVE  \/ Base(w, p) = pos[w][p]
               \/ /\ Base(w, p) = start[w][p]
                  /\ \A i \in start[w][p] + 1 .. pos[w][p] : <<p, i>> \in passed'
    <2>1. CASE p \notin todo[w]
      BY <1>7, <2>1 DEF Base, InBatch
    <2>2. CASE p \in todo[w]
      BY <1>3, <2>2 DEF Base, InBatch, Waiting
    <2> QED
      BY <2>1, <2>2
  <1>8. ASSUME NEW p \in Partition
        PROVE  /\ Base(w, p)' \in {Base(w, p), pos[w][p]}
               /\ p = cur[w] => Base(w, p)' = pos[w][p]
    <2>1. CASE p \in todo'[w]
      BY <1>1, <1>4, <1>6, <2>1 DEF Base, InBatch
    <2>2. CASE p \notin todo'[w]
      BY <1>3, <1>4, <2>2, WorkerAssumption DEF Base, InBatch
    <2> QED
      BY <1>1, <1>4, <2>1, <2>2
  <1>9. \A v \in Worker \ {w}, p \in Partition : Base(v, p)' = Base(v, p)
    BY <1>3, <1>5 DEF Base, InBatch
  <1>10. /\ \A p \in Partition : Base(w, p)' \in {Base(w, p), pos[w][p]}
         /\ \A p \in Partition : p = cur[w] => Base(w, p)' = pos[w][p]
    BY <1>8
  <1>11. passed \subseteq passed'
    BY <1>3
  <1>12. \A p \in Partition : \/ p = cur[w]
                            \/ Base(w, p) = pos[w][p]
                            \/ /\ Base(w, p) = start[w][p]
                               /\ \A i \in start[w][p] + 1 .. pos[w][p] : <<p, i>> \in passed'
    BY <1>7
  <1>13. /\ cur[w] \in Partition /\ done[w] = pos[w][cur[w]] /\ cur'[w] = None
         /\ \A v \in Worker \ {w} : cur'[v] = cur[v] /\ done'[v] = done[v]
         /\ UNCHANGED <<assigned, handled, member>>
    BY <1>1, <1>2, <1>3, <1>4, <1>5
  <1> HIDE DEF Typed, Shape
  <1> QED
    BY <1>9, <1>10, <1>11, <1>12, <1>13

LEMMA DeliveryStep ==
  ASSUME Typed, Shape, Delivery, [Next]_vars
  PROVE  Delivery'
  <1> USE DEF Delivery
  <1>1. ASSUME NEW w \in Worker, Poll(w) \/ Turn(w) \/ Handle(w) \/ Retry(w) PROVE Delivery'
    <2>1. UNCHANGED <<committed, assigned, passed>> /\ handled \subseteq handled'
      BY <1>1 DEF Poll, Turn, Handle, Retry, groupVars, msgVars
    <2>2. \A v \in Worker, p \in Partition : Base(v, p)' = Base(v, p)
      BY <1>1, BaseStays
    <2>3. OnlyWaitingIsPassed'
      BY <2>1 DEF OnlyWaitingIsPassed
    <2>4. \A v \in Worker, p \in Partition :
             p \in assigned[v] => HandledUpTo(p, Base(v, p))'
      BY <2>1, <2>2 DEF LeftIsHandled, HandledUpTo
    <2>5. \A v \in Worker, p \in Partition :
             p \in assigned[v] /\ p = cur'[v] => HandledUpTo(p, done[v])'
      <3> SUFFICES ASSUME NEW v \in Worker, NEW p \in Partition, p \in assigned[v], p = cur'[v]
                   PROVE  HandledUpTo(p, done[v])'
        OBVIOUS
      <3>1. CASE UNCHANGED <<cur, done>>
        BY <2>1, <3>1 DEF LeftIsHandled, HandledUpTo
      <3>2. CASE v # w
        <4>1. cur'[v] = cur[v] /\ done'[v] = done[v]
          BY <1>1, <3>2 DEF Poll, Turn, Handle, Retry, Leave, Typed, TypeOK
        <4> QED
          BY <2>1, <4>1 DEF LeftIsHandled, HandledUpTo
      <3>3. CASE v = w /\ Turn(w)
        <4>1. PICK q \in todo[w] : cur'[w] = q /\ done'[w] = start[w][q]
          BY <3>3 DEF Turn, Typed, TypeOK
        <4>2. q = p /\ Base(w, p) = start[w][p]
          BY <3>3, <4>1 DEF Base, InBatch
        <4> QED
          BY <2>1, <3>3, <4>1, <4>2 DEF LeftIsHandled, HandledUpTo
      <3>4. CASE v = w /\ Handle(w)
        <4>1. /\ cur' = cur /\ done'[w] = done[w] + 1 /\ done[w] \in Nat
              /\ handled' = handled \cup {<<p, done[w] + 1>>}
          BY <3>4 DEF Handle, Typed, TypeOK
        <4>2. HandledUpTo(p, done[w])
          BY <3>4, <4>1 DEF LeftIsHandled
        <4> HIDE DEF Delivery
        <4>3. \A n \in 1..(done[w] + 1) : n \in 1..done[w] \/ n = done[w] + 1
          BY <4>1
        <4> QED
          BY <2>1, <3>4, <4>1, <4>2, <4>3 DEF HandledUpTo
      <3>5. CASE v = w /\ Retry(w)
        BY <3>5, WorkerAssumption DEF Retry, Leave, Typed, TypeOK
      <3> QED
        BY <1>1, <3>1, <3>2, <3>3, <3>4, <3>5 DEF Poll
    <2>6. LeftIsHandled'
      <3>1. \A v \in Worker : assigned[v] \subseteq Partition
        BY DEF Typed, TypeOK
      <3> QED
        BY <2>1, <2>4, <2>5, <3>1 DEF LeftIsHandled
    <2> QED
      BY <2>3, <2>6
  <1>2. ASSUME NEW w \in Worker, Commit(w) \/ CommitFails(w) PROVE Delivery'
    <2>0. /\ UNCHANGED <<assigned, handled>> /\ passed \subseteq passed'
          /\ assigned[w] \subseteq Partition
      BY <1>2, BatchEnds DEF Typed, TypeOK
    <2>1. ASSUME NEW p \in assigned[w]
          PROVE  \A i \in 1..pos[w][p] : <<p, i>> \in handled' \cup passed'
      <3>0. p \in Partition
        BY <2>0
      <3>1. CASE p = cur[w]
        <4>1. HandledUpTo(p, done[w]) /\ done[w] = pos[w][p]
          BY <1>2, <3>1, BatchEnds DEF LeftIsHandled
        <4> QED
          BY <2>0, <4>1 DEF HandledUpTo
      <3>2. CASE Base(w, p) = pos[w][p]
        <4>1. HandledUpTo(p, pos[w][p])
          BY <3>2 DEF LeftIsHandled
        <4> QED
          BY <2>0, <4>1 DEF HandledUpTo
      <3>3. CASE Base(w, p) = start[w][p] /\ \A i \in start[w][p] + 1 .. pos[w][p] : <<p, i>> \in passed'
        <4>1. HandledUpTo(p, start[w][p])
          BY <3>3 DEF LeftIsHandled
        <4>2. start[w][p] \in Nat /\ pos[w][p] \in Nat
          BY <2>0 DEF Typed, TypeOK
        <4>3. \A i \in 1..pos[w][p] : i \in 1..start[w][p] \/ i \in start[w][p] + 1 .. pos[w][p]
          BY <4>2
        <4> QED
          BY <2>0, <3>3, <4>1, <4>3 DEF HandledUpTo
      <3>4. \/ p = cur[w]
            \/ Base(w, p) = pos[w][p]
            \/ /\ Base(w, p) = start[w][p]
               /\ \A i \in start[w][p] + 1 .. pos[w][p] : <<p, i>> \in passed'
        BY <1>2, <3>0, BatchEnds
      <3> QED
        BY <3>1, <3>2, <3>3, <3>4
    <2>2. OnlyWaitingIsPassed'
      <3>1. \A p \in Partition : committed'[p] \in {committed[p]} \cup
                                    (IF p \in assigned[w] THEN {pos[w][p]} ELSE {})
        BY <1>2 DEF Commit, CommitFails, groupVars
      <3> QED
        BY <2>0, <2>1, <3>1 DEF OnlyWaitingIsPassed
    <2>3. LeftIsHandled'
      <3> SUFFICES ASSUME NEW v \in Worker, NEW p \in assigned[v]
                   PROVE  (HandledUpTo(p, Base(v, p)) /\ (p = cur[v] => HandledUpTo(p, done[v])))'
        BY <2>0 DEF LeftIsHandled
      <3>1. p \in Partition
        BY DEF Typed, TypeOK
      <3>2. CASE v = w
        <4>1. cur'[w] # p
          BY <1>2, <3>1, BatchEnds, WorkerAssumption
        <4>2. Base(w, p)' \in {Base(w, p), pos[w][p]}
          BY <1>2, <3>1, BatchEnds
        <4>3. HandledUpTo(p, Base(w, p))
          BY <3>2 DEF LeftIsHandled
        <4>4. CASE Base(w, p)' = Base(w, p)
          BY <2>0, <3>2, <4>1, <4>3, <4>4 DEF HandledUpTo
        <4>5. CASE Base(w, p)' = pos[w][p]
          BY <2>1, <3>2, <4>1, <4>5 DEF HandledUpTo
        <4> QED
          BY <3>2, <4>1, <4>2, <4>4, <4>5
      <3>3. CASE v # w
        <4>1. Base(v, p)' = Base(v, p) /\ cur'[v] = cur[v] /\ done'[v] = done[v]
          BY <1>2, <3>1, <3>3, BatchEnds
        <4> QED
          BY <2>0, <4>1 DEF LeftIsHandled, HandledUpTo
      <3> QED
        BY <3>2, <3>3
    <2> QED
      BY <2>2, <2>3
  <1>3. ASSUME NEW w \in Worker, Crash(w) PROVE Delivery'
    <2>1. UNCHANGED <<committed, handled, passed>>
      BY <1>3 DEF Crash, msgVars
    <2>2. assigned'[w] = {} /\ \A v \in Worker \ {w} :
             /\ assigned'[v] = assigned[v] /\ todo'[v] = todo[v] /\ cur'[v] = cur[v]
             /\ start'[v] = start[v] /\ pos'[v] = pos[v] /\ done'[v] = done[v]
      BY <1>3 DEF Crash, Typed, TypeOK
    <2>3. OnlyWaitingIsPassed'
      BY <2>1 DEF OnlyWaitingIsPassed
    <2>4. LeftIsHandled'
      BY <2>1, <2>2 DEF LeftIsHandled, HandledUpTo, Base, InBatch
    <2> QED
      BY <2>3, <2>4
  <1>4. ASSUME NEW G \in SUBSET Worker, Rebalance(G) PROVE Delivery'
    <2>1. /\ UNCHANGED <<committed, handled, passed, todo, cur, start, done>>
          /\ \A w \in G : todo[w] = {} /\ cur[w] = None
          /\ \A w \in Worker \ G : assigned'[w] = assigned[w] /\ pos'[w] = pos[w]
          /\ \A w \in G : pos'[w] = [p \in Partition |-> committed[p]]
      BY <1>4 DEF Rebalance, Resumed, Polling, batchVars, msgVars
    <2>2. OnlyWaitingIsPassed'
      BY <2>1 DEF OnlyWaitingIsPassed
    <2>3. LeftIsHandled'
      <3> SUFFICES ASSUME NEW w \in Worker, NEW p \in assigned'[w]
                   PROVE  (/\ HandledUpTo(p, Base(w, p))
                           /\ p = cur[w] => HandledUpTo(p, done[w]))'
        BY DEF LeftIsHandled
      <3>1. CASE w \in G
        <4>1. p \in Partition
          BY <1>4, RebalanceTyped DEF Typed, TypeOK
        <4>2. ~ InBatch(w, p)' /\ cur'[w] # p
          BY <2>1, <3>1, <4>1, WorkerAssumption DEF InBatch
        <4>3. pos'[w][p] = committed[p]
          <5>1. pos'[w] = [q \in Partition |-> committed[q]]
            BY <2>1, <3>1
          <5> HIDE DEF Delivery
          <5> QED
            BY <4>1, <5>1
        <4>4. Base(w, p)' = committed[p]
          BY <4>2, <4>3 DEF Base
        <4>5. HandledUpTo(p, committed[p])'
          BY <2>1, <4>1 DEF OnlyWaitingIsPassed, HandledUpTo
        <4>6. committed'[p] = committed[p]
          BY <2>1
        <4> QED
          BY <4>2, <4>4, <4>5, <4>6 DEF HandledUpTo
      <3>2. CASE w \notin G
        BY <2>1, <3>2 DEF LeftIsHandled, HandledUpTo, Base, InBatch
      <3> QED
        BY <3>1, <3>2
    <2> QED
      BY <2>2, <2>3
  <1>5. ASSUME NEW e \in Item, Publish(e) \/ Direct(e) PROVE Delivery'
    BY <1>5 DEF Publish, Direct, groupVars, loopVars, batchVars, msgVars, OnlyWaitingIsPassed,
                LeftIsHandled, HandledUpTo, Base, InBatch
  <1>6. CASE UNCHANGED vars
    BY <1>6 DEF vars, groupVars, loopVars, batchVars, msgVars, OnlyWaitingIsPassed,
                LeftIsHandled, HandledUpTo, Base, InBatch
  <1> QED
    BY <1>1, <1>2, <1>3, <1>4, <1>5, <1>6 DEF Next, Work

LEMMA DeliveryInit == Init => Shape /\ Delivery
  <1> SUFFICES ASSUME Init PROVE Shape /\ Delivery
    OBVIOUS
  <1>1. Shape
    BY WorkerAssumption DEF Init, Shape, CurrentIsNotWaiting, BatchIsAssigned, InBatch
  <1>2. OnlyWaitingIsPassed
    BY DEF Init, Zero, OnlyWaitingIsPassed
  <1>3. LeftIsHandled
    BY DEF Init, LeftIsHandled
  <1> QED
    BY <1>1, <1>2, <1>3 DEF Delivery

\* No message is lost through seeks, crashes, rebalances and failed commits, with
\* however many partitions in a poll(): what a committed offset covers was answered
\* True, unless it waited for its turn while another partition was committed.
THEOREM OnlyWaitingMessagesArePassed == Spec => []OnlyWaitingIsPassed
  <1> DEFINE Inv == Typed /\ Shape /\ Delivery
  <1>1. Init => Inv
    BY TypedInit, DeliveryInit
  <1>2. Inv /\ [Next]_vars => Inv'
    BY TypedStep, ShapeStep, DeliveryStep
  <1>3. Inv => OnlyWaitingIsPassed
    BY DEF Delivery
  <1> QED
    BY <1>1, <1>2, <1>3, PTL DEF Spec

-----------------------------------------------------------------------------
(* A partition has one member, which has not fallen behind what is committed, *)
(* but for what was passed.                                                   *)

OneOwner == \A v, w \in member : v # w => assigned[v] \cap assigned[w] = {}

OwnersAhead ==
    \A w \in member : \A p \in assigned[w] :
        \A i \in Base(w, p) + 1 .. committed[p] : <<p, i>> \in passed

Ownership == OneOwner /\ OwnersAhead

\* A worker's base never passes its position.
LEMMA BaseBehind ==
  ASSUME Typed, NEW w \in Worker, NEW p \in Partition
  PROVE  Base(w, p) \in Nat /\ pos[w][p] \in Nat /\ Base(w, p) <= pos[w][p]
  <1>1. pos[w][p] \in Nat /\ start[w][p] \in Nat
    BY DEF Typed, TypeOK
  <1>2. InBatch(w, p) => start[w][p] <= pos[w][p]
    BY DEF Typed, BatchesForward
  <1> QED
    BY <1>1, <1>2 DEF Base

LEMMA OwnershipStep ==
  ASSUME Typed, Shape, Ownership, [Next]_vars
  PROVE  Ownership'
  <1> USE DEF Ownership
  <1>0. member \subseteq Worker /\ \A v \in Worker : assigned[v] \subseteq Partition
    BY DEF Typed, TypeOK
  <1>1. ASSUME NEW w \in Worker, Poll(w) \/ Turn(w) \/ Handle(w) \/ Retry(w) PROVE Ownership'
    <2>1. UNCHANGED <<committed, assigned, member, passed>>
      BY <1>1 DEF Poll, Turn, Handle, Retry, groupVars, msgVars
    <2>2. \A v \in Worker, p \in Partition : Base(v, p)' = Base(v, p)
      BY <1>1, BaseStays
    <2> QED
      BY <1>0, <2>1, <2>2 DEF OneOwner, OwnersAhead
  <1>2. ASSUME NEW w \in Worker, Commit(w) PROVE Ownership'
    <2>1. w \in member /\ \A p \in Partition :
             committed'[p] = IF p \in assigned[w] THEN pos[w][p] ELSE committed[p]
      BY <1>2 DEF Commit
    <2>2. UNCHANGED <<assigned, member>> /\ passed \subseteq passed'
      BY <1>2, BatchEnds
    <2>3. OneOwner'
      BY <2>2 DEF OneOwner
    <2>4. OwnersAhead'
      <3> SUFFICES ASSUME NEW v \in member, NEW p \in assigned[v],
                          NEW i \in Base(v, p)' + 1 .. committed'[p]
                   PROVE  <<p, i>> \in passed'
        BY <2>2 DEF OwnersAhead
      <3>1. v \in Worker /\ p \in Partition
        BY <1>0
      <3>2. CASE v = w
        <4>1. Base(w, p) \in Nat /\ pos[w][p] \in Nat /\ committed'[p] = pos[w][p]
          BY <2>1, <3>1, <3>2, BaseBehind
        <4>2. Base(w, p)' # pos[w][p]
          <5> SUFFICES ASSUME Base(w, p)' = pos[w][p] PROVE FALSE
            OBVIOUS
          <5> QED
            BY <3>2, <4>1
        <4>3. Base(w, p)' = Base(w, p) /\ p # cur[w] /\ Base(w, p) # pos[w][p]
          BY <1>2, <3>1, <4>2, BatchEnds
        <4>4. Base(w, p) = start[w][p] /\ \A n \in start[w][p] + 1 .. pos[w][p] : <<p, n>> \in passed'
          BY <1>2, <3>1, <4>3, BatchEnds
        <4> QED
          BY <3>2, <4>1, <4>3, <4>4
      <3>3. CASE v # w
        <4>1. p \notin assigned[w]
          BY <2>1, <3>3 DEF OneOwner
        <4>2. committed'[p] = committed[p] /\ Base(v, p)' = Base(v, p)
          BY <1>2, <2>1, <3>1, <3>3, <4>1, BatchEnds
        <4> QED
          BY <2>2, <4>2 DEF OwnersAhead
      <3> QED
        BY <3>2, <3>3
    <2> QED
      BY <2>3, <2>4
  <1>3. ASSUME NEW w \in Worker, CommitFails(w) PROVE Ownership'
    <2>1. UNCHANGED <<committed, assigned, member>> /\ passed \subseteq passed'
      BY <1>3 DEF CommitFails, groupVars
    <2>2. OwnersAhead'
      <3> SUFFICES ASSUME NEW v \in member, NEW p \in assigned[v],
                          NEW i \in Base(v, p)' + 1 .. committed[p]
                   PROVE  <<p, i>> \in passed'
        BY <2>1 DEF OwnersAhead
      <3>1. v \in Worker /\ p \in Partition
        BY <1>0
      <3>2. Base(v, p) \in Nat /\ pos[v][p] \in Nat /\ Base(v, p) <= pos[v][p] /\ committed[p] \in Nat
        BY <3>1, BaseBehind DEF Typed, TypeOK
      <3>3. Base(v, p)' \in {Base(v, p), pos[v][p]}
        BY <1>3, <3>1, BatchEnds
      <3>4. i \in Base(v, p) + 1 .. committed[p]
        BY <3>2, <3>3
      <3> QED
        BY <2>1, <3>4 DEF OwnersAhead
    <2> QED
      BY <2>1, <2>2 DEF OneOwner
  <1>4. ASSUME NEW w \in Worker, Crash(w) PROVE Ownership'
    <2>1. member' = member \ {w} /\ UNCHANGED <<committed, passed>>
      BY <1>4 DEF Crash, msgVars
    <2>2. \A v \in Worker \ {w} :
             /\ assigned'[v] = assigned[v] /\ todo'[v] = todo[v] /\ cur'[v] = cur[v]
             /\ start'[v] = start[v] /\ pos'[v] = pos[v]
      BY <1>4 DEF Crash, Typed, TypeOK
    <2> QED
      BY <1>0, <2>1, <2>2 DEF OneOwner, OwnersAhead, Base, InBatch
  <1>5. ASSUME NEW G \in SUBSET Worker, Rebalance(G) PROVE Ownership'
    <2>1. PICK share \in [Partition -> G] :
             assigned' = [w \in Worker |->
                             IF w \in G THEN {p \in Partition : share[p] = w} ELSE assigned[w]]
      BY <1>5 DEF Rebalance
    <2>2. /\ UNCHANGED <<committed, todo, cur>> /\ member' = G
          /\ \A w \in G : todo[w] = {} /\ cur[w] = None
          /\ \A w \in G : pos'[w] = [p \in Partition |-> committed[p]]
      BY <1>5 DEF Rebalance, Resumed, Polling, batchVars
    <2>3. \A w \in G : assigned'[w] = {p \in Partition : share[p] = w}
      BY <2>1
    <2>4. OneOwner'
      BY <2>2, <2>3 DEF OneOwner
    <2>5. OwnersAhead'
      <3> SUFFICES ASSUME NEW w \in G, NEW p \in assigned'[w]
                   PROVE  ~ \E i \in Base(w, p)' + 1 .. committed[p] : TRUE
        BY <2>2 DEF OwnersAhead
      <3>1. p \in Partition /\ committed[p] \in Nat
        BY <2>3 DEF Typed, TypeOK
      <3>2. Base(w, p)' = committed[p]
        BY <2>2, <3>1, WorkerAssumption DEF Base, InBatch
      <3> QED
        BY <3>1, <3>2
    <2> QED
      BY <2>4, <2>5
  <1>6. ASSUME NEW e \in Item, Publish(e) \/ Direct(e) PROVE Ownership'
    BY <1>6 DEF Publish, Direct, groupVars, loopVars, batchVars, msgVars, OneOwner, OwnersAhead, Base, InBatch
  <1>7. CASE UNCHANGED vars
    BY <1>7 DEF vars, groupVars, loopVars, batchVars, msgVars, OneOwner, OwnersAhead, Base, InBatch
  <1> QED
    BY <1>1, <1>2, <1>3, <1>4, <1>5, <1>6, <1>7 DEF Next, Work

\* Only commit() moves a committed offset, and back only over what was passed.
LEMMA CommitsBack ==
  ASSUME Typed, Shape, Ownership, [Next]_vars
  PROVE  \A p \in Partition : \A i \in committed'[p] + 1 .. committed[p] : <<p, i>> \in passed
  <1> SUFFICES ASSUME NEW p \in Partition, NEW i \in committed'[p] + 1 .. committed[p]
               PROVE  <<p, i>> \in passed
    OBVIOUS
  <1>1. committed[p] \in Nat
    BY DEF Typed, TypeOK
  <1>2. PICK w \in Worker : Commit(w) /\ p \in assigned[w]
    <2>1. committed'[p] # committed[p]
      BY <1>1
    <2> QED
      BY <2>1 DEF Next, Work, Publish, Direct, Rebalance, Poll, Turn, Handle, Retry, Commit,
                  CommitFails, Crash, vars, groupVars
  <1>3. w \in member /\ committed'[p] = pos[w][p]
    BY <1>2 DEF Commit
  <1>4. Base(w, p) \in Nat /\ pos[w][p] \in Nat /\ Base(w, p) <= pos[w][p]
    BY BaseBehind
  <1>5. i \in Base(w, p) + 1 .. committed[p]
    BY <1>1, <1>3, <1>4
  <1> QED
    BY <1>2, <1>3, <1>5 DEF Ownership, OwnersAhead

\* A committed offset goes back only over messages that were passed before their
\* turn: partitions have one member at a time, which starts at the committed offset,
\* only seeks back to where its batch began, and commits nothing once it is no member.
THEOREM CommitsOnlyGoBackOverPassed == Spec => CommitsBackOnlyOverPassed
  <1> DEFINE Inv == Typed /\ Shape /\ Ownership
             Back == \A p \in Partition : \A i \in committed'[p] + 1 .. committed[p] : <<p, i>> \in passed
  <1>1. Init => Inv
    <2>1. Init => Ownership
      BY DEF Init, Ownership, OneOwner, OwnersAhead
    <2> QED
      BY <2>1, TypedInit, DeliveryInit
  <1>2. Inv /\ [Next]_vars => Inv'
    BY TypedStep, ShapeStep, OwnershipStep
  <1>3. Inv /\ [Next]_vars => [Back]_vars
    BY CommitsBack
  <1> HIDE DEF Inv, Back
  <1>4. Spec => [][Back]_vars
    BY <1>1, <1>2, <1>3, PTL DEF Spec
  <1> QED
    BY <1>4 DEF CommitsBackOnlyOverPassed, Back
=============================================================================
