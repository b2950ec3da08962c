----------------------------- MODULE KafkaWorker -----------------------------
(***************************************************************************)
(* How a processing request travels through Kafka: the publish branch of   *)
(* process_evidence() with services/kafka_bus.py, the topic's partitions,  *)
(* and the loop of src/workers/worker.py in every process of the consumer  *)
(* group.  What a message does to its evidence item is EvidencePipeline's  *)
(* business; here _process_message() answers True or False.                *)
(*                                                                         *)
(* The broker's side (log, group membership, offsets) is what the code     *)
(* uses of Kafka and kafka-python.  Offsets count messages: an offset n    *)
(* stands for the first n messages of its partition.                       *)
(***************************************************************************)
EXTENDS Integers, Sequences

CONSTANTS
    Item,           \* evidence items
    Partition,      \* partitions of drishti.evidence.jobs
    KeyPartition,   \* the partition the producer picks for an item's key
    Worker,         \* processes of the consumer group
    MaxLog,         \* bound on the messages of each partition, copies of a retrying producer included
    MaxFaults,      \* bound on crashes, and rebalances no crash made necessary
    None            \* no partition

ASSUME WorkerAssumption ==
    /\ KeyPartition \in [Item -> Partition]
    /\ None \notin Partition
    /\ MaxLog \in [Partition -> Nat]
    /\ MaxFaults \in Nat

VARIABLES
    request,     \* per item: where its processing request is
    log,         \* per partition: the items of its messages
    committed,   \* per partition: the group's committed offset
    member,      \* workers whose membership the coordinator still accepts
    assigned,    \* per worker: the partitions it believes to have
    pos,         \* per worker: its position in each partition
    start,       \* per worker: where the batch begins in each of its partitions
    todo,        \* per worker: partitions of the batch it has not turned to
    cur,         \* per worker: the partition of the batch it is handling
    done,        \* per worker: how far into that partition it has come
    handled,     \* the messages that _process_message() answered True for
    passed,      \* history: messages a commit() passed before their turn came
    faults       \* crashes and rebalances without need so far

groupVars == <<committed, member, assigned>>
batchVars == <<start, todo, cur, done>>
loopVars  == <<pos, batchVars>>
msgVars == <<handled, passed>>
vars == <<request, log, groupVars, loopVars, msgVars, faults>>

Message == Partition \X Nat

TypeOK ==
    /\ request   \in [Item -> {"none", "queued", "direct", "worked"}]
    /\ log       \in [Partition -> Seq(Item)]
    /\ committed \in [Partition -> Nat]
    /\ member    \subseteq Worker
    /\ assigned  \in [Worker -> SUBSET Partition]
    /\ pos       \in [Worker -> [Partition -> Nat]]
    /\ start     \in [Worker -> [Partition -> Nat]]
    /\ todo      \in [Worker -> SUBSET Partition]
    /\ cur       \in [Worker -> Partition \cup {None}]
    /\ done      \in [Worker -> Nat]
    /\ handled   \in SUBSET Message
    /\ passed    \in SUBSET Message
    /\ faults    \in Nat
    /\ \A p \in Partition : committed[p] <= Len(log[p])

Zero == [p \in Partition |-> 0]

Init ==
    /\ request   = [e \in Item |-> "none"]
    /\ log       = [p \in Partition |-> <<>>]
    /\ committed = Zero
    /\ member    = {}
    /\ assigned  = [w \in Worker |-> {}]
    /\ pos       = [w \in Worker |-> Zero]
    /\ start     = [w \in Worker |-> Zero]
    /\ todo      = [w \in Worker |-> {}]
    /\ cur       = [w \in Worker |-> None]
    /\ done      = [w \in Worker |-> 0]
    /\ handled   = {}
    /\ passed    = {}
    /\ faults    = 0

-----------------------------------------------------------------------------
(* The request: publish(), or direct execution when it answers False *)

\* acks="all" with retries and no idempotence: the message arrives not at all,
\* once, or more often.  publish() may time out although it arrived.
Publish(e) ==
    /\ request[e] = "none"
    /\ \E n \in 0 .. MaxLog[KeyPartition[e]] - Len(log[KeyPartition[e]]) :
          /\ log' = [log EXCEPT ![KeyPartition[e]] = @ \o [i \in 1..n |-> e]]
          /\ \/ n > 0 /\ request' = [request EXCEPT ![e] = "queued"]
             \/ request' = [request EXCEPT ![e] = "direct"]
    /\ UNCHANGED <<groupVars, loopVars, msgVars, faults>>

\* The API process runs the stages itself.
Direct(e) ==
    /\ request[e] = "direct"
    /\ request' = [request EXCEPT ![e] = "worked"]
    /\ UNCHANGED <<log, groupVars, loopVars, msgVars, faults>>

-----------------------------------------------------------------------------
(* The consumer group *)

\* Between two rounds of the loop the worker is in poll(), or about to be.
Polling(w) == todo[w] = {} /\ cur[w] = None

Orphaned == \E p \in Partition : \A w \in member : p \notin assigned[w]

\* Faulty variants: auto_offset_reset="latest"; seek_to_beginning() at every start.
Resumed_Latest(p)    == IF committed[p] = 0 THEN Len(log[p]) ELSE committed[p]
Resumed_Beginning(p) == 0

\* Where a worker that is given p goes on; auto_offset_reset="earliest".
Resumed(p) == committed[p]

\* The workers G join in poll() and share the partitions.  Any other worker is
\* no member any more: it has died, or it is still busy with a batch and keeps
\* its positions until its next poll(), but its commits are refused.
Rebalance(G) ==
    /\ G # {}
    /\ \A w \in G : Polling(w)
    /\ \/ Orphaned /\ UNCHANGED faults
       \/ faults < MaxFaults /\ faults' = faults + 1
    /\ member' = G
    /\ \E share \in [Partition -> G] :
          assigned' = [w \in Worker |->
                          IF w \in G THEN {p \in Partition : share[p] = w} ELSE assigned[w]]
    /\ pos' = [w \in Worker |->
                  IF w \in G THEN [p \in Partition |-> Resumed(p)] ELSE pos[w]]
    /\ UNCHANGED <<request, log, committed, batchVars, msgVars>>

-----------------------------------------------------------------------------
(* run_worker() *)

\* consumer.poll(): positions move past everything returned, handled or not.
Poll(w) ==
    /\ Polling(w)
    /\ \E D \in (SUBSET assigned[w]) \ {{}} :
          /\ \A p \in D : pos[w][p] < Len(log[p])
          /\ todo' = [todo EXCEPT ![w] = D]
          /\ \E upto \in [D -> UNION {1..Len(log[p]) : p \in D}] :
                /\ \A p \in D : pos[w][p] < upto[p] /\ upto[p] <= Len(log[p])
                /\ pos' = [pos EXCEPT ![w] =
                              [p \in Partition |-> IF p \in D THEN upto[p] ELSE @[p]]]
          /\ start' = [start EXCEPT ![w] = [p \in Partition |-> IF p \in D THEN pos[w][p] ELSE 0]]
    /\ UNCHANGED <<request, log, groupVars, cur, done, msgVars, faults>>

\* for tp, messages in batch.items()
Turn(w) ==
    /\ cur[w] = None
    /\ \E p \in todo[w] :
          /\ cur'  = [cur EXCEPT ![w] = p]
          /\ todo' = [todo EXCEPT ![w] = @ \ {p}]
          /\ done' = [done EXCEPT ![w] = start[w][p]]
    /\ UNCHANGED <<request, log, groupVars, pos, start, msgVars, faults>>

\* There is a next message of the current partition in the batch.
More(w) == cur[w] # None /\ done[w] < pos[w][cur[w]]

\* _process_message() answers True: the item was processed, or never will be.
Handle(w) ==
    /\ More(w)
    /\ handled' = handled \cup {<<cur[w], done[w] + 1>>}
    /\ done' = [done EXCEPT ![w] = @ + 1]
    /\ UNCHANGED <<request, log, groupVars, pos, start, todo, cur, passed, faults>>

\* The loop is through with the current partition.
Leave(w) ==
    /\ cur'   = [cur EXCEPT ![w] = None]
    /\ start' = [start EXCEPT ![w][cur[w]] = 0]
    /\ done'  = [done EXCEPT ![w] = 0]

\* Faulty variant: no seek after a failure.
Retry_NoSeek(w) ==
    /\ More(w)
    /\ Leave(w)
    /\ UNCHANGED <<request, log, groupVars, pos, todo, msgVars, faults>>

\* It answers False: the partition is left and read again from where it was.
Retry(w) ==
    /\ More(w)
    /\ pos' = [pos EXCEPT ![w][cur[w]] = start[w][cur[w]]]
    /\ Leave(w)
    /\ UNCHANGED <<request, log, groupVars, todo, msgVars, faults>>

Finished(w) == cur[w] # None /\ ~ More(w)

\* Messages of the batch whose partition is not yet turned to, though the
\* positions that consumer.commit() takes are behind them already.
Waiting(w) ==
    UNION { {<<p, i>> : i \in start[w][p] + 1 .. pos[w][p]} : p \in todo[w] }

\* consumer.commit() without arguments: the positions of all its partitions.
Commit(w) ==
    /\ Finished(w)
    /\ w \in member
    /\ committed' = [p \in Partition |->
                        IF p \in assigned[w] THEN pos[w][p] ELSE committed[p]]
    /\ passed' = passed \cup Waiting(w)
    /\ Leave(w)
    /\ UNCHANGED <<request, log, member, assigned, pos, todo, handled, faults>>

\* commit() raises, because w is no member or the broker does not answer: the
\* rest of the batch is dropped, the positions stay behind it.
CommitFails(w) ==
    /\ Finished(w)
    /\ cur'   = [cur EXCEPT ![w] = None]
    /\ todo'  = [todo EXCEPT ![w] = {}]
    /\ start' = [start EXCEPT ![w] = Zero]
    /\ done'  = [done EXCEPT ![w] = 0]
    /\ passed' = passed \cup Waiting(w)
    /\ UNCHANGED <<request, log, groupVars, pos, handled, faults>>

\* The process dies and is started again (restart: unless-stopped).
Crash(w) ==
    /\ faults < MaxFaults
    /\ faults'   = faults + 1
    /\ member'   = member \ {w}
    /\ assigned' = [assigned EXCEPT ![w] = {}]
    /\ pos'   = [pos EXCEPT ![w] = Zero]
    /\ start' = [start EXCEPT ![w] = Zero]
    /\ todo'  = [todo EXCEPT ![w] = {}]
    /\ cur'   = [cur EXCEPT ![w] = None]
    /\ done'  = [done EXCEPT ![w] = 0]
    /\ UNCHANGED <<request, log, committed, msgVars>>

-----------------------------------------------------------------------------
\* What a worker does with a batch it has.
Work(w) == Turn(w) \/ Handle(w) \/ Retry(w) \/ Commit(w) \/ CommitFails(w)

Next ==
    \/ \E e \in Item : Publish(e) \/ Direct(e)
    \/ \E G \in SUBSET Worker : Rebalance(G)
    \/ \E w \in Worker : Poll(w) \/ Work(w) \/ Crash(w)

Spec == Init /\ [][Next]_vars

\* The API runs what it took on, an orphaned partition is given to somebody, the
\* loop of every worker keeps running, and a message that is tried again and again
\* is answered True in the end.
Fairness ==
    /\ \A e \in Item : WF_vars(Direct(e))
    /\ WF_vars(Orphaned /\ \E G \in SUBSET Worker : Rebalance(G))
    /\ \A w \in Worker : WF_vars(Poll(w) \/ Work(w))
    /\ \A p \in Partition : \A i \in 0..MaxLog[p] - 1 :
          SF_vars(\E w \in Worker : Handle(w) /\ cur[w] = p /\ done[w] = i)

FairSpec == Spec /\ Fairness

-----------------------------------------------------------------------------
(* Properties *)

\* What the committed offset of a partition covers was answered True: "Returns
\* True if the message should be committed ... False ... to trigger a retry"
\* (worker.py:53-54).
CommittedWasHandled ==
    \A p \in Partition : \A i \in 1..committed[p] : <<p, i>> \in handled

\* What a committed offset covers was answered True, but for messages whose
\* partition was waiting for its turn when the commit() after another partition
\* of the same poll() took the positions, or failed (worker.py:120-138).  Seeks,
\* failing commits, rebalances and crashes lose nothing else.
OnlyWaitingIsPassed ==
    \A p \in Partition : \A i \in 1..committed[p] : <<p, i>> \in handled \cup passed

\* A committed offset goes back only over messages that a commit() passed before
\* their turn, whatever seek() does to positions and however late a worker that
\* lost its partitions comes to its commit() (worker.py:132-136).
CommitsBackOnlyOverPassed ==
    [][\A p \in Partition : \A i \in committed'[p] + 1 .. committed[p] : <<p, i>> \in passed]_vars

\* Some message of item e was answered True.
Consumed(e) ==
    \E i \in 1..Len(log[KeyPartition[e]]) :
        log[KeyPartition[e]][i] = e /\ <<KeyPartition[e], i>> \in handled

\* e was queued, and each message of it was passed before its turn.
PassedOver(e) ==
    /\ request[e] = "queued"
    /\ \A i \in 1..Len(log[KeyPartition[e]]) :
          log[KeyPartition[e]][i] = e => <<KeyPartition[e], i>> \in passed

\* A request that was answered is worked on in the end, by a worker or by the API
\* itself (pipeline.py:174-181, worker.py:121-136), unless all its messages were
\* passed before their turn: nothing of this is ever undone, so it is enough that
\* again and again it holds of all requests answered so far.
AnsweredIsWorked ==
    []<>(\A e \in Item :
            request[e] # "none" => request[e] = "worked" \/ Consumed(e) \/ PassedOver(e))
=============================================================================
