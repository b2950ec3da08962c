----------------------- MODULE EvidencePipelineProofs -----------------------
(***************************************************************************)
(* Theorems of EvidencePipeline, for every set of items, sessions and      *)
(* candidates, any number of crashes and any storage fault.                *)
(***************************************************************************)
EXTENDS EvidencePipeline, TLAPS

USE DEF Area, Kind, ScanEntry, ExtractEntry, ResolveEntry, Projected, Blocked,
        PostScan, Processable, Status, JobState, CandState, Object, Stage,
        Reviewing, PC

\* There is an item, so a session at rest can hold one.
LEMMA NoItemType == NoItem \in Evidence
  BY PipelineAssumption DEF NoItem

-----------------------------------------------------------------------------
(* Type correctness *)

LEMMA TypeInit == Init => TypeOK
  BY NoItemType DEF Init, TypeOK

\* A session that returns keeps the types of the session variables.
LEMMA ReturnType ==
  ASSUME TypeOK, NEW s \in Session, Return(s)
  PROVE  /\ pc' \in [Session -> PC]
         /\ on' \in [Session -> Evidence]
         /\ seen' \in [Session -> Status]
         /\ seenPath' \in [Session -> Area]
         /\ pend' \in [Session -> BOOLEAN]
         /\ fresh' \in [Session -> SUBSET Candidate]
         /\ touch' \in [Session -> SUBSET Evidence]
  BY NoItemType DEF TypeOK, Return

\* Putting an object under a key keeps the type of the store.
LEMMA StoreType ==
  ASSUME TypeOK, NEW a \in Area, NEW e \in Evidence, NEW o \in Object
  PROVE  [store EXCEPT ![a][e] = o] \in [Area -> [Evidence -> Object]]
  <1>1. store[a] \in [Evidence -> Object]
    BY DEF TypeOK
  <1>2. [store[a] EXCEPT ![e] = o] \in [Evidence -> Object]
    BY <1>1
  <1> QED
    BY <1>2 DEF TypeOK

\* What a session finds under its copy of the path is an object.
LEMMA FoundType ==
  ASSUME TypeOK, NEW s \in Session
  PROVE  Found(s) \in Object
  <1>1. seenPath[s] \in Area /\ on[s] \in Evidence
    BY DEF TypeOK
  <1> QED
    BY <1>1 DEF Found, TypeOK

\* So does a commit of a status that is a status.
LEMMA PutType ==
  ASSUME TypeOK, NEW s \in Session, NEW v \in Status, Put(s, v)
  PROVE  status' \in [Evidence -> Status]
  BY DEF Put, TypeOK

LEMMA ScanType ==
  ASSUME TypeOK, NEW s \in Session, ScanStep(s)
  PROVE  TypeOK'
  <1>1. CASE ScanStart(s)
    BY <1>1 DEF ScanStart, Begin, Put, SetJob, Continue, TypeOK
  <1>2. CASE ScanFails(s)
    BY <1>2, ReturnType, PipelineAssumption DEF ScanFails, Put, SetJob, TypeOK
  <1>3. CASE ScanInfected(s)
    BY <1>3, ReturnType DEF ScanInfected, Put, SetJob, TypeOK
  <1>4. CASE ScanClean(s)
    BY <1>4 DEF ScanClean, rowVars, copyVars, caseVars, TypeOK
  <1>5. CASE Promote(s)
    BY <1>5 DEF Promote, Found, rowVars, copyVars, caseVars, TypeOK
  <1>6. CASE PromoteFails(s)
    <2>1. store' \in [Area -> [Evidence -> Object]]
      <3>1. on[s] \in Evidence
        BY DEF TypeOK
      <3>2. [store EXCEPT !["accepted"][on[s]] = Found(s)] \in [Area -> [Evidence -> Object]]
        BY <3>1, FoundType, StoreType
      <3> QED
        BY <1>6, <3>2 DEF PromoteFails, TypeOK
    <2>2. status' \in [Evidence -> Status]
      BY <1>6, PutType, PipelineAssumption DEF PromoteFails
    <2>3. job' \in [Evidence -> [Kind -> JobState]]
      BY <1>6 DEF PromoteFails, SetJob, TypeOK
    <2> QED
      BY <1>6, <2>1, <2>2, <2>3, ReturnType DEF PromoteFails, TypeOK
  <1>7. CASE ScanCommit(s)
    BY <1>7 DEF ScanCommit, Put, SetJob, Continue, TypeOK
  <1> QED
    BY <1>1, <1>2, <1>3, <1>4, <1>5, <1>6, <1>7 DEF ScanStep

LEMMA FailType ==
  ASSUME TypeOK, NEW s \in Session, NEW k \in Kind, NEW v \in Status, Fail(s, k, v),
         UNCHANGED <<path, claims, cand, store, crashes>>
  PROVE  TypeOK'
  <1>1. Return(s)
    BY DEF Fail
  <1> QED
    BY <1>1, ReturnType DEF Fail, SetJob, TypeOK

LEMMA ExtractType ==
  ASSUME TypeOK, NEW s \in Session, ExtractStep(s)
  PROVE  TypeOK'
  <1>1. CASE ExtractStart(s)
    BY <1>1 DEF ExtractStart, Begin, Put, SetJob, Continue, TypeOK
  <1>2. CASE ExtractVerify(s)
    BY <1>2 DEF ExtractVerify, rowVars, copyVars, caseVars, TypeOK
  <1>3. CASE ExtractFails(s)
    BY <1>3, FailType DEF ExtractFails
  <1>4. CASE ExtractCommit(s)
    BY <1>4 DEF ExtractCommit, Put, SetJob, Continue, TypeOK
  <1> QED
    BY <1>1, <1>2, <1>3, <1>4 DEF ExtractStep

LEMMA ResolveType ==
  ASSUME TypeOK, NEW s \in Session, ResolveStep(s)
  PROVE  TypeOK'
  <1>1. CASE ResolveStart(s)
    BY <1>1 DEF ResolveStart, Begin, Put, SetJob, Continue, TypeOK
  <1>2. CASE ResolveFails(s)
    BY <1>2, FailType DEF ResolveFails
  <1>3. CASE ResolveCount(s)
    <2>1. AnyOpen \in BOOLEAN
      BY DEF AnyOpen
    <2>2. cand' \in [Candidate -> CandState]
      BY <1>3 DEF ResolveCount, SetCands, TypeOK
    <2>3. fresh' \in [Session -> SUBSET Candidate] /\ pend' \in [Session -> BOOLEAN]
      BY <1>3, <2>1 DEF ResolveCount, TypeOK
    <2> QED
      BY <1>3, <2>2, <2>3 DEF ResolveCount, rowVars, copyVars, TypeOK
  <1>4. CASE ResolveCommit(s)
    <2>1. cand' \in [Candidate -> CandState]
      BY <1>4 DEF ResolveCommit, SetCands, TypeOK
    <2>2. status' \in [Evidence -> Status] /\ job' \in [Evidence -> [Kind -> JobState]]
      BY <1>4 DEF ResolveCommit, Put, SetJob, TypeOK
    <2> QED
      BY <1>4, <2>1, <2>2, ReturnType DEF ResolveCommit, TypeOK
  <1> QED
    BY <1>1, <1>2, <1>3, <1>4 DEF ResolveStep

LEMMA RequestType ==
  ASSUME TypeOK, NEW s \in Session, Request(s)
  PROVE  TypeOK'
  <1>1. ASSUME NEW e \in Evidence, Upload(s, e) PROVE TypeOK'
    <2>1. store' \in [Area -> [Evidence -> Object]]
      <3>1. [store EXCEPT !["quarantine"][e] = "intact"] \in [Area -> [Evidence -> Object]]
        BY StoreType
      <3> QED
        BY <1>1, <3>1 DEF Upload
    <2>2. status' \in [Evidence -> Status]
      BY <1>1 DEF Upload, TypeOK
    <2>3. /\ pc' \in [Session -> PC]
          /\ on' \in [Session -> Evidence]
          /\ seen' \in [Session -> Status]
      <3>1. CASE UNCHANGED <<on, seen, pc>>
        BY <3>1 DEF TypeOK
      <3>2. CASE /\ on'   = [on EXCEPT ![s] = e]
                 /\ seen' = [seen EXCEPT ![s] = "QUARANTINED"]
                 /\ pc'   = [pc EXCEPT ![s] = "dispatch"]
        BY <3>2 DEF TypeOK
      <3> QED
        BY <1>1, <3>1, <3>2 DEF Upload
    <2> QED
      BY <1>1, <2>1, <2>2, <2>3 DEF Upload, caseVars, TypeOK
  <1>2. ASSUME NEW e \in Evidence, Process(s, e) PROVE TypeOK'
    BY <1>2 DEF Process, Load, rowVars, caseVars, TypeOK
  <1>3. ASSUME NEW e \in Evidence, VerifyLoad(s, e) PROVE TypeOK'
    BY <1>3 DEF VerifyLoad, Load, rowVars, caseVars, TypeOK
  <1>4. ASSUME NEW c \in Candidate, DecideRead(s, c) PROVE TypeOK'
    <2>1. AnyOpen \in BOOLEAN
      BY DEF AnyOpen
    <2>2. touch' \in [Session -> SUBSET Evidence]
      <3>1. {e \in Evidence : status[e] \in Projected \ {Mark(AnyOpen)}} \in SUBSET Evidence
        OBVIOUS
      <3> QED
        BY <1>4, <3>1 DEF DecideRead, TypeOK
    <2>3. pend' \in [Session -> BOOLEAN]
      BY <1>4, <2>1 DEF DecideRead, TypeOK
    <2>4. pc' \in [Session -> PC]
      <3>1. PICK p \in Reviewing : pc' = [pc EXCEPT ![s] = p]
        BY <1>4 DEF DecideRead
      <3> QED
        BY <3>1 DEF TypeOK
    <2>5. fresh' \in [Session -> SUBSET Candidate]
      <3>1. fresh' = [fresh EXCEPT ![s] = {c}]
        BY <1>4 DEF DecideRead
      <3> QED
        BY <3>1 DEF TypeOK
    <2>6. UNCHANGED <<status, path, job, claims, cand, store, on, seen, seenPath, crashes>>
      BY <1>4 DEF DecideRead, rowVars, copyVars
    <2> QED
      BY <2>2, <2>3, <2>4, <2>5, <2>6 DEF TypeOK
  <1> QED
    BY <1>1, <1>2, <1>3, <1>4 DEF Request

LEMMA CommitType ==
  ASSUME TypeOK, NEW s \in Session, Refused(s) \/ VerifyCommit(s) \/ DecideCommit(s)
  PROVE  TypeOK'
  <1>1. CASE Refused(s)
    BY <1>1, ReturnType DEF Refused, rowVars, TypeOK
  <1>2. CASE VerifyCommit(s)
    <2>1. status' \in [Evidence -> Status]
      BY <1>2, PutType DEF VerifyCommit, TypeOK
    <2> QED
      BY <1>2, <2>1, ReturnType DEF VerifyCommit, TypeOK
  <1>3. CASE DecideCommit(s)
    <2>1. cand' \in [Candidate -> CandState]
      BY <1>3 DEF DecideCommit, Decided, SetCands, TypeOK
    <2>2. Mark(pend[s]) \in Status
      BY DEF Mark
    <2>3. status' \in [Evidence -> Status]
      BY <1>3, <2>2 DEF DecideCommit, TypeOK
    <2> QED
      BY <1>3, <2>1, <2>3, ReturnType DEF DecideCommit, TypeOK
  <1> QED
    BY <1>1, <1>2, <1>3

LEMMA EnvironmentType ==
  ASSUME TypeOK, Environment
  PROVE  TypeOK'
  <1>1. ASSUME NEW s \in Session, Crash(s) PROVE TypeOK'
    BY <1>1, ReturnType DEF Crash, SetCands, rowVars, TypeOK
  <1>2. ASSUME NEW e \in Evidence, NEW k \in Kind, LeaseExpire(e, k) PROVE TypeOK'
    BY <1>2 DEF LeaseExpire, rowVars, copyVars, caseVars, TypeOK
  <1>3. ASSUME NEW e \in Evidence, NEW a \in Area, StoreFault(e, a) PROVE TypeOK'
    <2>1. store' \in [Area -> [Evidence -> Object]]
      BY <1>3, StoreType DEF StoreFault
    <2> QED
      BY <1>3, <2>1 DEF StoreFault, rowVars, copyVars, caseVars, TypeOK
  <1> QED
    BY <1>1, <1>2, <1>3 DEF Environment

LEMMA TypeStep == TypeOK /\ [Next]_vars => TypeOK'
  <1> SUFFICES ASSUME TypeOK, [Next]_vars PROVE TypeOK'
    OBVIOUS
  <1>1. CASE Next
    BY <1>1, ScanType, ExtractType, ResolveType, RequestType, CommitType, EnvironmentType
       DEF Next, Advance
  <1>2. CASE UNCHANGED vars
    BY <1>2 DEF vars, TypeOK
  <1> QED
    BY <1>1, <1>2

\* Every variable keeps its type in every behaviour.
THEOREM TypeCorrect == Spec => []TypeOK
  BY TypeInit, TypeStep, PTL DEF Spec

-----------------------------------------------------------------------------
(* Containment, whatever becomes of the leases.  A row, a copy of a row or a *)
(* mark of mark_active() that is past the gate goes with a row that points   *)
(* into accepted/; a session in a later stage has such a copy; and a session *)
(* about to promote an infected item has not found the uploaded bytes.       *)

RowsPastGate == \A e \in Evidence : status[e] \in PostScan => path[e] = "accepted"

CopiesPastGate ==
    \A s \in Session :
        seen[s] \in PostScan => seenPath[s] = "accepted" /\ path[on[s]] = "accepted"

StagesPastGate ==
    \A s \in Session : pc[s] \in Stage.EXTRACT \cup Stage.RESOLVE => seen[s] \in PostScan

MarksPastGate == \A s \in Session, e \in Evidence : e \in touch[s] => path[e] = "accepted"

BusyOnRow ==
    \A s \in Session : pc[s] \notin {"idle"} \cup Reviewing => status[on[s]] # "ABSENT"

NoneInfected ==
    \A s \in Session :
        /\ pc[s] = "promoting" /\ on[s] \in Infected => Found(s) # "intact"
        /\ pc[s] = "reading" => on[s] \notin Infected

Containment ==
    /\ RowsPastGate
    /\ CopiesPastGate
    /\ StagesPastGate
    /\ MarksPastGate
    /\ BusyOnRow
    /\ NoneInfected
    /\ InfectedIsContained

LEMMA ContainmentInit == Init => Containment
  <1> SUFFICES ASSUME Init PROVE Containment
    OBVIOUS
  <1>1. RowsPastGate /\ InfectedIsContained
    BY PipelineAssumption DEF Init, RowsPastGate, InfectedIsContained
  <1>2. CopiesPastGate /\ StagesPastGate /\ BusyOnRow /\ NoneInfected
    BY PipelineAssumption DEF Init, CopiesPastGate, StagesPastGate, BusyOnRow, NoneInfected
  <1>3. MarksPastGate
    BY DEF Init, MarksPastGate
  <1> QED
    BY <1>1, <1>2, <1>3 DEF Containment

\* A session that returns, having given its row a status v that is past the gate
\* only if the row is, disturbs nothing.
LEMMA ReturnContained ==
  ASSUME TypeOK, Containment, NEW s \in Session, NEW v \in Status \ {"ABSENT"},
         v \in PostScan => path[on[s]] = "accepted",
         status' \in {status, [status EXCEPT ![on[s]] = v]},
         Return(s), UNCHANGED <<path, claims, store>>
  PROVE  Containment'
  <1> USE DEF Containment, Return
  <1>1. RowsPastGate'
    BY DEF RowsPastGate, TypeOK
  <1>2. CopiesPastGate'
    BY DEF CopiesPastGate, TypeOK
  <1>3. StagesPastGate'
    BY DEF StagesPastGate, TypeOK
  <1>4. MarksPastGate'
    BY DEF MarksPastGate, TypeOK
  <1>5. BusyOnRow'
    BY DEF BusyOnRow, TypeOK
  <1>6. NoneInfected'
    BY DEF NoneInfected, Found, TypeOK
  <1>7. InfectedIsContained'
    BY DEF InfectedIsContained
  <1> QED
    BY <1>1, <1>2, <1>3, <1>4, <1>5, <1>6, <1>7

\* Nor does one that goes on in step p with v as its copy of the status.
LEMMA ContinueContained ==
  ASSUME TypeOK, Containment, NEW s \in Session, NEW v \in Status \ {"ABSENT"}, NEW p \in PC,
         v \in PostScan => seenPath[s] = "accepted" /\ path[on[s]] = "accepted",
         p \in Stage.EXTRACT \cup Stage.RESOLVE => v \in PostScan,
         p \notin {"promoting", "reading"},
         pc[s] \notin {"idle"} \cup Reviewing,
         Put(s, v), Continue(s, v, p), UNCHANGED <<path, store, seenPath>>,
         claims' = claims \/ (on[s] \notin Infected /\ claims' = [claims EXCEPT ![on[s]] = @ + 1])
  PROVE  Containment'
  <1> USE DEF Containment, Continue, Put
  <1>1. RowsPastGate'
    BY DEF RowsPastGate, TypeOK
  <1>2. CopiesPastGate'
    BY DEF CopiesPastGate, TypeOK
  <1>3. StagesPastGate'
    BY DEF StagesPastGate, TypeOK
  <1>4. MarksPastGate'
    BY DEF MarksPastGate, TypeOK
  <1>5. BusyOnRow'
    BY DEF BusyOnRow, TypeOK
  <1>6. NoneInfected'
    BY DEF NoneInfected, Found, TypeOK
  <1>7. InfectedIsContained'
    BY PipelineAssumption DEF InfectedIsContained, TypeOK
  <1> QED
    BY <1>1, <1>2, <1>3, <1>4, <1>5, <1>6, <1>7

LEMMA ScanContained ==
  ASSUME TypeOK, Containment, NEW s \in Session, ScanStep(s)
  PROVE  Containment'
  <1>1. CASE ScanStart(s)
    <2>1. pc[s] = "dispatch" /\ Put(s, "MALWARE_SCANNING")
                            /\ Continue(s, "MALWARE_SCANNING", "scanning")
      BY <1>1 DEF ScanStart, Begin
    <2>2. UNCHANGED <<path, store, seenPath, claims>>
      BY <1>1 DEF ScanStart, Begin
    <2> QED
      BY <2>1, <2>2, ContinueContained
  <1>2. CASE ScanFails(s)
    <2>1. PICK v \in ScanFailure : Put(s, v)
      BY <1>2 DEF ScanFails
    <2>2. v \in Status \ {"ABSENT"} /\ v \notin PostScan
      BY PipelineAssumption
    <2> QED
      BY <1>2, <2>1, <2>2, ReturnContained DEF ScanFails, Put
  <1>3. CASE ScanInfected(s)
    <2>1. Put(s, "INFECTED") /\ Return(s) /\ UNCHANGED <<path, claims, store>>
      BY <1>3 DEF ScanInfected
    <2> QED
      BY <2>1, ReturnContained DEF Put
  <1>4. CASE ScanClean(s)
    <2> USE <1>4 DEF ScanClean, Containment, rowVars, copyVars, caseVars
    <2>1. RowsPastGate' /\ CopiesPastGate' /\ MarksPastGate' /\ InfectedIsContained'
      BY DEF RowsPastGate, CopiesPastGate, MarksPastGate, InfectedIsContained
    <2>2. StagesPastGate' /\ BusyOnRow'
      BY DEF StagesPastGate, BusyOnRow, TypeOK
    <2>3. on[s] \in Infected => Found(s) # "intact"
      BY DEF Verdict
    <2>4. NoneInfected'
      BY <2>3 DEF NoneInfected, Found, TypeOK
    <2> QED
      BY <2>1, <2>2, <2>4
  <1>5. CASE Promote(s)
    <2> USE <1>5 DEF Promote, Containment, rowVars, copyVars, caseVars
    <2>1. RowsPastGate' /\ CopiesPastGate' /\ MarksPastGate'
      BY DEF RowsPastGate, CopiesPastGate, MarksPastGate
    <2>2. StagesPastGate' /\ BusyOnRow'
      BY DEF StagesPastGate, BusyOnRow, TypeOK
    <2>3. on[s] \in Infected => Found(s) # "intact"
      BY DEF NoneInfected
    <2>4. \A e \in Infected, a \in Area : store'[a][e] = "intact" => store[a][e] = "intact"
      BY <2>3, PipelineAssumption DEF TypeOK
    <2>5. InfectedIsContained'
      BY <2>4 DEF InfectedIsContained
    <2>6. NoneInfected'
      BY <2>4 DEF NoneInfected, Found, TypeOK
    <2> QED
      BY <2>1, <2>2, <2>5, <2>6
  <1>6. CASE PromoteFails(s)
    <2>1. CASE UNCHANGED store
      <3>1. Put(s, "SCAN_FAILED") /\ Return(s) /\ UNCHANGED <<path, claims, store>>
        BY <1>6, <2>1 DEF PromoteFails
      <3> QED
        BY <3>1, ReturnContained, PipelineAssumption DEF Put
    <2>2. CASE store' = [store EXCEPT !["accepted"][on[s]] = Found(s)]
      <3> USE <1>6, <2>2 DEF PromoteFails, Containment, Return
      <3>1. status' \in {status, [status EXCEPT ![on[s]] = "SCAN_FAILED"]}
        BY DEF Put
      <3>2. RowsPastGate' /\ BusyOnRow'
        BY <3>1, PipelineAssumption DEF RowsPastGate, BusyOnRow, TypeOK
      <3>3. CopiesPastGate' /\ StagesPastGate'
        BY DEF CopiesPastGate, StagesPastGate, TypeOK
      <3>4. MarksPastGate'
        BY DEF MarksPastGate, TypeOK
      <3>5. on[s] \in Infected => Found(s) # "intact"
        BY DEF NoneInfected
      <3>6. \A e \in Infected, a \in Area : store'[a][e] = "intact" => store[a][e] = "intact"
        BY <3>5, PipelineAssumption DEF TypeOK
      <3>7. InfectedIsContained'
        BY <3>6 DEF InfectedIsContained
      <3>8. NoneInfected'
        BY <3>6 DEF NoneInfected, Found, TypeOK
      <3> QED
        BY <3>2, <3>3, <3>4, <3>7, <3>8
    <2> QED
      BY <1>6, <2>1, <2>2 DEF PromoteFails
  <1>7. CASE ScanCommit(s)
    <2> USE <1>7 DEF ScanCommit, Containment, Continue, Put
    <2>1. RowsPastGate' /\ BusyOnRow'
      BY DEF RowsPastGate, BusyOnRow, TypeOK
    <2>2. CopiesPastGate' /\ StagesPastGate'
      BY DEF CopiesPastGate, StagesPastGate, TypeOK
    <2>3. MarksPastGate'
      BY DEF MarksPastGate, TypeOK
    <2>4. NoneInfected' /\ InfectedIsContained'
      BY DEF NoneInfected, InfectedIsContained, Found, TypeOK
    <2> QED
      BY <2>1, <2>2, <2>3, <2>4
  <1> QED
    BY <1>1, <1>2, <1>3, <1>4, <1>5, <1>6, <1>7 DEF ScanStep

\* A stage that raises gives back a row that is past the gate.
LEMMA FailContained ==
  ASSUME TypeOK, Containment, NEW s \in Session, NEW k \in Kind, NEW v \in Status \ {"ABSENT"},
         pc[s] \in Stage.EXTRACT \cup Stage.RESOLVE, Fail(s, k, v),
         UNCHANGED <<path, claims, store>>
  PROVE  Containment'
  <1>1. path[on[s]] = "accepted"
    BY DEF Containment, StagesPastGate, CopiesPastGate
  <1>2. Return(s) /\ status' = [status EXCEPT ![on[s]] = v]
    BY DEF Fail
  <1> QED
    BY <1>1, <1>2, ReturnContained

\* The copy of a session in a later stage is past the gate, and so is its row.
LEMMA StageIsPastGate ==
  ASSUME TypeOK, Containment, NEW s \in Session,
         pc[s] \in Stage.EXTRACT \cup Stage.RESOLVE \/ seen[s] \in PostScan
  PROVE  seenPath[s] = "accepted" /\ path[on[s]] = "accepted"
  BY DEF Containment, StagesPastGate, CopiesPastGate

LEMMA ExtractContained ==
  ASSUME TypeOK, Containment, NEW s \in Session, ExtractStep(s)
  PROVE  Containment'
  <1>1. CASE ExtractStart(s)
    <2>1. /\ pc[s] = "dispatch" /\ seen[s] \in PostScan
          /\ Put(s, "PROCESSING") /\ Continue(s, "PROCESSING", "extracting")
          /\ UNCHANGED <<path, store, seenPath, claims>>
      BY <1>1 DEF ExtractStart, Begin
    <2> QED
      BY <2>1, StageIsPastGate, ContinueContained
  <1>2. CASE ExtractVerify(s)
    <2> USE <1>2 DEF ExtractVerify, Containment, rowVars, copyVars, caseVars
    <2>1. RowsPastGate' /\ CopiesPastGate' /\ MarksPastGate' /\ InfectedIsContained'
      BY DEF RowsPastGate, CopiesPastGate, MarksPastGate, InfectedIsContained
    <2>2. StagesPastGate' /\ BusyOnRow'
      BY DEF StagesPastGate, BusyOnRow, TypeOK
    <2>3. on[s] \notin Infected
      BY StageIsPastGate DEF InfectedIsContained, Found
    <2>4. NoneInfected'
      BY <2>3 DEF NoneInfected, Found, TypeOK
    <2> QED
      BY <2>1, <2>2, <2>4
  <1>3. CASE ExtractFails(s)
    BY <1>3, FailContained DEF ExtractFails
  <1>4. CASE ExtractCommit(s)
    <2>1. /\ pc[s] = "reading" /\ claims' = [claims EXCEPT ![on[s]] = @ + 1]
          /\ Put(s, "EXTRACTED") /\ Continue(s, "EXTRACTED", "dispatch")
          /\ UNCHANGED <<path, store, seenPath>>
      BY <1>4 DEF ExtractCommit
    <2>2. on[s] \notin Infected
      BY <2>1 DEF Containment, NoneInfected
    <2> QED
      BY <2>1, <2>2, StageIsPastGate, ContinueContained
  <1> QED
    BY <1>1, <1>2, <1>3, <1>4 DEF ExtractStep

LEMMA ResolveContained ==
  ASSUME TypeOK, Containment, NEW s \in Session, ResolveStep(s)
  PROVE  Containment'
  <1>1. CASE ResolveStart(s)
    <2>1. /\ pc[s] = "dispatch" /\ seen[s] \in PostScan
          /\ Put(s, "ENTITY_CANDIDATES") /\ Continue(s, "ENTITY_CANDIDATES", "resolving")
          /\ UNCHANGED <<path, store, seenPath, claims>>
      BY <1>1 DEF ResolveStart, Begin
    <2> QED
      BY <2>1, StageIsPastGate, ContinueContained
  <1>2. CASE ResolveFails(s)
    BY <1>2, FailContained DEF ResolveFails
  <1>3. CASE ResolveCount(s)
    <2> USE <1>3 DEF ResolveCount, Containment, rowVars, copyVars
    <2>1. RowsPastGate' /\ CopiesPastGate' /\ MarksPastGate' /\ InfectedIsContained'
      BY DEF RowsPastGate, CopiesPastGate, MarksPastGate, InfectedIsContained
    <2>2. StagesPastGate' /\ BusyOnRow' /\ NoneInfected'
      BY DEF StagesPastGate, BusyOnRow, NoneInfected, Found, TypeOK
    <2> QED
      BY <2>1, <2>2
  <1>4. CASE ResolveCommit(s)
    <2>1. /\ pc[s] = "counted" /\ Return(s) /\ UNCHANGED <<path, store, claims>>
          /\ Put(s, "HITL") \/ Put(s, "GRAPH_PROJECTED")
      BY <1>4 DEF ResolveCommit
    <2> QED
      BY <2>1, StageIsPastGate, ReturnContained DEF Put
  <1> QED
    BY <1>1, <1>2, <1>3, <1>4 DEF ResolveStep

LEMMA RequestContained ==
  ASSUME TypeOK, Containment, NEW s \in Session, Request(s)
  PROVE  Containment'
  <1> USE DEF Containment
  <1>1. ASSUME NEW e \in Evidence, Upload(s, e) PROVE Containment'
    <2> USE <1>1 DEF Upload, caseVars
    <2>1. RowsPastGate'
      BY PipelineAssumption DEF RowsPastGate, TypeOK
    <2>2. CopiesPastGate' /\ StagesPastGate'
      BY PipelineAssumption DEF CopiesPastGate, StagesPastGate, TypeOK
    <2>3. MarksPastGate'
      BY DEF MarksPastGate
    <2>4. BusyOnRow'
      <3>1. \A f \in Evidence : status[f] # "ABSENT" \/ f = e => status'[f] # "ABSENT"
        BY DEF TypeOK
      <3>2. on \in [Session -> Evidence] /\ pc \in [Session -> PC]
        BY DEF TypeOK
      <3>3. \A t \in Session \ {s} : on'[t] = on[t] /\ pc'[t] = pc[t]
        BY <3>2
      <3>4. on'[s] = e \/ pc'[s] = "idle"
        BY <3>2
      <3> QED
        BY <3>1, <3>2, <3>3, <3>4 DEF BusyOnRow
    <2>5. InfectedIsContained'
      BY PipelineAssumption DEF InfectedIsContained, TypeOK
    <2>6. \A t \in Session : pc'[t] = "promoting" => pc[t] = "promoting" /\ on'[t] = on[t] /\ on[t] # e
      <3>1. on \in [Session -> Evidence] /\ pc \in [Session -> PC] /\ status[e] = "ABSENT"
        BY DEF TypeOK
      <3>2. pc'[s] # "promoting"
        BY <3>1
      <3>3. \A t \in Session \ {s} : on'[t] = on[t] /\ pc'[t] = pc[t]
        BY <3>1
      <3>4. \A t \in Session : pc[t] = "promoting" => on[t] # e
        BY <3>1 DEF BusyOnRow
      <3> QED
        BY <3>2, <3>3, <3>4
    <2>7. \A t \in Session : pc'[t] = "promoting" => Found(t)' = Found(t)
      BY <2>6 DEF Found, TypeOK
    <2>8. NoneInfected'
      BY <2>6, <2>7 DEF NoneInfected, TypeOK
    <2> QED
      BY <2>1, <2>2, <2>3, <2>4, <2>5, <2>8
  <1>2. ASSUME NEW e \in Evidence, Process(s, e) \/ VerifyLoad(s, e) PROVE Containment'
    <2>1. /\ status[e] # "ABSENT"
          /\ \E p \in {"dispatch", "verifying"} : Load(s, e, p)
          /\ UNCHANGED <<status, path, store, claims, touch>>
      BY <1>2, PipelineAssumption DEF Process, VerifyLoad, rowVars, caseVars
    <2>2. RowsPastGate' /\ MarksPastGate' /\ InfectedIsContained'
      BY <2>1 DEF RowsPastGate, MarksPastGate, InfectedIsContained
    <2>3. CopiesPastGate'
      BY <2>1 DEF Load, RowsPastGate, CopiesPastGate, TypeOK
    <2>4. StagesPastGate' /\ BusyOnRow'
      BY <2>1 DEF Load, StagesPastGate, BusyOnRow, TypeOK
    <2>5. NoneInfected'
      BY <2>1 DEF Load, NoneInfected, Found, TypeOK
    <2> QED
      BY <2>2, <2>3, <2>4, <2>5
  <1>3. ASSUME NEW c \in Candidate, DecideRead(s, c) PROVE Containment'
    <2> USE <1>3 DEF DecideRead, rowVars, copyVars
    <2>1. RowsPastGate' /\ CopiesPastGate' /\ InfectedIsContained'
      BY DEF RowsPastGate, CopiesPastGate, InfectedIsContained
    <2>2. StagesPastGate' /\ BusyOnRow'
      BY DEF StagesPastGate, BusyOnRow, TypeOK
    <2>3. MarksPastGate'
      BY DEF RowsPastGate, MarksPastGate, TypeOK
    <2>4. NoneInfected'
      BY DEF NoneInfected, Found, TypeOK
    <2> QED
      BY <2>1, <2>2, <2>3, <2>4
  <1> QED
    BY <1>1, <1>2, <1>3 DEF Request

LEMMA CommitContained ==
  ASSUME TypeOK, Containment, NEW s \in Session, Refused(s) \/ VerifyCommit(s) \/ DecideCommit(s)
  PROVE  Containment'
  <1>1. CASE Refused(s)
    <2>1. UNCHANGED <<status, path, claims, store>> /\ Return(s)
      BY <1>1 DEF Refused, rowVars
    <2> QED
      BY <2>1, ReturnContained
  <1>2. CASE VerifyCommit(s)
    <2>1. /\ UNCHANGED status \/ Put(s, "INTEGRITY_MISMATCH")
          /\ Return(s) /\ UNCHANGED <<path, claims, store>>
      BY <1>2 DEF VerifyCommit
    <2> QED
      BY <2>1, ReturnContained DEF Put
  <1>3. CASE DecideCommit(s)
    <2> USE <1>3 DEF DecideCommit, Containment, Return
    <2>1. Mark(pend[s]) \in Projected
      BY DEF Mark
    <2>2. \A e \in Evidence : status'[e] = status[e] \/ (e \in touch[s] /\ status'[e] \in Projected)
      BY <2>1
    <2>6. RowsPastGate'
      BY <2>2 DEF RowsPastGate, MarksPastGate
    <2>7. BusyOnRow'
      <3>1. \A e \in Evidence : status[e] # "ABSENT" => status'[e] # "ABSENT"
        BY <2>2
      <3>2. on \in [Session -> Evidence] /\ pc \in [Session -> PC]
        BY DEF TypeOK
      <3>3. \A t \in Session \ {s} : on'[t] = on[t] /\ pc'[t] = pc[t]
        BY <3>2
      <3>4. pc'[s] = "idle"
        BY <3>2
      <3> QED
        BY <3>1, <3>2, <3>3, <3>4 DEF BusyOnRow
    <2>3. CopiesPastGate' /\ StagesPastGate'
      BY DEF CopiesPastGate, StagesPastGate, TypeOK
    <2>4. MarksPastGate'
      BY DEF MarksPastGate, TypeOK
    <2>5. NoneInfected' /\ InfectedIsContained'
      BY DEF NoneInfected, InfectedIsContained, Found, TypeOK
    <2> QED
      BY <2>3, <2>4, <2>5, <2>6, <2>7
  <1> QED
    BY <1>1, <1>2, <1>3

LEMMA EnvironmentContained ==
  ASSUME TypeOK, Containment, Environment
  PROVE  Containment'
  <1>1. ASSUME NEW s \in Session, Crash(s) PROVE Containment'
    <2>1. UNCHANGED <<status, path, claims, store>> /\ Return(s)
      BY <1>1 DEF Crash, rowVars
    <2> QED
      BY <2>1, ReturnContained
  <1>2. ASSUME NEW e \in Evidence, NEW k \in Kind, LeaseExpire(e, k) PROVE Containment'
    BY <1>2 DEF LeaseExpire, rowVars, copyVars, caseVars, Containment, RowsPastGate,
                CopiesPastGate, StagesPastGate, MarksPastGate, BusyOnRow, NoneInfected,
                InfectedIsContained, Found
  <1>3. ASSUME NEW e \in Evidence, NEW a \in Area, StoreFault(e, a) PROVE Containment'
    <2> USE <1>3 DEF StoreFault, rowVars, copyVars, caseVars, Containment
    <2>1. /\ RowsPastGate' /\ CopiesPastGate' /\ StagesPastGate'
          /\ MarksPastGate' /\ BusyOnRow'
      BY DEF RowsPastGate, CopiesPastGate, StagesPastGate, MarksPastGate, BusyOnRow
    <2>2. \A f \in Evidence, b \in Area : store'[b][f] = "intact" => store[b][f] = "intact"
      BY DEF TypeOK
    <2>3. InfectedIsContained'
      BY <2>2, PipelineAssumption DEF InfectedIsContained
    <2>4. NoneInfected'
      BY <2>2 DEF NoneInfected, Found, TypeOK
    <2> QED
      BY <2>1, <2>3, <2>4
  <1> QED
    BY <1>1, <1>2, <1>3 DEF Environment

LEMMA ContainmentStep == TypeOK /\ Containment /\ [Next]_vars => Containment'
  <1> SUFFICES ASSUME TypeOK, Containment, [Next]_vars PROVE Containment'
    OBVIOUS
  <1>1. CASE Next
    BY <1>1, ScanContained, ExtractContained, ResolveContained, RequestContained,
       CommitContained, EnvironmentContained DEF Next, Advance
  <1>2. CASE UNCHANGED vars
    BY <1>2 DEF vars, Containment, RowsPastGate, CopiesPastGate, StagesPastGate,
                MarksPastGate, BusyOnRow, NoneInfected, InfectedIsContained, Found
  <1> QED
    BY <1>1, <1>2

THEOREM ContainmentHolds == Spec => []Containment
  BY ContainmentInit, ContainmentStep, TypeCorrect, PTL DEF Spec

\* Infected bytes never reach accepted/ as uploaded and never yield a claim, with
\* no assumption on the leases.
THEOREM InfectedStaysContained == Spec => []InfectedIsContained
  <1>1. Containment => InfectedIsContained
    BY DEF Containment
  <1> QED
    BY <1>1, ContainmentHolds, PTL

-----------------------------------------------------------------------------
(* Exclusion, while leases outlast stages.  A session inside a stage holds   *)
(* the stage's job; then nobody else is inside, the claims of an item are    *)
(* there exactly when its job says so, and a SCAN job that succeeded is      *)
(* never started again.                                                      *)

HoldersRun == \A s \in Session, k \in Kind : InStage(s, k) => job[on[s]][k] = "RUNNING"

ScannedPath == \A e \in Evidence : path[e] = "accepted" => job[e]["SCAN"] = "SUCCEEDED"

AbsentHasNoScan == \A e \in Evidence : status[e] = "ABSENT" => job[e]["SCAN"] = "NONE"

Exclusion ==
    /\ HoldersRun
    /\ OneHolder
    /\ ExtractedOnce
    /\ ScannedPath
    /\ AbsentHasNoScan

LEMMA ExclusionInit == Init => Exclusion
  <1> SUFFICES ASSUME Init PROVE Exclusion
    OBVIOUS
  <1>1. HoldersRun /\ OneHolder
    BY DEF Init, HoldersRun, OneHolder, InStage
  <1>2. ExtractedOnce /\ ScannedPath /\ AbsentHasNoScan
    BY DEF Init, ExtractedOnce, ScannedPath, AbsentHasNoScan
  <1> QED
    BY <1>1, <1>2 DEF Exclusion

\* A step that changes no job, lets no session enter a stage and keeps the rows
\* that exist keeps the exclusion.
LEMMA JobsUntouched ==
  ASSUME TypeOK, Exclusion, UNCHANGED <<job, path, claims>>,
         \A s \in Session, k \in Kind :
            pc'[s] \in Stage[k] => pc[s] \in Stage[k] /\ on'[s] = on[s],
         \A e \in Evidence : status'[e] = "ABSENT" => status[e] = "ABSENT"
  PROVE  Exclusion'
  <1> USE DEF Exclusion
  <1>1. HoldersRun'
    BY DEF HoldersRun, InStage
  <1>2. OneHolder'
    BY DEF OneHolder, InStage
  <1>3. ExtractedOnce' /\ ScannedPath' /\ AbsentHasNoScan'
    BY DEF ExtractedOnce, ScannedPath, AbsentHasNoScan
  <1> QED
    BY <1>1, <1>2, <1>3

\* No step belongs to two stages, and between stages a session is in none.
LEMMA StagesDisjoint ==
  ASSUME NEW k \in Kind
  PROVE  /\ "idle" \notin Stage[k] /\ "dispatch" \notin Stage[k]
         /\ \A l \in Kind : \A p : p \in Stage[k] /\ p \in Stage[l] => k = l
  <1>1. /\ Stage["SCAN"] = {"scanning", "promoting", "promoted"}
        /\ Stage["EXTRACT"] = {"extracting", "reading"}
        /\ Stage["RESOLVE"] = {"resolving", "counted"}
    OBVIOUS
  <1> HIDE DEF Stage
  <1> QED
    BY <1>1

\* A session that starts stage k finds the job free and is alone in it.
LEMMA BeginExcludes ==
  ASSUME TypeOK, Containment, Exclusion, NEW s \in Session, NEW k \in Kind,
         NEW v \in Status \ {"ABSENT"}, NEW p \in Stage[k],
         pc[s] = "dispatch", Begin(s, k, v, p)
  PROVE  Exclusion'
  <1> USE DEF Exclusion
  <1> DEFINE e == on[s]
  <1>1. e \in Evidence /\ job[e][k] \in {"NONE", "FAILED", "EXPIRED"}
    BY DEF Begin, JobFree, TypeOK
  <1>2. job' = [job EXCEPT ![e][k] = "RUNNING"]
    BY DEF Begin, SetJob
  <1>3. /\ UNCHANGED <<on, path, claims>>
        /\ pc' = [pc EXCEPT ![s] = p]
        /\ status' \in {status, [status EXCEPT ![e] = v]}
    BY DEF Begin, Continue, Put
  <1>4. \A t \in Session : InStage(t, k) => on[t] # e
    BY <1>1 DEF HoldersRun
  <1>5. /\ job'[e][k] = "RUNNING"
        /\ \A f \in Evidence, l \in Kind : <<f, l>> # <<e, k>> => job'[f][l] = job[f][l]
    BY <1>1, <1>2 DEF TypeOK
  <1>6. \A t \in Session, l \in Kind :
           InStage(t, l)' => (t = s /\ l = k) \/ (t # s /\ InStage(t, l))
    <2>1. pc \in [Session -> PC]
      BY DEF TypeOK
    <2> HIDE DEF Stage, PC
    <2> QED
      BY <1>3, <2>1, StagesDisjoint DEF InStage
  <1>7. HoldersRun'
    <2> SUFFICES ASSUME NEW t \in Session, NEW l \in Kind, InStage(t, l)'
                 PROVE  job'[on'[t]][l] = "RUNNING"
      BY DEF HoldersRun
    <2>1. on'[t] = on[t] /\ on[t] \in Evidence
      BY <1>3 DEF TypeOK
    <2>2. CASE t = s /\ l = k
      BY <1>5, <2>1, <2>2
    <2>3. CASE t # s /\ InStage(t, l)
      <3>1. job[on[t]][l] = "RUNNING" /\ <<on[t], l>> # <<e, k>>
        BY <1>4, <2>3 DEF HoldersRun
      <3> QED
        BY <1>5, <2>1, <3>1
    <2> QED
      BY <1>6, <2>2, <2>3
  <1>8. OneHolder'
    BY <1>3, <1>4, <1>6 DEF OneHolder
  <1>9. ExtractedOnce'
    BY <1>1, <1>3, <1>5 DEF ExtractedOnce
  <1>10. ScannedPath'
    BY <1>1, <1>3, <1>5 DEF ScannedPath
  <1>11. status[e] # "ABSENT"
    BY DEF Containment, BusyOnRow
  <1>12. AbsentHasNoScan'
    BY <1>1, <1>3, <1>5, <1>11 DEF AbsentHasNoScan, TypeOK
  <1> QED
    BY <1>7, <1>8, <1>9, <1>10, <1>12

\* A session that leaves stage k, which only it was in, gives the job a state x.
LEMMA LeaveExcludes ==
  ASSUME TypeOK, Containment, Exclusion, NEW s \in Session, NEW k \in Kind, NEW x \in JobState,
         InStage(s, k), SetJob(s, k, x),
         pc' = [pc EXCEPT ![s] = "idle"] \/ pc' = [pc EXCEPT ![s] = "dispatch"],
         \A t \in Session \ {s} : on'[t] = on[t],
         \A f \in Evidence : status'[f] = "ABSENT" => status[f] = "ABSENT",
         \/ UNCHANGED path
         \/ k = "SCAN" /\ x = "SUCCEEDED" /\ path' = [path EXCEPT ![on[s]] = "accepted"],
         IF k = "EXTRACT" /\ x = "SUCCEEDED"
         THEN claims' = [claims EXCEPT ![on[s]] = @ + 1] ELSE UNCHANGED claims
  PROVE  Exclusion'
  <1> USE DEF Exclusion
  <1> DEFINE e == on[s]
  <1>1. e \in Evidence /\ job[e][k] = "RUNNING"
    BY DEF HoldersRun, TypeOK
  <1>2. /\ job'[e][k] = x
        /\ \A f \in Evidence, l \in Kind : <<f, l>> # <<e, k>> => job'[f][l] = job[f][l]
    BY <1>1 DEF SetJob, TypeOK
  <1>3. \A t \in Session, l \in Kind : InStage(t, l)' => t # s /\ InStage(t, l)
    <2>1. pc \in [Session -> PC]
      BY DEF TypeOK
    <2> HIDE DEF Stage, PC
    <2> QED
      BY <2>1, StagesDisjoint DEF InStage
  <1>4. \A t \in Session : t # s /\ InStage(t, k) => on[t] # e
    BY DEF OneHolder
  <1>5. HoldersRun'
    <2> SUFFICES ASSUME NEW t \in Session, NEW l \in Kind, InStage(t, l)'
                 PROVE  job'[on'[t]][l] = "RUNNING"
      BY DEF HoldersRun
    <2>1. t # s /\ InStage(t, l) /\ on'[t] = on[t] /\ on[t] \in Evidence
      BY <1>3 DEF TypeOK
    <2>2. job[on[t]][l] = "RUNNING"
      BY <2>1 DEF HoldersRun
    <2>3. <<on[t], l>> # <<e, k>>
      BY <1>4, <2>1
    <2> QED
      BY <1>2, <2>1, <2>2, <2>3
  <1>6. OneHolder'
    BY <1>3 DEF OneHolder
  <1>7. ExtractedOnce'
    <2>1. CASE k = "EXTRACT" /\ x = "SUCCEEDED"
      <3>1. claims[e] = 0
        BY <1>1, <2>1 DEF ExtractedOnce
      <3>2. claims' = [claims EXCEPT ![e] = 1]
        BY <2>1, <3>1
      <3>3. claims'[e] = 1 /\ \A f \in Evidence \ {e} : claims'[f] = claims[f]
        BY <1>1, <3>2 DEF TypeOK
      <3>4. \A f \in Evidence \ {e} : job'[f]["EXTRACT"] = job[f]["EXTRACT"]
        BY <1>2
      <3>5. job'[e]["EXTRACT"] = "SUCCEEDED"
        BY <1>2, <2>1
      <3> QED
        BY <3>3, <3>4, <3>5 DEF ExtractedOnce
    <2>2. CASE ~ (k = "EXTRACT" /\ x = "SUCCEEDED")
      BY <1>1, <1>2, <2>2 DEF ExtractedOnce
    <2> QED
      BY <2>1, <2>2
  <1>8. ScannedPath'
    <2>1. CASE UNCHANGED path
      BY <1>1, <1>2, <2>1 DEF ScannedPath
    <2>2. CASE k = "SCAN" /\ x = "SUCCEEDED" /\ path' = [path EXCEPT ![e] = "accepted"]
      <3>1. \A f \in Evidence : f # e => path'[f] = path[f]
        BY <2>2 DEF TypeOK
      <3> QED
        BY <1>2, <2>2, <3>1 DEF ScannedPath
    <2> QED
      BY <2>1, <2>2
  <1>9. status[e] # "ABSENT"
    BY DEF Containment, BusyOnRow, InStage
  <1>10. AbsentHasNoScan'
    BY <1>2, <1>9 DEF AbsentHasNoScan
  <1> QED
    BY <1>5, <1>6, <1>7, <1>8, <1>10

\* The same for a session that returns, having given its row a status that exists.
LEMMA ReturnExcludes ==
  ASSUME TypeOK, Containment, Exclusion, NEW s \in Session, NEW k \in Kind,
         NEW x \in {"FAILED", "SUCCEEDED"}, x = "SUCCEEDED" => k # "EXTRACT",
         NEW v \in Status \ {"ABSENT"}, InStage(s, k), SetJob(s, k, x),
         status' \in {status, [status EXCEPT ![on[s]] = v]},
         Return(s), UNCHANGED <<path, claims>>
  PROVE  Exclusion'
  <1>1. pc' = [pc EXCEPT ![s] = "idle"] /\ \A t \in Session \ {s} : on'[t] = on[t]
    BY DEF Return, TypeOK
  <1>2. \A f \in Evidence : status'[f] = "ABSENT" => status[f] = "ABSENT"
    BY DEF TypeOK
  <1> QED
    BY <1>1, <1>2, LeaveExcludes

\* A session that goes on between two stages has done its work in the first one.
LEMMA CommitExcludes ==
  ASSUME TypeOK, Containment, Exclusion, NEW s \in Session, NEW k \in Kind,
         NEW v \in Status \ {"ABSENT"}, InStage(s, k), SetJob(s, k, "SUCCEEDED"),
         Put(s, v), Continue(s, v, "dispatch"),
         \/ k = "RESOLVE" /\ UNCHANGED path
         \/ k = "EXTRACT" /\ UNCHANGED path
         \/ k = "SCAN" /\ path' = [path EXCEPT ![on[s]] = "accepted"],
         IF k = "EXTRACT" THEN claims' = [claims EXCEPT ![on[s]] = @ + 1] ELSE UNCHANGED claims
  PROVE  Exclusion'
  <1>1. pc' = [pc EXCEPT ![s] = "dispatch"] /\ \A t \in Session \ {s} : on'[t] = on[t]
    BY DEF Continue
  <1>2. \A f \in Evidence : status'[f] = "ABSENT" => status[f] = "ABSENT"
    BY DEF Put, TypeOK
  <1> QED
    BY <1>1, <1>2, LeaveExcludes

\* A session that only moves on inside a stage, or that returns, changes no job.
LEMMA StepInside ==
  ASSUME TypeOK, Exclusion, NEW s \in Session, UNCHANGED <<job, path, claims>>,
         \A f \in Evidence : status'[f] = "ABSENT" => status[f] = "ABSENT",
         NEW p \in PC, pc' = [pc EXCEPT ![s] = p],
         \A t \in Session \ {s} : on'[t] = on[t],
         \A k \in Kind : p \in Stage[k] => pc[s] \in Stage[k] /\ on'[s] = on[s]
  PROVE  Exclusion'
  <1>1. \A t \in Session, k \in Kind :
           pc'[t] \in Stage[k] => pc[t] \in Stage[k] /\ on'[t] = on[t]
    <2>1. pc \in [Session -> PC]
      BY DEF TypeOK
    <2> HIDE DEF Stage, PC
    <2> QED
      BY <2>1
  <1> QED
    BY <1>1, JobsUntouched

LEMMA MoveInside ==
  ASSUME TypeOK, Exclusion, NEW s \in Session, NEW k \in Kind, NEW p \in Stage[k],
         pc[s] \in Stage[k], pc' = [pc EXCEPT ![s] = p],
         UNCHANGED <<status, job, path, claims, on>>
  PROVE  Exclusion'
  <1>1. p \in PC
    OBVIOUS
  <1>2. \A l \in Kind : p \in Stage[l] => pc[s] \in Stage[l]
    <2> HIDE DEF Stage, PC
    <2> QED
      BY StagesDisjoint
  <1> QED
    BY <1>1, <1>2, StepInside

LEMMA ScanExcludes ==
  ASSUME TypeOK, Containment, Exclusion, NEW s \in Session, ScanStep(s)
  PROVE  Exclusion'
  <1>1. CASE ScanStart(s)
    BY <1>1, BeginExcludes DEF ScanStart
  <1>2. CASE ScanFails(s)
    <2>1. PICK v \in ScanFailure : Put(s, v)
      BY <1>2 DEF ScanFails
    <2>2. v \in Status \ {"ABSENT"}
      BY PipelineAssumption
    <2>3. InStage(s, "SCAN")
      BY <1>2 DEF ScanFails, InStage
    <2> QED
      BY <1>2, <2>1, <2>2, <2>3, ReturnExcludes DEF ScanFails, Put
  <1>3. CASE ScanInfected(s)
    <2>1. InStage(s, "SCAN")
      BY <1>3 DEF ScanInfected, InStage
    <2> QED
      <3>1. /\ SetJob(s, "SCAN", "SUCCEEDED") /\ Return(s) /\ UNCHANGED <<path, claims>>
            /\ status' \in {status, [status EXCEPT ![on[s]] = "INFECTED"]}
        BY <1>3 DEF ScanInfected, Put
      <3> QED
        BY <2>1, <3>1, ReturnExcludes
  <1>4. CASE ScanClean(s)
    <2>1. pc[s] \in Stage["SCAN"] /\ "promoting" \in Stage["SCAN"]
      BY <1>4 DEF ScanClean
    <2> QED
      BY <1>4, <2>1, MoveInside DEF ScanClean, rowVars, copyVars
  <1>5. CASE Promote(s)
    <2>1. pc[s] \in Stage["SCAN"] /\ "promoted" \in Stage["SCAN"]
      BY <1>5 DEF Promote
    <2> QED
      BY <1>5, <2>1, MoveInside DEF Promote, rowVars, copyVars
  <1>6. CASE PromoteFails(s)
    <2>1. InStage(s, "SCAN")
      BY <1>6 DEF PromoteFails, InStage
    <2> QED
      BY <1>6, <2>1, ReturnExcludes, PipelineAssumption DEF PromoteFails, Put
  <1>7. CASE ScanCommit(s)
    <2>1. InStage(s, "SCAN")
      BY <1>7 DEF ScanCommit, InStage
    <2> QED
      BY <1>7, <2>1, CommitExcludes DEF ScanCommit
  <1> QED
    BY <1>1, <1>2, <1>3, <1>4, <1>5, <1>6, <1>7 DEF ScanStep

LEMMA ExtractExcludes ==
  ASSUME TypeOK, Containment, Exclusion, NEW s \in Session, ExtractStep(s)
  PROVE  Exclusion'
  <1>1. CASE ExtractStart(s)
    BY <1>1, BeginExcludes DEF ExtractStart
  <1>2. CASE ExtractVerify(s)
    <2>1. pc[s] \in Stage["EXTRACT"] /\ "reading" \in Stage["EXTRACT"]
      BY <1>2 DEF ExtractVerify
    <2> QED
      BY <1>2, <2>1, MoveInside DEF ExtractVerify, rowVars, copyVars
  <1>3. CASE ExtractFails(s)
    <2>1. PICK v \in {"INTEGRITY_MISMATCH", "EXTRACTION_FAILED"} : Fail(s, "EXTRACT", v)
      BY <1>3 DEF ExtractFails
    <2>2. InStage(s, "EXTRACT")
      BY <1>3 DEF ExtractFails, InStage
    <2> QED
      BY <1>3, <2>1, <2>2, ReturnExcludes DEF ExtractFails, Fail
  <1>4. CASE ExtractCommit(s)
    <2>1. InStage(s, "EXTRACT")
      BY <1>4 DEF ExtractCommit, InStage
    <2> QED
      BY <1>4, <2>1, CommitExcludes DEF ExtractCommit
  <1> QED
    BY <1>1, <1>2, <1>3, <1>4 DEF ExtractStep

LEMMA ResolveExcludes ==
  ASSUME TypeOK, Containment, Exclusion, NEW s \in Session, ResolveStep(s)
  PROVE  Exclusion'
  <1>1. CASE ResolveStart(s)
    BY <1>1, BeginExcludes DEF ResolveStart
  <1>2. CASE ResolveFails(s)
    <2>1. InStage(s, "RESOLVE")
      BY <1>2 DEF ResolveFails, InStage
    <2> QED
      BY <1>2, <2>1, ReturnExcludes DEF ResolveFails, Fail
  <1>3. CASE ResolveCount(s)
    <2>1. pc[s] \in Stage["RESOLVE"] /\ "counted" \in Stage["RESOLVE"]
      BY <1>3 DEF ResolveCount
    <2> QED
      BY <1>3, <2>1, MoveInside DEF ResolveCount, rowVars, copyVars
  <1>4. CASE ResolveCommit(s)
    <2>1. InStage(s, "RESOLVE")
      BY <1>4 DEF ResolveCommit, InStage
    <2>2. PICK v \in {"HITL", "GRAPH_PROJECTED"} : Put(s, v)
      BY <1>4 DEF ResolveCommit
    <2> QED
      BY <1>4, <2>1, <2>2, ReturnExcludes DEF ResolveCommit, Put
  <1> QED
    BY <1>1, <1>2, <1>3, <1>4 DEF ResolveStep

LEMMA RequestExcludes ==
  ASSUME TypeOK, Containment, Exclusion, NEW s \in Session, Request(s)
  PROVE  Exclusion'
  <1>1. ASSUME NEW e \in Evidence, Upload(s, e) PROVE Exclusion'
    <2>1. PICK p \in {"idle", "dispatch"} : pc' = [pc EXCEPT ![s] = p]
      <3>1. pc' = pc => pc' = [pc EXCEPT ![s] = "idle"]
        BY <1>1 DEF Upload, TypeOK
      <3> QED
        BY <1>1, <3>1 DEF Upload
    <2>2. \A t \in Session \ {s} : on'[t] = on[t]
      BY <1>1 DEF Upload, TypeOK
    <2>3. \A f \in Evidence : status'[f] = "ABSENT" => status[f] = "ABSENT"
      BY <1>1 DEF Upload, TypeOK
    <2>4. \A k \in Kind : p \notin Stage[k]
      BY <2>1, StagesDisjoint
    <2> QED
      BY <1>1, <2>1, <2>2, <2>3, <2>4, StepInside DEF Upload
  <1>2. ASSUME NEW e \in Evidence, Process(s, e) \/ VerifyLoad(s, e) PROVE Exclusion'
    <2>1. PICK p \in {"dispatch", "verifying"} : Load(s, e, p)
      BY <1>2 DEF Process, VerifyLoad
    <2>2. UNCHANGED <<status, job, path, claims>>
      BY <1>2 DEF Process, VerifyLoad, rowVars
    <2>3. pc' = [pc EXCEPT ![s] = p] /\ \A t \in Session \ {s} : on'[t] = on[t]
      BY <2>1 DEF Load, TypeOK
    <2>4. \A k \in Kind : p \notin Stage[k]
      BY <2>1
    <2> QED
      BY <2>2, <2>3, <2>4, StepInside
  <1>3. ASSUME NEW c \in Candidate, DecideRead(s, c) PROVE Exclusion'
    <2>1. PICK p \in Reviewing : pc' = [pc EXCEPT ![s] = p]
      BY <1>3 DEF DecideRead
    <2>2. UNCHANGED <<status, job, path, claims, on>>
      BY <1>3 DEF DecideRead, rowVars, copyVars
    <2>3. \A k \in Kind : p \notin Stage[k]
      BY <2>1
    <2> QED
      BY <2>1, <2>2, <2>3, StepInside
  <1> QED
    BY <1>1, <1>2, <1>3 DEF Request

\* A session that returns without having held a job.
LEMMA ReturnQuietly ==
  ASSUME TypeOK, Exclusion, NEW s \in Session, Return(s), UNCHANGED <<job, path, claims>>,
         \A f \in Evidence : status'[f] = "ABSENT" => status[f] = "ABSENT"
  PROVE  Exclusion'
  <1>1. pc' = [pc EXCEPT ![s] = "idle"] /\ \A t \in Session \ {s} : on'[t] = on[t]
    BY DEF Return, TypeOK
  <1>2. \A k \in Kind : "idle" \notin Stage[k]
    BY StagesDisjoint
  <1> QED
    BY <1>1, <1>2, StepInside

LEMMA CommitsExclude ==
  ASSUME TypeOK, Exclusion, NEW s \in Session,
         Refused(s) \/ VerifyCommit(s) \/ DecideCommit(s) \/ Crash(s)
  PROVE  Exclusion'
  <1>1. CASE Refused(s) \/ Crash(s)
    BY <1>1, ReturnQuietly DEF Refused, Crash, rowVars
  <1>2. CASE VerifyCommit(s)
    <2>1. UNCHANGED status \/ Put(s, "INTEGRITY_MISMATCH")
      BY <1>2 DEF VerifyCommit
    <2>2. \A f \in Evidence : status'[f] = "ABSENT" => status[f] = "ABSENT"
      BY <2>1 DEF Put, TypeOK
    <2> QED
      BY <1>2, <2>2, ReturnQuietly DEF VerifyCommit
  <1>3. CASE DecideCommit(s)
    <2>1. \A f \in Evidence : status'[f] = "ABSENT" => status[f] = "ABSENT"
      BY <1>3 DEF DecideCommit, Mark
    <2> QED
      BY <1>3, <2>1, ReturnQuietly DEF DecideCommit
  <1> QED
    BY <1>1, <1>2, <1>3

\* A lease that runs out only when nobody is in the stage takes the job from no one.
LEMMA LeaseExcludes ==
  ASSUME LeaseSound, TypeOK, Exclusion, NEW e \in Evidence, NEW k \in Kind, LeaseExpire(e, k)
  PROVE  Exclusion'
  <1> USE DEF Exclusion
  <1>1. /\ job[e][k] = "RUNNING" /\ job'[e][k] = "EXPIRED"
        /\ \A f \in Evidence, l \in Kind : <<f, l>> # <<e, k>> => job'[f][l] = job[f][l]
        /\ \A s \in Session : InStage(s, k) => on[s] # e
        /\ UNCHANGED <<status, path, claims, pc, on>>
    BY DEF LeaseExpire, rowVars, copyVars, TypeOK
  <1>2. HoldersRun'
    BY <1>1 DEF HoldersRun, InStage, TypeOK
  <1>3. OneHolder'
    BY <1>1 DEF OneHolder, InStage
  <1>4. ExtractedOnce' /\ ScannedPath' /\ AbsentHasNoScan'
    BY <1>1 DEF ExtractedOnce, ScannedPath, AbsentHasNoScan
  <1> QED
    BY <1>2, <1>3, <1>4

LEMMA ExclusionStep ==
  ASSUME LeaseSound, TypeOK, Containment, Exclusion, [Next]_vars
  PROVE  Exclusion'
  <1>1. ASSUME NEW e \in Evidence, NEW a \in Area, StoreFault(e, a) PROVE Exclusion'
    BY <1>1, JobsUntouched DEF StoreFault, rowVars, copyVars
  <1>2. CASE Environment
    BY <1>1, <1>2, CommitsExclude, LeaseExcludes DEF Environment
  <1>3. ASSUME NEW s \in Session, Request(s) \/ Advance(s) PROVE Exclusion'
    BY <1>3, ScanExcludes, ExtractExcludes, ResolveExcludes, RequestExcludes, CommitsExclude
       DEF Advance
  <1>4. CASE UNCHANGED vars
    BY <1>4, JobsUntouched DEF vars
  <1> QED
    BY <1>2, <1>3, <1>4 DEF Next

THEOREM ExclusionHolds ==
  ASSUME LeaseSound
  PROVE  Spec => []Exclusion
  <1>1. Exclusion /\ TypeOK /\ Containment /\ [Next]_vars => Exclusion'
    BY ExclusionStep
  <1> QED
    BY <1>1, ExclusionInit, TypeCorrect, ContainmentHolds, PTL DEF Spec

\* Extraction is idempotent: an item's claims are committed exactly when its
\* EXTRACT job succeeds, and once.
THEOREM ClaimsOnce ==
  ASSUME LeaseSound
  PROVE  Spec => []ExtractedOnce
  <1>1. Exclusion => ExtractedOnce
    BY DEF Exclusion
  <1> QED
    BY <1>1, ExclusionHolds, PTL

\* Two sessions are never inside the same stage of the same item.
THEOREM StagesExclude ==
  ASSUME LeaseSound
  PROVE  Spec => []OneHolder
  <1>1. Exclusion => OneHolder
    BY DEF Exclusion
  <1> QED
    BY <1>1, ExclusionHolds, PTL

\* A row past the scan gate has a scan that succeeded and an accepted object.
THEOREM GateTruthful ==
  ASSUME LeaseSound
  PROVE  Spec => []GateIsTruthful
  <1>1. Containment /\ Exclusion => GateIsTruthful
    BY DEF Containment, RowsPastGate, Exclusion, ScannedPath, GateIsTruthful
  <1> QED
    BY <1>1, ContainmentHolds, ExclusionHolds, PTL

-----------------------------------------------------------------------------
(* Order of the stages, while leases outlast them.  No job of an item exists *)
(* before the stage below it succeeded; a row, or a copy of one, that waits  *)
(* for RESOLVE goes with claims that were committed; and a session inside a  *)
(* stage still holds the status it gave the row there, so that the status it *)
(* leaves with is really written.                                            *)

Held(k) == IF k = "SCAN" THEN "MALWARE_SCANNING"
           ELSE IF k = "EXTRACT" THEN "PROCESSING" ELSE "ENTITY_CANDIDATES"

\* A status and the jobs of one item that go together.
InOrder(st, j) ==
    /\ j["EXTRACT"] # "NONE" => j["SCAN"] = "SUCCEEDED"
    /\ j["RESOLVE"] # "NONE" => j["EXTRACT"] = "SUCCEEDED"
    /\ st \in ScanEntry => j["SCAN"] # "SUCCEEDED"
    /\ st \in ExtractEntry => j["EXTRACT"] # "SUCCEEDED"
    /\ st \in ResolveEntry => j["EXTRACT"] = "SUCCEEDED" /\ j["RESOLVE"] # "SUCCEEDED"
    /\ \A k \in Kind : st = Held(k) => j[k] \in {"RUNNING", "EXPIRED"}

ItemsInOrder == \A e \in Evidence : InOrder(status[e], job[e])

CopiesInOrder ==
    \A s \in Session : seen[s] \in ResolveEntry => job[on[s]]["EXTRACT"] = "SUCCEEDED"

HoldersSee == \A s \in Session, k \in Kind : InStage(s, k) => seen[s] = Held(k)

Order == ItemsInOrder /\ CopiesInOrder /\ HoldersSee

\* The statuses with which a stage leaves the row when its job becomes x.
Outcome(k, x) ==
    CASE k = "SCAN"    -> IF x = "FAILED" THEN ScanFailure ELSE {"INFECTED", "ACCEPTED"}
      [] k = "EXTRACT" -> IF x = "FAILED" THEN {"INTEGRITY_MISMATCH", "EXTRACTION_FAILED"}
                          ELSE {"EXTRACTED"}
      [] k = "RESOLVE" -> IF x = "FAILED" THEN {"EXTRACTED"} ELSE {"HITL", "GRAPH_PROJECTED"}

LEMMA OrderInit == Init => Order
  <1> SUFFICES ASSUME Init PROVE Order
    OBVIOUS
  <1>1. \A e \in Evidence : status[e] = "ABSENT" /\ \A k \in Kind : job[e][k] = "NONE"
    BY DEF Init
  <1>2. ItemsInOrder
    BY <1>1, PipelineAssumption DEF ItemsInOrder, InOrder, Held
  <1>3. CopiesInOrder /\ HoldersSee
    BY DEF Init, CopiesInOrder, HoldersSee, InStage
  <1> QED
    BY <1>2, <1>3 DEF Order

\* A stage that starts after the one below it succeeded.
LEMMA OrderBegins ==
  ASSUME NEW st \in Status, NEW j \in [Kind -> JobState], InOrder(st, j),
         NEW k \in Kind, j[k] # "SUCCEEDED",
         k = "EXTRACT" => j["SCAN"] = "SUCCEEDED", k = "RESOLVE" => j["EXTRACT"] = "SUCCEEDED",
         NEW u \in {st, Held(k)}
  PROVE  InOrder(u, [j EXCEPT ![k] = "RUNNING"])
  <1>1. CASE k = "SCAN"
    BY <1>1, PipelineAssumption DEF InOrder, Held
  <1>2. CASE k = "EXTRACT"
    BY <1>2, PipelineAssumption DEF InOrder, Held
  <1>3. CASE k = "RESOLVE"
    BY <1>3, PipelineAssumption DEF InOrder, Held
  <1> QED
    BY <1>1, <1>2, <1>3

\* A stage that ends, with one of its outcomes.
LEMMA OrderEnds ==
  ASSUME NEW st \in Status, NEW j \in [Kind -> JobState], InOrder(st, j),
         NEW k \in Kind, j[k] = "RUNNING",
         NEW x \in {"FAILED", "SUCCEEDED"}, NEW u \in Outcome(k, x)
  PROVE  InOrder(u, [j EXCEPT ![k] = x])
  <1>1. CASE k = "SCAN"
    <2>1. \/ u \in {"SCAN_FAILED", "SCAN_TIMEOUT", "SCANNER_UNAVAILABLE"} /\ x = "FAILED"
          \/ u \in {"INFECTED", "ACCEPTED"} /\ x = "SUCCEEDED"
      BY <1>1, PipelineAssumption DEF Outcome
    <2>2. j["EXTRACT"] = "NONE" /\ j["RESOLVE"] = "NONE"
      BY <1>1 DEF InOrder
    <2> QED
      BY <1>1, <2>1, <2>2, PipelineAssumption DEF InOrder, Held
  <1>2. CASE k = "EXTRACT"
    BY <1>2, PipelineAssumption DEF InOrder, Outcome, Held
  <1>3. CASE k = "RESOLVE"
    BY <1>3, PipelineAssumption DEF InOrder, Outcome, Held
  <1> QED
    BY <1>1, <1>2, <1>3

\* A step of s that leaves it in p with item e and copy v, and undoes no success.
LEMMA SessionMoves ==
  ASSUME TypeOK, Order, NEW s \in Session, NEW e \in Evidence, NEW v \in Status, NEW p \in PC,
         pc' = [pc EXCEPT ![s] = p], on' = [on EXCEPT ![s] = e], seen' = [seen EXCEPT ![s] = v],
         v \in ResolveEntry => job'[e]["EXTRACT"] = "SUCCEEDED",
         \A k \in Kind : p \in Stage[k] => v = Held(k),
         \A f \in Evidence : job[f]["EXTRACT"] = "SUCCEEDED" => job'[f]["EXTRACT"] = "SUCCEEDED"
  PROVE  CopiesInOrder' /\ HoldersSee'
  <1>1. \A t \in Session : /\ pc'[t] = IF t = s THEN p ELSE pc[t]
                           /\ on'[t] = IF t = s THEN e ELSE on[t]
                           /\ seen'[t] = IF t = s THEN v ELSE seen[t]
                           /\ on[t] \in Evidence
    BY DEF TypeOK
  <1> HIDE DEF Stage, PC
  <1>2. CopiesInOrder'
    BY <1>1 DEF Order, CopiesInOrder
  <1>3. HoldersSee'
    BY <1>1 DEF Order, HoldersSee, InStage
  <1> QED
    BY <1>2, <1>3

LEMMA SessionReturns ==
  ASSUME TypeOK, Order, NEW s \in Session, Return(s),
         \A f \in Evidence : job[f]["EXTRACT"] = "SUCCEEDED" => job'[f]["EXTRACT"] = "SUCCEEDED"
  PROVE  CopiesInOrder' /\ HoldersSee'
  <1>1. \A k \in Kind : "idle" \notin Stage[k]
    BY StagesDisjoint
  <1>2. "idle" \in PC /\ "ABSENT" \in Status /\ "ABSENT" \notin ResolveEntry
    OBVIOUS
  <1> QED
    BY <1>1, <1>2, NoItemType, SessionMoves DEF Return

\* A step that changes one item's row and job: the rest stays in order.
LEMMA ItemChanges ==
  ASSUME TypeOK, Order, NEW e \in Evidence, NEW u \in Status, NEW k \in Kind, NEW x \in JobState,
         status' \in {status, [status EXCEPT ![e] = u]}, job' = [job EXCEPT ![e][k] = x],
         InOrder(status'[e], [job[e] EXCEPT ![k] = x])
  PROVE  ItemsInOrder'
  <1>1. job'[e] = [job[e] EXCEPT ![k] = x] /\ \A f \in Evidence \ {e} : job'[f] = job[f]
    BY DEF TypeOK
  <1>2. \A f \in Evidence \ {e} : status'[f] = status[f]
    BY DEF TypeOK
  <1>3. \A f \in Evidence : InOrder(status'[f], job'[f])
    BY <1>1, <1>2 DEF Order, ItemsInOrder
  <1> QED
    BY <1>3 DEF ItemsInOrder

\* Giving one job another state undoes no success of EXTRACT, unless it was one.
LEMMA SuccessStays ==
  ASSUME TypeOK, NEW e \in Evidence, NEW k \in Kind, NEW x \in JobState,
         job[e][k] # "SUCCEEDED", job' = [job EXCEPT ![e][k] = x]
  PROVE  \A f \in Evidence : job[f]["EXTRACT"] = "SUCCEEDED" => job'[f]["EXTRACT"] = "SUCCEEDED"
  BY DEF TypeOK

\* A session that starts the stage its copy of the status leads to.
LEMMA BeginOrders ==
  ASSUME TypeOK, Containment, Exclusion, Order, NEW s \in Session, NEW k \in Kind,
         NEW p \in Stage[k], Begin(s, k, Held(k), p),
         k = "EXTRACT" => seen[s] \in ExtractEntry, k = "RESOLVE" => seen[s] \in ResolveEntry
  PROVE  Order'
  <1> DEFINE e == on[s]
  <1>1. /\ e \in Evidence /\ status[e] \in Status /\ job[e] \in [Kind -> JobState]
        /\ Held(k) \in Status /\ p \in PC
    BY DEF TypeOK, Held
  <1>2. /\ job[e][k] # "SUCCEEDED" /\ job' = [job EXCEPT ![e][k] = "RUNNING"]
        /\ status' \in {status, [status EXCEPT ![e] = Held(k)]}
        /\ pc' = [pc EXCEPT ![s] = p] /\ seen' = [seen EXCEPT ![s] = Held(k)] /\ on' = on
    BY DEF Begin, JobFree, SetJob, Put, Continue
  <1>3. k = "EXTRACT" => job[e]["SCAN"] = "SUCCEEDED"
    BY <1>1 DEF Containment, CopiesPastGate, Exclusion, ScannedPath
  <1>4. k = "RESOLVE" => job[e]["EXTRACT"] = "SUCCEEDED"
    BY DEF Order, CopiesInOrder
  <1>5. status'[e] \in {status[e], Held(k)}
    BY <1>1, <1>2 DEF TypeOK
  <1>6. InOrder(status[e], job[e])
    BY <1>1 DEF Order, ItemsInOrder
  <1>7. InOrder(status'[e], [job[e] EXCEPT ![k] = "RUNNING"])
    BY <1>1, <1>2, <1>3, <1>4, <1>5, <1>6, OrderBegins
  <1>8. ItemsInOrder'
    BY <1>1, <1>2, <1>7, ItemChanges
  <1>9. \A f \in Evidence : job[f]["EXTRACT"] = "SUCCEEDED" => job'[f]["EXTRACT"] = "SUCCEEDED"
    BY <1>1, <1>2, SuccessStays
  <1>10. Held(k) \in ResolveEntry => job'[e]["EXTRACT"] = "SUCCEEDED"
    BY <1>1, <1>4, <1>9 DEF Held
  <1>11. \A l \in Kind : p \in Stage[l] => Held(k) = Held(l)
    <2> HIDE DEF Stage
    <2> QED
      BY StagesDisjoint
  <1>12. on' = [on EXCEPT ![s] = e]
    BY <1>2 DEF TypeOK
  <1>13. CopiesInOrder' /\ HoldersSee'
    <2> HIDE DEF Stage, PC, Status, ResolveEntry
    <2> QED
      BY <1>1, <1>2, <1>9, <1>10, <1>11, <1>12, SessionMoves
  <1> QED
    BY <1>8, <1>13 DEF Order

\* A session that ends its stage writes one of the stage's outcomes.
LEMMA EndOrdersItems ==
  ASSUME TypeOK, Exclusion, Order, NEW s \in Session, NEW k \in Kind, InStage(s, k),
         NEW x \in {"FAILED", "SUCCEEDED"}, NEW u \in Outcome(k, x), SetJob(s, k, x),
         status' = [status EXCEPT ![on[s]] = u] \/ Put(s, u)
  PROVE  /\ ItemsInOrder'
         /\ \A f \in Evidence :
               job[f]["EXTRACT"] = "SUCCEEDED" => job'[f]["EXTRACT"] = "SUCCEEDED"
  <1> DEFINE e == on[s]
  <1>1. /\ e \in Evidence /\ status[e] \in Status /\ job[e] \in [Kind -> JobState]
        /\ job[e][k] = "RUNNING" /\ seen[s] = Held(k)
    BY DEF TypeOK, Exclusion, HoldersRun, Order, HoldersSee
  <1>2. u \in Status /\ u # Held(k)
    BY PipelineAssumption DEF Outcome, Held
  <1>3. status' = [status EXCEPT ![e] = u] /\ job' = [job EXCEPT ![e][k] = x] /\ x \in JobState
    BY <1>1, <1>2 DEF Put, SetJob
  <1>4. status'[e] = u
    BY <1>1, <1>3 DEF TypeOK
  <1>5. InOrder(status[e], job[e])
    BY <1>1 DEF Order, ItemsInOrder
  <1>6. InOrder(status'[e], [job[e] EXCEPT ![k] = x])
    BY <1>1, <1>4, <1>5, OrderEnds
  <1> QED
    BY <1>1, <1>2, <1>3, <1>6, ItemChanges, SuccessStays

\* ... and returns ...
LEMMA EndOrders ==
  ASSUME TypeOK, Exclusion, Order, NEW s \in Session, NEW k \in Kind, InStage(s, k),
         NEW x \in {"FAILED", "SUCCEEDED"}, NEW u \in Outcome(k, x), SetJob(s, k, x),
         status' = [status EXCEPT ![on[s]] = u] \/ Put(s, u), Return(s)
  PROVE  Order'
  BY EndOrdersItems, SessionReturns DEF Order

\* ... or goes on to the next stage.
LEMMA PassOrders ==
  ASSUME TypeOK, Exclusion, Order, NEW s \in Session, NEW k \in {"SCAN", "EXTRACT"}, InStage(s, k),
         NEW u \in Outcome(k, "SUCCEEDED"), SetJob(s, k, "SUCCEEDED"),
         Put(s, u), Continue(s, u, "dispatch")
  PROVE  Order'
  <1>1. /\ ItemsInOrder'
        /\ \A f \in Evidence : job[f]["EXTRACT"] = "SUCCEEDED" => job'[f]["EXTRACT"] = "SUCCEEDED"
    BY EndOrdersItems
  <1>2. on[s] \in Evidence /\ on' = [on EXCEPT ![s] = on[s]] /\ u \in Status /\ "dispatch" \in PC
    BY PipelineAssumption DEF Continue, Outcome, TypeOK
  <1>3. u \in ResolveEntry => job'[on[s]]["EXTRACT"] = "SUCCEEDED"
    BY <1>2, PipelineAssumption DEF Outcome, SetJob, TypeOK
  <1>4. \A l \in Kind : "dispatch" \notin Stage[l]
    BY StagesDisjoint
  <1>5. CopiesInOrder' /\ HoldersSee'
    BY <1>1, <1>2, <1>3, <1>4, SessionMoves DEF Continue
  <1> QED
    BY <1>1, <1>5 DEF Order

\* A session that moves on inside its stage.
LEMMA InsideOrders ==
  ASSUME TypeOK, Order, NEW s \in Session, NEW k \in Kind, NEW p \in Stage[k],
         pc[s] \in Stage[k], pc' = [pc EXCEPT ![s] = p], UNCHANGED <<status, job, on, seen>>
  PROVE  Order'
  <1> HIDE DEF Stage
  <1>1. \A t \in Session : pc'[t] = IF t = s THEN p ELSE pc[t]
    BY DEF TypeOK
  <1>2. \A l \in Kind : p \in Stage[l] => pc[s] \in Stage[l]
    BY StagesDisjoint
  <1>3. \A t \in Session, l \in Kind : pc'[t] \in Stage[l] => seen[t] = Held(l)
    BY <1>1, <1>2 DEF Order, HoldersSee, InStage
  <1>4. HoldersSee'
    BY <1>3 DEF HoldersSee, InStage
  <1>5. CopiesInOrder' /\ ItemsInOrder'
    BY DEF Order, CopiesInOrder, ItemsInOrder
  <1> QED
    BY <1>4, <1>5 DEF Order

LEMMA ScanOrders ==
  ASSUME TypeOK, Containment, Exclusion, Order, NEW s \in Session, ScanStep(s)
  PROVE  Order'
  <1>0. Held("SCAN") = "MALWARE_SCANNING"
    BY DEF Held
  <1>1. CASE ScanStart(s)
    <2>1. Begin(s, "SCAN", Held("SCAN"), "scanning") /\ "scanning" \in Stage["SCAN"]
      BY <1>0, <1>1 DEF ScanStart
    <2> QED
      BY <2>1, BeginOrders
  <1>2. CASE ScanFails(s)
    <2>1. PICK v \in ScanFailure : Put(s, v)
      BY <1>2 DEF ScanFails
    <2>2. v \in Outcome("SCAN", "FAILED") /\ InStage(s, "SCAN")
      BY <1>2 DEF Outcome, ScanFails, InStage
    <2> QED
      BY <1>2, <2>1, <2>2, EndOrders DEF ScanFails
  <1>3. CASE ScanInfected(s)
    <2>1. "INFECTED" \in Outcome("SCAN", "SUCCEEDED") /\ InStage(s, "SCAN")
      BY <1>3 DEF Outcome, ScanInfected, InStage
    <2> QED
      BY <1>3, <2>1, EndOrders DEF ScanInfected
  <1>4. CASE ScanClean(s)
    <2>1. pc[s] \in Stage["SCAN"] /\ "promoting" \in Stage["SCAN"]
      BY <1>4 DEF ScanClean
    <2> QED
      BY <1>4, <2>1, InsideOrders DEF ScanClean, rowVars, copyVars
  <1>5. CASE Promote(s)
    <2>1. pc[s] \in Stage["SCAN"] /\ "promoted" \in Stage["SCAN"]
      BY <1>5 DEF Promote
    <2> QED
      BY <1>5, <2>1, InsideOrders DEF Promote, rowVars, copyVars
  <1>6. CASE PromoteFails(s)
    <2>1. "SCAN_FAILED" \in Outcome("SCAN", "FAILED") /\ InStage(s, "SCAN")
      BY <1>6, PipelineAssumption DEF Outcome, PromoteFails, InStage
    <2> QED
      BY <1>6, <2>1, EndOrders DEF PromoteFails
  <1>7. CASE ScanCommit(s)
    <2>1. "ACCEPTED" \in Outcome("SCAN", "SUCCEEDED") /\ InStage(s, "SCAN")
      BY <1>7 DEF Outcome, ScanCommit, InStage
    <2> QED
      BY <1>7, <2>1, PassOrders DEF ScanCommit
  <1> QED
    BY <1>1, <1>2, <1>3, <1>4, <1>5, <1>6, <1>7 DEF ScanStep

LEMMA ExtractOrders ==
  ASSUME TypeOK, Containment, Exclusion, Order, NEW s \in Session, ExtractStep(s)
  PROVE  Order'
  <1>0. Held("EXTRACT") = "PROCESSING"
    BY DEF Held
  <1>1. CASE ExtractStart(s)
    <2>1. /\ Begin(s, "EXTRACT", Held("EXTRACT"), "extracting")
          /\ "extracting" \in Stage["EXTRACT"] /\ seen[s] \in ExtractEntry
      BY <1>0, <1>1 DEF ExtractStart
    <2> QED
      BY <2>1, BeginOrders
  <1>2. CASE ExtractVerify(s)
    <2>1. pc[s] \in Stage["EXTRACT"] /\ "reading" \in Stage["EXTRACT"]
      BY <1>2 DEF ExtractVerify
    <2> QED
      BY <1>2, <2>1, InsideOrders DEF ExtractVerify, rowVars, copyVars
  <1>3. CASE ExtractFails(s)
    <2>1. PICK v \in {"INTEGRITY_MISMATCH", "EXTRACTION_FAILED"} : Fail(s, "EXTRACT", v)
      BY <1>3 DEF ExtractFails
    <2>2. v \in Outcome("EXTRACT", "FAILED") /\ InStage(s, "EXTRACT")
      BY <1>3, <2>1 DEF Outcome, ExtractFails, InStage
    <2> QED
      BY <2>1, <2>2, EndOrders DEF Fail
  <1>4. CASE ExtractCommit(s)
    <2>1. "EXTRACTED" \in Outcome("EXTRACT", "SUCCEEDED") /\ InStage(s, "EXTRACT")
      BY <1>4 DEF Outcome, ExtractCommit, InStage
    <2> QED
      BY <1>4, <2>1, PassOrders DEF ExtractCommit
  <1> QED
    BY <1>1, <1>2, <1>3, <1>4 DEF ExtractStep

LEMMA ResolveOrders ==
  ASSUME TypeOK, Containment, Exclusion, Order, NEW s \in Session, ResolveStep(s)
  PROVE  Order'
  <1>0. Held("RESOLVE") = "ENTITY_CANDIDATES"
    BY DEF Held
  <1>1. CASE ResolveStart(s)
    <2>1. /\ Begin(s, "RESOLVE", Held("RESOLVE"), "resolving")
          /\ "resolving" \in Stage["RESOLVE"] /\ seen[s] \in ResolveEntry
      BY <1>0, <1>1 DEF ResolveStart
    <2> QED
      BY <2>1, BeginOrders
  <1>2. CASE ResolveFails(s)
    <2>1. "EXTRACTED" \in Outcome("RESOLVE", "FAILED") /\ InStage(s, "RESOLVE")
      BY <1>2 DEF Outcome, ResolveFails, InStage
    <2> QED
      BY <1>2, <2>1, EndOrders DEF ResolveFails, Fail
  <1>3. CASE ResolveCount(s)
    <2>1. pc[s] \in Stage["RESOLVE"] /\ "counted" \in Stage["RESOLVE"]
      BY <1>3 DEF ResolveCount
    <2> QED
      BY <1>3, <2>1, InsideOrders DEF ResolveCount, rowVars, copyVars
  <1>4. CASE ResolveCommit(s)
    <2>1. PICK v \in {"HITL", "GRAPH_PROJECTED"} : Put(s, v)
      BY <1>4 DEF ResolveCommit
    <2>2. v \in Outcome("RESOLVE", "SUCCEEDED") /\ InStage(s, "RESOLVE")
      BY <1>4, <2>1 DEF Outcome, ResolveCommit, InStage
    <2> QED
      BY <1>4, <2>1, <2>2, EndOrders DEF ResolveCommit
  <1> QED
    BY <1>1, <1>2, <1>3, <1>4 DEF ResolveStep

LEMMA RequestOrders ==
  ASSUME TypeOK, Exclusion, Order, NEW s \in Session, Request(s)
  PROVE  Order'
  <1>1. ASSUME NEW e \in Evidence, Upload(s, e) PROVE Order'
    <2>1. /\ status[e] = "ABSENT" /\ status' = [status EXCEPT ![e] = "QUARANTINED"] /\ job' = job
      BY <1>1 DEF Upload
    <2>2. InOrder("QUARANTINED", job[e])
      <3>1. InOrder(status[e], job[e]) /\ job[e]["SCAN"] = "NONE"
        BY <2>1 DEF Order, ItemsInOrder, Exclusion, AbsentHasNoScan
      <3> QED
        BY <3>1, PipelineAssumption DEF InOrder, Held
    <2>3. ItemsInOrder'
      BY <2>1, <2>2 DEF Order, ItemsInOrder, TypeOK
    <2>4. CASE UNCHANGED <<on, seen, pc>>
      BY <2>1, <2>3, <2>4 DEF Order, CopiesInOrder, HoldersSee, InStage
    <2>5. CASE /\ on' = [on EXCEPT ![s] = e]
               /\ seen' = [seen EXCEPT ![s] = "QUARANTINED"]
               /\ pc' = [pc EXCEPT ![s] = "dispatch"]
      <3>1. \A k \in Kind : "dispatch" \notin Stage[k]
        BY StagesDisjoint
      <3>2. "QUARANTINED" \in Status /\ "QUARANTINED" \notin ResolveEntry /\ "dispatch" \in PC
        OBVIOUS
      <3> QED
        BY <2>1, <2>3, <2>5, <3>1, <3>2, SessionMoves DEF Order
    <2> QED
      BY <1>1, <2>4, <2>5 DEF Upload
  <1>2. ASSUME NEW e \in Evidence, Process(s, e) \/ VerifyLoad(s, e) PROVE Order'
    <2>1. PICK p \in {"dispatch", "verifying"} : Load(s, e, p)
      BY <1>2 DEF Process, VerifyLoad
    <2>2. UNCHANGED <<status, job>>
      BY <1>2 DEF Process, VerifyLoad, rowVars
    <2>3. \A k \in Kind : p \notin Stage[k]
      BY <2>1
    <2>4. status[e] \in Status /\ status[e] \in ResolveEntry => job[e]["EXTRACT"] = "SUCCEEDED"
      BY DEF Order, ItemsInOrder, InOrder, TypeOK
    <2>5. CopiesInOrder' /\ HoldersSee'
      BY <2>1, <2>2, <2>3, <2>4, SessionMoves DEF Load, TypeOK
    <2> QED
      BY <2>2, <2>5 DEF Order, ItemsInOrder
  <1>3. ASSUME NEW c \in Candidate, DecideRead(s, c) PROVE Order'
    <2>1. PICK p \in Reviewing : pc' = [pc EXCEPT ![s] = p]
      BY <1>3 DEF DecideRead
    <2>2. UNCHANGED <<status, job, on, seen>> /\ pc[s] = "idle"
      BY <1>3 DEF DecideRead, rowVars, copyVars
    <2>3. \A k \in Kind : p \notin Stage[k]
      BY <2>1
    <2>4. \A t \in Session, k \in Kind : InStage(t, k)' => InStage(t, k)
      <3> HIDE DEF Stage
      <3> QED
        BY <2>1, <2>3 DEF InStage, TypeOK
    <2>5. ItemsInOrder' /\ CopiesInOrder' /\ HoldersSee'
      BY <2>2, <2>4 DEF Order, ItemsInOrder, CopiesInOrder, HoldersSee
    <2> QED
      BY <2>5 DEF Order
  <1> QED
    BY <1>1, <1>2, <1>3 DEF Request

\* The jobs alone, and a status no stage starts from, are always in order.
LEMMA RestingOrders ==
  ASSUME NEW st, NEW j, InOrder(st, j), NEW u \in Projected \cup Blocked
  PROVE  InOrder(u, j)
  BY PipelineAssumption DEF InOrder, Held

LEMMA CommitOrders ==
  ASSUME TypeOK, Order, NEW s \in Session,
         Refused(s) \/ VerifyCommit(s) \/ DecideCommit(s) \/ Crash(s)
  PROVE  Order'
  <1>1. Return(s) /\ job' = job
    BY DEF Refused, VerifyCommit, DecideCommit, Crash
  <1>2. CopiesInOrder' /\ HoldersSee'
    BY <1>1, SessionReturns
  <1>3. \A e \in Evidence : status'[e] = status[e] \/ status'[e] \in Projected \cup Blocked
    <2>1. CASE Refused(s) \/ Crash(s)
      BY <2>1 DEF Refused, Crash, rowVars
    <2>2. CASE VerifyCommit(s)
      BY <2>2 DEF VerifyCommit, Put, TypeOK
    <2>3. CASE DecideCommit(s)
      BY <2>3 DEF DecideCommit, Mark
    <2> QED
      BY <2>1, <2>2, <2>3
  <1>4. ItemsInOrder'
    BY <1>1, <1>3, RestingOrders DEF Order, ItemsInOrder
  <1> QED
    BY <1>2, <1>4 DEF Order

LEMMA OrderStep ==
  ASSUME TypeOK, Containment, Exclusion, Order, [Next]_vars
  PROVE  Order'
  <1>1. ASSUME NEW e \in Evidence, NEW k \in Kind, LeaseExpire(e, k) PROVE Order'
    <2>1. /\ job[e][k] = "RUNNING" /\ job' = [job EXCEPT ![e][k] = "EXPIRED"]
          /\ UNCHANGED <<status, pc, on, seen>>
      BY <1>1 DEF LeaseExpire, rowVars, copyVars
    <2>2. InOrder(status'[e], [job[e] EXCEPT ![k] = "EXPIRED"])
      <3>1. /\ InOrder(status[e], job[e])
            /\ job[e] \in [Kind -> JobState] /\ status[e] \in Status
        BY DEF Order, ItemsInOrder, TypeOK
      <3> QED
        BY <2>1, <3>1, PipelineAssumption DEF InOrder, Held
    <2>3. ItemsInOrder'
      BY <2>1, <2>2, ItemChanges DEF TypeOK
    <2>4. CopiesInOrder' /\ HoldersSee'
      <3>1. \A f \in Evidence :
               job[f]["EXTRACT"] = "SUCCEEDED" => job'[f]["EXTRACT"] = "SUCCEEDED"
        BY <2>1, SuccessStays
      <3> QED
        BY <2>1, <3>1 DEF Order, CopiesInOrder, HoldersSee, InStage, TypeOK
    <2> QED
      BY <2>3, <2>4 DEF Order
  <1>2. ASSUME UNCHANGED <<status, job, pc, on, seen>> PROVE Order'
    BY <1>2 DEF Order, ItemsInOrder, CopiesInOrder, HoldersSee, InStage
  <1>3. ASSUME NEW e \in Evidence, NEW a \in Area, StoreFault(e, a) PROVE Order'
    BY <1>2, <1>3 DEF StoreFault, rowVars, copyVars
  <1>4. ASSUME NEW s \in Session, Request(s) \/ Advance(s) \/ Crash(s) PROVE Order'
    BY <1>4, ScanOrders, ExtractOrders, ResolveOrders, RequestOrders, CommitOrders DEF Advance
  <1>5. CASE UNCHANGED vars
    BY <1>2, <1>5 DEF vars
  <1> QED
    BY <1>1, <1>3, <1>4, <1>5 DEF Next, Environment

\* No dead end: a status /process accepts leads to a stage whose job can still be
\* started, now or when its lease has expired.
THEOREM NoDeadEnds ==
  ASSUME LeaseSound
  PROVE  Spec => []NoDeadEnd
  <1>1. Order /\ TypeOK /\ Containment /\ Exclusion /\ [Next]_vars => Order'
    BY OrderStep
  <1>2. Order => NoDeadEnd
    BY PipelineAssumption DEF Order, ItemsInOrder, InOrder, Held, NextStage, NoDeadEnd
  <1> QED
    BY <1>1, <1>2, OrderInit, TypeCorrect, ContainmentHolds, ExclusionHolds, PTL DEF Spec

-----------------------------------------------------------------------------
(* Refinement of ScanGate *)

\* A step that brings no row into being, settles no scan and moves no path leaves
\* the gate alone.
LEMMA GateStutters ==
  ASSUME UNCHANGED <<path, claims>>,
         \A e \in Evidence : /\ status'[e] = "ABSENT" <=> status[e] = "ABSENT"
                             /\ job'[e]["SCAN"] = "SUCCEEDED" <=> job[e]["SCAN"] = "SUCCEEDED"
  PROVE  UNCHANGED Gate!vars
  <1>1. GateState' = GateState
    BY DEF GateState
  <1> QED
    BY <1>1 DEF Gate!vars

\* A busy session's row exists, so a commit of its status keeps the rows there are.
LEMMA RowsStay ==
  ASSUME TypeOK, Containment, NEW s \in Session, pc[s] \notin {"idle"} \cup Reviewing,
         NEW v \in Status \ {"ABSENT"}, status' \in {status, [status EXCEPT ![on[s]] = v]}
  PROVE  \A e \in Evidence : status'[e] = "ABSENT" <=> status[e] = "ABSENT"
  BY DEF Containment, BusyOnRow, TypeOK

\* A session that takes or gives back a job other than by a scan that succeeded.
LEMMA JobStutters ==
  ASSUME TypeOK, Containment, NEW s \in Session, pc[s] \notin {"idle"} \cup Reviewing,
         NEW v \in Status \ {"ABSENT"}, status' \in {status, [status EXCEPT ![on[s]] = v]},
         NEW k \in Kind, NEW x \in JobState, SetJob(s, k, x),
         k = "SCAN" => job[on[s]]["SCAN"] # "SUCCEEDED" /\ x # "SUCCEEDED",
         UNCHANGED <<path, claims>>
  PROVE  UNCHANGED Gate!vars
  <1>1. \A e \in Evidence : job'[e]["SCAN"] = "SUCCEEDED" <=> job[e]["SCAN"] = "SUCCEEDED"
    BY DEF SetJob, TypeOK
  <1> QED
    BY <1>1, RowsStay, GateStutters

LEMMA BeginStutters ==
  ASSUME TypeOK, Containment, NEW s \in Session, pc[s] = "dispatch",
         NEW k \in Kind, NEW v \in Status \ {"ABSENT"}, NEW p \in PC, Begin(s, k, v, p)
  PROVE  UNCHANGED Gate!vars
  <1>1. /\ SetJob(s, k, "RUNNING") /\ UNCHANGED <<path, claims>>
        /\ status' \in {status, [status EXCEPT ![on[s]] = v]}
        /\ job[on[s]][k] # "SUCCEEDED"
    BY DEF Begin, JobFree, Put
  <1> QED
    BY <1>1, JobStutters

\* A scan that ended settles the item it held.
LEMMA ScanSettles ==
  ASSUME TypeOK, Containment, Exclusion, NEW s \in Session, InStage(s, "SCAN"),
         SetJob(s, "SCAN", "SUCCEEDED"), UNCHANGED claims,
         NEW v \in Status \ {"ABSENT"}, status' \in {status, [status EXCEPT ![on[s]] = v]},
         NEW a \in Area, path' \in {path, [path EXCEPT ![on[s]] = a]}
  PROVE  Gate!Settle(on[s])
  <1> DEFINE e == on[s]
  <1>1. e \in Evidence /\ job[e]["SCAN"] = "RUNNING" /\ status[e] # "ABSENT"
    BY DEF Exclusion, HoldersRun, Containment, BusyOnRow, InStage, TypeOK
  <1>2. GateState[e] = "held"
    BY <1>1 DEF GateState
  <1>3. /\ job'[e]["SCAN"] = "SUCCEEDED" /\ status'[e] # "ABSENT"
        /\ \A f \in Evidence \ {e} : /\ job'[f]["SCAN"] = job[f]["SCAN"]
                                      /\ status'[f] = status[f]
                                      /\ path'[f] = path[f]
    BY <1>1 DEF SetJob, TypeOK
  <1>4. PICK verdict \in {"cleared", "condemned"} :
           verdict = IF path'[e] = "accepted" THEN "cleared" ELSE "condemned"
    OBVIOUS
  <1>5. GateState' = [GateState EXCEPT ![e] = verdict]
    <2>1. \A f \in Evidence : GateState'[f] = IF f = e THEN verdict ELSE GateState[f]
      BY <1>1, <1>3, <1>4 DEF GateState
    <2>2. /\ GateState' = [f \in Evidence |-> GateState'[f]]
          /\ GateState = [f \in Evidence |-> GateState[f]]
      BY DEF GateState
    <2> QED
      BY <2>1, <2>2
  <1> QED
    BY <1>2, <1>4, <1>5 DEF Gate!Settle

\* Claims are committed for an item that is cleared, not infected and not yet used.
LEMMA CommitUses ==
  ASSUME TypeOK, Containment, Exclusion, NEW s \in Session, ExtractCommit(s)
  PROVE  Gate!Use(on[s])
  <1> DEFINE e == on[s]
  <1>1. pc[s] = "reading" /\ InStage(s, "EXTRACT")
    BY DEF ExtractCommit, InStage
  <1>2. e \in Evidence /\ job[e]["EXTRACT"] = "RUNNING" /\ status[e] # "ABSENT"
    BY <1>1 DEF Exclusion, HoldersRun, Containment, BusyOnRow, TypeOK
  <1>3. path[e] = "accepted" /\ job[e]["SCAN"] = "SUCCEEDED"
    BY <1>1, <1>2, StageIsPastGate DEF Exclusion, ScannedPath
  <1>4. GateState[e] = "cleared"
    BY <1>2, <1>3 DEF GateState
  <1>5. e \notin Infected
    BY <1>1 DEF Containment, NoneInfected
  <1>6. claims[e] = 0
    BY <1>2 DEF Exclusion, ExtractedOnce
  <1>7. claims' = [claims EXCEPT ![e] = 1]
    BY <1>6 DEF ExtractCommit, TypeOK
  <1>8. \A f \in Evidence : /\ status'[f] = "ABSENT" <=> status[f] = "ABSENT"
                            /\ job'[f]["SCAN"] = job[f]["SCAN"]
    <2>1. status' \in {status, [status EXCEPT ![e] = "EXTRACTED"]}
      BY DEF ExtractCommit, Put
    <2>2. \A f \in Evidence : status'[f] = "ABSENT" <=> status[f] = "ABSENT"
      BY <1>1, <2>1, RowsStay
    <2> QED
      BY <1>2, <2>2 DEF ExtractCommit, SetJob, TypeOK
  <1>9. GateState' = GateState
    BY <1>8 DEF GateState, ExtractCommit
  <1> QED
    BY <1>4, <1>5, <1>6, <1>7, <1>9 DEF Gate!Use

\* An upload brings an item under the gate.
LEMMA UploadHolds ==
  ASSUME TypeOK, Exclusion, NEW s \in Session, NEW e \in Evidence, Upload(s, e)
  PROVE  Gate!Hold(e)
  <1>1. /\ status[e] = "ABSENT" /\ job[e]["SCAN"] = "NONE"
        /\ status' = [status EXCEPT ![e] = "QUARANTINED"]
        /\ UNCHANGED <<job, path, claims>>
    BY DEF Upload, Exclusion, AbsentHasNoScan
  <1>2. GateState[e] = "absent" /\ GateState' = [GateState EXCEPT ![e] = "held"]
    BY <1>1 DEF GateState, TypeOK
  <1> QED
    BY <1>1, <1>2 DEF Gate!Hold

\* What a session does inside SCAN is a settlement or invisible to the gate.
LEMMA ScanRefines ==
  ASSUME TypeOK, Containment, Exclusion, NEW s \in Session, ScanStep(s)
  PROVE  Gate!Settle(on[s]) \/ UNCHANGED Gate!vars
  <1>0. InStage(s, "SCAN") => job[on[s]]["SCAN"] = "RUNNING"
    BY DEF Exclusion, HoldersRun
  <1>1. CASE ScanStart(s)
    BY <1>1, BeginStutters DEF ScanStart
  <1>2. CASE ScanFails(s)
    <2>1. PICK v \in ScanFailure : Put(s, v)
      BY <1>2 DEF ScanFails
    <2>2. v \in Status \ {"ABSENT"}
      BY PipelineAssumption
    <2>3. /\ pc[s] = "scanning" /\ InStage(s, "SCAN")
          /\ SetJob(s, "SCAN", "FAILED") /\ UNCHANGED <<path, claims>>
          /\ status' \in {status, [status EXCEPT ![on[s]] = v]}
      BY <1>2, <2>1 DEF ScanFails, InStage, Put
    <2> QED
      BY <1>0, <2>2, <2>3, JobStutters
  <1>3. CASE ScanInfected(s)
    <2>1. /\ InStage(s, "SCAN")
          /\ SetJob(s, "SCAN", "SUCCEEDED") /\ UNCHANGED <<path, claims>>
          /\ status' \in {status, [status EXCEPT ![on[s]] = "INFECTED"]}
      BY <1>3 DEF ScanInfected, InStage, Put
    <2> QED
      BY <2>1, ScanSettles
  <1>4. CASE ScanClean(s) \/ Promote(s)
    BY <1>4, GateStutters DEF ScanClean, Promote, rowVars
  <1>5. CASE PromoteFails(s)
    <2>1. /\ pc[s] = "promoting" /\ InStage(s, "SCAN")
          /\ SetJob(s, "SCAN", "FAILED") /\ UNCHANGED <<path, claims>>
          /\ status' \in {status, [status EXCEPT ![on[s]] = "SCAN_FAILED"]}
      BY <1>5 DEF PromoteFails, InStage, Put
    <2> QED
      BY <1>0, <2>1, JobStutters, PipelineAssumption
  <1>6. CASE ScanCommit(s)
    <2>1. /\ InStage(s, "SCAN")
          /\ SetJob(s, "SCAN", "SUCCEEDED") /\ UNCHANGED claims
          /\ path' = [path EXCEPT ![on[s]] = "accepted"]
          /\ status' \in {status, [status EXCEPT ![on[s]] = "ACCEPTED"]}
      BY <1>6 DEF ScanCommit, InStage, Put
    <2> QED
      BY <2>1, ScanSettles
  <1> QED
    BY <1>1, <1>2, <1>3, <1>4, <1>5, <1>6 DEF ScanStep

\* A session in EXTRACT or RESOLVE never touches the SCAN job.
LEMMA LaterRefines ==
  ASSUME TypeOK, Containment, Exclusion, NEW s \in Session,
         ExtractStep(s) \/ ResolveStep(s)
  PROVE  Gate!Use(on[s]) \/ UNCHANGED Gate!vars
  <1>1. CASE ExtractStart(s) \/ ResolveStart(s)
    BY <1>1, BeginStutters DEF ExtractStart, ResolveStart
  <1>2. CASE ExtractVerify(s) \/ ResolveCount(s)
    BY <1>2, GateStutters DEF ExtractVerify, ResolveCount, rowVars
  <1>3. CASE ExtractCommit(s)
    BY <1>3, CommitUses
  <1>4. CASE ExtractFails(s) \/ ResolveFails(s)
    <2>1. PICK k \in {"EXTRACT", "RESOLVE"},
               v \in {"INTEGRITY_MISMATCH", "EXTRACTION_FAILED", "EXTRACTED"} : Fail(s, k, v)
      BY <1>4 DEF ExtractFails, ResolveFails
    <2>2. /\ pc[s] \notin {"idle"} \cup Reviewing /\ UNCHANGED <<path, claims>>
          /\ SetJob(s, k, "FAILED") /\ status' = [status EXCEPT ![on[s]] = v]
      BY <1>4, <2>1 DEF ExtractFails, ResolveFails, Fail
    <2> QED
      BY <2>1, <2>2, JobStutters
  <1>5. CASE ResolveCommit(s)
    <2>1. PICK v \in {"HITL", "GRAPH_PROJECTED"} : Put(s, v)
      BY <1>5 DEF ResolveCommit
    <2>2. /\ pc[s] = "counted" /\ UNCHANGED <<path, claims>> /\ SetJob(s, "RESOLVE", "SUCCEEDED")
          /\ status' \in {status, [status EXCEPT ![on[s]] = v]}
      BY <1>5, <2>1 DEF ResolveCommit, Put
    <2> QED
      BY <2>2, JobStutters
  <1> QED
    BY <1>1, <1>2, <1>3, <1>4, <1>5 DEF ExtractStep, ResolveStep

\* Reads, reviews, crashes and faults are invisible to the gate.
LEMMA OthersStutter ==
  ASSUME TypeOK, Containment, Exclusion, NEW s \in Session,
         \/ Refused(s) \/ VerifyCommit(s) \/ DecideCommit(s) \/ Crash(s)
         \/ \E e \in Evidence : Process(s, e) \/ VerifyLoad(s, e)
         \/ \E c \in Candidate : DecideRead(s, c)
  PROVE  UNCHANGED Gate!vars
  <1>1. CASE UNCHANGED <<status, path, job, claims>>
    BY <1>1, GateStutters
  <1>2. CASE VerifyCommit(s)
    <2>1. /\ pc[s] = "verifying" /\ UNCHANGED <<path, job, claims>>
          /\ status' \in {status, [status EXCEPT ![on[s]] = "INTEGRITY_MISMATCH"]}
      BY <1>2 DEF VerifyCommit, Put
    <2> QED
      BY <2>1, RowsStay, GateStutters
  <1>3. CASE DecideCommit(s)
    <2>1. Mark(pend[s]) # "ABSENT"
      BY DEF Mark
    <2>2. \A e \in Evidence : e \in touch[s] => status[e] # "ABSENT"
      BY DEF Containment, MarksPastGate, Exclusion, ScannedPath, AbsentHasNoScan
    <2> QED
      BY <1>3, <2>1, <2>2, GateStutters DEF DecideCommit
  <1> QED
    BY <1>1, <1>2, <1>3 DEF Refused, Crash, Process, VerifyLoad, DecideRead, rowVars

LEMMA GateStep ==
  ASSUME TypeOK, Containment, Exclusion, [Next]_vars
  PROVE  [Gate!Next]_(Gate!vars)
  <1>1. ASSUME NEW s \in Session, NEW e \in Evidence, Upload(s, e) PROVE Gate!Next
    BY <1>1, UploadHolds DEF Gate!Next
  <1>2. ASSUME NEW s \in Session, ScanStep(s) \/ ExtractStep(s) \/ ResolveStep(s)
        PROVE  Gate!Next \/ UNCHANGED Gate!vars
    <2>1. on[s] \in Evidence
      BY DEF TypeOK
    <2> QED
      BY <1>2, <2>1, ScanRefines, LaterRefines DEF Gate!Next
  <1>3. ASSUME NEW e \in Evidence, NEW k \in Kind, LeaseExpire(e, k) PROVE UNCHANGED Gate!vars
    <2>1. \A f \in Evidence : job'[f]["SCAN"] = "SUCCEEDED" <=> job[f]["SCAN"] = "SUCCEEDED"
      BY <1>3 DEF LeaseExpire, TypeOK
    <2> QED
      BY <1>3, <2>1, GateStutters DEF LeaseExpire, rowVars
  <1>4. ASSUME NEW e \in Evidence, NEW a \in Area, StoreFault(e, a) PROVE UNCHANGED Gate!vars
    BY <1>4, GateStutters DEF StoreFault, rowVars
  <1>5. CASE UNCHANGED vars
    BY <1>5, GateStutters DEF vars
  <1> QED
    BY <1>1, <1>2, <1>3, <1>4, <1>5, OthersStutter DEF Next, Request, Advance, Environment

LEMMA GateInit == Init => Gate!Init
  BY DEF Init, Gate!Init, GateState

\* The pipeline implements the scan gate for every set of items and sessions, as
\* long as leases outlast stages.
THEOREM PipelineImplementsGate ==
  ASSUME LeaseSound
  PROVE  Spec => ImplementsScanGate
  <1>1. TypeOK /\ Containment /\ Exclusion /\ [Next]_vars => [Gate!Next]_(Gate!vars)
    BY GateStep
  <1> QED
    BY <1>1, GateInit, TypeCorrect, ContainmentHolds, ExclusionHolds, PTL
       DEF Spec, ImplementsScanGate, Gate!Spec
=============================================================================
