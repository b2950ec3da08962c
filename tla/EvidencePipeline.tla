-------------------------- MODULE EvidencePipeline --------------------------
(***************************************************************************)
(* The evidence pipeline of one case: services/pipeline.py with the route  *)
(* handlers that read or write the same evidence, job and candidate rows   *)
(* (evidence_routes.py, review_routes.py, demo_routes.py) and the object   *)
(* store below it (services/storage.py, services/scanner.py).              *)
(*                                                                         *)
(* A session is one API request or one message of the Kafka worker: it has *)
(* its own SQLAlchemy session (db.py:29, autoflush=False and               *)
(* expire_on_commit=False).  So a row is read once, when the request loads *)
(* it, and that copy (seen, seenPath) stays what the request works with    *)
(* however often it commits.  A commit writes only the columns that differ *)
(* from the copy, over whatever the row holds by then (PostgreSQL, READ    *)
(* COMMITTED).  Only _job() looks at the database again, under a row lock. *)
(***************************************************************************)
EXTENDS Naturals, FiniteSets

CONSTANTS
    Evidence,       \* uploaded contents; (case, sha256) is unique, models.py:88
    Infected,       \* those the scanner finds a signature in
    Candidate,      \* names for rows of match_candidates
    Session,        \* concurrent requests and worker messages
    ScanFailure,    \* scan results that are neither CLEAN nor INFECTED
    LeaseSound,     \* JOB_LEASE_S exceeds every stage, as config.py:45 demands
    StorageFaults,  \* stored objects may be altered or lost
    MaxCrashes      \* bound on process crashes

ASSUME PipelineAssumption ==
    /\ Evidence # {}
    /\ Infected \subseteq Evidence
    /\ "SCAN_FAILED" \in ScanFailure
    /\ ScanFailure \subseteq {"SCAN_FAILED", "SCAN_TIMEOUT", "SCANNER_UNAVAILABLE"}
    /\ LeaseSound \in BOOLEAN
    /\ StorageFaults \in BOOLEAN
    /\ MaxCrashes \in Nat

VARIABLES
    \* committed database rows
    status,      \* Evidence.status, or "ABSENT" while there is no row
    path,        \* Evidence.storage_path: the area the row points at
    job,         \* Job rows by idempotency key <evidence>:<kind>
    claims,      \* how many times the claims of an evidence were committed
    cand,        \* MatchCandidate rows
    \* object store: what lies under each evidence's key in each area
    store,
    \* sessions
    pc,          \* where the session is
    on,          \* the evidence it works on
    seen,        \* its copy of that row's status
    seenPath,    \* its copy of that row's storage_path
    pend,        \* what its COUNT of pending candidates returned
    fresh,       \* candidates it flushed or decides on, not committed
    touch,       \* evidence rows mark_active() changed in it, not committed
    crashes      \* crashes so far

rowVars  == <<status, path>>
copyVars == <<on, seen, seenPath>>
caseVars == <<pend, fresh, touch>>
vars == <<status, path, job, claims, cand, store, pc, on, seen, seenPath,
          pend, fresh, touch, crashes>>

-----------------------------------------------------------------------------
(* Vocabulary: models.py:18-26 and the lists pipeline.process_evidence and *)
(* the /process route test a status against.                               *)

Area == {"quarantine", "accepted"}
Kind == {"SCAN", "EXTRACT", "RESOLVE"}

ScanEntry    == {"QUARANTINED", "MALWARE_SCANNING"} \cup ScanFailure
ExtractEntry == {"ACCEPTED", "EXTRACTION_FAILED", "PROCESSING"}
ResolveEntry == {"EXTRACTED", "ENTITY_CANDIDATES"}
Projected    == {"HITL", "GRAPH_PROJECTED", "ACTIVE"}

\* BLOCKED_STATES; no code assigns the other two, REJECTED and TOMBSTONED.
Blocked == {"INFECTED", "INTEGRITY_MISMATCH"}

\* Statuses an item has only after its scan came back CLEAN.
PostScan == ExtractEntry \cup ResolveEntry \cup Projected

Processable == ScanEntry \cup ExtractEntry \cup ResolveEntry
Status      == {"ABSENT"} \cup Processable \cup Projected \cup Blocked

\* NONE: no row.  EXPIRED: RUNNING with updated_at older than JOB_LEASE_S.
JobState  == {"NONE", "RUNNING", "EXPIRED", "FAILED", "SUCCEEDED"}
CandState == {"none", "flushed", "open", "decided"}
Object    == {"none", "intact", "altered"}

\* The steps of a session inside each stage, while it holds the stage's job.
Stage == [SCAN    |-> {"scanning", "promoting", "promoted"},
          EXTRACT |-> {"extracting", "reading"},
          RESOLVE |-> {"resolving", "counted"}]

Reviewing == {"deciding", "redeciding", "reversing"}
PC == {"idle", "dispatch", "verifying"} \cup Reviewing
          \cup Stage.SCAN \cup Stage.EXTRACT \cup Stage.RESOLVE

TypeOK ==
    /\ status   \in [Evidence -> Status]
    /\ path     \in [Evidence -> Area]
    /\ job      \in [Evidence -> [Kind -> JobState]]
    /\ claims   \in [Evidence -> Nat]
    /\ cand     \in [Candidate -> CandState]
    /\ store    \in [Area -> [Evidence -> Object]]
    /\ pc       \in [Session -> PC]
    /\ on       \in [Session -> Evidence]
    /\ seen     \in [Session -> Status]
    /\ seenPath \in [Session -> Area]
    /\ pend     \in [Session -> BOOLEAN]
    /\ fresh    \in [Session -> SUBSET Candidate]
    /\ touch    \in [Session -> SUBSET Evidence]
    /\ crashes  \in Nat

\* What on[s] holds while s has no item: any one, nothing looks at it.
NoItem == CHOOSE e \in Evidence : TRUE

Init ==
    /\ status   = [e \in Evidence |-> "ABSENT"]
    /\ path     = [e \in Evidence |-> "quarantine"]
    /\ job      = [e \in Evidence |-> [k \in Kind |-> "NONE"]]
    /\ claims   = [e \in Evidence |-> 0]
    /\ cand     = [c \in Candidate |-> "none"]
    /\ store    = [a \in Area |-> [e \in Evidence |-> "none"]]
    /\ pc       = [s \in Session |-> "idle"]
    /\ on       = [s \in Session |-> NoItem]
    /\ seen     = [s \in Session |-> "ABSENT"]
    /\ seenPath = [s \in Session |-> "quarantine"]
    /\ pend     = [s \in Session |-> FALSE]
    /\ fresh    = [s \in Session |-> {}]
    /\ touch    = [s \in Session |-> {}]
    /\ crashes  = 0

-----------------------------------------------------------------------------
(* Session mechanics *)

\* The object the session finds under the key of its copy of the row.
Found(s) == store[seenPath[s]][on[s]]

\* SELECT count(*) ... WHERE state = 'REVIEW_REQUIRED', of committed rows.
AnyOpen == \E c \in Candidate : cand[c] = "open"

SetCands(C, v) == cand' = [c \in Candidate |-> IF c \in C THEN v ELSE cand[c]]

\* ev.status = v, then commit: no UPDATE is sent when the copy already holds v.
Put(s, v) == status' = IF seen[s] = v THEN status ELSE [status EXCEPT ![on[s]] = v]

SetJob(s, k, v) == job' = [job EXCEPT ![on[s]][k] = v]

\* The request goes on, its copy of the status is now v.
Continue(s, v, p) ==
    /\ pc'   = [pc EXCEPT ![s] = p]
    /\ seen' = [seen EXCEPT ![s] = v]
    /\ UNCHANGED <<on, pend, fresh, touch>>

\* The request returns or dies: its session is closed, its copies are gone.
Return(s) ==
    /\ pc'       = [pc EXCEPT ![s] = "idle"]
    /\ on'       = [on EXCEPT ![s] = NoItem]
    /\ seen'     = [seen EXCEPT ![s] = "ABSENT"]
    /\ seenPath' = [seenPath EXCEPT ![s] = "quarantine"]
    /\ pend'     = [pend EXCEPT ![s] = FALSE]
    /\ fresh'    = [fresh EXCEPT ![s] = {}]
    /\ touch'    = [touch EXCEPT ![s] = {}]

\* db.get(Evidence, id)
Load(s, e, p) ==
    /\ on'       = [on EXCEPT ![s] = e]
    /\ seen'     = [seen EXCEPT ![s] = status[e]]
    /\ seenPath' = [seenPath EXCEPT ![s] = path[e]]
    /\ pc'       = [pc EXCEPT ![s] = p]

\* A stage raised: rollback, which expires the copy, then the job is FAILED and
\* the row, read again, is given v.
Fail(s, k, v) ==
    /\ SetJob(s, k, "FAILED")
    /\ status' = [status EXCEPT ![on[s]] = v]
    /\ Return(s)

InStage(s, k) == pc[s] \in Stage[k]

\* Faulty variants of the definition below: no check for SUCCEEDED; no reclaim
\* of an expired lease (before DEF-098).
JobFree_Succeeded(e, k) == job[e][k] # "RUNNING"
JobFree_NoLease(e, k)   == job[e][k] \in {"NONE", "FAILED"}

\* _job(): no row yet, a FAILED one, or a RUNNING one whose lease ran out.
JobFree(e, k) == job[e][k] \in {"NONE", "FAILED", "EXPIRED"}

\* Start of a stage: _job() under its row lock, then the status, in one commit.
Begin(s, k, v, p) ==
    /\ JobFree(on[s], k)
    /\ SetJob(s, k, "RUNNING")
    /\ Put(s, v)
    /\ Continue(s, v, p)
    /\ UNCHANGED <<path, claims, cand, store, seenPath, crashes>>

-----------------------------------------------------------------------------
(* Upload and the entry of a processing request *)

\* POST /cases/{id}/evidence.  The flush holds the unique (case, sha256) key to
\* the commit, so an equal upload waits and is answered with the existing row.
\* With process=True the same request goes on with the row it just wrote.
Upload(s, e) ==
    /\ pc[s] = "idle"
    /\ status[e] = "ABSENT"
    /\ status' = [status EXCEPT ![e] = "QUARANTINED"]
    /\ store'  = [store EXCEPT !["quarantine"][e] = "intact"]
    /\ \/ /\ on'   = [on EXCEPT ![s] = e]
          /\ seen' = [seen EXCEPT ![s] = "QUARANTINED"]
          /\ pc'   = [pc EXCEPT ![s] = "dispatch"]
       \/ UNCHANGED <<on, seen, pc>>
    /\ UNCHANGED <<path, job, claims, cand, seenPath, caseVars, crashes>>

\* POST /evidence/{id}/process, or the worker taking the message for e.
Process(s, e) ==
    /\ pc[s] = "idle"
    /\ status[e] \in Processable
    /\ Load(s, e, "dispatch")
    /\ UNCHANGED <<rowVars, job, claims, cand, store, caseVars, crashes>>

\* The stage process_evidence() goes to next, by its copy of the status.
NextStage(v) ==
    IF v \in ScanEntry THEN "SCAN" ELSE IF v \in ExtractEntry THEN "EXTRACT" ELSE "RESOLVE"

\* _job() raises ValueError: already succeeded, or running in another session.
Refused(s) ==
    /\ pc[s] = "dispatch"
    /\ ~ JobFree(on[s], NextStage(seen[s]))
    /\ Return(s)
    /\ UNCHANGED <<rowVars, job, claims, cand, store, crashes>>

-----------------------------------------------------------------------------
(* run_scan *)

ScanStart(s) ==
    /\ pc[s] = "dispatch"
    /\ seen[s] \in ScanEntry
    /\ Begin(s, "SCAN", "MALWARE_SCANNING", "scanning")

\* The scanner did not answer, or the object could not be read.
ScanFails(s) ==
    /\ pc[s] = "scanning"
    /\ SetJob(s, "SCAN", "FAILED")
    /\ \E v \in ScanFailure : Put(s, v)
    /\ Return(s)
    /\ UNCHANGED <<path, claims, cand, store, crashes>>

\* What the scanner can say of the object found: altered bytes may differ from
\* those uploaded in this too.
Verdict(s) ==
    CASE Found(s) = "none"    -> {}
      [] Found(s) = "altered" -> {"CLEAN", "INFECTED"}
      [] Found(s) = "intact"  -> IF on[s] \in Infected THEN {"INFECTED"} ELSE {"CLEAN"}

\* The scan itself worked, so its job is done; the file stays in quarantine.
ScanInfected(s) ==
    /\ pc[s] = "scanning"
    /\ "INFECTED" \in Verdict(s)
    /\ SetJob(s, "SCAN", "SUCCEEDED")
    /\ Put(s, "INFECTED")
    /\ Return(s)
    /\ UNCHANGED <<path, claims, cand, store, crashes>>

\* Faulty variant: a reply with a signature is taken for CLEAN (DEF-036).
ScanClean_FailOpen(s) ==
    /\ pc[s] = "scanning"
    /\ Found(s) # "none"
    /\ pc' = [pc EXCEPT ![s] = "promoting"]
    /\ UNCHANGED <<rowVars, job, claims, cand, store, copyVars, caseVars, crashes>>

\* CLEAN: nothing is committed before the object has been promoted.
ScanClean(s) ==
    /\ pc[s] = "scanning"
    /\ "CLEAN" \in Verdict(s)
    /\ pc' = [pc EXCEPT ![s] = "promoting"]
    /\ UNCHANGED <<rowVars, job, claims, cand, store, copyVars, caseVars, crashes>>

\* promote_to_accepted(): the object moves; the row still names quarantine/.
Promote(s) ==
    /\ pc[s] = "promoting"
    /\ Found(s) # "none"
    /\ store' = [store EXCEPT !["accepted"][on[s]] = Found(s),
                              !["quarantine"][on[s]] = "none"]
    /\ pc' = [pc EXCEPT ![s] = "promoted"]
    /\ UNCHANGED <<rowVars, job, claims, cand, copyVars, caseVars, crashes>>

\* Faulty variant: the job is marked SUCCEEDED before the promotion is tried.
PromoteFails_JobFirst(s) ==
    /\ pc[s] = "promoting"
    /\ SetJob(s, "SCAN", "SUCCEEDED")
    /\ Put(s, "SCAN_FAILED")
    /\ Return(s)
    /\ UNCHANGED <<path, claims, cand, store, crashes>>

\* promote_to_accepted() raises: nothing moved, or the S3 copy was made and the
\* delete of the quarantined key failed.
PromoteFails(s) ==
    /\ pc[s] = "promoting"
    /\ \/ UNCHANGED store
       \/ /\ Found(s) # "none"
          /\ store' = [store EXCEPT !["accepted"][on[s]] = Found(s)]
    /\ SetJob(s, "SCAN", "FAILED")
    /\ Put(s, "SCAN_FAILED")
    /\ Return(s)
    /\ UNCHANGED <<path, claims, cand, crashes>>

\* Faulty variants: the new path is not stored; the job stays RUNNING.
ScanCommit_NoPath(s) ==
    /\ pc[s] = "promoted"
    /\ SetJob(s, "SCAN", "SUCCEEDED")
    /\ Put(s, "ACCEPTED")
    /\ Continue(s, "ACCEPTED", "dispatch")
    /\ UNCHANGED <<path, claims, cand, store, seenPath, crashes>>

ScanCommit_NoJob(s) ==
    /\ pc[s] = "promoted"
    /\ Put(s, "ACCEPTED")
    /\ path' = [path EXCEPT ![on[s]] = "accepted"]
    /\ seenPath' = [seenPath EXCEPT ![s] = "accepted"]
    /\ Continue(s, "ACCEPTED", "dispatch")
    /\ UNCHANGED <<job, claims, cand, store, crashes>>

ScanCommit(s) ==
    /\ pc[s] = "promoted"
    /\ SetJob(s, "SCAN", "SUCCEEDED")
    /\ Put(s, "ACCEPTED")
    /\ path' = [path EXCEPT ![on[s]] = "accepted"]
    /\ seenPath' = [seenPath EXCEPT ![s] = "accepted"]
    /\ Continue(s, "ACCEPTED", "dispatch")
    /\ UNCHANGED <<claims, cand, store, crashes>>

-----------------------------------------------------------------------------
(* run_extract *)

ExtractStart(s) ==
    /\ pc[s] = "dispatch"
    /\ seen[s] \in ExtractEntry
    /\ Begin(s, "EXTRACT", "PROCESSING", "extracting")

\* verify_hash() finds the manifest's bytes.
ExtractVerify(s) ==
    /\ pc[s] = "extracting"
    /\ Found(s) = "intact"
    /\ pc' = [pc EXCEPT ![s] = "reading"]
    /\ UNCHANGED <<rowVars, job, claims, cand, store, copyVars, caseVars, crashes>>

\* Other bytes raise IntegrityMismatch; a missing object, or a parser that
\* raises on the bytes read, is an EXTRACTION_FAILED.
ExtractFails(s) ==
    /\ \/ pc[s] = "extracting" /\ Found(s) = "altered" /\ Fail(s, "EXTRACT", "INTEGRITY_MISMATCH")
       \/ pc[s] = "extracting" /\ Found(s) = "none" /\ Fail(s, "EXTRACT", "EXTRACTION_FAILED")
       \/ pc[s] = "reading" /\ Fail(s, "EXTRACT", "EXTRACTION_FAILED")
    /\ UNCHANGED <<path, claims, cand, store, crashes>>

\* Claims, job and status become visible in one commit.
ExtractCommit(s) ==
    /\ pc[s] = "reading"
    /\ Found(s) # "none"
    /\ claims' = [claims EXCEPT ![on[s]] = @ + 1]
    /\ SetJob(s, "EXTRACT", "SUCCEEDED")
    /\ Put(s, "EXTRACTED")
    /\ Continue(s, "EXTRACTED", "dispatch")
    /\ UNCHANGED <<path, cand, store, seenPath, crashes>>

-----------------------------------------------------------------------------
(* run_resolve *)

ResolveStart(s) ==
    /\ pc[s] = "dispatch"
    /\ seen[s] \in ResolveEntry
    /\ Begin(s, "RESOLVE", "ENTITY_CANDIDATES", "resolving")

ResolveFails(s) ==
    /\ pc[s] = "resolving"
    /\ Fail(s, "RESOLVE", "EXTRACTED")
    /\ UNCHANGED <<path, claims, cand, store, crashes>>

\* generate_candidates() flushes new rows, so the COUNT sees them and every
\* committed pending row.
ResolveCount(s) ==
    /\ pc[s] = "resolving"
    /\ \E new \in SUBSET {c \in Candidate : cand[c] = "none"} :
          /\ SetCands(new, "flushed")
          /\ fresh' = [fresh EXCEPT ![s] = new]
          /\ pend'  = [pend EXCEPT ![s] = new # {} \/ AnyOpen]
    /\ pc' = [pc EXCEPT ![s] = "counted"]
    /\ UNCHANGED <<rowVars, job, claims, store, copyVars, touch, crashes>>

ResolveCommit(s) ==
    /\ pc[s] = "counted"
    /\ SetCands(fresh[s], "open")
    /\ SetJob(s, "RESOLVE", "SUCCEEDED")
    /\ Put(s, IF pend[s] THEN "HITL" ELSE "GRAPH_PROJECTED")
    /\ Return(s)
    /\ UNCHANGED <<path, claims, store, crashes>>

-----------------------------------------------------------------------------
(* Integrity checks of the read side *)

\* GET /verify, /context, /context/reveal and /download load the row ...
VerifyLoad(s, e) ==
    /\ pc[s] = "idle"
    /\ status[e] # "ABSENT"
    /\ Load(s, e, "verifying")
    /\ UNCHANGED <<rowVars, job, claims, cand, store, caseVars, crashes>>

\* ... then look under the path of that copy.  A missing object or a different
\* hash sets INTEGRITY_MISMATCH (mark_object_missing, verify and
\* _authorize_evidence_read); one that goes missing after exists() found it makes
\* the hashing raise, and the request dies without a write.
VerifyCommit(s) ==
    /\ pc[s] = "verifying"
    /\ \/ Found(s) # "altered" /\ UNCHANGED status
       \/ Found(s) # "intact" /\ Put(s, "INTEGRITY_MISMATCH")
    /\ Return(s)
    /\ UNCHANGED <<path, job, claims, cand, store, crashes>>

-----------------------------------------------------------------------------
(* decide() with mark_active() *)

\* The status mark_active() gives to the evidence it selects.
Mark(pending) == IF pending THEN "HITL" ELSE "ACTIVE"

\* The candidate's new state is still unflushed when mark_active() counts
\* (autoflush=False): the COUNT sees the candidate as it was.  A REVERSE takes a
\* decided candidate back to REVIEW_REQUIRED.
DecideRead(s, c) ==
    /\ pc[s] = "idle"
    /\ \/ cand[c] = "open" /\ pc' = [pc EXCEPT ![s] = "deciding"]
       \/ cand[c] = "decided" /\ pc' = [pc EXCEPT ![s] = "redeciding"]
       \/ cand[c] = "decided" /\ pc' = [pc EXCEPT ![s] = "reversing"]
    /\ fresh' = [fresh EXCEPT ![s] = {c}]
    /\ pend'  = [pend EXCEPT ![s] = AnyOpen]
    /\ touch' = [touch EXCEPT ![s] =
                    {e \in Evidence : status[e] \in Projected \ {Mark(AnyOpen)}}]
    /\ UNCHANGED <<rowVars, job, claims, cand, store, copyVars, crashes>>

\* A decision equal to the one loaded sends no UPDATE of the candidate.
Decided(s) ==
    \/ pc[s] \in {"deciding", "redeciding"} /\ SetCands(fresh[s], "decided")
    \/ pc[s] = "redeciding" /\ UNCHANGED cand
    \/ pc[s] = "reversing" /\ SetCands(fresh[s], "open")

DecideCommit(s) ==
    /\ Decided(s)
    /\ status' = [e \in Evidence |-> IF e \in touch[s] THEN Mark(pend[s]) ELSE status[e]]
    /\ Return(s)
    /\ UNCHANGED <<path, job, claims, store, crashes>>

-----------------------------------------------------------------------------
(* Faults *)

\* The process dies: what it had not committed is rolled back, what it did to
\* the object store and the job it marked RUNNING stay.
Crash(s) ==
    /\ crashes < MaxCrashes
    /\ pc[s] # "idle"
    /\ crashes' = crashes + 1
    /\ SetCands({c \in fresh[s] : cand[c] = "flushed"}, "none")
    /\ Return(s)
    /\ UNCHANGED <<rowVars, job, claims, store>>

\* JOB_LEASE_S passes without an update of the job.
LeaseExpire(e, k) ==
    /\ job[e][k] = "RUNNING"
    /\ LeaseSound => \A s \in Session : ~ (on[s] = e /\ InStage(s, k))
    /\ job' = [job EXCEPT ![e][k] = "EXPIRED"]
    /\ UNCHANGED <<rowVars, claims, cand, store, pc, copyVars, caseVars, crashes>>

\* Bytes change behind the application's back, or by POST /demo/tamper/{id};
\* or an object disappears.
StoreFault(e, a) ==
    /\ StorageFaults
    /\ \/ store[a][e] = "intact" /\ store' = [store EXCEPT ![a][e] = "altered"]
       \/ store[a][e] # "none" /\ store' = [store EXCEPT ![a][e] = "none"]
    /\ UNCHANGED <<rowVars, job, claims, cand, pc, copyVars, caseVars, crashes>>

-----------------------------------------------------------------------------
ScanStep(s) == \/ ScanStart(s) \/ ScanFails(s) \/ ScanInfected(s) \/ ScanClean(s)
               \/ Promote(s) \/ PromoteFails(s) \/ ScanCommit(s)
ExtractStep(s) == ExtractStart(s) \/ ExtractVerify(s) \/ ExtractFails(s) \/ ExtractCommit(s)
ResolveStep(s) == ResolveStart(s) \/ ResolveFails(s) \/ ResolveCount(s) \/ ResolveCommit(s)

\* What a request does once it has started, until it returns.
Advance(s) == \/ ScanStep(s) \/ ExtractStep(s) \/ ResolveStep(s)
              \/ Refused(s) \/ VerifyCommit(s) \/ DecideCommit(s)

Request(s) == \/ \E e \in Evidence : Upload(s, e) \/ Process(s, e) \/ VerifyLoad(s, e)
              \/ \E c \in Candidate : DecideRead(s, c)

Environment == \/ \E s \in Session : Crash(s)
               \/ \E e \in Evidence, k \in Kind : LeaseExpire(e, k)
               \/ \E e \in Evidence, a \in Area : StoreFault(e, a)

Next == (\E s \in Session : Request(s) \/ Advance(s)) \/ Environment

Spec == Init /\ [][Next]_vars

\* A request that has started keeps running, leases run out, and a scan, a promotion
\* or an extraction that is tried again and again succeeds in the end.  Nothing is
\* assumed of /process: who calls it, and how often, is up to the users.
Fairness ==
    /\ \A s \in Session : WF_vars(Advance(s))
    /\ SF_vars(\E s \in Session : ScanClean(s) \/ ScanInfected(s))
    /\ SF_vars(\E s \in Session : Promote(s))
    /\ SF_vars(\E s \in Session : ExtractCommit(s))
    /\ \A e \in Evidence, k \in Kind : WF_vars(LeaseExpire(e, k))

FairSpec == Spec /\ Fairness

-----------------------------------------------------------------------------
(* Properties *)

\* An item's claims are committed exactly when its EXTRACT job succeeds, and once:
\* whatever API requests, redelivered Kafka messages, crashes and lease reclaims
\* run on it, the Job row makes extraction idempotent (pipeline.py:29-56).
ExtractedOnce ==
    \A e \in Evidence : claims[e] = IF job[e]["EXTRACT"] = "SUCCEEDED" THEN 1 ELSE 0

\* At most one live session is inside a stage of an item: _job() keeps the others
\* out although none of them re-reads the evidence row (pipeline.py:31-56).
OneHolder ==
    \A s, t \in Session, k \in Kind :
        InStage(s, k) /\ InStage(t, k) /\ on[s] = on[t] => s = t

\* A row that says the item is past the scan gate tells the truth, even when the
\* session that wrote it worked on a stale copy: its one scan succeeded and the
\* row points into accepted/ (pipeline.py:59-95).
GateIsTruthful ==
    \A e \in Evidence : status[e] \in PostScan =>
        job[e]["SCAN"] = "SUCCEEDED" /\ path[e] = "accepted"

\* Infected bytes never reach accepted/ as they were uploaded and never yield a
\* claim, whatever is altered or lost on the way and even when a lease runs out
\* under a live session (pipeline.py:76-83, 105-107; scanner.py:9).
InfectedIsContained ==
    \A e \in Infected : store["accepted"][e] # "intact" /\ claims[e] = 0

\* No dead end (DEF-083, DEF-084, DEF-098): a status /process accepts leads to a
\* stage whose job can still be started, now or once its lease expired; a status
\* that names a running stage has that stage's job marked as held.
NoDeadEnd ==
    \A e \in Evidence : status[e] \in Processable =>
        /\ job[e][NextStage(status[e])] # "SUCCEEDED"
        /\ status[e] \in {"MALWARE_SCANNING", "PROCESSING", "ENTITY_CANDIDATES"} =>
              job[e][NextStage(status[e])] \in {"RUNNING", "EXPIRED"}

\* What the gate has decided on each item, read off its SCAN job and its path.
GateState ==
    [e \in Evidence |->
        IF status[e] = "ABSENT" THEN "absent"
        ELSE IF job[e]["SCAN"] # "SUCCEEDED" THEN "held"
        ELSE IF path[e] = "accepted" THEN "cleared" ELSE "condemned"]

Gate == INSTANCE ScanGate WITH gate <- GateState, uses <- claims

\* The pipeline implements the abstract scan gate (pipeline.py:1-7): every step is
\* one of the gate's, with an item's claims for its use, or leaves the gate alone.
ImplementsScanGate == Gate!Spec

\* No copy of the uploaded bytes is left in the store.
Damaged(e) == \A a \in Area : store[a][e] # "intact"

\* The object was promoted, but the row was never told (a crash between
\* pipeline.py:83 and 94): every later scan looks in quarantine/ and fails.
Stranded(e) ==
    /\ job[e]["SCAN"] # "SUCCEEDED"
    /\ path[e] = "quarantine" /\ store["quarantine"][e] = "none"
    /\ store["accepted"][e] = "intact"

\* /process would accept the item and start the stage that comes next.
Retryable(e) == status[e] \in Processable /\ JobFree(e, NextStage(status[e]))

\* An uploaded item does not stay half processed (DEF-098).  However its requests
\* crash, race and fail, in the end its claims are extracted, or it is blocked, or
\* it rests where /process starts its next stage; and if it is tried for ever, so
\* that it never rests, the first two remain.  What cannot be helped by trying are
\* an object that is damaged and, other than docs/workflow.md:22 has it ("retry
\* allowed"), one that a crash stranded.
EventuallySettled ==
    \A e \in Evidence :
        <>[](\/ status[e] = "ABSENT"
             \/ claims[e] > 0 \/ status[e] \in Blocked \/ Retryable(e)
             \/ Damaged(e) \/ Stranded(e))

=============================================================================
