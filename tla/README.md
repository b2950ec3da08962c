# DRISHTI-NET: a verification project in TLA+

DRISHTI-NET ingests case evidence, scans it, extracts claims and entities from it, proposes
identity matches for human review, projects what was approved into a graph, and anchors the
manifests; investigators work with all of that in a browser. This directory holds TLA+ models of that
behaviour, TLC configurations that check them on small instances, and theorems about them that TLAPS
proves for every value of the constants. In sections 1 to 5 paths are relative to
`src/apps/api/app/`, in sections 6 to 11 to `src/apps/web/src/`, unless they start with `src/` or
`docs/`; routes are always those of the API.

## 1. Inventory

| Part | State it keeps | Operations | Talks to |
|---|---|---|---|
| Evidence pipeline (`services/pipeline.py`, `routes/evidence_routes.py`) | `Evidence` row: `status`, `storage_path`; `Job` row per `<evidence>:<kind>`: `state`, `updated_at` | upload, `process_evidence` = `run_scan`, `run_extract`, `run_resolve`; `_job` takes a stage under a row lock, with a lease; `/verify`, `/context`, `/download` may block the item | object store, scanner, extraction, resolution, Kafka |
| Object store and scanner (`services/storage.py`, `services/scanner.py`) | objects under `quarantine/` and `accepted/` | write, exists, hash, promote (rename, or S3 copy then delete); INSTREAM scan that fails closed | pipeline |
| Human review (`routes/review_routes.py`, `services/resolution.py`) | `MatchCandidate` rows, `Claim.state`, `Review` rows chained by `supersedes_id` | `generate_candidates`, `decide`, `decide_claim`, `assign`, `mark_active` | pipeline, projection |
| Extraction (`services/extract*.py`) | `Claim`, `Entity`, `Provenance` rows | parse one item, add its claims, `flag_contradictions` over the case | pipeline, review |
| Kafka bus and worker (`services/kafka_bus.py`, `src/workers/worker.py`) | topic partitions, committed offsets, position and buffered batch of each worker | `publish` with fallback to direct execution; poll, process, commit or seek back | pipeline |
| Accounts and sessions (`auth.py`, `routes/auth_routes.py`; in the browser `stores/authStore.ts`, `services/api/real_client.ts`, `features/admin`) | `User` rows; the token in `localStorage`, shared by all tabs; the user of each tab | sign in, restore, sign out, refusal by 401; create, edit, deactivate, reactivate, reset a password | everything |
| Relationship graph tab (`stores/graphStore.ts`, `components/graph`, `lib/graphFilters.ts`, `features/cases/case-graph-page.tsx`) | the store: graph, selection, filters; the engine of the canvas; timers of layouts | load, select, details, filter, scrub and play, organize | API |
| Reveal dialog (`stores/revealStore.ts`, `components/intelligence/reveal-identity-modal.tsx`, the route in `routes/graph_routes.py`) | active reveals, the dialog's target, its form; audit rows | open, close with a timer, submit, answer, hide again, expire | API, sessions, graph store |
| Candidate page (`features/review/review-page.tsx`, `components/ui/reason-dialog.tsx`) | the candidate shown, the dialog, a notice | load, choose, give a reason, confirm, reload the case | review |
| Case pages with lists (`features/cases`, `stores/timelineStore.ts`, `stores/auditStore.ts`) | the case in the header, lists with filters and pages, drawers | load, filter, page, open, verify, reprocess | pipeline, audit log |
| Graph projection (`services/graph.py`, `services/neo4j_store.py`) | Neo4j nodes and edges of a case | `approved_merges`, `build_projection`, rebuild transaction, bounded traversal | review |
| Merkle anchoring (`services/integrity.py`, `routes/integrity_routes.py`) | `LedgerAnchor` rows | roots, inclusion proofs (RFC 6962 and a legacy scheme), anchor a case | pipeline, Besu (external) |
| Login throttle (`services/ratelimit.py`) | failure counters | test, increment | sessions |
| Access control and masking (`auth.py`, `services/masking.py`) | case assignments, jurisdiction | `authorize_case`; masking of sensitive kinds | all routes |
| Audit log (`services/audit.py`) | append-only rows | `record_audit` in the caller's transaction | all routes |
| Reports (`services/report.py`, `services/court_pdf.py`) | none | render committed rows | pipeline, review |
| Other pages of the browser (overview, home, map, reports, provenance) | what one request answered | load, render | API |

### What is hard, and what correctness means

* **Pipeline.** API requests, Kafka messages and reclaimed jobs run `process_evidence` on one item at
  once. Each has a SQLAlchemy session with `expire_on_commit=False` (db.py:29): the row is read once
  and the request works with that copy to its end, across commits. Stage starts are committed before
  the work, objects move before the row says so, and processes die in between. Correct means: one
  session per stage of an item; claims extracted once; nothing infected accepted; a row past the gate
  tells the truth; no item stranded in a status that asks for a job which cannot be started; what was
  uploaded is settled in the end.
* **Review.** Decisions on one candidate race each other and race `generate_candidates`; `autoflush=False`
  makes a query miss the change its own request made. Two extractions, two resolutions and two
  decisions of a case may overlap as well: nothing locks a row, and no constraint refuses what they insert.
  Correct means: the state of a target follows from its last review, the supersedes chain is a line, no
  decision is overwritten by a re-computation, and case statuses follow from what is pending; where
  overlapping sessions break that, nothing else does, and later sessions repair what can be repaired.
* **Kafka.** `commit()` without arguments commits the position of every polled partition; a failed
  message seeks back; `publish` may answer False although the broker took the message. Correct means: no
  message is lost before it was handled, and duplicates do no harm.
* **Browser.** Answers arrive in any order, and after the component that asked has another subject or is
  gone; Zustand stores outlive pages and cases, React components outlive a change of address; timers run
  on after what started them; several tabs share one token. Correct means: what is shown, and above all
  what is decided, revealed or recorded from it, is of the case, item, entity and user on the screen.
* **Accounts.** Administrators act at the same time, and the server tests the role before the change is
  committed. Correct means: somebody can always administer, and the page shows what was done.
* **Projection.** A rebuild reads PostgreSQL and writes Neo4j later. Correct means: the projection
  catches up with the approved merges and an older one never stays over a newer one.
* **Merkle.** Boundaries of the trees: zero, one, odd. Correct means: a proof verifies exactly for the
  leaf and position it was made for; anchored items stay anchored as they were.

Every hazard found is listed in `PROJECT.json` under `hazards`, at its line, with the properties that
cover it.

## 2. Modules

Each component has a module, an `MC` module with the constants of its small instance, one or two `.cfg`
files, and theorems in a module `...Proofs`; two of those have the theorems of two components, which is
why the definitions of these components have names of their own (`SessionSpec`, `WorkspaceSpec`, ...).

| Module | Subject | Theorems | Section |
|---|---|---|---|
| `EvidencePipeline`, abstract `ScanGate` | stages, jobs, leases, objects; refinement | `EvidencePipelineProofs` | 3 |
| `KafkaWorker` | partitions, positions, commit and seek, publish fallback | `KafkaWorkerProofs` | 4 |
| `ReviewDecisions` | candidates, claims, review histories, recomputation | `ReviewDecisionsProofs` | 5 |
| `GraphFilters` | filters, slider and playback over loads | `GraphFiltersProofs` | 6.1 |
| `GraphWorkspace` | loads, selection, canvas and its engine, layouts | `CasePagesProofs` | 6.2 |
| `RevealDialog` | dialog, timer, request, audit row, change of user | `RevealDialogProofs` | 7 |
| `CandidateReview` | page and dialog of one candidate, decisions of others | `CandidateReviewProofs` | 8 |
| `CaseTabs` | header, evidence list and drawer, timeline, audit log | `CasePagesProofs` | 9 |
| `Sessions` | tabs, token, sign-in, restore, refusals | `AccountsProofs` | 10 |
| `UserManagement` | accounts, their page, other administrators | `AccountsProofs` | 11 |

How they fit together. A message that `KafkaWorker` handles, and a `/process` that it answers directly, is
one `Process` session of `EvidencePipeline`. `ReviewDecisions` has what an extraction and a resolution
write; the statuses they lead to are `EvidencePipeline`'s. `CandidateReview` abstracts `decide` to the
last review of a candidate, which `ReviewDecisions` shows to determine its state. In the browser,
`GraphFilters` and `GraphWorkspace` split one store along a line no operation of it crosses but
`loadGraph`, which both have. `RevealDialog` takes from `Sessions` only
whose token storage has: that its user signs in and out, which empties memory, and that other tabs do, which
does not; and from the graph store the case of the last load.

What the browser modules have in common. JavaScript runs one event at a time, so an action is an event with
all it does before it awaits, and the effects of the render that follows. A request is in flight until an
action of its own answers it, in any order, unless the code itself drops the answer.

Where the code is right except after some event that it does not handle, the model keeps that event, a
*history variable* records that it happened, and the property excepts it by name: in the browser `overlapped`,
`raced`, `stray`, `orphan`, `touched`, `demoted`, `others`, `freshCase`, `cleared` and `holders`, in the worker
`passed`, in the review `began`, `overtaken` and `clean`. No guard of an action mentions a history variable.
Section 12 lists what goes wrong in each excepted case.

What would come next, in this order: the projection against concurrent decisions, with the candidates'
states from `ReviewDecisions`; anchoring against evidence that changes state; the throttle. Every safety
property that a passing run checks has a theorem; what later theorems could add is the refinement of an abstract
specification by the review and the browser's components, as the pipeline has one in `ScanGate`.

## 3. The evidence pipeline

### 3.1 Correspondence with the code

`EvidencePipeline` models one case. Its state is the committed database rows (`status`, `path`, `job`,
`claims`, `cand`), the object store (`store`), and the sessions. A session is one API request or one
message of the Kafka worker. What it keeps in memory is modelled because the code works with it:

* `seen`, `seenPath` are its copy of the Evidence row. `Load` takes the copy; `Put` models
  `ev.status = v; db.commit()`: no UPDATE is sent for a column equal to the copy, and otherwise the row
  is overwritten whatever it holds by then (READ COMMITTED). `Fail` is different: `db.rollback()`
  expires the copy, so the status is always written.
* `pend`, `fresh`, `touch` are what a request computed before its commit: the COUNT of pending
  candidates, the candidates it flushed or decides on, and the rows `mark_active` dirtied.

Atomic steps are the code's: one action from one commit (or look at shared state) to the next.

| Actions | Code |
|---|---|
| `Upload` | `upload`, evidence_routes.py:38-93; the unique (case, sha256) key makes equal uploads wait |
| `Process`, `Refused` | `process_evidence` and `_job`, pipeline.py:29-56, 163-192 |
| `ScanStart` ... `ScanCommit` | `run_scan`, pipeline.py:59-95, with `scan_file` and `promote_to_accepted` |
| `ExtractStart` ... `ExtractCommit` | `run_extract`, pipeline.py:98-131 |
| `ResolveStart` ... `ResolveCommit` | `run_resolve`, pipeline.py:134-160 |
| `VerifyLoad`, `VerifyCommit` | `/verify`, `/context`, `/context/reveal`, `/download`, evidence_routes.py:144-244 |
| `DecideRead`, `DecideCommit` | `decide` with `mark_active`, review_routes.py:88-111, pipeline.py:195-199 |
| `Crash` | the process dies: uncommitted rows are rolled back, objects and the committed RUNNING job stay |
| `LeaseExpire` | `updated_at` becomes older than `JOB_LEASE_S`, pipeline.py:38-49 |
| `StoreFault` | bytes altered or lost outside the application, or by `POST /demo/tamper` |

A path through the stages is driven by `seen`, as in the code, so a request goes on from SCAN to
EXTRACT to RESOLVE in the session it has, or starts at a later stage when the row says so.

Abstractions: an item is its content; bytes are `intact`, `altered` or gone; `Infected` is the set of
contents with a signature the scanner knows; the scanner may give altered bytes either verdict. Which
candidates a resolution finds is arbitrary. Audit rows, roles and masking are left out.

### 3.2 `ScanGate`, the abstract specification

Per item: held, then settled once as cleared or condemned; used at most once, only if cleared and not
infected. `EvidencePipeline` refines it with the gate state read off the SCAN job and the path
(`GateState`) and the count of committed extractions as its uses.

### 3.3 Runs

| Run | Instance | What it shows |
|---|---|---|
| `pipeline_safety` | 2 items (one infected), 2 sessions, 1 candidate, 1 crash, storage faults, leases sound | `ExtractedOnce`, `GateIsTruthful`, `NoDeadEnd`, `InfectedIsContained`, and the refinement of `ScanGate` (`ImplementsScanGate`) |
| `pipeline_liveness` | 1 item, 2 sessions, 1 crash, storage faults, `FairSpec` | `EventuallySettled` |

Bounds. Two sessions are what a race needs (one that holds, one that comes with an older or newer copy). Items interact only
through candidates and `mark_active`, so two suffice, one of either kind. One candidate is enough for
open/decided/reversed and for a COUNT of zero or more. One crash strands a job; a second strands it
again from the same states. `ScanFailure` has one member where the members behave alike. The symmetry
of sessions is used in `pipeline_safety` only. Deadlock is checked in both runs: there is
always a request that may come.

Note that under `LeaseSound` the lease runs out only when no live session is inside the stage, which is
what config.py:44-46 demands of `JOB_LEASE_S`. `ExtractedOnce`, `OneHolder`, `GateIsTruthful`
and the refinement need it; without it a reclaimed stage runs twice. Containment does not need it, and
the theorem `InfectedStaysContained` says so.

Fairness of `FairSpec`, and why the code justifies it:

* weak, on what a started request does next: the process runs it; a crash is an action of its own;
* weak, on leases running out: time passes;
* strong, on a scan, a promotion and an extraction tried again and again succeeding: a scanner that is
  never reachable or a parser that always raises settles nothing, and the code promises nothing then.

Nothing is assumed about `/process`: a client may never ask again, and the worker answers True for a message that
meets somebody else's job, which is then not delivered again.

`EventuallySettled` says that an uploaded item does not stay half processed. From some time on its claims are
extracted, or it is blocked, or it rests in a status with which `/process` is accepted and starts the next stage
(`Retryable`): no lease, no status written too early and no dead session stands in the way of whoever asks
next. If somebody asks for ever, the item does not rest, and it is extracted or blocked. Two kinds of
items are excepted by name. `Damaged` has no intact copy of its bytes left in the store. `Stranded` was
promoted, but a crash came before the commit that records it: no retry finds it again, which departs from
docs/workflow.md:22 (section 12).

### 3.4 Proofs (`EvidencePipelineProofs`)

`TypeCorrect` is `Spec => []TypeOK`; no assumption beyond `PipelineAssumption`.

`InfectedStaysContained` needs a strengthening, because what keeps infected bytes out is spread over
rows, copies and the places sessions are at. `Containment` adds that a row past the gate points into
`accepted/` (`RowsPastGate`), that a session's copy past the gate goes with such a row
(`CopiesPastGate`), that a session in a later stage has such a copy (`StagesPastGate`) and
`mark_active` only marks such rows (`MarksPastGate`), and that a session about to promote an infected
item did not find the uploaded bytes, nor reads them (`NoneInfected`). It is inductive without any
assumption on leases.

`ClaimsOnce`, `StagesExclude`, `GateTruthful` are proved under `LeaseSound` from `Exclusion`: every
session inside a stage holds that stage's job RUNNING (`HoldersRun`), which with the guard of `_job`
gives mutual exclusion (`OneHolder`); from that follow `ExtractedOnce` and that a row pointing into
`accepted/` has a scan that succeeded (`ScannedPath`). `PipelineImplementsGate` maps every action to
a gate step or a stutter, from both invariants.

Each preservation proof has one step per action. The invariants were checked with TLC, as
invariants of a run, before they were proved.

`NoDeadEnds` is proved under `LeaseSound` from `Order`, on top of `Exclusion` and `Containment`. A status
and the jobs go together (`ItemsInOrder`): no job exists before the stage below it succeeded, and a
status from which `/process` enters a stage goes with a job that has not succeeded. What could break that is
a stage that ends its job but whose new status is not written, because it equals the session's old
copy (`Put`). `HoldersSee` excludes it: a session inside a stage still holds the status it gave the row there,
and no outcome of a stage (`Outcome`) is that status.

Model-checked only: `EventuallySettled` (liveness under fairness is out of the prover's reach).

## 4. The Kafka worker

### 4.1 Correspondence with the code

`KafkaWorker` models the way a processing request takes through Kafka. `request` says where the request
of an item is; `log`, `committed` and `member` belong to the broker; the other variables are what one
worker process holds: the partitions and positions of its `KafkaConsumer`, and the batch of the loop in
`run_worker`, as the partitions it has not turned to (`todo`), the one it is in (`cur`), where that
partition's messages begin (`start`) and how far it has come (`done`). Two variables are history: `handled`, the
messages `_process_message` answered True for, and `passed`, those whose partition was waiting for its turn
when the batch they were in came to a `commit()`.

| Actions | Code |
|---|---|
| `Publish` | the publish branch of `process_evidence`, pipeline.py:174-182, with `publish`, kafka_bus.py:60-88. The producer has `acks="all"`, `retries=3` and a timeout of five seconds: the message arrives not at all, once or more often, and `publish` may answer False although it arrived |
| `Direct` | the stages run in the API process, pipeline.py:184-193 |
| `Rebalance`, `Orphaned` | external: the group coordinator shares the partitions among the workers that poll; a busy worker loses its membership but not what it believes |
| `Poll` | `consumer.poll`, worker.py:124: positions move past all that is returned |
| `Turn`, `Handle`, `Retry` | the two loops, worker.py:125-136, and the two answers of `_process_message` |
| `Commit`, `CommitFails` | `consumer.commit()`, worker.py:133, and the outer `except`, worker.py:137 |
| `Crash` | the process dies, or leaves the loop on a signal, and is started again (docker-compose.yml, `restart: unless-stopped`) |

What a message does to its item is not repeated here: it is one more `Process` session in
`EvidencePipeline`, and `ExtractedOnce` there is what makes duplicates harmless. Of `_process_message`
only the answer counts, and either is possible: True also stands for a failure that is not tried again. A repeated `/process` request while the first is
queued is one more copy of the message. A `commit()` that the broker applied but whose answer was lost
is a `Commit` after which the rest of the batch is dropped: its messages are `passed` by then, as they are
after `CommitFails`, so it is not an action of its own.

External, and modelled from how the code uses it: a position belongs to a consumer and moves with
`poll` and `seek`; `commit()` without arguments commits the positions of all assigned partitions and
is refused for a process that is no member any more; a newly assigned partition starts at the committed
offset, or at the beginning (`auto_offset_reset="earliest"`).

`Poll` returns messages of any of the worker's partitions together, as nothing in the code asks for anything
else and the topic has three partitions. That is what makes `commit()` commit too much: see 4.3.

### 4.2 Runs

| Run | Instance | What it shows |
|---|---|---|
| `kafka` | 2 items in 2 partitions, which one poll may return together, 2 workers, 2 messages in one partition and 1 in the other, 1 crash or needless rebalance, `FairSpec` | `OnlyWaitingIsPassed`, `CommitsBackOnlyOverPassed`, `AnsweredIsWorked` |
| `kafka_mixed_batch` | the same partitions, 1 worker, no fault | finding (`CommittedWasHandled`): the commit after one partition covers unhandled messages of another |

Bounds. Two partitions are what a batch needs for one to wait while the other is committed; two messages in one
of them give a batch a message after the first and a seek a place to go back to, and are also the copy a retrying
producer makes; two workers are an owner and one that takes over, which is what a commit that comes late needs.
`MaxFaults` bounds crashes and rebalances that nothing made necessary, together; rebalances that a crash or a
lost member makes necessary are not bounded. The theorems hold for any numbers. These runs do not check
deadlock: when every request is worked on and the bounds are used up, workers only poll and find nothing, which
the model leaves out as a step that changes nothing.

The properties say what the worker does get right. `OnlyWaitingIsPassed`: what a committed offset covers was
answered True, or was passed before its turn; seeks after failures, failing commits, crashes, rebalances and a
worker that comes back late lose nothing more. `CommitsBackOnlyOverPassed`: the same for commits that go back.
`AnsweredIsWorked`: of an item whose every message was passed nothing more is promised.

Fairness of `FairSpec`: weak for the API finishing what it took on, and for a worker polling and going through
the batch it has, because a process that does not die runs; weak for a rebalance when a partition has no
member, because the coordinator gives it away; strong for each message being answered True by whichever
worker has it, because a message is answered False only while its job is held by somebody (whose lease runs
out) or the database fails, and everything else is True.

### 4.3 The violation

`kafka_mixed_batch` needs neither crash nor fault: two messages in two partitions, one `poll`, the first
partition handled, `commit()`. A crash after that, or a failure of the second message followed by a
crash before it is tried again, loses the second message. Committing the offset of the partition just
handled, `commit({tp: ...})`, would leave nothing `passed`.

### 4.4 Proofs (`KafkaWorkerProofs`)

`WorkerTypeCorrect` is `Spec => []TypeOK`. That `committed` stays inside the log needs that positions do
(`PositionsInLog`) and that a batch begins before where its position is (`BatchesForward`).

`OnlyWaitingMessagesArePassed` assumes nothing about what a poll returns. A commit commits positions, so what must
be invariant is about those: `LeftIsHandled` says that in every partition a worker believes to have, all is
handled or passed before the place its batch begins (`Base`; its position, where it has no batch), and
in the partition it is in, up to `done`. With `Shape` (the partitions of a batch are assigned, and the current one is
not waiting), a `commit()` finds its own partition exhausted, the waiting ones between their beginning and
their position, which `Waiting` adds to `passed`, and all others without a batch. `CommitFails` drops the
waiting ones with their positions behind them, and must have passed them too: a later commit covers them. A
worker that lost its partitions keeps the invariant, because `handled` and `passed` only grow.

`CommitsOnlyGoBackOverPassed` adds `Ownership`: no two members have one partition (`OneOwner`), and where the
`Base` of a member is before the committed offset, what lies between was passed (`OwnersAhead`). That is the case
when a failure seeks back in a partition whose messages an earlier commit of the same batch covered: its next
commit goes back. `w \in member` in `Commit` is needed: a worker that lost its membership may be behind by
messages that others handled, and its commit is refused.

Model-checked only: `AnsweredIsWorked` (liveness under fairness).

## 5. Human review

### 5.1 Correspondence with the code

`ReviewDecisions` models the candidates and claims of one case, what reviewers decide on them, and the
two pieces of automation that write the same rows. A target is a row of `match_candidates` or a claim.
`state`, `flagged`, `pair`, `signals` and `reviews` are committed rows; `request` is what a reviewer's
session has loaded; `stage` and the variables after it are what the processing of an item has computed
and not committed.

| Actions | Code |
|---|---|
| `LoadTarget` | `db.get` and the early returns of `decide` and `decide_claim`, review_routes.py:88-96, 152-158 |
| `FindLast` | the query for the last review, and 409 "nothing to reverse", review_routes.py:97-100, 159-163 |
| `CommitDecision` | the new state and review, committed, review_routes.py:101-111, 161-171 |
| `FlagContradictions`, `ExtractCommit`, `ExtractFails` | `flag_contradictions`, services/extract_common.py:277-297, called at the end of `extract`; the commit or rollback of `run_extract`, services/pipeline.py:108-131 |
| `Profiles`, `Compare`, `ResolveCommit`, `ResolveFails` | `generate_candidates`, services/resolution.py:69-141: profiles of the persons in the case, the existing candidates, new and recomputed ones; the commit or rollback of `run_resolve` |

A session loads rows, computes and commits. The commit sends an UPDATE only for columns that differ from
the loaded copy and writes over whatever they hold by then (READ COMMITTED, no version column). That is
why `CommitDecision` compares with `copy`, and `ExtractCommit` writes `writes` without looking again.

Abstractions. A claim's content counts only by what it contradicts (`Contradicts`) and which pairs of
persons it says something about (`Basis`); the signals of a candidate are the set of claims they were
computed from, and scores follow from them. A pair is one whose records share a block from the first
claim of its basis on, and stay together: every person has a name, at worst the label
(resolution.py:43-44), so the abstraction leaves out pairs that come to share a block, or cease to, by
later claims. The queries that make one resolution's profiles are one step; so are a flush and the
commit after it, because nothing reads uncommitted rows. Statuses of evidence are `EvidencePipeline`'s,
and so is that an item's stage has one session at a time. `assign_candidate` and audit rows are left out. Of two
rows of one pair a resolution looks at the one its query returned last, which is either (`prior`).

Nothing in the code keeps two decisions on one target, two extractions or two resolutions of a case apart: there is
no row lock, no unique constraint on the pair of a candidate or on `supersedes_id`, and job keys are per item. So
the model lets them overlap in any way, and history says where they did: a review remembers how many reviews
its target had when its request loaded the row (`began`); `overtaken` holds the items whose session was under way
when another of its kind committed; `clean` holds the kinds of session whose last commit was not overtaken
(`Commits`, `RollsBack`). The properties say what still holds, and what repairs what was lost:

* `StateFollowsReviews`: a candidate is in the state of its last review, or of one that overtook it. A decision
  nobody overtakes takes effect whatever happened before, and no resolution takes it back.
* `OnlyOverlapForks`: a review supersedes none older than the last its target had when it began, so without overlap
  the reviews form a line, and what is reversed is always a decision.
* `OnlyTheOvertakenDuplicate`: a pair that has a row gets a second one only from a resolution that was overtaken.
* `ContradictionsSurface`, `EvidenceReachesCandidates`: what overlapping extractions miss of each other's claims,
  and overlapping resolutions overwrite of each other's signals, is there again after the next commit that
  nobody overtook.

### 5.2 Runs

| Run | Instance | What it shows |
|---|---|---|
| `review_safety` | 2 items with one claim each that contradict each other, 1 pair, 2 rows, 2 reviewers, 2 reviews in the case, everything overlapping | `StateFollowsReviews`, `OnlyOverlapForks`, `OnlyTheOvertakenDuplicate`, `ContradictionsSurface`, `EvidenceReachesCandidates` |

Bounds. Two claims of two items contradict each other across extractions, and both are in the basis of
the pair, so the second arrives at a candidate that may be new, open or decided. Two rows let a pair be
proposed twice. A decision begins while the case has fewer than
`MaxReviews`, two, reviews, so that there are up to three: a decision and two that overlap after it, or two that overlap and
another one; the theorems hold for any number. `Decision` leaves out
DEFER, STALE and CONTRADICTORY in the runs: they take the same path as REJECT. Rows and reviewers are
interchangeable (`RowSymmetry`). Deadlock is not
checked: when all is resolved and the reviews are used up, nothing is left to do.

### 5.3 Proofs (`ReviewDecisionsProofs`)

`ReviewsTypeCorrect` is `Spec => []TypeOK`, whatever overlaps. That a review supersedes an earlier one
needs that what a request found as the last review is still in the history (`LastInHistory`).

No theorem assumes anything about which sessions overlap.

`HistoryForksOnlyByOverlap` and `CandidateFollowsReviews` come from one invariant, `Decisions`. Its core,
`RequestsFollow`, says what a request knows though others decide meanwhile: the copy of a candidate's state is
still the state, or a review since it began has written the present one (`DecidedSince`); the last review it found is
one that was the last since it began; and what it is to reverse is a decision. So an UPDATE that
is not sent because the copy equals the new state is lost only to a review that overtook this one. `RowsPaired`
adds that a row without a pair has no state and no reviews, so that resolutions write states of new rows only.

`DuplicatesOnlyByOverlap`: what a resolution that nobody overtook is to propose has no row until it commits
(`ProposesNew`), because the commit that would make one is what marks it as overtaken.

`ContradictionsAreFlagged`: between `flag_contradictions` and the commit, `FlagsPending` says that an extraction
nobody overtook will flag what its claims bring to light, of all that is committed, and `UndecidedClaims` that the
claims nobody has decided on are in a state that `flag_contradictions` takes up. An overtaken one leaves `clean`
without "extract", and the next one that is not restores the property in one commit.

`EvidenceReaches`: later resolutions rewrite what earlier ones proposed, so the invariant `Reaching` says of a
resolution that nobody overtook that its profiles hold the claims of its own item and of every item already
resolved (`ProfilesComplete`), and that each pair it has compared is to be proposed or rewritten, is decided, or was
found up to date (`PairsDealtWith`). What is resolved already is in the open candidates if the last commit
was such a one (`ResolvedReach`).

## 6. The relationship graph tab

### 6.1 Filters and time (`GraphFilters`)

The store's filter half with the predicates the engine asks for every node and edge, the mapping of the
server's answer, and the controls. A graph is a set of nodes and edges with types, terms in labels, first and
last date and a confidence, each of which may be missing or outside the known vocabulary: that is where a
filter can hide something nobody asked it to hide.

| Actions | Code |
|---|---|
| `LoadGraph`, `GraphArrives`, `GraphFails` | `loadGraph` with `getCaseGraph`, `recordedTimeMs` and the range of times |
| `Toggle...`, `Select...Types`, `SetMinConfidence`, `HandleFromChange`, `HandleToChange`, `HandlePreset`, `ResetFilters`, `ToggleFilterPanel` | the panel of `components/graph/filters` |
| `SetSearchTerm` | the search box of `GraphToolbar.tsx` |
| `Scrub`, `StepTemporal`, `TogglePlay`, `Tick` | `TemporalSlider.tsx`; its interval runs on over a load |
| `NodeVisible`, `EdgeVisible` | `isNodeVisibleForFilters`, `isEdgeVisibleForFilters` and the engine's test of the ends |

`graph_filters` has three cases: one with dated and undated edges, a type of each vocabulary that is
unknown, an edge without confidence and one whose target is missing; one whose range is a single instant; one
without dates. Two known types of each kind let a filter hold all, one or none; one term matches some
labels; thresholds 0 and 1 are "All" and one that excludes. Times reach to 7 with days of 4 units, so that
dates fall inside and outside of the ranges; `PlaySteps` and `StepParts` are small (80 and 20 in the code)
because the range is. One load is in flight at a time; that loads overlap is the other module's subject.

`NothingHiddenSilently` relates what is drawn to what *all* controls together admit to;
`FreshCaseIsComplete` to what the case before left behind: until a filter, the slider or the play button is touched,
everything is drawn, but for edges later than the time of a playback that was on in the case before and still
runs (nothing stops it; a tick of it touches nothing); `ResetShowsEverything` is an action property.
All three are proved for every graph, vocabulary and bound. The invariant `Consistent` adds to the types
that the slider's range is that of the loaded graph's times (`RangeIsOfTheGraph`), that the time and the dates are in
it and in order (`PlaybackWithinRange`), that a load has emptied the store (`LoadingIsEmpty`) and that a
fresh case has neutral filters and, when nothing plays, the slider at the end (`FreshIsNeutral`). The second is the one a playback needs that goes on
over a load: its next tick starts from the time the answer set, not the one it had before.

### 6.2 Loads, selection and canvas (`GraphWorkspace`)

| Actions | Code |
|---|---|
| `OpenGraph`, `Retry`, `GraphArrives`, `GraphFails`, `LeaveGraph` | `loadGraph`, the effects of `case-graph-page.tsx` with `?entity=`, the canvas mounting and unmounting |
| `SelectNode`, `SelectEdge`, `SelectConnectedEdge`, `ClearSelection`, `EntityArrives`, `ClaimsArrive` | `selectNode`, `selectEdge`, `clearSelection`, their late answers, and the rows of the entity drawer |
| `Loaded`, `applyDelta`, `Synced`, `Mounted` | `GraphEngine` and the data effect of `GraphCanvas.tsx` |
| `SetView`, `ToggleLayout`, `TimerFires` | the list view; "Organize" with its timer of 350 ms, which `destroy()` does not stop |

`graph_workspace` has two cases that share an entity, the first with a graph that has grown by the second
load. Cases of equal size matter: the engine compares *numbers* of nodes to decide between a delta and a
new start. Two loads in flight are needed for one to overtake the other, two details for an answer to come
for the selection before, two timers for a layout that outlives its canvas and one of the next.
`EngineHoldsTheStore` and `EdgeDrawerIsTruthful` hold through overlapping loads, `CanvasIsOfTheRoutedCase`
without them. `SpinnersStop` is liveness: `WorkspaceFairSpec` has weak fairness for the timer (the browser runs
every callback of `setTimeout`) and for the answer or failure of a case's request (`fetch` settles);
nothing is assumed of the user.

`CasePagesProofs` proves the safety properties for all graphs the server may answer and any number of loads,
details and timers. The graph and the selection share no variable but the graph, so the invariant `InStep` has a
half for each. `TabInStep` says what the canvas may rely on: while no loads overlapped, one is in flight, for the
case of the store, and the canvas is not shown (`OneLoadAtATime`); the store names the case of the tab and
holds nothing of another (`StoreIsOfTheTab`); the engine draws the store and not more
(`CanvasIsTheStore`), besides that it draws not less, `EngineHoldsTheStore`, which holds through overlapping loads.
`CanvasIsOfTheRoutedCase` is not inductive without them: the engine only adds to what it has, so what
matters is that it was emptied with the store before the next answer came. `EdgeDrawerIsTruthful` is
inductive given the types. `SpinnersStop` is model-checked only.

## 7. The reveal dialog

`RevealDialog` follows a masked value from the button in an entity's drawer to the audit row and back. The
dialog is mounted once for all pages; closing it starts a timer of 200 ms that clears the store's target
whatever has been opened since; a request in flight answers whatever is on the screen by then.

| Actions | Code |
|---|---|
| `openRevealModal`, `closeRevealModal`, `CloseTimerFires` | `stores/revealStore.ts` |
| `SetJustification`, `SetCertified`, `handleSubmit`, `handleRevoke` | `reveal-identity-modal.tsx`, `submitRevealRequest` |
| `reveal`, `Granted`, `RowsOf` | the route in `routes/graph_routes.py` with `current_user` and `authorize_case`: without an account it is refused and writes nothing, a refusal of the case writes a row that names neither entity nor reason, anything else a row with both. A 404 cannot come: no entity is ever deleted |
| `RevealArrives`, `RevealFails`, `Expire` | the answer, a lost one, the end of a reveal's time |
| `SignIn`, `SignOut`, `Open` | sessions of this tab; the last two load the page anew (`PageLoaded`) |
| `OtherTab` | another tab signs out or in: `localStorage` has another token or none, and this tab does not notice |
| `CaseLoaded` | the graph store, whose `caseId` the request names |

A reason counts by the entity it was typed for; `audit` is a history of rows. `reveal` has two entities (a
dialog reopened for another), one case, a user who may reveal and one who may not (signing in
in this tab or in another one), two requests in flight and one timer. More timers do what one does.

All properties are proved for any numbers. `Consistent` says what a request carries from the moment
it is sent: the token storage had then, a reason for its own entity (`RequestsAreBacked`, with
`FormIsOfTheTarget`), and, once the server has approved it, a row in the log; what is filed and shown has
one too (`ResultsAreBacked`). It is needed because the answer's handler looks at none of this again.
`PlaintextIsOfTheSession` says of all that is unmasked that it was asked for with a token storage had since this
tab's user signed in (`holders`, of which `SessionHasAUser` says that the present token is one). That no one
of the tab's own earlier users is among them needs the page load of a sign-out; that is all the code promises,
since a tab whose token another one replaced goes on, see section 12.
`DialogShowsItsTarget` (theorem `DialogsShowTheirTarget`) needs of the requests what their answers will bring: one
whose dialog was not closed since it was sent is of the target on the screen (`RequestsOfTheDialog`). A change of
target unmounts the content, after which no request is left that is not an orphan.

## 8. The candidate page

`CandidateReview` models the page of one match candidate. React keeps a component mounted when only its
address changes, so from one candidate to the next the page lives on, with requests in flight and callbacks
made for the candidate before. `Submission.to` says which of the components a decision was sent from are still
there to hear its answer.

| Actions | Code |
|---|---|
| `Go`, `ReenterCase`, `RetryCase`, `CaseArrives`, `CaseFails` | the routes of the case, `case-context.tsx` |
| `CandidateArrives`, `CandidateFails`, `RetryCandidate` | `load` of `CandidateDetail`; the effect that clears it for a new id |
| `Choose`, `Cancel`, `TypeReason`, `Confirm`, `ConfirmWithoutReason` | the buttons and `reason-dialog.tsx` |
| `decide`, `OthersDecide` | `POST /candidates/{id}/decision`, of this reviewer and of others |
| `DecisionArrives`, `DecisionFails`, `SearchEnds` | what `decide` does after each of its awaits, `reloadCase` among it |

`candidate_review` has two interchangeable candidates, a decision and its reversal (the others take the
path of the first), one decision on its way (the dialog allows no second; pages that were left could have
more, each alone) and one decision of another reviewer. The properties say that the screen is of its
address, the reason of its decision, and the notice of what was recorded. The
exception, `raced`, is a page whose address changed, or which was loaded again, while something was in flight.

`CandidateReviewProofs` proves all of them for any candidates, decisions on their way and other reviewers. Answers
come after the click they belong to, so what is to hold of the screen must hold of what is under way:
`Consistent` says that a page nobody raced has asked for its own candidate only (`PageIsOfItsAddress`), that
a decision its components will hear is of the dialog's candidate and decision (`DialogIsOfItsDecision`), and
that one the server has answered was recorded (`AnswersWereRecorded`).

## 9. Case pages with lists

`CaseTabs` has the layout that loads the case for all its tabs, the evidence list with its drawer, whose
state goes with the tab, and the timeline and audit stores, whose state does not.

| Actions | Code |
|---|---|
| `GoHome`, `GoToCase`, `GoToTab`, `Reload`, `CaseArrives`, `CaseFails` | `useCaseLoader`: requests of an effect that was cleaned up are dropped (`alive`) |
| `SetStatus`, `SetOffset`, `RetryList`, `RowsArrive`, `RowsFail` | `case-evidence-view.tsx`; the queue of `review-page.tsx` has the same lines |
| `OpenItem`, `CloseItem`, `DetailArrives`, `DetailFails`, `Run`, `JobEnds`, `JobFails` | `evidence-detail-drawer.tsx` |
| `Filter...`, `Reset...`, `Retry...`, `Events...`, `Logs...`, `openDrawer`, `closeDrawer` | `timelineStore.ts`, `auditStore.ts` and their pages |
| `ClearEntityScope` | "Clear entity scope", timeline-filter-bar.tsx:55: loads the whole case and leaves `?entityId=` in the address |
| `handleScopeEntity` | the entity of a row, case-timeline.tsx:41-44: loads, and sets the address; another entity than the address has is `GoToTab`, whose effect loads the same again |

`case_tabs` has two cases, two items, two statuses, two pages and one entity to scope by; two requests of
each store in flight; and one tab besides the overview per behaviour (`MaxTabs`): the two stores and the
list share nothing but the case loader, so visits to several tabs only interleave. Cases and items are
interchangeable. `CaseShownIsRouted` has no exception; the others except queries that overlapped. What `TabsShowTheirAddress` says of
the timeline is about what the page displays: the case of the address, and the entity scope that the filter
bar names, which is that of the address until it is cleared there (`cleared`, `ScopeInForce`).

`CasePagesProofs` proves all of them for any cases, items, entities, offsets and requests in flight. The invariant
`Follows` says of each part what it waits for and what it has until then: the loader listens only to requests for the
case of the address (`LoaderFollows`); a list, a drawer or a store in which nothing overlapped has asked only
for what it stands at, and what it shows is of that (`ListFollows`, `DrawerFollows`, `TimelineFollows`,
`AuditFollows`). The properties speak of what is on the screen only, and are not inductive: an answer is taken
without a look at what the page shows by then, so what is under way must be known to be of it.

## 10. Sessions

`Sessions` has the tabs of one browser over one `localStorage`. A token stands for its account.

| Actions | Code |
|---|---|
| `Open`, `Logout` | a page load with `ProtectedRoute`; `logout` and `clearSession`, which load the page anew |
| `Submit`, `login`, `TokenArrives`, `me`, `LoginSucceeds`, `LoginFails` | `login` of `authStore.ts`, `/auth/login`, `/auth/me` |
| `RestoreSucceeds`, `RestoreRefused`, `RestoreLost` | `restoreSession` |
| `send`, `current_user`, `DataArrives`, `RefusalArrives`, `RequestLost` | every request of a page; `current_user` of `auth.py`; the 401 branch of `real_client.ts` |
| `SetActive` | an administrator deactivates or reactivates an account |

`sessions` has two tabs and two accounts: one tab to write storage under another, one account to write over
another. One request per tab is enough, since requests of a tab meet only in storage. Time is abstracted: a
token that expired and one whose account was deactivated are refused alike.

Everything is proved in `AccountsProofs`, for any number of tabs and accounts. Tabs share storage only, so the invariant is one
predicate of one tab (`Sound`): what its route, user, call, request and data have to do with storage. A
step of another tab leaves storage alone or marks this tab as touched, after which `Sound` asks little of it.
`PagesAreGuarded` is proved and not run separately.

## 11. Accounts

`UserManagement` has the administration page of one administrator and other administrators who call the
same routes. A change is sent, passes `require_roles` and the first checks (`allowed`), is committed
(`done`) and is answered, each in a step of its own: two requests can both be past their checks.

| Actions | Code |
|---|---|
| `OpenUsers`, `LeaveUsers`, `SignOut`, `Refresh`, `list_users`, `RowsArrive`, `LoadFails`, `LoadRefused` | `load` of `user-management-page.tsx`, `GET /users` |
| `toggleActive`, `Open...`, `ChooseRole`, `CloseDialog`, `Submit...` | the table's buttons and the three dialogs |
| `OthersSend` | another administrator |
| `require_roles`, `create_user`, `update_user`, `deactivate_user`, `reactivate_user`, `reset_password`, `Rejected` | `auth_routes.py` |
| `ToggleDone`, `ToggleFails`, `DialogDone`, `ResetDone`, `DialogFails`, `AnswerLost`, `ChangeRefused` | what the page does with each answer |

`user_management` has the page's administrator and one more account, an administrator or not; two roles; two
changes and two loads under way, and two changes in all: two administrators deactivating each other, or a
demotion, need no more. Deadlock is not checked: a page that is signed out stays so in this module, and
administrators can lock everybody out.

`SomebodyAdministers` is proved for any accounts and number of requests. It is not inductive: a deactivation
already past its check may be of the last administrator but one, who is the sender. `DeactivationsAreSafe`
says that, but for a race or a demotion, at most one deactivation is past its check, that it is not of its
sender, and that the sender is an administrator still. `BusyIsWaiting` (theorem `NothingIsStuck`) needs `DialogWaits`: the
request that a dialog waits for is the only one, and of the dialog's kind.
`TableShowsWhatWasDone` (theorem `TableCatchesUp`) speaks of a page with nothing under way. Before that, in the absence
of others' changes and overlapping loads, `UpToDate` says that the rows on their way are those of the accounts, and
so is the table when nothing is on its way, unless a committed change is still to be answered, whose answer will load
the table (`LoadComes`). `Closed` says that a page that is not mounted waits for nothing, so opening it starts afresh.

## 12. Divergences met while modelling

What the models contain and the properties except, with the promise it departs from. One of them,
`kafka_mixed_batch`, is a run (section 4.3); the others were seen in counterexamples while the properties
were being stated.

**Evidence pipeline.** All from a write from a copy of the row loaded before (`expire_on_commit=False`, no
version column), or a change of one store before the other without a way to recognise it afterwards.

* `models.py:24` calls INFECTED and INTEGRITY_MISMATCH terminal, "nothing may be (re)processed out of
  these without an explicit investigation step". When `/verify` or an extraction commits INTEGRITY_MISMATCH
  after a session loaded the row, that session's next status replaces it (`services/pipeline.py:199` and every
  other status write), and the item goes on.
* `docs/workflow.md:25` leads to INTEGRITY_MISMATCH "when /verify (or pre-extraction re-hashing) finds
  the stored bytes differ from the manifest". `/verify` that loaded the row before a promotion looks under the
  old path (`routes/evidence_routes.py:148`) and blocks an intact item, with no way back.
* `docs/workflow.md:22` says of SCAN_FAILED "file stays in quarantine/; retry allowed". The object moves
  at `services/pipeline.py:83`, the row is committed at line 94; after a crash in between every retry finds
  nothing, while the clean object lies in `accepted/` and no row names it.
* `docs/workflow.md:20` draws "HITL --(all reviewed)--> ACTIVE". `mark_active` counts pending candidates
  before the decision just taken is flushed (`services/pipeline.py:197`, `autoflush=False`): the last
  decision leaves HITL. A reversal of it later leaves ACTIVE with a candidate pending.

**Review.** "A claim a reviewer has decided on must keep that decision" (`services/extract_common.py:279`).
`flag_contradictions` looks for reviews when it runs and its writes are committed with the extraction: a claim
approved in between goes back to CONTRADICTORY. The approval sends no UPDATE for a claim that is ALLOWED
already, so not even a row lock is met. `generate_candidates` never writes the state of a row it found
(`CandidateFollowsReviews`), but it can rewrite the signals of a candidate decided meanwhile. 

What overlapping sessions do, all in `review_safety` (`began`, `overtaken`):

* Two decisions that find the same last review both supersede it. If B loads the candidate, A's decision commits,
  and B's then finds A's as the last and gives the state B loaded, no UPDATE is sent: the last review is B's, the
  state is A's. A reversal may reverse a decision its reviewer never saw.
* Two resolutions of one case insert a pair twice (`services/resolution.py:76`), and the one that commits last may
  write signals without the claims the other had; the next one that is alone adds them.
* Two extractions do not see each other's claims, and leave a contradiction unflagged until the next one of the case.

**Graph tab.**

* A playback is not stopped by `loadGraph` (`stores/graphStore.ts:132`; the interval is `TemporalSlider.tsx`'s): it
  goes on in the next case, from the end back to the start, and hides edges later than its time although nobody
  touched anything in that case.
* Answers to two `loadGraph` calls are not told apart (`stores/graphStore.ts:128`): the older one may stay, and
  as the engine only adds, the canvas may show the union of two cases. The id of an edge (ends, type and
  index) can be the same in two cases. A failure of the older request puts its error over the newer graph.
* `selectNode` does not ask whether its entity is still the one selected when the details come
  (`EntityArrives`), as `selectEdge` does.
* A missing confidence is mapped to 0, so the rule that edges without one are kept
  (`lib/graphFilters.ts:104`) never applies to what comes from the server.
* A playback goes back to the start when the next step reaches the maximum (`TemporalSlider.tsx:36`): edges of the
  latest time are never drawn while it plays.

**Reveal dialog.**

* The answer for one entity arrives in a dialog that was closed and opened for another: the plaintext is
  shown there, and "Hide value again" masks the other one (`orphan`).
* A dialog opened within 200 ms of closing another vanishes when the timer runs, with `isModalOpen` still set,
  and any older answer ends the `isSubmitting` of a newer request.
* The request names the graph store's `caseId` (`stores/revealStore.ts:78`), which a late load may have set.
* "The refused attempt was recorded in the audit log" (`reveal-identity-modal.tsx:242`) is also said of
  network failures and of 404, for which no row is written.
* A reveal that has expired is masked at the next render, not when its time is over.
* A tab whose token another tab replaced (`services/api/real_client.ts:25`) keeps its reveals on the screen although
  its user signed out there, and what it reveals from then on is asked for, granted and audited as the other
  account, under the name of the first: DEF-061's "the next user never sees the previous user's case data or
  reveals" (`stores/authStore.ts:149`) is kept by the page load of the tab that signs out only (`holders`).

**Candidate page.** After a change of address the answer for the candidate before is shown under the new one
(`review-page.tsx:147`), and the request names the address: a decision is recorded on one candidate with the
records of another on the screen. The error of a decision whose page was left is shown nowhere. The notice
of a decision that ends late stands on the next candidate's page. A dialog that was open reopens, empty,
on the next candidate.

**Case pages.** A filter change on any page but the first sends the query twice, with the old offset and with
0, and the answer that comes last is shown. A verdict of "Verify integrity" that comes late stands in the
drawer of the item opened next. `onChanged` loads the list with the query of the moment the button was clicked.
The entry selected in the audit log stays selected in the next case. "Clear entity scope" leaves `?entityId=` in the
address (`timeline-filter-bar.tsx:55`, other than "Show all events", `case-timeline.tsx:46`): after a reload or a
return the scope is back (`cleared`). `handleScopeEntity` and `handleClearScope` send their query twice, once
themselves and once by the effect of the address.

**Sessions.** A 401 to a request with an old token clears the newer session of storage
(`services/api/real_client.ts:34`). A slow restore writes its token back over the one another tab stored
(`stores/authStore.ts:105`). A tab whose token another tab removed, or replaced, goes on showing its user and sends requests
without it, or as the other account. The token stays in storage when `/auth/me` fails after a sign-in.

**Accounts.** Two administrators whose deactivations overlap deactivate each other, and a role change
demotes the last administrator, the sender included: the lines that prevent "an admin from locking
themselves out" (`routes/auth_routes.py:94-97`) look at neither. The edit dialog sends the role the row showed
when it was opened. Loads of the table may overtake one another (`user-management-page.tsx:206`). Tokens
issued before a password was reset stay valid. A page keeps the role it had at sign-in after a demotion.

## 13. Not modelled

* **Graph projection and Neo4j, Merkle anchoring, login throttle:** next in line (section 2). Centrality,
  communities and the Besu transaction would stay external.
* **Parsing, OCR, NER, masking patterns, PDF rendering:** transformations of data without interleavings.
* **Access control** decides on single rows; in `RevealDialog` it is the constants `Authorized` and `Officers`. The **audit log** is
  written in the transaction of what it records; `RevealDialog` has the rows that reveals write.
* **In the browser:** camera, colours, hovering and the export of images; the tier and core-connection
  switches of the graph store, which no mounted control sets; uploads, downloads and deep links to one item;
  the overview, home, map, report and provenance pages, which load once and render.
* **Deployment files, seed data, migrations and scripts** are not behaviour of the running system.

Out of the prover's reach and therefore only model-checked: liveness under fairness (`EventuallySettled`,
`AnsweredIsWorked`, `SpinnersStop`).
