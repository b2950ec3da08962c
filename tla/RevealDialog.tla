---------------------------- MODULE RevealDialog ----------------------------
(***************************************************************************)
(* The unmasking of a phone or account number: stores/revealStore.ts, the  *)
(* dialog of components/intelligence/reveal-identity-modal.tsx that the    *)
(* shell mounts once for all pages, the field that opens it, and the       *)
(* server's POST /entities/{id}/reveal (graph_routes.py) with its audit    *)
(* row.  The dialog outlives the page it was opened from; closing it       *)
(* starts a timer of 200 ms that clears the store's target, and a request  *)
(* that is in flight answers whatever is on the screen by then.            *)
(*                                                                         *)
(* One tab of a browser.  Every request goes out with the token that       *)
(* localStorage holds at that moment, which the other tabs write too       *)
(* (Sessions has the sign-ins and sign-outs themselves).                   *)
(*                                                                         *)
(* The only identifier type the client asks for is "id", so an entity      *)
(* stands for the key entityId:identifierType.                             *)
(***************************************************************************)
EXTENDS Integers

CONSTANTS
    Entities, Cases, Users,
    ClaimedIn,          \* <<entity, case>>: some claim of the case is about the entity
    Authorized,         \* <<user, case>>: authorize_case() lets the user see the case
    Officers,           \* the users whose role may reveal
    Slots,              \* bound: places for requests in flight
    MaxTimers           \* bound: close timers running

None == "none"

ASSUME RevealConstants ==
    /\ ClaimedIn \subseteq Entities \X Cases /\ Authorized \subseteq Users \X Cases
    /\ None \notin Entities \cup Cases \cup Users
    /\ MaxTimers \in Nat

\* What the client keeps of an approved reveal.  orphan: history, its dialog was
\* closed before the answer came.
Result == [entity : Entities, by : Users, expired : BOOLEAN, orphan : BOOLEAN]
NoResult == [entity |-> None]

\* by: whose token it carries; why: the entity the reason was written for; state:
\* what the server did so far.
Request == [entity : Entities, case : Cases, by : Users \cup {None}, why : Entities,
            state : {"sent", "approved", "refused"}, orphan : BOOLEAN]
NoRequest == [entity |-> None]

\* A refusal of the case (ACCESS_DENIED) names neither the entity nor the reason.
AuditRow == [entity : Entities \cup {None}, case : Cases, by : Users,
             why : Entities \cup {None}, outcome : {"OK", "DENIED"}]

VARIABLES
    user,               \* who is signed in, by the auth store of this tab
    token,              \* localStorage, shared with the other tabs: whose token
    holders,            \* history: the accounts it was of since this tab's user signed in
    caseId,             \* of the graph store
    activeReveals, isModalOpen, modalTarget, isSubmitting, submissionError, lastResult,
    timers,             \* close timers that still have to run
    justification,      \* the entity the text in the form was written for
    certified,          \* the box in the form is ticked
    requests,
    audit

store == <<activeReveals, isModalOpen, modalTarget, isSubmitting, submissionError, lastResult>>
form == <<justification, certified>>
session == <<user, token, holders, caseId>>
vars == <<session, store, timers, form, requests, audit>>

Init ==
    /\ user = None /\ token = None /\ holders = {} /\ caseId = None
    /\ activeReveals = [e \in Entities |-> NoResult]
    /\ isModalOpen = FALSE /\ modalTarget = None
    /\ isSubmitting = FALSE /\ submissionError = FALSE /\ lastResult = NoResult
    /\ timers = 0
    /\ justification = None /\ certified = FALSE
    /\ requests = [i \in Slots |-> NoRequest]
    /\ audit = {}

-----------------------------------------------------------------------------
\* RevealIdentityModal renders its content for an open dialog with a target.
Shown == isModalOpen /\ modalTarget # None

\* Faulty variant: what was typed stays in the store.
Unmounted_KeepForm ==
    /\ UNCHANGED form
    /\ requests' = [i \in Slots |->
           IF requests[i] = NoRequest THEN NoRequest ELSE [requests[i] EXCEPT !.orphan = TRUE]]

\* The content unmounts, and the form with it; its requests go on without it.
Unmounted ==
    /\ justification' = None /\ certified' = FALSE
    /\ requests' = [i \in Slots |->
           IF requests[i] = NoRequest THEN NoRequest ELSE [requests[i] EXCEPT !.orphan = TRUE]]

isRevealed(e) == activeReveals[e] # NoResult /\ ~activeReveals[e].expired

\* Faulty variant: the result of the reveal before is not cleared.
openRevealModal_KeepResult(e) ==
    /\ user # None /\ ~Shown /\ ~isRevealed(e)
    /\ isModalOpen' = TRUE
    /\ modalTarget' = e
    /\ submissionError' = FALSE
    /\ UNCHANGED <<session, activeReveals, isSubmitting, lastResult, timers, form, requests, audit>>

\* "Reveal identity" in the drawer of an entity that is masked.  While the dialog
\* is on the screen it covers the drawer.
openRevealModal(e) ==
    /\ user # None /\ ~Shown /\ ~isRevealed(e)
    /\ isModalOpen' = TRUE
    /\ modalTarget' = e
    /\ submissionError' = FALSE
    /\ lastResult' = NoResult
    /\ UNCHANGED <<session, activeReveals, isSubmitting, timers, form, requests, audit>>

\* Cancel (not while submitting), Escape, the cross, or a click beside the dialog.
closeRevealModal ==
    /\ Shown
    /\ timers < MaxTimers
    /\ isModalOpen' = FALSE
    /\ timers' = timers + 1
    /\ Unmounted
    /\ UNCHANGED <<session, activeReveals, modalTarget, isSubmitting, submissionError, lastResult, audit>>

\* The callback of closeRevealModal, also when the dialog is open again by now:
\* then it vanishes, with isModalOpen still set.
CloseTimerFires ==
    /\ timers > 0
    /\ timers' = timers - 1
    /\ modalTarget' = None /\ isSubmitting' = FALSE /\ submissionError' = FALSE
    /\ Unmounted
    /\ UNCHANGED <<session, activeReveals, isModalOpen, lastResult, audit>>

-----------------------------------------------------------------------------
(* The form.                                                               *)

Approved == lastResult # NoResult

\* 15 characters or more, typed or taken from a preset; or less again.
SetJustification(text) ==
    /\ Shown /\ ~Approved
    /\ text \in {modalTarget, None}
    /\ justification' = text
    /\ UNCHANGED <<session, store, timers, certified, requests, audit>>

SetCertified(tick) ==
    /\ Shown /\ ~Approved
    /\ certified' = tick
    /\ UNCHANGED <<session, store, timers, justification, requests, audit>>

\* handleSubmit and submitRevealRequest up to the await.
handleSubmit(i) ==
    /\ Shown /\ ~Approved /\ ~isSubmitting
    /\ justification # None /\ certified
    /\ requests[i] = NoRequest
    /\ IF caseId = None
       THEN submissionError' = TRUE /\ UNCHANGED <<isSubmitting, requests>>    \* "No active case loaded"
       ELSE /\ isSubmitting' = TRUE /\ submissionError' = FALSE
            /\ requests' = [requests EXCEPT ![i] =
                  [entity |-> modalTarget, case |-> caseId, by |-> token, why |-> justification,
                   state |-> "sent", orphan |-> FALSE]]
    /\ UNCHANGED <<session, activeReveals, isModalOpen, modalTarget, lastResult, timers, form, audit>>

-----------------------------------------------------------------------------
(* The request.                                                            *)

Pending(i) == requests[i] # NoRequest

Granted(r) ==
    /\ <<r.by, r.case>> \in Authorized /\ r.by \in Officers
    /\ <<r.entity, r.case>> \in ClaimedIn

\* The rows the server commits: none without an account, for current_user() has
\* refused the request before; one that names the case alone if that is refused.
RowsOf(r) ==
    IF r.by = None THEN {}
    ELSE IF <<r.by, r.case>> \notin Authorized
    THEN {[entity |-> None, case |-> r.case, by |-> r.by, why |-> None, outcome |-> "DENIED"]}
    ELSE {[entity |-> r.entity, case |-> r.case, by |-> r.by, why |-> r.why,
           outcome |-> IF Granted(r) THEN "OK" ELSE "DENIED"]}

\* Faulty variant: the audit row is left to a later transaction.
reveal_NoAudit(i) ==
    /\ Pending(i) /\ requests[i].state = "sent"
    /\ requests' = [requests EXCEPT ![i].state = IF Granted(requests[i]) THEN "approved" ELSE "refused"]
    /\ UNCHANGED <<session, store, timers, form, audit>>

\* The handler on the server: the row of the audit log is committed before it
\* answers.  No entity is ever deleted, so none the drawer shows is unknown to it.
reveal(i) ==
    /\ Pending(i) /\ requests[i].state = "sent"
    /\ requests' = [requests EXCEPT ![i].state = IF Granted(requests[i]) THEN "approved" ELSE "refused"]
    /\ audit' = audit \cup RowsOf(requests[i])
    /\ UNCHANGED <<session, store, timers, form>>

\* An approval: filed under the target the request was made for, shown in
\* whatever dialog is open.
RevealArrives(i) ==
    /\ Pending(i) /\ requests[i].state = "approved"
    /\ LET r == requests[i]
           result == [entity |-> r.entity, by |-> r.by, expired |-> FALSE, orphan |-> r.orphan]
       IN /\ activeReveals' = [activeReveals EXCEPT ![r.entity] = result]
          /\ lastResult' = result
    /\ isSubmitting' = FALSE
    /\ requests' = [requests EXCEPT ![i] = NoRequest]
    /\ UNCHANGED <<session, isModalOpen, modalTarget, submissionError, timers, form, audit>>

\* The server refused, or the connection failed before or after it decided.
RevealFails(i) ==
    /\ Pending(i)
    /\ submissionError' = TRUE /\ isSubmitting' = FALSE
    /\ requests' = [requests EXCEPT ![i] = NoRequest]
    /\ UNCHANGED <<session, activeReveals, isModalOpen, modalTarget, lastResult, timers, form, audit>>

-----------------------------------------------------------------------------
\* "Hide value again": remask() the target of the dialog, then close it.
handleRevoke ==
    /\ Shown /\ Approved
    /\ timers < MaxTimers
    /\ activeReveals' = [activeReveals EXCEPT ![modalTarget] = NoResult]
    /\ lastResult' = NoResult
    /\ isModalOpen' = FALSE
    /\ timers' = timers + 1
    /\ Unmounted
    /\ UNCHANGED <<session, modalTarget, isSubmitting, submissionError, audit>>

\* Five minutes after the answer.
Expire(e) ==
    /\ isRevealed(e)
    /\ activeReveals' = [activeReveals EXCEPT ![e].expired = TRUE]
    /\ UNCHANGED <<session, isModalOpen, modalTarget, isSubmitting, submissionError, lastResult,
                   timers, form, requests, audit>>

\* loadGraph() of the page below, also of one the user has left.
CaseLoaded(c) ==
    /\ user # None
    /\ caseId' = c
    /\ UNCHANGED <<user, token, holders, store, timers, form, requests, audit>>

-----------------------------------------------------------------------------
(* Who is signed in.                                                       *)

\* A page load: nothing in memory is left.
PageLoaded ==
    /\ caseId' = None
    /\ activeReveals' = [e \in Entities |-> NoResult]
    /\ isModalOpen' = FALSE /\ modalTarget' = None
    /\ isSubmitting' = FALSE /\ submissionError' = FALSE /\ lastResult' = NoResult
    /\ timers' = 0
    /\ justification' = None /\ certified' = FALSE
    /\ requests' = [i \in Slots |-> NoRequest]

SignIn(u) ==
    /\ user = None
    /\ user' = u /\ token' = u /\ holders' = {u}
    /\ UNCHANGED <<caseId, store, timers, form, requests, audit>>

\* The page is opened or loaded anew while storage has a token: restoreSession().
Open ==
    /\ token # None
    /\ user' = token /\ holders' = {token}
    /\ PageLoaded
    /\ UNCHANGED <<token, audit>>

\* Faulty variant: the session is cleared, the page is not loaded anew.
SignOut_NoReload ==
    /\ user # None
    /\ user' = None /\ token' = None /\ holders' = {}
    /\ UNCHANGED <<caseId, store, timers, form, requests, audit>>

\* logout(), or a 401 to a request that carried a token: storage is cleared and
\* the page loaded anew.
SignOut ==
    /\ user # None
    /\ user' = None /\ token' = None /\ holders' = {}
    /\ PageLoaded
    /\ UNCHANGED audit

\* Another tab signs out or in: this one listens to no storage event, so it keeps
\* its user, and what it holds, and sends its next request as the new one.
OtherTab(u) ==
    /\ u # token
    /\ token' = u
    /\ holders' = IF user = None THEN {} ELSE holders \cup ({u} \ {None})
    /\ UNCHANGED <<user, caseId, store, timers, form, requests, audit>>

Next ==
    \/ \E u \in Users : SignIn(u)
    \/ SignOut
    \/ Open
    \/ \E u \in Users \cup {None} : OtherTab(u)
    \/ \E c \in Cases : CaseLoaded(c)
    \/ \E e \in Entities : openRevealModal(e)
    \/ closeRevealModal
    \/ CloseTimerFires
    \/ \E text \in Entities \cup {None} : SetJustification(text)
    \/ \E tick \in BOOLEAN : SetCertified(tick)
    \/ \E i \in Slots : handleSubmit(i)
    \/ \E i \in Slots : reveal(i)
    \/ \E i \in Slots : RevealArrives(i)
    \/ \E i \in Slots : RevealFails(i)
    \/ handleRevoke
    \/ \E e \in Entities : Expire(e)

Spec == Init /\ [][Next]_vars

-----------------------------------------------------------------------------
(* Type invariant.                                                         *)
TypeOK ==
    /\ user \in Users \cup {None} /\ token \in Users \cup {None} /\ holders \subseteq Users
    /\ caseId \in Cases \cup {None}
    /\ activeReveals \in [Entities -> Result \cup {NoResult}]
    /\ isModalOpen \in BOOLEAN
    /\ modalTarget \in Entities \cup {None}
    /\ isSubmitting \in BOOLEAN /\ submissionError \in BOOLEAN
    /\ lastResult \in Result \cup {NoResult}
    /\ timers \in Nat
    /\ justification \in Entities \cup {None}
    /\ certified \in BOOLEAN
    /\ requests \in [Slots -> Request \cup {NoRequest}]
    /\ audit \subseteq AuditRow

\* The plaintext a field shows is the one of its own entity: an answer is filed
\* under the target its request was made for, whichever dialog is open when it
\* comes in (revealStore.ts:93).
RevealsAreOfTheirEntity ==
    \A e \in Entities : activeReveals[e] # NoResult => activeReveals[e].entity = e

\* No plaintext without its row in the audit log: whatever this browser holds
\* unmasked, in the fields or in the dialog, the log has as granted to the user
\* it was given to (graph_routes.py:225, reveal-identity-modal.tsx:131).
PlaintextWasAudited ==
    \A r \in {activeReveals[e] : e \in Entities} \cup {lastResult} :
        r # NoResult => \E row \in audit :
            row.entity = r.entity /\ row.by = r.by /\ row.outcome = "OK"

\* "The next user never sees the previous user's case data or reveals" (DEF-061,
\* authStore.ts:150), answers to the previous user's requests included: a tab holds
\* what it asked for with the tokens storage had since its own user signed in.
\* That is the user's own, and another's only once another tab has signed in as
\* somebody else, which no tab hears of (real_client.ts:25).
PlaintextIsOfTheSession ==
    \A r \in {activeReveals[e] : e \in Entities} \cup {lastResult} :
        r # NoResult => r.by \in holders

\* The reason in the log was written for the entity it names: a dialog closed,
\* reopened or torn down by the timer never carries a reason over to another.
ReasonIsForTheEntity ==
    \A row \in audit : row.why = row.entity

\* The dialog shows the plaintext of its own target.  Excepted is the answer to
\* a request whose dialog was closed meanwhile.
DialogShowsItsTarget ==
    Shown /\ lastResult # NoResult => lastResult.entity = modalTarget \/ lastResult.orphan

=============================================================================
