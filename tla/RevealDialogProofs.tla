-------------------------- MODULE RevealDialogProofs --------------------------
(***************************************************************************)
(* Proofs about RevealDialog: what the browser holds unmasked, what the    *)
(* requests in flight carry and what the audit log says agree, and an      *)
(* answer that the dialog hears is of its target, for any number of        *)
(* entities, cases, users and requests.                                    *)
(***************************************************************************)
EXTENDS RevealDialog, TLAPS

\* A log has a granted row for user u and entity e.
InLog(log, e, u) == \E row \in log : row.entity = e /\ row.by = u /\ row.outcome = "OK"

\* A result r the tab may hold, given the accounts hs of its session and the log.
Backed(r, hs, log) == r # NoResult => r.by \in hs /\ InLog(log, r.entity, r.by)

ResultsAreBacked ==
    (\A e \in Entities : Backed(activeReveals[e], holders, audit)) /\ Backed(lastResult, holders, audit)

\* A request r of the tab, given the same.
Sound(r, hs, log) ==
    r # NoRequest =>
        /\ r.by \in hs \cup {None}
        /\ r.why = r.entity
        /\ (r.state = "approved" => r.by \in hs /\ InLog(log, r.entity, r.by))

RequestsAreBacked == \A i \in Slots : Sound(requests[i], holders, audit)

\* Text in the form was written for the target the dialog shows.
FormIsOfTheTarget == justification # None => Shown /\ justification = modalTarget

\* Nobody signed out has the dialog open or a session; the token is of an account
\* of the session.
SessionHasAUser ==
    IF user = None THEN ~isModalOpen /\ holders = {} ELSE token \in holders \cup {None}

\* The invariant: what a request carries when it is sent, up to what is filed
\* and shown when it is answered.
Consistent ==
    /\ TypeOK
    /\ RevealsAreOfTheirEntity
    /\ ResultsAreBacked
    /\ RequestsAreBacked
    /\ FormIsOfTheTarget
    /\ SessionHasAUser
    /\ ReasonIsForTheEntity

LEMMA NoneIsNothing == NoResult \notin Result /\ NoRequest \notin Request
  BY RevealConstants DEF NoResult, NoRequest, Result, Request

\* Rows are only added to the log, and accounts to those of a session.
LEMMA GrantsStay ==
  ASSUME NEW log, NEW more, log \subseteq more, NEW hs, NEW hs2, hs \subseteq hs2
  PROVE  /\ \A r : Backed(r, hs, log) => Backed(r, hs2, more)
         /\ \A r : Sound(r, hs, log) => Sound(r, hs2, more)
  BY DEF InLog, Backed, Sound

LEMMA InitConsistent == Init => Consistent
  <1> SUFFICES ASSUME Init PROVE Consistent
    OBVIOUS
  <1>1. TypeOK
    BY DEF Init, TypeOK
  <1>2. RevealsAreOfTheirEntity /\ ReasonIsForTheEntity
    BY DEF Init, RevealsAreOfTheirEntity, ReasonIsForTheEntity
  <1>3. ResultsAreBacked /\ RequestsAreBacked /\ FormIsOfTheTarget /\ SessionHasAUser
    BY DEF Init, ResultsAreBacked, Backed, RequestsAreBacked, Sound, FormIsOfTheTarget, SessionHasAUser
  <1> QED
    BY <1>1, <1>2, <1>3 DEF Consistent

\* A step that leaves the session, what is held and the log alone only has to
\* keep requests and form in order.
LEMMA HeldStays ==
  ASSUME Consistent, holders \subseteq holders', UNCHANGED <<activeReveals, lastResult>>, audit \subseteq audit'
  PROVE  ResultsAreBacked' /\ RevealsAreOfTheirEntity'
  BY GrantsStay DEF Consistent, ResultsAreBacked, Backed, RevealsAreOfTheirEntity

\* The requests of a dialog that unmounts change only in being orphans.
LEMMA UnmountedKeeps ==
  ASSUME Consistent, Unmounted, UNCHANGED <<holders, audit>>
  PROVE  /\ requests' \in [Slots -> Request \cup {NoRequest}]
         /\ RequestsAreBacked'
         /\ justification' = None /\ certified' = FALSE
  <1>1. \A i \in Slots : requests[i] # NoRequest =>
           /\ requests[i] \in Request
           /\ requests'[i] = [requests[i] EXCEPT !.orphan = TRUE]
           /\ requests'[i] \in Request
    <2> SUFFICES ASSUME NEW i \in Slots, requests[i] # NoRequest
                 PROVE  /\ requests[i] \in Request
                        /\ requests'[i] = [requests[i] EXCEPT !.orphan = TRUE]
                        /\ requests'[i] \in Request
      OBVIOUS
    <2>1. requests[i] \in Request
      BY DEF Consistent, TypeOK
    <2>2. requests'[i] = [requests[i] EXCEPT !.orphan = TRUE]
      BY DEF Unmounted
    <2> QED
      BY <2>1, <2>2 DEF Request
  <1>2. \A i \in Slots : requests[i] = NoRequest => requests'[i] = NoRequest
    BY DEF Unmounted
  <1>3. requests' = [i \in Slots |-> requests'[i]]
    BY DEF Unmounted
  <1>4. requests' \in [Slots -> Request \cup {NoRequest}]
    BY <1>1, <1>2, <1>3
  <1>5. \A i \in Slots : Sound(requests'[i], holders, audit)
    <2> SUFFICES ASSUME NEW i \in Slots, requests[i] # NoRequest
                 PROVE  Sound(requests'[i], holders, audit)
      BY <1>2 DEF Sound
    <2>1. /\ requests'[i].by = requests[i].by
          /\ requests'[i].why = requests[i].why
          /\ requests'[i].entity = requests[i].entity
          /\ requests'[i].state = requests[i].state
      BY <1>1 DEF Request
    <2>2. Sound(requests[i], holders, audit)
      BY DEF Consistent, RequestsAreBacked
    <2> QED
      BY <2>1, <2>2 DEF Sound
  <1>6. RequestsAreBacked'
    BY <1>5 DEF RequestsAreBacked
  <1> QED
    BY <1>4, <1>6 DEF Unmounted

LEMMA RequestStays ==
  ASSUME Consistent, holders \subseteq holders', UNCHANGED <<requests, audit>>
  PROVE  RequestsAreBacked' /\ ReasonIsForTheEntity'
  BY GrantsStay DEF Consistent, RequestsAreBacked, ReasonIsForTheEntity

-----------------------------------------------------------------------------
(* One lemma for each action that touches requests, results or the log.     *)

LEMMA OpenStep ==
  ASSUME Consistent, NEW e \in Entities, openRevealModal(e)
  PROVE  Consistent'
  <1> USE DEF session, store, form
  <1>1. TypeOK'
    BY DEF Consistent, TypeOK, openRevealModal
  <1>2. ResultsAreBacked' /\ RevealsAreOfTheirEntity'
    BY DEF Consistent, openRevealModal, ResultsAreBacked, Backed, RevealsAreOfTheirEntity
  <1>3. RequestsAreBacked' /\ ReasonIsForTheEntity'
    BY RequestStays DEF openRevealModal
  <1>4. FormIsOfTheTarget' /\ SessionHasAUser'
    BY DEF Consistent, openRevealModal, FormIsOfTheTarget, SessionHasAUser
  <1> QED
    BY <1>1, <1>2, <1>3, <1>4 DEF Consistent

LEMMA CloseStep ==
  ASSUME Consistent, closeRevealModal \/ CloseTimerFires \/ handleRevoke
  PROVE  Consistent'
  <1> USE DEF session, store, form
  <1>1. Unmounted /\ UNCHANGED <<session, audit>>
    BY DEF closeRevealModal, CloseTimerFires, handleRevoke
  <1>2. /\ requests' \in [Slots -> Request \cup {NoRequest}]
        /\ RequestsAreBacked'
        /\ justification' = None /\ certified' = FALSE
    BY <1>1, UnmountedKeeps
  <1>3. TypeOK'
    <2>1. timers' \in Nat
      BY DEF Consistent, TypeOK, closeRevealModal, CloseTimerFires, handleRevoke
    <2>2. activeReveals' \in [Entities -> Result \cup {NoResult}] /\ lastResult' \in Result \cup {NoResult}
      BY DEF Consistent, TypeOK, closeRevealModal, CloseTimerFires, handleRevoke
    <2> QED
      BY <1>1, <1>2, <2>1, <2>2 DEF Consistent, TypeOK, closeRevealModal, CloseTimerFires, handleRevoke
  <1>4. ResultsAreBacked' /\ RevealsAreOfTheirEntity'
    <2>1. CASE closeRevealModal \/ CloseTimerFires
      BY <2>1, HeldStays DEF closeRevealModal, CloseTimerFires
    <2>2. CASE handleRevoke
      <3>1. \A e \in Entities : activeReveals'[e] \in {activeReveals[e], NoResult}
        BY <2>2 DEF handleRevoke, Consistent, TypeOK
      <3>2. lastResult' = NoResult
        BY <2>2 DEF handleRevoke
      <3> QED
        BY <1>1, <3>1, <3>2 DEF Consistent, ResultsAreBacked, Backed, RevealsAreOfTheirEntity
    <2> QED
      BY <2>1, <2>2
  <1>5. FormIsOfTheTarget' /\ ReasonIsForTheEntity' /\ SessionHasAUser'
    BY <1>1, <1>2 DEF Consistent, FormIsOfTheTarget, ReasonIsForTheEntity, SessionHasAUser,
                      closeRevealModal, CloseTimerFires, handleRevoke
  <1> QED
    BY <1>2, <1>3, <1>4, <1>5 DEF Consistent

LEMMA FormStep ==
  ASSUME Consistent,
         (\E text \in Entities \cup {None} : SetJustification(text))
            \/ (\E tick \in BOOLEAN : SetCertified(tick))
  PROVE  Consistent'
  <1> USE DEF session, store
  <1>1. TypeOK'
    BY DEF Consistent, TypeOK, SetJustification, SetCertified
  <1>2. ResultsAreBacked' /\ RevealsAreOfTheirEntity'
    BY HeldStays DEF SetJustification, SetCertified
  <1>3. RequestsAreBacked' /\ ReasonIsForTheEntity'
    BY RequestStays DEF SetJustification, SetCertified
  <1>4. FormIsOfTheTarget' /\ SessionHasAUser'
    BY DEF Consistent, SetJustification, SetCertified, FormIsOfTheTarget, Shown, SessionHasAUser
  <1> QED
    BY <1>1, <1>2, <1>3, <1>4 DEF Consistent

LEMMA SubmitStep ==
  ASSUME Consistent, NEW i \in Slots, handleSubmit(i)
  PROVE  Consistent'
  <1> USE DEF session, form
  <1> DEFINE q == [entity |-> modalTarget, case |-> caseId, by |-> token, why |-> justification,
                   state |-> "sent", orphan |-> FALSE]
  <1>1. CASE caseId = None
    <2>1. UNCHANGED <<session, activeReveals, isModalOpen, modalTarget, lastResult, timers, form, audit,
                      isSubmitting, requests>> /\ submissionError' = TRUE
      BY <1>1 DEF handleSubmit
    <2>2. TypeOK'
      BY <2>1 DEF Consistent, TypeOK
    <2> QED
      BY <2>1, <2>2, HeldStays, RequestStays
      DEF Consistent, FormIsOfTheTarget, Shown, SessionHasAUser
  <1>2. CASE caseId # None
    <2>1. /\ requests' = [requests EXCEPT ![i] = q]
          /\ UNCHANGED <<session, activeReveals, isModalOpen, modalTarget, lastResult, timers, form, audit>>
          /\ isSubmitting' = TRUE /\ submissionError' = FALSE
      BY <1>2 DEF handleSubmit
    <2>2. justification = modalTarget /\ modalTarget \in Entities
      BY DEF handleSubmit, Consistent, FormIsOfTheTarget, Shown, TypeOK
    <2>3. token \in holders \cup {None}
      BY DEF handleSubmit, Shown, Consistent, SessionHasAUser
    <2>4. q \in Request
      BY <1>2, <2>2, <2>3 DEF Request, Consistent, TypeOK
    <2>5. Sound(q, holders, audit)
      BY <2>2, <2>3 DEF Sound
    <2> HIDE DEF q
    <2>6. TypeOK'
      BY <2>1, <2>4 DEF Consistent, TypeOK
    <2>7. \A j \in Slots : requests'[j] \in {requests[j], q}
      BY <2>1 DEF Consistent, TypeOK
    <2>9. RequestsAreBacked'
      BY <2>1, <2>5, <2>7 DEF Consistent, RequestsAreBacked
    <2>8. FormIsOfTheTarget' /\ SessionHasAUser' /\ ReasonIsForTheEntity'
      BY <2>1 DEF Consistent, FormIsOfTheTarget, Shown, SessionHasAUser, ReasonIsForTheEntity
    <2> QED
      BY <2>1, <2>6, <2>8, <2>9, HeldStays DEF Consistent
  <1> QED
    BY <1>1, <1>2

\* The rows of a sound request: a grant is on record, and a reason is of its entity.
LEMMA RowsAreSound ==
  ASSUME NEW r \in Request, r.why = r.entity, NEW log \in SUBSET AuditRow
  PROVE  /\ RowsOf(r) \subseteq AuditRow
         /\ \A row \in RowsOf(r) : row.why = row.entity
         /\ Granted(r) => r.by # None /\ InLog(log \cup RowsOf(r), r.entity, r.by)
  <1>1. \A row \in RowsOf(r) : row \in AuditRow /\ row.why = row.entity
    BY DEF RowsOf, AuditRow, Request
  <1>2. ASSUME Granted(r)
        PROVE  r.by # None /\ InLog(log \cup RowsOf(r), r.entity, r.by)
    <2>1. r.by # None /\ <<r.by, r.case>> \in Authorized
      BY <1>2, RevealConstants DEF Granted
    <2> DEFINE row == [entity |-> r.entity, case |-> r.case, by |-> r.by, why |-> r.why, outcome |-> "OK"]
    <2>2. row \in RowsOf(r)
      BY <1>2, <2>1 DEF RowsOf
    <2> QED
      BY <2>1, <2>2 DEF InLog
  <1> QED
    BY <1>1, <1>2

LEMMA RevealStep ==
  ASSUME Consistent, NEW i \in Slots, reveal(i)
  PROVE  Consistent'
  <1> USE DEF session, store, form
  <1> DEFINE r == requests[i]
             s == IF Granted(r) THEN "approved" ELSE "refused"
             q == [r EXCEPT !.state = s]
  <1>1. /\ requests' = [requests EXCEPT ![i].state = s]
        /\ audit' = audit \cup RowsOf(r)
        /\ UNCHANGED <<session, store, timers, form>>
        /\ r # NoRequest
    BY DEF reveal, Pending
  <1>2. r \in Request /\ audit \in SUBSET AuditRow
    BY <1>1 DEF Consistent, TypeOK
  <1>3. r.why = r.entity /\ r.by \in holders \cup {None}
    BY <1>1 DEF Consistent, RequestsAreBacked, Sound
  <1>4. /\ RowsOf(r) \subseteq AuditRow
        /\ \A row \in RowsOf(r) : row.why = row.entity
        /\ s = "approved" => r.by \in holders /\ InLog(audit', r.entity, r.by)
    <2>1. /\ RowsOf(r) \subseteq AuditRow
          /\ \A row \in RowsOf(r) : row.why = row.entity
          /\ Granted(r) => r.by # None /\ InLog(audit \cup RowsOf(r), r.entity, r.by)
      BY <1>2, <1>3, RowsAreSound
    <2>2. s = "approved" => Granted(r)
      OBVIOUS
    <2> QED
      BY <1>1, <1>3, <2>1, <2>2
  <1>5. q \in Request /\ q.by = r.by /\ q.why = r.why /\ q.entity = r.entity /\ q.state = s
    BY <1>2 DEF Request
  <1>6. requests' = [requests EXCEPT ![i] = q]
    BY <1>1 DEF Consistent, TypeOK
  <1> HIDE DEF q, s
  <1>7. Sound(q, holders, audit')
    BY <1>3, <1>4, <1>5 DEF Sound
  <1>8. TypeOK'
    BY <1>1, <1>4, <1>5, <1>6 DEF Consistent, TypeOK
  <1>9. RequestsAreBacked'
    <2>1. \A j \in Slots : requests'[j] \in {requests[j], q}
      BY <1>6 DEF Consistent, TypeOK
    <2>2. \A j \in Slots : Sound(requests[j], holders, audit')
      BY <1>1, GrantsStay DEF Consistent, RequestsAreBacked
    <2> QED
      BY <1>1, <1>7, <2>1, <2>2 DEF RequestsAreBacked
  <1>10. FormIsOfTheTarget' /\ SessionHasAUser' /\ ReasonIsForTheEntity'
    BY <1>1, <1>4 DEF Consistent, FormIsOfTheTarget, Shown, SessionHasAUser, ReasonIsForTheEntity
  <1>11. ResultsAreBacked' /\ RevealsAreOfTheirEntity'
    BY <1>1, HeldStays
  <1> QED
    BY <1>8, <1>9, <1>10, <1>11 DEF Consistent

\* A request leaves its slot: nothing is left of it that would need a backing.
LEMMA SlotFreed ==
  ASSUME Consistent, NEW i \in Slots, requests' = [requests EXCEPT ![i] = NoRequest],
         UNCHANGED <<holders, audit>>
  PROVE  requests' \in [Slots -> Request \cup {NoRequest}] /\ RequestsAreBacked'
  <1>1. \A j \in Slots : requests'[j] \in {requests[j], NoRequest}
    BY DEF Consistent, TypeOK
  <1>2. RequestsAreBacked'
    BY <1>1 DEF Consistent, RequestsAreBacked, Sound
  <1> QED
    BY <1>2 DEF Consistent, TypeOK

LEMMA ArrivesStep ==
  ASSUME Consistent, NEW i \in Slots, RevealArrives(i)
  PROVE  Consistent'
  <1> USE DEF session, form
  <1> DEFINE r == requests[i]
             result == [entity |-> r.entity, by |-> r.by, expired |-> FALSE, orphan |-> r.orphan]
  <1>1. /\ activeReveals' = [activeReveals EXCEPT ![r.entity] = result]
        /\ lastResult' = result
        /\ requests' = [requests EXCEPT ![i] = NoRequest]
        /\ isSubmitting' = FALSE
        /\ UNCHANGED <<session, isModalOpen, modalTarget, submissionError, timers, form, audit>>
        /\ r # NoRequest /\ r.state = "approved"
    BY DEF RevealArrives, Pending
  <1>2. r \in Request
    BY <1>1 DEF Consistent, TypeOK
  <1>3. r.by \in holders /\ r.by \in Users /\ InLog(audit, r.entity, r.by)
    BY <1>1 DEF Consistent, TypeOK, RequestsAreBacked, Sound
  <1>12. result \in Result /\ result.entity = r.entity /\ result.by = r.by
    BY <1>2, <1>3 DEF Request, Result
  <1>4. Backed(result, holders, audit)
    BY <1>3, <1>12 DEF Backed
  <1>5. r.entity \in Entities
    BY <1>2 DEF Request
  <1> HIDE DEF result
  <1>6. requests' \in [Slots -> Request \cup {NoRequest}] /\ RequestsAreBacked'
    BY <1>1, SlotFreed
  <1>7. TypeOK'
    BY <1>1, <1>6, <1>12 DEF Consistent, TypeOK
  <1>8. \A e \in Entities :
           activeReveals'[e] = activeReveals[e] \/ (e = r.entity /\ activeReveals'[e] = result)
    BY <1>1 DEF Consistent, TypeOK
  <1>9. ResultsAreBacked'
    BY <1>1, <1>4, <1>8 DEF Consistent, ResultsAreBacked, Backed
  <1>10. RevealsAreOfTheirEntity'
    BY <1>8, <1>12 DEF Consistent, RevealsAreOfTheirEntity
  <1>11. FormIsOfTheTarget' /\ SessionHasAUser' /\ ReasonIsForTheEntity'
    BY <1>1 DEF Consistent, FormIsOfTheTarget, Shown, SessionHasAUser, ReasonIsForTheEntity
  <1> QED
    BY <1>6, <1>7, <1>9, <1>10, <1>11 DEF Consistent

LEMMA FailsStep ==
  ASSUME Consistent, NEW i \in Slots, RevealFails(i)
  PROVE  Consistent'
  <1> USE DEF session, form
  <1>1. /\ requests' = [requests EXCEPT ![i] = NoRequest]
        /\ submissionError' = TRUE /\ isSubmitting' = FALSE
        /\ UNCHANGED <<session, activeReveals, isModalOpen, modalTarget, lastResult, timers, form, audit>>
    BY DEF RevealFails
  <1>2. requests' \in [Slots -> Request \cup {NoRequest}] /\ RequestsAreBacked'
    BY <1>1, SlotFreed
  <1>3. TypeOK'
    BY <1>1, <1>2 DEF Consistent, TypeOK
  <1>4. FormIsOfTheTarget' /\ SessionHasAUser' /\ ReasonIsForTheEntity'
    BY <1>1 DEF Consistent, FormIsOfTheTarget, Shown, SessionHasAUser, ReasonIsForTheEntity
  <1> QED
    BY <1>1, <1>2, <1>3, <1>4, HeldStays DEF Consistent

LEMMA ExpireStep ==
  ASSUME Consistent, NEW e \in Entities, Expire(e)
  PROVE  Consistent'
  <1> USE DEF session, form
  <1> DEFINE r == [activeReveals[e] EXCEPT !.expired = TRUE]
  <1>1. /\ activeReveals' = [activeReveals EXCEPT ![e].expired = TRUE]
        /\ UNCHANGED <<session, isModalOpen, modalTarget, isSubmitting, submissionError, lastResult,
                       timers, form, requests, audit>>
        /\ activeReveals[e] # NoResult
    BY DEF Expire, isRevealed
  <1>2. activeReveals[e] \in Result
    BY <1>1 DEF Consistent, TypeOK
  <1>3. r \in Result /\ r.entity = activeReveals[e].entity /\ r.by = activeReveals[e].by
    BY <1>2 DEF Result
  <1>4. activeReveals' = [activeReveals EXCEPT ![e] = r]
    BY <1>1 DEF Consistent, TypeOK
  <1> HIDE DEF r
  <1>5. TypeOK'
    BY <1>1, <1>3, <1>4 DEF Consistent, TypeOK
  <1>6. \A f \in Entities : activeReveals'[f] = activeReveals[f] \/ (f = e /\ activeReveals'[f] = r)
    BY <1>4 DEF Consistent, TypeOK
  <1>7. ResultsAreBacked'
    BY <1>1, <1>3, <1>6 DEF Consistent, ResultsAreBacked, Backed
  <1>8. RevealsAreOfTheirEntity'
    BY <1>1, <1>3, <1>6 DEF Consistent, RevealsAreOfTheirEntity
  <1>9. FormIsOfTheTarget' /\ SessionHasAUser'
    BY <1>1 DEF Consistent, FormIsOfTheTarget, Shown, SessionHasAUser
  <1> QED
    BY <1>1, <1>5, <1>7, <1>8, <1>9, RequestStays DEF Consistent

\* Nobody is signed in: nothing is held.
LEMMA SignInStep ==
  ASSUME Consistent, NEW u \in Users, SignIn(u)
  PROVE  Consistent'
  <1> USE DEF store, form
  <1>1. /\ user = None /\ user' = u /\ token' = u /\ holders' = {u}
        /\ UNCHANGED <<caseId, store, timers, form, requests, audit>>
    BY DEF SignIn
  <1>2. holders \subseteq holders' /\ ~isModalOpen
    BY <1>1 DEF Consistent, SessionHasAUser
  <1>3. TypeOK'
    BY <1>1 DEF Consistent, TypeOK
  <1>4. FormIsOfTheTarget' /\ SessionHasAUser'
    BY <1>1, <1>2, RevealConstants DEF Consistent, FormIsOfTheTarget, Shown, SessionHasAUser
  <1> QED
    BY <1>1, <1>2, <1>3, <1>4, HeldStays, RequestStays DEF Consistent

\* After a page load nothing needs a backing.
LEMMA LoadStep ==
  ASSUME Consistent, PageLoaded, audit' = audit,
         user' \in Users \cup {None}, token' = user', holders' = {user'} \ {None}
  PROVE  Consistent'
  <1>1. TypeOK'
    BY DEF Consistent, TypeOK, PageLoaded
  <1>2. ResultsAreBacked' /\ RequestsAreBacked' /\ RevealsAreOfTheirEntity'
    BY DEF PageLoaded, ResultsAreBacked, Backed, RequestsAreBacked, Sound, RevealsAreOfTheirEntity
  <1>3. FormIsOfTheTarget' /\ SessionHasAUser' /\ ReasonIsForTheEntity'
    BY DEF Consistent, PageLoaded, FormIsOfTheTarget, SessionHasAUser, ReasonIsForTheEntity
  <1> QED
    BY <1>1, <1>2, <1>3 DEF Consistent

LEMMA OtherTabStep ==
  ASSUME Consistent, NEW u \in Users \cup {None}, OtherTab(u)
  PROVE  Consistent'
  <1> USE DEF store, form
  <1>1. /\ token' = u
        /\ holders' = IF user = None THEN {} ELSE holders \cup ({u} \ {None})
        /\ UNCHANGED <<user, caseId, store, timers, form, requests, audit>>
    BY DEF OtherTab
  <1>2. holders \subseteq holders'
    BY <1>1 DEF Consistent, SessionHasAUser
  <1>3. TypeOK'
    BY <1>1 DEF Consistent, TypeOK
  <1>4. FormIsOfTheTarget' /\ SessionHasAUser'
    BY <1>1 DEF Consistent, FormIsOfTheTarget, Shown, SessionHasAUser
  <1> QED
    BY <1>1, <1>2, <1>3, <1>4, HeldStays, RequestStays DEF Consistent

LEMMA CaseLoadedStep ==
  ASSUME Consistent, NEW c \in Cases, CaseLoaded(c)
  PROVE  Consistent'
  <1> USE DEF store, form
  <1>1. TypeOK'
    BY DEF Consistent, TypeOK, CaseLoaded
  <1>2. FormIsOfTheTarget' /\ SessionHasAUser'
    BY DEF Consistent, CaseLoaded, FormIsOfTheTarget, Shown, SessionHasAUser
  <1> QED
    BY <1>1, <1>2, HeldStays, RequestStays DEF Consistent, CaseLoaded

-----------------------------------------------------------------------------
LEMMA StepConsistent == Consistent /\ [Next]_vars => Consistent'
  <1> SUFFICES ASSUME Consistent, [Next]_vars PROVE Consistent'
    OBVIOUS
  <1>1. CASE UNCHANGED vars
    <2>1. UNCHANGED <<session, store, timers, form, requests, audit>>
      BY <1>1 DEF vars
    <2> QED
      BY <2>1, HeldStays, RequestStays
      DEF Consistent, TypeOK, FormIsOfTheTarget, Shown, SessionHasAUser, session, store, form
  <1>2. CASE \E u \in Users : SignIn(u)
    BY <1>2, SignInStep
  <1>3. CASE SignOut \/ Open
    BY <1>3, LoadStep DEF Consistent, TypeOK, SignOut, Open
  <1>13. CASE \E u \in Users \cup {None} : OtherTab(u)
    BY <1>13, OtherTabStep
  <1>4. CASE \E c \in Cases : CaseLoaded(c)
    BY <1>4, CaseLoadedStep
  <1>5. CASE \E e \in Entities : openRevealModal(e)
    BY <1>5, OpenStep
  <1>6. CASE closeRevealModal \/ CloseTimerFires \/ handleRevoke
    BY <1>6, CloseStep
  <1>7. CASE (\E text \in Entities \cup {None} : SetJustification(text))
               \/ (\E tick \in BOOLEAN : SetCertified(tick))
    BY <1>7, FormStep
  <1>8. CASE \E i \in Slots : handleSubmit(i)
    BY <1>8, SubmitStep
  <1>9. CASE \E i \in Slots : reveal(i)
    BY <1>9, RevealStep
  <1>10. CASE \E i \in Slots : RevealArrives(i)
    BY <1>10, ArrivesStep
  <1>11. CASE \E i \in Slots : RevealFails(i)
    BY <1>11, FailsStep
  <1>12. CASE \E e \in Entities : Expire(e)
    BY <1>12, ExpireStep
  <1> QED
    BY <1>1, <1>2, <1>3, <1>4, <1>5, <1>6, <1>7, <1>8, <1>9, <1>10, <1>11, <1>12, <1>13 DEF Next

\* Types, the requests under way and what the dialog, its form and its results
\* stand for hold together in every reachable state: the inductive invariant.
THEOREM AlwaysConsistent == Spec => []Consistent
  BY InitConsistent, StepConsistent, PTL DEF Spec

\* Types of the stores, the form, the requests and the log, for all constants.
THEOREM RevealTypeCorrect == Spec => []TypeOK
  <1>1. Consistent => TypeOK
    BY DEF Consistent
  <1> QED
    BY <1>1, AlwaysConsistent, PTL

\* Whatever dialog is open when an answer comes in, the plaintext is filed under
\* its own entity (revealStore.ts:91-103).
THEOREM RevealsFiledRight == Spec => []RevealsAreOfTheirEntity
  <1>1. Consistent => RevealsAreOfTheirEntity
    BY DEF Consistent
  <1> QED
    BY <1>1, AlwaysConsistent, PTL

\* No plaintext in the browser without its granted row in the audit log
\* (graph_routes.py:225).
THEOREM PlaintextAudited == Spec => []PlaintextWasAudited
  <1>1. Consistent => PlaintextWasAudited
    BY DEF Consistent, ResultsAreBacked, Backed, InLog, PlaintextWasAudited
  <1> QED
    BY <1>1, AlwaysConsistent, PTL

\* No user sees the reveals of the one before (DEF-061, authStore.ts:150): a tab
\* holds only what it asked for with a token of its session, whatever the other tabs
\* do to the token meanwhile.
THEOREM PlaintextOfTheSession == Spec => []PlaintextIsOfTheSession
  <1>1. Consistent => PlaintextIsOfTheSession
    BY DEF Consistent, ResultsAreBacked, Backed, PlaintextIsOfTheSession
  <1> QED
    BY <1>1, AlwaysConsistent, PTL

\* The log names a reason that was written for the entity of its row.
THEOREM ReasonsForTheEntity == Spec => []ReasonIsForTheEntity
  <1>1. Consistent => ReasonIsForTheEntity
    BY DEF Consistent
  <1> QED
    BY <1>1, AlwaysConsistent, PTL

-----------------------------------------------------------------------------
(* The dialog and its answers.  A request whose dialog has not been closed   *)
(* since it was sent is of the target on the screen, so its answer is too.   *)

RequestsOfTheDialog ==
    \A i \in Slots : Pending(i) /\ ~requests[i].orphan => Shown /\ requests[i].entity = modalTarget

Answering == TypeOK /\ RequestsOfTheDialog /\ DialogShowsItsTarget

\* When the content unmounts no request is left that it would hear.
LEMMA UnmountedOrphans ==
  ASSUME TypeOK, Unmounted
  PROVE  RequestsOfTheDialog'
  <1>1. \A i \in Slots : requests[i] \in Request \cup {NoRequest}
    BY DEF TypeOK
  <1>2. \A i \in Slots : requests[i] \in Request => [requests[i] EXCEPT !.orphan = TRUE].orphan
    BY DEF Request
  <1>3. \A i \in Slots : requests'[i] # NoRequest => requests'[i].orphan
    BY <1>1, <1>2 DEF Unmounted
  <1> QED
    BY <1>3 DEF RequestsOfTheDialog, Pending

LEMMA ArrivalAnswers ==
  ASSUME Answering, NEW i \in Slots, RevealArrives(i)
  PROVE  RequestsOfTheDialog' /\ DialogShowsItsTarget'
  <1> DEFINE r == requests[i]
             result == [entity |-> r.entity, by |-> r.by, expired |-> FALSE, orphan |-> r.orphan]
  <1>1. /\ lastResult' = result /\ requests' = [requests EXCEPT ![i] = NoRequest]
        /\ UNCHANGED <<isModalOpen, modalTarget>> /\ Pending(i)
    BY DEF RevealArrives
  <1>2. r.orphan \in BOOLEAN
    BY <1>1 DEF Answering, TypeOK, Request, Pending
  <1>3. result.entity = r.entity /\ result.orphan = r.orphan
    OBVIOUS
  <1> HIDE DEF result
  <1>4. r.orphan \/ r.entity = modalTarget
    BY <1>1, <1>2 DEF Answering, RequestsOfTheDialog
  <1>5. \A j \in Slots : requests'[j] = IF j = i THEN NoRequest ELSE requests[j]
    BY <1>1 DEF Answering, TypeOK
  <1>6. RequestsOfTheDialog'
    BY <1>1, <1>5 DEF Answering, RequestsOfTheDialog, Pending, Shown
  <1> QED
    BY <1>1, <1>3, <1>4, <1>6 DEF DialogShowsItsTarget

LEMMA StepAnswers == Answering /\ TypeOK' /\ [Next]_vars => Answering'
  <1> SUFFICES ASSUME Answering, TypeOK', [Next]_vars
               PROVE  RequestsOfTheDialog' /\ DialogShowsItsTarget'
    BY DEF Answering
  <1> USE DEF session, store, form
  <1>1. CASE /\ UNCHANGED <<isModalOpen, modalTarget, lastResult, requests>>
    BY <1>1 DEF Answering, RequestsOfTheDialog, DialogShowsItsTarget, Shown, Pending
  <1>2. CASE SignOut \/ Open
    BY <1>2 DEF SignOut, Open, PageLoaded, RequestsOfTheDialog, DialogShowsItsTarget, Shown, Pending
  <1>3. ASSUME NEW e \in Entities, openRevealModal(e)
        PROVE  RequestsOfTheDialog' /\ DialogShowsItsTarget'
    BY <1>3 DEF Answering, openRevealModal, RequestsOfTheDialog, DialogShowsItsTarget, Shown, Pending
  <1>4. CASE closeRevealModal \/ CloseTimerFires \/ handleRevoke
    <2>1. Unmounted /\ ~Shown'
      BY <1>4 DEF closeRevealModal, CloseTimerFires, handleRevoke, Shown
    <2> QED
      BY <2>1, UnmountedOrphans DEF Answering, DialogShowsItsTarget
  <1>5. ASSUME NEW i \in Slots, handleSubmit(i)
        PROVE  RequestsOfTheDialog' /\ DialogShowsItsTarget'
    <2>1. /\ Shown /\ UNCHANGED <<isModalOpen, modalTarget, lastResult>>
          /\ \A j \in Slots : \/ requests'[j] = requests[j]
                              \/ requests'[j].entity = modalTarget
      BY <1>5 DEF handleSubmit, Answering, TypeOK
    <2> QED
      BY <2>1 DEF Answering, RequestsOfTheDialog, DialogShowsItsTarget, Shown, Pending
  <1>6. ASSUME NEW i \in Slots, reveal(i)
        PROVE  RequestsOfTheDialog' /\ DialogShowsItsTarget'
    <2>1. PICK x : requests' = [requests EXCEPT ![i].state = x]
      BY <1>6 DEF reveal
    <2>2. Pending(i) /\ UNCHANGED <<isModalOpen, modalTarget, lastResult>>
      BY <1>6 DEF reveal
    <2>3. requests[i] \in Request /\ \A j \in Slots : requests[j] \in Request \cup {NoRequest}
      BY <2>2 DEF Answering, TypeOK, Pending
    <2>4. \A j \in Slots : j # i => requests'[j] = requests[j]
      BY <2>1 DEF Answering, TypeOK
    <2>5. requests'[i].entity = requests[i].entity /\ requests'[i].orphan = requests[i].orphan
      BY <2>1, <2>3 DEF Answering, TypeOK, Request
    <2> QED
      BY <2>2, <2>4, <2>5 DEF Answering, RequestsOfTheDialog, DialogShowsItsTarget, Shown, Pending
  <1>7. CASE \E i \in Slots : RevealArrives(i)
    BY <1>7, ArrivalAnswers
  <1>8. ASSUME NEW i \in Slots, RevealFails(i)
        PROVE  RequestsOfTheDialog' /\ DialogShowsItsTarget'
    <2>1. \A j \in Slots : requests'[j] = IF j = i THEN NoRequest ELSE requests[j]
      BY <1>8 DEF RevealFails, Answering, TypeOK
    <2> QED
      BY <1>8, <2>1 DEF RevealFails, Answering, RequestsOfTheDialog, DialogShowsItsTarget, Shown, Pending
  <1>9. ASSUME \/ \E u \in Users : SignIn(u)
               \/ \E u \in Users \cup {None} : OtherTab(u)
               \/ \E c \in Cases : CaseLoaded(c)
               \/ \E text \in Entities \cup {None} : SetJustification(text)
               \/ \E tick \in BOOLEAN : SetCertified(tick)
               \/ \E e \in Entities : Expire(e)
               \/ UNCHANGED vars
        PROVE  UNCHANGED <<isModalOpen, modalTarget, lastResult, requests>>
    BY <1>9 DEF SignIn, OtherTab, store, CaseLoaded, SetJustification, SetCertified, Expire, vars
  <1> QED
    BY <1>1, <1>2, <1>3, <1>4, <1>5, <1>6, <1>7, <1>8, <1>9 DEF Next

\* The plaintext in the dialog is of the dialog's own target, unless its request was
\* sent from a dialog that was closed before the answer came (revealStore.ts:91).
THEOREM DialogsShowTheirTarget == Spec => []DialogShowsItsTarget
  <1>1. Init => Answering
    BY InitConsistent DEF Consistent, Init, Answering, RequestsOfTheDialog, Pending, DialogShowsItsTarget
  <1>2. Answering => DialogShowsItsTarget
    BY DEF Answering
  <1> QED
    BY <1>1, <1>2, StepAnswers, RevealTypeCorrect, PTL DEF Spec

=============================================================================
