--------------------------- MODULE CandidateReview ---------------------------
(***************************************************************************)
(* The page of one identity-match candidate in the browser                 *)
(* (CandidateDetail of features/review/review-page.tsx), the dialog that   *)
(* asks for a reason (components/ui/reason-dialog.tsx), the reload of the  *)
(* case a decision causes (features/cases/case-context.tsx), and what the  *)
(* server does with POST /candidates/{id}/decision (review_routes.py).     *)
(*                                                                         *)
(* React keeps a component mounted when only its address changes: from one *)
(* candidate to another the page lives on, with its requests in flight and *)
(* its callbacks, which were made for the candidate before.  The browser's *)
(* history holds every address, so any step to any address is one click.   *)
(***************************************************************************)
EXTENDS Naturals

CONSTANTS
    Candidates,         \* of one case
    Decisions,          \* offered on the page; "REVERSE" among them or not
    Slots,              \* bound: places for decisions on their way
    MaxOthers           \* bound: decisions of other reviewers

None == "none"
Elsewhere == "elsewhere"

ASSUME ReviewPageConstants ==
    /\ Decisions \subseteq {"APPROVE", "REJECT", "DEFER", "REVERSE"}
    /\ {None, Elsewhere} \cap Candidates = {}
    /\ MaxOthers \in Nat

-----------------------------------------------------------------------------
(* What the components keep.                                               *)

\* CandidateDetail: at is its prop; shown and last are the candidate it displays and
\* that one's latest review.  raced: history, the address changed or the page was
\* loaded again while something was in flight.
Notice == [candidate : Candidates, decision : Decisions]
NoNotice == [candidate |-> None]
Detail == [at : Candidates, shown : Candidates \cup {None}, last : Decisions \cup {None},
           error : BOOLEAN, reqs : SUBSET Candidates, pending : Decisions \cup {None},
           done : Notice \cup {NoNotice}, raced : BOOLEAN]
NoDetail == [at |-> None]

\* ReasonDialog: reason names the candidate and the decision it was typed under.
Reason == [on : Candidates, decision : Decisions]
NoReason == [on |-> None]
Dialog == [reason : Reason \cup {NoReason}, busy : BOOLEAN, error : BOOLEAN]
FreshDialog == [reason |-> NoReason, busy |-> FALSE, error |-> FALSE]

\* A decision on its way.  on: the candidate of the request; shown: the one on the
\* screen when it was confirmed; own: the reason was typed under just this decision;
\* to: which of the components it was sent from are still there.
Level == {"dialog", "detail", "layout", "nothing"}
Submission == [on : Candidates, shown : Candidates, decision : Decisions, own : BOOLEAN,
               phase : {"sent", "recorded", "refused", "searching"}, to : Level]
NoSubmission == [on |-> None]

VARIABLES
    route,              \* the candidate in the address, or another page of the case
    load, loading,      \* the layout: what it shows of the case, and its request
    detail, dialog,
    submissions,
    last,               \* on the server: the latest review of each candidate
    recorded,           \* history: the decisions of this browser that were recorded
    others              \* decisions of other reviewers so far

layout == <<load, loading>>
page == <<detail, dialog>>
server == <<last, recorded, others>>
vars == <<route, layout, page, submissions, server>>

Init ==
    /\ route = Elsewhere
    /\ load = "loading" /\ loading = TRUE
    /\ detail = NoDetail /\ dialog = FreshDialog
    /\ submissions = [i \in Slots |-> NoSubmission]
    /\ last = [c \in Candidates |-> None]
    /\ recorded = {}
    /\ others = 0

-----------------------------------------------------------------------------
(* Mounting and unmounting.                                                *)

MountedDetail(p) ==
    IF p \notin Candidates THEN NoDetail
    ELSE [at |-> p, shown |-> None, last |-> None, error |-> FALSE, reqs |-> {p},
          pending |-> None, done |-> NoNotice, raced |-> FALSE]

Lowered(from, l) == [i \in Slots |->
    IF submissions[i] # NoSubmission /\ submissions[i].to \in from
    THEN [submissions[i] EXCEPT !.to = l] ELSE submissions[i]]

DialogGone == Lowered({"dialog"}, "detail")
DetailGone == Lowered({"dialog", "detail"}, "layout")
LayoutGone == Lowered({"dialog", "detail", "layout"}, "nothing")

Underway == detail # NoDetail /\
    (detail.reqs # {} \/ \E i \in Slots : submissions[i] # NoSubmission /\ submissions[i].to \in {"dialog", "detail"})

\* Faulty variant: the candidate before stays until the next one is there.
Retargeted_KeepCandidate(p) ==
    [detail EXCEPT !.at = p, !.done = NoNotice, !.error = FALSE,
                   !.reqs = @ \cup {p}, !.raced = @ \/ Underway]

\* Faulty variant: the notice of the last decision stays.
Retargeted_KeepNotice(p) ==
    [detail EXCEPT !.at = p, !.shown = None, !.last = None, !.error = FALSE,
                   !.reqs = @ \cup {p}, !.raced = @ \/ Underway]

\* Only the prop of the page changed: setC(null), setDone(null) and load().
Retargeted(p) ==
    [detail EXCEPT !.at = p, !.shown = None, !.last = None, !.done = NoNotice, !.error = FALSE,
                   !.reqs = @ \cup {p}, !.raced = @ \/ Underway]

\* The dialog is there while the page shows a candidate and no error.
DialogOf(d) == d # NoDetail /\ d.shown # None /\ ~d.error

-----------------------------------------------------------------------------
(* Navigation, and the case around the page.                               *)

\* Out of the case and into it again: everything unmounts, the case is loaded.
ReenterCase ==
    /\ route # Elsewhere
    /\ route' = Elsewhere
    /\ load' = "loading" /\ loading' = TRUE
    /\ detail' = NoDetail /\ dialog' = FreshDialog
    /\ submissions' = LayoutGone
    /\ UNCHANGED server

\* Another page of the case.
Go(r) ==
    /\ r # route
    /\ route' = r
    /\ dialog' = FreshDialog
    /\ IF r \in Candidates /\ detail # NoDetail
       THEN detail' = Retargeted(r) /\ submissions' = DialogGone
       ELSE /\ detail' = IF load = "ready" THEN MountedDetail(r) ELSE NoDetail
            /\ submissions' = DetailGone
    /\ UNCHANGED <<layout, server>>

\* reload() counts the nonce up.  A case that is shown stays; one that failed does not.
Reloaded == loading' = TRUE /\ load' = IF load = "ready" THEN load ELSE "loading"

\* "Try again".
RetryCase ==
    /\ load = "failed"
    /\ Reloaded
    /\ UNCHANGED <<route, page, submissions, server>>

\* The case again, unmounted or not.
CaseArrives ==
    /\ loading
    /\ loading' = FALSE /\ load' = "ready"
    /\ detail' = IF load = "ready" THEN detail ELSE MountedDetail(route)
    /\ UNCHANGED <<route, dialog, submissions, server>>

\* Refused meanwhile, or the connection failed: the layout shows that alone.
CaseFails ==
    /\ loading
    /\ loading' = FALSE /\ load' = "failed"
    /\ detail' = NoDetail /\ dialog' = FreshDialog
    /\ submissions' = DetailGone
    /\ UNCHANGED <<route, server>>

-----------------------------------------------------------------------------
(* The page of one candidate.                                              *)

\* As the server has it when it answers; which request it answers is not asked.
CandidateArrives(c) ==
    /\ detail # NoDetail /\ c \in detail.reqs
    /\ detail' = [detail EXCEPT !.reqs = @ \ {c}, !.shown = c, !.last = last[c]]
    /\ UNCHANGED <<route, layout, dialog, submissions, server>>

\* The page shows the error alone: the dialog, if one is open, unmounts.
CandidateFails(c) ==
    /\ detail # NoDetail /\ c \in detail.reqs
    /\ detail' = [detail EXCEPT !.reqs = @ \ {c}, !.error = TRUE]
    /\ dialog' = FreshDialog
    /\ submissions' = DialogGone
    /\ UNCHANGED <<route, layout, server>>

RetryCandidate ==
    /\ detail # NoDetail /\ detail.error
    /\ detail' = [detail EXCEPT !.error = FALSE, !.reqs = @ \cup {detail.at}, !.raced = @ \/ Underway]
    /\ UNCHANGED <<route, layout, dialog, submissions, server>>

\* REVIEW_REQUIRED and DEFER can be decided, a decision other than REVERSE undone.
Offered ==
    {d \in Decisions : IF d = "REVERSE" THEN detail.last \notin {None, "REVERSE"}
                                       ELSE detail.last \in {None, "REVERSE", "DEFER"}}

DialogOpen == DialogOf(detail) /\ detail.pending # None

\* Faulty variant: the dialog opens with what was typed the last time.
Choose_KeepReason(d) ==
    /\ DialogOf(detail) /\ detail.pending = None
    /\ d \in Offered
    /\ detail' = [detail EXCEPT !.pending = d]
    /\ dialog' = [dialog EXCEPT !.error = FALSE, !.busy = FALSE]
    /\ UNCHANGED <<route, layout, submissions, server>>

\* One of the buttons; the effect of the dialog clears it as it opens.
Choose(d) ==
    /\ DialogOf(detail) /\ detail.pending = None
    /\ d \in Offered
    /\ detail' = [detail EXCEPT !.pending = d]
    /\ dialog' = FreshDialog
    /\ UNCHANGED <<route, layout, submissions, server>>

Cancel ==
    /\ DialogOpen /\ ~dialog.busy
    /\ detail' = [detail EXCEPT !.pending = None]
    /\ UNCHANGED <<route, layout, dialog, submissions, server>>

\* Ten characters or more; what is there already is kept.
TypeReason ==
    /\ DialogOpen /\ dialog.reason = NoReason
    /\ dialog' = [dialog EXCEPT !.reason = [on |-> detail.shown, decision |-> detail.pending], !.error = FALSE]
    /\ UNCHANGED <<route, layout, detail, submissions, server>>

\* The request names the candidate of the address, not the one displayed.
Confirm(i) ==
    /\ DialogOpen /\ ~dialog.busy
    /\ dialog.reason # NoReason
    /\ submissions[i] = NoSubmission
    /\ dialog' = [dialog EXCEPT !.busy = TRUE, !.error = FALSE]
    /\ submissions' = [submissions EXCEPT ![i] =
           [on |-> detail.at, shown |-> detail.shown, decision |-> detail.pending,
            own |-> dialog.reason = [on |-> detail.shown, decision |-> detail.pending],
            phase |-> "sent", to |-> "dialog"]]
    /\ UNCHANGED <<route, layout, detail, server>>

\* Confirmed without a reason of ten characters.
ConfirmWithoutReason ==
    /\ DialogOpen /\ ~dialog.busy /\ ~dialog.error
    /\ dialog.reason = NoReason
    /\ dialog' = [dialog EXCEPT !.error = TRUE]
    /\ UNCHANGED <<route, layout, detail, submissions, server>>

-----------------------------------------------------------------------------
(* A decision on its way.                                                  *)

Deciding(i) == submissions[i] # NoSubmission

\* The handler on the server: there must be something to reverse.
decide(i) ==
    /\ Deciding(i) /\ submissions[i].phase = "sent"
    /\ LET s == submissions[i]
           refused == s.decision = "REVERSE" /\ last[s.on] \in {None, "REVERSE"}
       IN IF refused
          THEN /\ submissions' = [submissions EXCEPT ![i].phase = "refused"]
               /\ UNCHANGED server
          ELSE /\ submissions' = [submissions EXCEPT ![i].phase = "recorded"]
               /\ last' = [last EXCEPT ![s.on] = s.decision]
               /\ recorded' = recorded \cup {<<s.on, s.decision>>}
               /\ UNCHANGED others
    /\ UNCHANGED <<route, layout, page>>

\* Another reviewer decides.
OthersDecide(c, d) ==
    /\ others < MaxOthers /\ others' = others + 1
    /\ d \in Decisions \ {last[c]}
    /\ d = "REVERSE" => last[c] # None
    /\ last' = [last EXCEPT ![c] = d]
    /\ UNCHANGED <<route, layout, page, submissions, recorded>>

\* setC(updated), and the search for the next candidate starts.
DecisionArrives(i) ==
    /\ Deciding(i) /\ submissions[i].phase = "recorded"
    /\ LET s == submissions[i] IN
       detail' = IF s.to \in {"dialog", "detail"}
                 THEN [detail EXCEPT !.shown = s.on, !.last = s.decision] ELSE detail
    /\ submissions' = [submissions EXCEPT ![i].phase = "searching"]
    /\ UNCHANGED <<route, layout, dialog, server>>

\* Refused, or the connection failed before or after the decision was recorded:
\* the dialog that asked, if it is still there, shows it; nothing else does.
DecisionFails(i) ==
    /\ Deciding(i) /\ submissions[i].phase # "searching"
    /\ dialog' = IF submissions[i].to = "dialog" THEN [dialog EXCEPT !.busy = FALSE, !.error = TRUE] ELSE dialog
    /\ submissions' = [submissions EXCEPT ![i] = NoSubmission]
    /\ UNCHANGED <<route, layout, detail, server>>

\* The search ended, with a next candidate or without: setDone(), reloadCase(),
\* and the dialog closes itself.
SearchEnds(i) ==
    /\ Deciding(i) /\ submissions[i].phase = "searching"
    /\ LET s == submissions[i] IN
       /\ detail' = IF s.to \in {"dialog", "detail"}
                    THEN [detail EXCEPT !.done = [candidate |-> s.on, decision |-> s.decision], !.pending = None]
                    ELSE detail
       /\ dialog' = IF s.to = "dialog" THEN [dialog EXCEPT !.busy = FALSE] ELSE dialog
       /\ IF s.to = "nothing" THEN UNCHANGED layout ELSE Reloaded
    /\ submissions' = [submissions EXCEPT ![i] = NoSubmission]
    /\ UNCHANGED <<route, server>>

-----------------------------------------------------------------------------
Next ==
    \/ ReenterCase
    \/ \E r \in Candidates \cup {Elsewhere} : Go(r)
    \/ RetryCase
    \/ CaseArrives
    \/ CaseFails
    \/ \E c \in Candidates : CandidateArrives(c)
    \/ \E c \in Candidates : CandidateFails(c)
    \/ RetryCandidate
    \/ \E d \in Decisions : Choose(d)
    \/ Cancel
    \/ TypeReason
    \/ \E i \in Slots : Confirm(i)
    \/ ConfirmWithoutReason
    \/ \E i \in Slots : decide(i)
    \/ \E c \in Candidates, d \in Decisions : OthersDecide(c, d)
    \/ \E i \in Slots : DecisionArrives(i)
    \/ \E i \in Slots : DecisionFails(i)
    \/ \E i \in Slots : SearchEnds(i)

Spec == Init /\ [][Next]_vars

-----------------------------------------------------------------------------
(* Properties.                                                             *)

\* Type invariant.
TypeOK ==
    /\ route \in Candidates \cup {Elsewhere}
    /\ load \in {"loading", "failed", "ready"} /\ loading \in BOOLEAN
    /\ detail \in Detail \cup {NoDetail}
    /\ dialog \in Dialog
    /\ submissions \in [Slots -> Submission \cup {NoSubmission}]
    /\ last \in [Candidates -> Decisions \cup {None}]
    /\ recorded \subseteq Candidates \X Decisions
    /\ others \in Nat
    /\ detail # NoDetail => detail.at = route

\* A page that asked for one candidate at a time shows the one of its address
\* (review-page.tsx:150): the one before never stays under the next address.
ScreenIsOfItsAddress ==
    detail # NoDetail /\ ~detail.raced /\ detail.shown # None => detail.shown = detail.at

\* The reason on record was typed for this decision on these records: a dialog
\* that is opened again starts empty (reason-dialog.tsx:38).  Excepted are pages
\* on which another answer changed the records under the open dialog.
ReasonIsForTheDecision ==
    \A i \in Slots : Deciding(i) /\ submissions[i].to = "dialog" /\ ~detail.raced => submissions[i].own

\* "Recorded: ..." stands on the page of a candidate only for a decision on it
\* that the server has recorded (review-page.tsx:187).
RecordedNoticeIsTrue ==
    detail # NoDetail /\ ~detail.raced /\ detail.done # NoNotice =>
        detail.done.candidate = detail.at /\ <<detail.at, detail.done.decision>> \in recorded

=============================================================================
