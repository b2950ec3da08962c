------------------------ MODULE CandidateReviewProofs ------------------------
(***************************************************************************)
(* Proofs about CandidateReview: what the page of a candidate shows, what  *)
(* its dialog sends and what the server recorded agree, for any number of  *)
(* candidates, decisions on their way and other reviewers.                 *)
(***************************************************************************)
EXTENDS CandidateReview, TLAPS

LEMMA NoneIsNothing ==
  /\ NoDetail \notin Detail /\ NoNotice \notin Notice /\ NoReason \notin Reason
  /\ NoSubmission \notin Submission
  /\ None \notin Candidates /\ Elsewhere \notin Candidates /\ None # Elsewhere /\ None \notin Decisions
  BY ReviewPageConstants
  DEF None, Elsewhere, NoDetail, Detail, NoNotice, Notice, NoReason, Reason, NoSubmission, Submission

-----------------------------------------------------------------------------
(* Types                                                                   *)

LEMMA InitTyped == Init => TypeOK
  BY DEF Init, TypeOK, FreshDialog, Dialog

LEMMA FreshDialogType == FreshDialog \in Dialog
  BY DEF FreshDialog, Dialog

\* Lowering the level of some submissions changes nothing else of them.
LEMMA LoweredIs ==
  ASSUME TypeOK, NEW from, NEW l \in Level
  PROVE  /\ Lowered(from, l) \in [Slots -> Submission \cup {NoSubmission}]
         /\ \A i \in Slots :
               LET s == Lowered(from, l)[i] IN
               IF submissions[i] = NoSubmission THEN s = NoSubmission
               ELSE /\ s \in Submission
                    /\ s.on = submissions[i].on /\ s.decision = submissions[i].decision
                    /\ s.phase = submissions[i].phase /\ s.own = submissions[i].own
                    /\ s.to = IF submissions[i].to \in from THEN l ELSE submissions[i].to
  <1>1. \A i \in Slots : submissions[i] # NoSubmission => submissions[i] \in Submission
    BY DEF TypeOK
  <1>2. \A i \in Slots :
           Lowered(from, l)[i] = IF submissions[i] # NoSubmission /\ submissions[i].to \in from
                                 THEN [submissions[i] EXCEPT !.to = l] ELSE submissions[i]
    BY DEF Lowered
  <1>3. ASSUME NEW s \in Submission
        PROVE  LET u == [s EXCEPT !.to = l] IN
               /\ u \in Submission /\ u.on = s.on /\ u.decision = s.decision
               /\ u.phase = s.phase /\ u.own = s.own /\ u.to = l
    BY DEF Submission
  <1>4. \A i \in Slots : Lowered(from, l)[i] \in Submission \cup {NoSubmission}
    BY <1>1, <1>2, <1>3
  <1>5. Lowered(from, l) \in [Slots -> Submission \cup {NoSubmission}]
    BY <1>4 DEF Lowered
  <1>6. ASSUME NEW i \in Slots
        PROVE  LET s == Lowered(from, l)[i] IN
               IF submissions[i] = NoSubmission THEN s = NoSubmission
               ELSE /\ s \in Submission
                    /\ s.on = submissions[i].on /\ s.decision = submissions[i].decision
                    /\ s.phase = submissions[i].phase /\ s.own = submissions[i].own
                    /\ s.to = IF submissions[i].to \in from THEN l ELSE submissions[i].to
    <2>1. CASE submissions[i] = NoSubmission
      BY <1>2, <2>1
    <2>2. CASE submissions[i] # NoSubmission /\ submissions[i].to \in from
      <3>1. submissions[i] \in Submission /\ Lowered(from, l)[i] = [submissions[i] EXCEPT !.to = l]
        BY <1>1, <1>2, <2>2
      <3> QED
        BY <1>3, <2>2, <3>1
    <2>3. CASE submissions[i] # NoSubmission /\ submissions[i].to \notin from
      BY <1>1, <1>2, <2>3
    <2> QED
      BY <2>1, <2>2, <2>3
  <1> QED
    BY <1>5, <1>6

\* A page that mounts has asked for its candidate and nothing else.
LEMMA MountedIs ==
  ASSUME NEW p, NEW d, d = MountedDetail(p)
  PROVE  /\ p \notin Candidates => d = NoDetail
         /\ p \in Candidates =>
               /\ d \in Detail /\ d # NoDetail /\ d.at = p /\ d.shown = None /\ d.reqs = {p}
               /\ d.pending = None /\ d.done = NoNotice /\ ~d.raced
  <1>1. CASE p \notin Candidates
    BY <1>1 DEF MountedDetail
  <1>2. CASE p \in Candidates
    <2>1. d = [at |-> p, shown |-> None, last |-> None, error |-> FALSE, reqs |-> {p},
               pending |-> None, done |-> NoNotice, raced |-> FALSE]
      BY <1>2 DEF MountedDetail
    <2>2. d \in Detail
      BY <1>2, <2>1 DEF Detail
    <2>3. /\ d.at = p /\ d.shown = None /\ d.reqs = {p}
          /\ d.pending = None /\ d.done = NoNotice /\ ~d.raced
      BY <2>1
    <2>4. d # NoDetail
      BY <2>2, NoneIsNothing
    <2> QED
      BY <1>2, <2>2, <2>3, <2>4
  <1> QED
    BY <1>1, <1>2

\* A page that gets another address has cleared what it showed.
LEMMA RetargetedIs ==
  ASSUME detail \in Detail, NEW p \in Candidates, NEW d, d = Retargeted(p)
  PROVE  /\ d \in Detail /\ d # NoDetail /\ d.at = p /\ d.shown = None
         /\ d.reqs = detail.reqs \cup {p} /\ d.pending = detail.pending
         /\ d.done = NoNotice /\ (~d.raced => ~detail.raced /\ ~Underway)
  <1> DEFINE busy == detail.raced \/ Underway
  <1>1. busy \in BOOLEAN
    BY DEF Underway, Detail
  <1>2. d = [detail EXCEPT !.at = p, !.shown = None, !.last = None, !.done = NoNotice,
                           !.error = FALSE, !.reqs = @ \cup {p}, !.raced = busy]
    BY DEF Retargeted
  <1> HIDE DEF busy
  <1>3. d \in Detail
    <2>1. /\ detail.reqs \cup {p} \in SUBSET Candidates
          /\ detail.pending \in Decisions \cup {None}
      BY DEF Detail
    <2>2. d = [at |-> p, shown |-> None, last |-> None, error |-> FALSE,
               reqs |-> detail.reqs \cup {p}, pending |-> detail.pending,
               done |-> NoNotice, raced |-> busy]
      BY <1>2 DEF Detail
    <2> QED
      BY <1>1, <2>1, <2>2 DEF Detail
  <1>4. /\ d.at = p /\ d.shown = None /\ d.reqs = detail.reqs \cup {p}
        /\ d.pending = detail.pending /\ d.done = NoNotice /\ d.raced = busy
    BY <1>2 DEF Detail
  <1>5. d # NoDetail
    BY <1>3, NoneIsNothing
  <1> QED
    BY <1>3, <1>4, <1>5 DEF busy

LEMMA NavigationTyped ==
  ASSUME TypeOK, \/ ReenterCase \/ RetryCase \/ CaseArrives \/ CaseFails
                 \/ \E r \in Candidates \cup {Elsewhere} : Go(r)
  PROVE  TypeOK'
  <1>1. /\ DialogGone \in [Slots -> Submission \cup {NoSubmission}]
        /\ DetailGone \in [Slots -> Submission \cup {NoSubmission}]
        /\ LayoutGone \in [Slots -> Submission \cup {NoSubmission}]
    BY LoweredIs DEF DialogGone, DetailGone, LayoutGone, Level
  <1>2. CASE ReenterCase
    BY <1>1, <1>2, FreshDialogType DEF ReenterCase, server, TypeOK
  <1>3. CASE RetryCase
    BY <1>3 DEF RetryCase, Reloaded, page, server, TypeOK
  <1>4. CASE CaseArrives
    <2>1. detail' \in Detail \cup {NoDetail} /\ (detail' # NoDetail => detail'.at = route)
      BY <1>4, MountedIs, NoneIsNothing DEF CaseArrives, TypeOK
    <2> QED
      BY <1>4, <2>1 DEF CaseArrives, server, TypeOK
  <1>5. CASE CaseFails
    BY <1>1, <1>5, FreshDialogType DEF CaseFails, server, TypeOK
  <1>6. ASSUME NEW r \in Candidates \cup {Elsewhere}, Go(r) PROVE TypeOK'
    <2>1. detail' \in Detail \cup {NoDetail} /\ (detail' # NoDetail => detail'.at = r)
      BY <1>6, MountedIs, RetargetedIs DEF Go, TypeOK
    <2> QED
      BY <1>1, <1>6, <2>1, FreshDialogType DEF Go, layout, server, TypeOK
  <1> QED
    BY <1>2, <1>3, <1>4, <1>5, <1>6

LEMMA PageTyped ==
  ASSUME TypeOK,
         \/ \E c \in Candidates : CandidateArrives(c) \/ CandidateFails(c)
         \/ RetryCandidate \/ (\E d \in Decisions : Choose(d)) \/ Cancel
  PROVE  TypeOK'
  <1>1. DialogGone \in [Slots -> Submission \cup {NoSubmission}]
    BY LoweredIs DEF DialogGone, Level
  <1>2. ASSUME NEW c \in Candidates, CandidateArrives(c) PROVE TypeOK'
    BY <1>2, NoneIsNothing DEF CandidateArrives, layout, server, TypeOK, Detail
  <1>3. ASSUME NEW c \in Candidates, CandidateFails(c) PROVE TypeOK'
    BY <1>1, <1>3, FreshDialogType, NoneIsNothing DEF CandidateFails, layout, server, TypeOK, Detail
  <1>4. CASE RetryCandidate
    <2>1. Underway \in BOOLEAN
      BY DEF Underway
    <2> QED
      BY <1>4, <2>1, NoneIsNothing DEF RetryCandidate, layout, server, TypeOK, Detail
  <1>5. ASSUME NEW d \in Decisions, Choose(d) PROVE TypeOK'
    BY <1>5, FreshDialogType, NoneIsNothing
    DEF Choose, DialogOf, layout, server, TypeOK, Detail
  <1>6. CASE Cancel
    BY <1>6, NoneIsNothing DEF Cancel, DialogOpen, DialogOf, layout, server, TypeOK, Detail
  <1> QED
    BY <1>2, <1>3, <1>4, <1>5, <1>6

LEMMA DialogTyped ==
  ASSUME TypeOK, TypeReason \/ ConfirmWithoutReason \/ \E i \in Slots : Confirm(i)
  PROVE  TypeOK'
  <1>1. DialogOpen => /\ detail \in Detail /\ detail.at \in Candidates
                      /\ detail.shown \in Candidates /\ detail.pending \in Decisions
    BY DEF DialogOpen, DialogOf, TypeOK, Detail
  <1>2. CASE TypeReason
    BY <1>1, <1>2 DEF TypeReason, layout, server, TypeOK, Dialog, Reason
  <1>3. CASE ConfirmWithoutReason
    BY <1>3 DEF ConfirmWithoutReason, layout, server, TypeOK, Dialog
  <1>4. ASSUME NEW i \in Slots, Confirm(i) PROVE TypeOK'
    <2>1. submissions' \in [Slots -> Submission \cup {NoSubmission}]
      BY <1>1, <1>4 DEF Confirm, TypeOK, Submission, Level
    <2> QED
      BY <1>4, <2>1 DEF Confirm, layout, server, TypeOK, Dialog
  <1> QED
    BY <1>2, <1>3, <1>4

LEMMA DecisionTyped ==
  ASSUME TypeOK, NEW i \in Slots, decide(i) \/ DecisionArrives(i) \/ DecisionFails(i) \/ SearchEnds(i),
         submissions[i].to \in {"dialog", "detail"} => detail # NoDetail
  PROVE  TypeOK'
  <1>1. /\ submissions[i] # NoSubmission /\ submissions[i] \in Submission
        /\ submissions[i].on \in Candidates /\ submissions[i].decision \in Decisions
    BY DEF decide, DecisionArrives, DecisionFails, SearchEnds, Deciding, TypeOK, Submission
  <1>2. \A f \in {"refused", "recorded", "searching"} :
           [submissions EXCEPT ![i].phase = f] \in [Slots -> Submission \cup {NoSubmission}]
    BY <1>1 DEF TypeOK, Submission
  <1>3. [submissions EXCEPT ![i] = NoSubmission] \in [Slots -> Submission \cup {NoSubmission}]
    BY DEF TypeOK
  <1>4. CASE decide(i)
    <2>1. submissions' \in [Slots -> Submission \cup {NoSubmission}]
      BY <1>2, <1>4 DEF decide
    <2>2. last' \in [Candidates -> Decisions \cup {None}] /\ recorded' \subseteq Candidates \X Decisions
      BY <1>1, <1>4 DEF decide, server, TypeOK
    <2> QED
      BY <1>4, <2>1, <2>2 DEF decide, layout, page, server, TypeOK
  <1>5. CASE DecisionArrives(i)
    <2>1. detail' \in Detail \cup {NoDetail} /\ (detail' # NoDetail => detail'.at = route)
      BY <1>1, <1>5 DEF DecisionArrives, TypeOK, Detail
    <2> QED
      BY <1>2, <1>5, <2>1 DEF DecisionArrives, layout, server, TypeOK
  <1>6. CASE DecisionFails(i)
    BY <1>3, <1>6 DEF DecisionFails, layout, server, TypeOK, Dialog
  <1>7. CASE SearchEnds(i)
    <2>1. detail' \in Detail \cup {NoDetail} /\ (detail' # NoDetail => detail'.at = route)
      BY <1>1, <1>7 DEF SearchEnds, TypeOK, Detail, Notice
    <2> QED
      BY <1>3, <1>7, <2>1 DEF SearchEnds, Reloaded, layout, server, TypeOK, Dialog
  <1> QED
    BY <1>4, <1>5, <1>6, <1>7

LEMMA OthersTyped ==
  ASSUME TypeOK, NEW c \in Candidates, NEW d \in Decisions, OthersDecide(c, d)
  PROVE  TypeOK'
  BY DEF OthersDecide, layout, page, TypeOK

-----------------------------------------------------------------------------
(* The invariant.  Answers come later than the click that asked for them, so *)
(* what the properties say of the screen must hold of what is in flight.     *)

\* A decision whose answer the page will hear.
Heard(i) == Deciding(i) /\ submissions[i].to \in {"dialog", "detail"}

\* A page needs the case, and an answer that is heard needs the page.
PageNeedsCase == detail # NoDetail => load = "ready"
HeardNeedsPage == detail = NoDetail => \A i \in Slots : ~Heard(i)

\* A page that was not raced has asked, shows and decides for its address alone.
PageIsOfItsAddress ==
    detail # NoDetail /\ ~detail.raced =>
        /\ detail.reqs \subseteq {detail.at}
        /\ detail.shown # None => detail.shown = detail.at
        /\ \A i \in Slots : Heard(i) => submissions[i].on = detail.at

\* What the open dialog holds was typed for its decision on the candidate of the address.
DialogIsOfItsDecision ==
    detail # NoDetail /\ ~detail.raced /\ detail.pending # None /\ dialog.reason # NoReason =>
        dialog.reason = [on |-> detail.at, decision |-> detail.pending]

AnswersWereRecorded ==
    \A i \in Slots : Deciding(i) /\ submissions[i].phase \in {"recorded", "searching"} =>
        <<submissions[i].on, submissions[i].decision>> \in recorded

Consistent ==
    /\ TypeOK
    /\ PageNeedsCase
    /\ HeardNeedsPage
    /\ PageIsOfItsAddress
    /\ DialogIsOfItsDecision
    /\ AnswersWereRecorded
    /\ ReasonIsForTheDecision
    /\ RecordedNoticeIsTrue

LEMMA InitConsistent == Init => Consistent
  <1> SUFFICES ASSUME Init PROVE Consistent
    OBVIOUS
  <1>1. detail = NoDetail /\ \A i \in Slots : ~Deciding(i)
    BY DEF Init, Deciding
  <1> QED
    BY <1>1, InitTyped
    DEF Consistent, PageNeedsCase, HeardNeedsPage, Heard, PageIsOfItsAddress, DialogIsOfItsDecision,
        AnswersWereRecorded, ReasonIsForTheDecision, RecordedNoticeIsTrue

\* Decisions that are lowered stay the same in all but who hears them.
LEMMA LoweredKeeps ==
  ASSUME Consistent, NEW from, NEW l \in Level, submissions' = Lowered(from, l),
         recorded \subseteq recorded'
  PROVE  /\ AnswersWereRecorded'
         /\ \A i \in Slots :
               /\ Deciding(i)' <=> Deciding(i)
               /\ Deciding(i) =>
                     /\ submissions'[i].on = submissions[i].on
                     /\ submissions'[i].own = submissions[i].own
                     /\ submissions'[i].to = IF submissions[i].to \in from
                                             THEN l ELSE submissions[i].to
  <1>1. \A i \in Slots :
           IF submissions[i] = NoSubmission THEN submissions'[i] = NoSubmission
           ELSE /\ submissions'[i] \in Submission
                /\ submissions'[i].on = submissions[i].on
                /\ submissions'[i].decision = submissions[i].decision
                /\ submissions'[i].phase = submissions[i].phase
                /\ submissions'[i].own = submissions[i].own
                /\ submissions'[i].to = IF submissions[i].to \in from
                                        THEN l ELSE submissions[i].to
    BY LoweredIs DEF Consistent
  <1> QED
    BY <1>1, NoneIsNothing DEF Consistent, AnswersWereRecorded, Deciding

\* A page that is gone, or new, has nothing in flight but its first request.
LEMMA NewPageConsistent ==
  ASSUME Consistent, TypeOK', AnswersWereRecorded', NEW p, detail' \in {NoDetail, MountedDetail(p)},
         detail' # NoDetail => load' = "ready", \A i \in Slots : ~Heard(i)'
  PROVE  Consistent'
  <1>1. detail' = NoDetail \/
           /\ detail'.at = p /\ detail'.shown = None /\ detail'.reqs = {p}
           /\ detail'.pending = None /\ detail'.done = NoNotice
    BY MountedIs
  <1>2. PageNeedsCase' /\ HeardNeedsPage'
    BY DEF PageNeedsCase, HeardNeedsPage
  <1>3. PageIsOfItsAddress' /\ DialogIsOfItsDecision' /\ RecordedNoticeIsTrue'
    BY <1>1 DEF PageIsOfItsAddress, DialogIsOfItsDecision, RecordedNoticeIsTrue
  <1>4. ReasonIsForTheDecision'
    BY DEF ReasonIsForTheDecision, Heard
  <1> QED
    BY <1>2, <1>3, <1>4 DEF Consistent

LEMMA NavigationConsistent ==
  ASSUME Consistent, \/ ReenterCase \/ RetryCase \/ CaseArrives \/ CaseFails
                     \/ \E r \in Candidates \cup {Elsewhere} : Go(r)
  PROVE  Consistent'
  <1>1. TypeOK'
    BY NavigationTyped DEF Consistent
  <1>2. CASE ReenterCase \/ CaseFails
    <2>1. /\ detail' = NoDetail /\ recorded' = recorded
          /\ \/ submissions' = Lowered({"dialog", "detail", "layout"}, "nothing")
             \/ submissions' = Lowered({"dialog", "detail"}, "layout")
      BY <1>2 DEF ReenterCase, CaseFails, LayoutGone, DetailGone, server
    <2>2. AnswersWereRecorded' /\ \A i \in Slots : ~Heard(i)'
      BY <2>1, LoweredKeeps DEF Level, Heard
    <2> QED
      BY <1>1, <2>1, <2>2, NewPageConsistent
  <1>3. CASE RetryCase
    <2>1. detail = NoDetail
      BY <1>3 DEF RetryCase, Consistent, PageNeedsCase
    <2>2. detail' = NoDetail /\ UNCHANGED <<submissions, recorded>>
      BY <1>3, <2>1 DEF RetryCase, page, server
    <2>3. AnswersWereRecorded' /\ \A i \in Slots : ~Heard(i)'
      BY <2>1, <2>2 DEF Consistent, HeardNeedsPage, Heard, Deciding, AnswersWereRecorded
    <2> QED
      BY <1>1, <2>2, <2>3, NewPageConsistent
  <1>4. CASE CaseArrives
    <2>1. load' = "ready" /\ UNCHANGED <<dialog, submissions, recorded>>
      BY <1>4 DEF CaseArrives, server
    <2>2. CASE load = "ready"
      <3>1. detail' = detail
        BY <1>4, <2>2 DEF CaseArrives
      <3> QED
        BY <1>1, <2>1, <3>1
        DEF Consistent, PageNeedsCase, HeardNeedsPage, Heard, Deciding, PageIsOfItsAddress,
            DialogIsOfItsDecision, AnswersWereRecorded, ReasonIsForTheDecision, RecordedNoticeIsTrue
    <2>3. CASE load # "ready"
      <3>1. detail = NoDetail /\ detail' = MountedDetail(route)
        BY <1>4, <2>3 DEF CaseArrives, Consistent, PageNeedsCase
      <3>2. AnswersWereRecorded' /\ \A i \in Slots : ~Heard(i)'
        BY <2>1, <3>1 DEF Consistent, HeardNeedsPage, Heard, Deciding, AnswersWereRecorded
      <3> QED
        BY <1>1, <2>1, <3>1, <3>2, NewPageConsistent
    <2> QED
      BY <2>2, <2>3
  <1>5. ASSUME NEW r \in Candidates \cup {Elsewhere}, Go(r) PROVE Consistent'
    <2>1. load' = load /\ recorded' = recorded /\ dialog' = FreshDialog
      BY <1>5 DEF Go, layout, server
    <2>2. CASE r \in Candidates /\ detail # NoDetail
      <3>1. detail' = Retargeted(r) /\ submissions' = Lowered({"dialog"}, "detail")
        BY <1>5, <2>2 DEF Go, DialogGone
      <3>2. detail \in Detail
        BY <2>2 DEF Consistent, TypeOK
      <3>3. /\ detail' # NoDetail /\ detail'.at = r /\ detail'.shown = None
            /\ detail'.reqs = detail.reqs \cup {r} /\ detail'.done = NoNotice
            /\ ~detail'.raced => ~Underway
        BY <2>2, <3>1, <3>2, RetargetedIs
      <3>4. /\ AnswersWereRecorded'
            /\ \A i \in Slots : Heard(i)' => Heard(i) /\ submissions'[i].to = "detail"
        BY <2>1, <3>1, LoweredKeeps DEF Level, Heard
      <3>5. ~detail'.raced => detail.reqs = {} /\ \A i \in Slots : ~Heard(i)
        BY <2>2, <3>3 DEF Underway, Heard, Deciding
      <3>6. PageNeedsCase' /\ HeardNeedsPage'
        BY <2>1, <2>2, <3>3 DEF Consistent, PageNeedsCase, HeardNeedsPage
      <3>7. PageIsOfItsAddress'
        BY <3>3, <3>4, <3>5 DEF PageIsOfItsAddress
      <3>8. DialogIsOfItsDecision' /\ RecordedNoticeIsTrue'
        BY <2>1, <3>3 DEF DialogIsOfItsDecision, RecordedNoticeIsTrue, FreshDialog
      <3>9. ReasonIsForTheDecision'
        BY <3>4 DEF ReasonIsForTheDecision, Heard
      <3> QED
        BY <1>1, <3>4, <3>6, <3>7, <3>8, <3>9 DEF Consistent
    <2>3. CASE ~(r \in Candidates /\ detail # NoDetail)
      <3>1. /\ detail' = IF load = "ready" THEN MountedDetail(r) ELSE NoDetail
            /\ submissions' = Lowered({"dialog", "detail"}, "layout")
        BY <1>5, <2>3 DEF Go, DetailGone
      <3>2. AnswersWereRecorded' /\ \A i \in Slots : ~Heard(i)'
        BY <2>1, <3>1, LoweredKeeps DEF Level, Heard
      <3> QED
        BY <1>1, <2>1, <3>1, <3>2, NewPageConsistent
    <2> QED
      BY <2>2, <2>3
  <1> QED
    BY <1>2, <1>3, <1>4, <1>5

\* A step of the page that sends nothing: the decisions on their way stay, and what
\* they will find is what they found.
LEMMA PageStepConsistent ==
  ASSUME Consistent, TypeOK', UNCHANGED <<load, submissions>>, recorded \subseteq recorded',
         detail # NoDetail, detail' # NoDetail,
         detail'.at = detail.at, detail'.done = detail.done,
         detail.raced => detail'.raced,
         ~detail'.raced => /\ detail'.reqs \subseteq {detail.at}
                           /\ detail'.shown # None => detail'.shown = detail.at,
         DialogIsOfItsDecision'
  PROVE  Consistent'
  <1>1. PageNeedsCase' /\ HeardNeedsPage' /\ AnswersWereRecorded'
    BY DEF Consistent, PageNeedsCase, HeardNeedsPage, AnswersWereRecorded, Deciding
  <1>2. PageIsOfItsAddress'
    BY DEF Consistent, PageIsOfItsAddress, Heard, Deciding
  <1>3. ReasonIsForTheDecision' /\ RecordedNoticeIsTrue'
    BY DEF Consistent, ReasonIsForTheDecision, RecordedNoticeIsTrue, Deciding, TypeOK, Detail
  <1> QED
    BY <1>1, <1>2, <1>3 DEF Consistent

LEMMA PageConsistent ==
  ASSUME Consistent,
         \/ \E c \in Candidates : CandidateArrives(c)
         \/ (\E d \in Decisions : Choose(d)) \/ Cancel
  PROVE  Consistent'
  <1>1. TypeOK'
    BY PageTyped DEF Consistent
  <1>2. ASSUME NEW c \in Candidates, CandidateArrives(c) PROVE Consistent'
    <2>1. detail \in Detail /\ detail # NoDetail /\ c \in detail.reqs
      BY <1>2 DEF CandidateArrives, Consistent, TypeOK
    <2>2. /\ detail'.at = detail.at /\ detail'.done = detail.done /\ detail'.raced = detail.raced
          /\ detail'.reqs = detail.reqs \ {c} /\ detail'.shown = c
          /\ detail'.pending = detail.pending /\ detail' # NoDetail
      BY <1>2, <2>1, NoneIsNothing DEF CandidateArrives, Detail, NoDetail
    <2>3. UNCHANGED <<load, submissions, dialog, recorded>>
      BY <1>2 DEF CandidateArrives, layout, server
    <2>4. ~detail.raced => c = detail.at /\ detail.reqs \subseteq {detail.at}
      BY <2>1 DEF Consistent, PageIsOfItsAddress
    <2>5. DialogIsOfItsDecision'
      BY <2>1, <2>2, <2>3 DEF Consistent, DialogIsOfItsDecision
    <2> QED
      BY <1>1, <2>1, <2>2, <2>3, <2>4, <2>5, PageStepConsistent
  <1>3. CASE (\E d \in Decisions : Choose(d)) \/ Cancel
    <2>1. detail \in Detail /\ detail # NoDetail
      BY <1>3 DEF Choose, Cancel, DialogOpen, DialogOf, Consistent, TypeOK
    <2>2. PICK d \in Decisions \cup {None} : detail' = [detail EXCEPT !.pending = d]
      BY <1>3 DEF Choose, Cancel
    <2>3. /\ detail'.at = detail.at /\ detail'.done = detail.done /\ detail'.raced = detail.raced
          /\ detail'.reqs = detail.reqs /\ detail'.shown = detail.shown
          /\ detail'.pending = d /\ detail' # NoDetail
      BY <2>1, <2>2, NoneIsNothing DEF Detail, NoDetail
    <2>4. UNCHANGED <<load, submissions, recorded>>
      BY <1>3 DEF Choose, Cancel, layout, server
    <2>5. DialogIsOfItsDecision'
      <3>1. CASE Cancel
        <4>1. detail' = [detail EXCEPT !.pending = None]
          BY <3>1 DEF Cancel
        <4>2. detail'.pending = None
          BY <2>1, <4>1 DEF Detail
        <4> QED
          BY <4>2 DEF DialogIsOfItsDecision
      <3>2. CASE \E e \in Decisions : Choose(e)
        BY <3>2 DEF Choose, DialogIsOfItsDecision, FreshDialog
      <3> QED
        BY <1>3, <3>1, <3>2
    <2> QED
      BY <1>1, <2>1, <2>3, <2>4, <2>5, PageStepConsistent DEF Consistent, PageIsOfItsAddress
  <1> QED
    BY <1>2, <1>3

LEMMA ErrorsConsistent ==
  ASSUME Consistent, RetryCandidate \/ \E c \in Candidates : CandidateFails(c)
  PROVE  Consistent'
  <1>1. TypeOK'
    BY PageTyped DEF Consistent
  <1>2. CASE RetryCandidate
    <2>1. detail \in Detail /\ detail # NoDetail
      BY <1>2 DEF RetryCandidate, Consistent, TypeOK
    <2>2. /\ detail'.at = detail.at /\ detail'.done = detail.done
          /\ detail'.raced = (detail.raced \/ Underway)
          /\ detail'.reqs = detail.reqs \cup {detail.at} /\ detail'.shown = detail.shown
          /\ detail'.pending = detail.pending /\ detail' # NoDetail
      BY <1>2, <2>1, NoneIsNothing DEF RetryCandidate, Detail, NoDetail
    <2>3. UNCHANGED <<load, submissions, dialog, recorded>>
      BY <1>2 DEF RetryCandidate, layout, server
    <2>4. DialogIsOfItsDecision'
      BY <2>1, <2>2, <2>3 DEF Consistent, DialogIsOfItsDecision
    <2>5. ~detail'.raced => ~detail.raced
      BY <2>2
    <2> QED
      BY <1>1, <2>1, <2>2, <2>3, <2>4, <2>5, PageStepConsistent DEF Consistent, PageIsOfItsAddress
  <1>3. ASSUME NEW c \in Candidates, CandidateFails(c) PROVE Consistent'
    <2>1. detail \in Detail /\ detail # NoDetail
      BY <1>3 DEF CandidateFails, Consistent, TypeOK
    <2>2. /\ detail'.at = detail.at /\ detail'.done = detail.done /\ detail'.raced = detail.raced
          /\ detail'.reqs = detail.reqs \ {c} /\ detail'.shown = detail.shown
          /\ detail' # NoDetail
      BY <1>3, <2>1, NoneIsNothing DEF CandidateFails, Detail, NoDetail
    <2>3. /\ load' = load /\ recorded' = recorded /\ dialog' = FreshDialog
          /\ submissions' = Lowered({"dialog"}, "detail")
      BY <1>3 DEF CandidateFails, layout, server, DialogGone
    <2>4. /\ AnswersWereRecorded'
          /\ \A i \in Slots : Heard(i)' => /\ Heard(i) /\ submissions'[i].to = "detail"
                                            /\ submissions'[i].on = submissions[i].on
      BY <2>3, LoweredKeeps DEF Level, Heard
    <2>5. PageNeedsCase' /\ HeardNeedsPage'
      BY <2>1, <2>2, <2>3 DEF Consistent, PageNeedsCase, HeardNeedsPage
    <2>6. PageIsOfItsAddress'
      BY <2>1, <2>2, <2>4 DEF Consistent, PageIsOfItsAddress
    <2>7. DialogIsOfItsDecision' /\ RecordedNoticeIsTrue'
      BY <2>1, <2>2, <2>3 DEF DialogIsOfItsDecision, FreshDialog, Consistent, RecordedNoticeIsTrue
    <2>8. ReasonIsForTheDecision'
      BY <2>4 DEF ReasonIsForTheDecision, Heard
    <2> QED
      BY <1>1, <2>4, <2>5, <2>6, <2>7, <2>8 DEF Consistent
  <1> QED
    BY <1>2, <1>3

\* The dialog confirms what was typed in it, for the candidate of the address.
LEMMA DialogConsistent ==
  ASSUME Consistent, TypeReason \/ ConfirmWithoutReason \/ \E i \in Slots : Confirm(i)
  PROVE  Consistent'
  <1>1. TypeOK'
    BY DialogTyped DEF Consistent
  <1>2. /\ detail \in Detail /\ detail # NoDetail /\ detail.pending # None
        /\ ~detail.raced => detail.shown = detail.at
    BY DEF TypeReason, ConfirmWithoutReason, Confirm, DialogOpen, DialogOf, Consistent, TypeOK,
           PageIsOfItsAddress
  <1>3. UNCHANGED <<load, detail, recorded>>
    BY DEF TypeReason, ConfirmWithoutReason, Confirm, layout, server
  <1>4. dialog \in Dialog
    BY DEF Consistent, TypeOK
  <1>5. CASE TypeReason \/ ConfirmWithoutReason
    <2>1. submissions' = submissions
      BY <1>5 DEF TypeReason, ConfirmWithoutReason
    <2>2. dialog'.reason \in {dialog.reason, [on |-> detail.shown, decision |-> detail.pending]}
      BY <1>4, <1>5 DEF TypeReason, ConfirmWithoutReason, Dialog
    <2>3. DialogIsOfItsDecision'
      BY <1>2, <1>3, <2>2 DEF Consistent, DialogIsOfItsDecision
    <2> QED
      BY <1>1, <1>2, <1>3, <2>1, <2>3, PageStepConsistent DEF Consistent, PageIsOfItsAddress
  <1>6. ASSUME NEW i \in Slots, Confirm(i) PROVE Consistent'
    <2>1. /\ submissions' = [submissions EXCEPT ![i] =
                [on |-> detail.at, shown |-> detail.shown, decision |-> detail.pending,
                 own |-> dialog.reason = [on |-> detail.shown, decision |-> detail.pending],
                 phase |-> "sent", to |-> "dialog"]]
          /\ dialog.reason # NoReason /\ dialog'.reason = dialog.reason
      BY <1>4, <1>6 DEF Confirm, Dialog
    <2>2. /\ submissions'[i].on = detail.at /\ submissions'[i].phase = "sent"
          /\ submissions'[i].own =
                (dialog.reason = [on |-> detail.shown, decision |-> detail.pending])
          /\ \A j \in Slots \ {i} : submissions'[j] = submissions[j]
      BY <2>1 DEF Consistent, TypeOK
    <2>3. ~detail.raced => submissions'[i].own
      BY <1>2, <2>1, <2>2 DEF Consistent, DialogIsOfItsDecision
    <2>4. PageNeedsCase' /\ HeardNeedsPage'
      BY <1>2, <1>3 DEF Consistent, PageNeedsCase, HeardNeedsPage
    <2>5. PageIsOfItsAddress'
      BY <1>3, <2>2 DEF Consistent, PageIsOfItsAddress, Heard, Deciding
    <2>6. DialogIsOfItsDecision' /\ RecordedNoticeIsTrue'
      BY <1>3, <2>1 DEF Consistent, DialogIsOfItsDecision, RecordedNoticeIsTrue
    <2>7. AnswersWereRecorded'
      BY <1>3, <2>2 DEF Consistent, AnswersWereRecorded, Deciding
    <2>8. ReasonIsForTheDecision'
      BY <1>3, <2>2, <2>3 DEF Consistent, ReasonIsForTheDecision, Deciding
    <2> QED
      BY <1>1, <2>4, <2>5, <2>6, <2>7, <2>8 DEF Consistent
  <1> QED
    BY <1>5, <1>6

\* What a decision on its way is, and that its page is there if it is heard.
LEMMA OnItsWay ==
  ASSUME Consistent, NEW i \in Slots, Deciding(i)
  PROVE  /\ submissions[i] \in Submission
         /\ Heard(i) => /\ detail \in Detail /\ detail # NoDetail
                        /\ ~detail.raced => submissions[i].on = detail.at
         /\ submissions[i].to \in {"dialog", "detail"} => detail # NoDetail
  BY DEF Consistent, TypeOK, Deciding, Heard, HeardNeedsPage, PageIsOfItsAddress

\* The server records decisions and takes none back.
LEMMA ServerConsistent ==
  ASSUME Consistent,
         \/ \E i \in Slots : decide(i)
         \/ \E c \in Candidates, d \in Decisions : OthersDecide(c, d)
  PROVE  Consistent'
  <1>1. CASE \E c \in Candidates, d \in Decisions : OthersDecide(c, d)
    <2>1. TypeOK'
      BY <1>1, OthersTyped DEF Consistent
    <2>2. UNCHANGED <<load, detail, dialog, submissions, recorded>>
      BY <1>1 DEF OthersDecide, layout, page
    <2> QED
      BY <2>1, <2>2
      DEF Consistent, PageNeedsCase, HeardNeedsPage, Heard, Deciding, PageIsOfItsAddress,
          DialogIsOfItsDecision, AnswersWereRecorded, ReasonIsForTheDecision, RecordedNoticeIsTrue
  <1>2. ASSUME NEW i \in Slots, decide(i) PROVE Consistent'
    <2>1. Deciding(i) /\ submissions[i].phase = "sent"
      BY <1>2 DEF decide
    <2>2. TypeOK'
      BY <1>2, <2>1, OnItsWay, DecisionTyped DEF Consistent
    <2>3. UNCHANGED <<load, detail, dialog>>
      BY <1>2 DEF decide, layout, page
    <2>4. PICK f \in {"refused", "recorded"} :
             /\ submissions' = [submissions EXCEPT ![i].phase = f]
             /\ recorded' = IF f = "recorded"
                            THEN recorded \cup {<<submissions[i].on, submissions[i].decision>>}
                            ELSE recorded
      BY <1>2 DEF decide, server
    <2>5. /\ submissions'[i].on = submissions[i].on /\ submissions'[i].to = submissions[i].to
          /\ submissions'[i].own = submissions[i].own /\ submissions'[i].phase = f
          /\ submissions'[i].decision = submissions[i].decision
          /\ submissions'[i] # NoSubmission
          /\ \A j \in Slots \ {i} : submissions'[j] = submissions[j]
      <3>1. submissions'[i] = [submissions[i] EXCEPT !.phase = f]
        BY <2>4 DEF Consistent, TypeOK
      <3>2. submissions[i] \in Submission
        BY <2>1, OnItsWay
      <3>3. submissions'[i] \in Submission
        BY <3>1, <3>2 DEF Submission
      <3> QED
        BY <2>4, <3>1, <3>2, <3>3, NoneIsNothing DEF Submission, Consistent, TypeOK
    <2>6. \A j \in Slots : /\ Deciding(j)' <=> Deciding(j)
                           /\ submissions'[j].on = submissions[j].on
                           /\ submissions'[j].to = submissions[j].to
                           /\ submissions'[j].own = submissions[j].own
      BY <2>1, <2>5 DEF Deciding
    <2>7. recorded \subseteq recorded'
      BY <2>4
    <2>8. PageNeedsCase' /\ HeardNeedsPage' /\ PageIsOfItsAddress'
      BY <2>3, <2>6 DEF Consistent, PageNeedsCase, HeardNeedsPage, Heard, PageIsOfItsAddress
    <2>9. DialogIsOfItsDecision' /\ ReasonIsForTheDecision'
      BY <2>3, <2>6 DEF Consistent, DialogIsOfItsDecision, ReasonIsForTheDecision
    <2>10. AnswersWereRecorded'
      BY <2>4, <2>5, <2>7 DEF Consistent, AnswersWereRecorded, Deciding
    <2>11. RecordedNoticeIsTrue'
      BY <2>3, <2>7 DEF Consistent, RecordedNoticeIsTrue
    <2> QED
      BY <2>2, <2>8, <2>9, <2>10, <2>11 DEF Consistent
  <1> QED
    BY <1>1, <1>2

\* The decided candidate is put on the screen: on a page that was not raced, its own.
LEMMA DecisionArrivesConsistent ==
  ASSUME Consistent, NEW i \in Slots, DecisionArrives(i)
  PROVE  Consistent'
  <1>1. Deciding(i) /\ submissions[i].phase = "recorded"
    BY DEF DecisionArrives
  <1>2. TypeOK'
    BY <1>1, OnItsWay, DecisionTyped DEF Consistent
  <1>3. /\ submissions[i] \in Submission
        /\ submissions' = [submissions EXCEPT ![i].phase = "searching"]
        /\ UNCHANGED <<load, dialog, recorded>>
    BY <1>1, OnItsWay DEF DecisionArrives, layout, server
  <1>4. /\ submissions'[i].on = submissions[i].on /\ submissions'[i].to = submissions[i].to
        /\ submissions'[i].own = submissions[i].own /\ submissions'[i] # NoSubmission
        /\ submissions'[i].decision = submissions[i].decision
        /\ \A j \in Slots \ {i} : submissions'[j] = submissions[j]
    <2>1. submissions'[i] = [submissions[i] EXCEPT !.phase = "searching"]
      BY <1>3 DEF Consistent, TypeOK
    <2>2. submissions'[i] \in Submission
      BY <1>3, <2>1 DEF Submission
    <2> QED
      BY <1>3, <2>1, <2>2, NoneIsNothing DEF Submission, Consistent, TypeOK
  <1>5. \A j \in Slots : /\ Deciding(j)' <=> Deciding(j)
                         /\ submissions'[j].on = submissions[j].on
                         /\ submissions'[j].to = submissions[j].to
                         /\ submissions'[j].own = submissions[j].own
    BY <1>1, <1>4 DEF Deciding
  <1>6. AnswersWereRecorded'
    BY <1>1, <1>3, <1>4 DEF Consistent, AnswersWereRecorded, Deciding
  <1>7. CASE Heard(i)
    <2>1. detail \in Detail /\ detail # NoDetail /\ (~detail.raced => submissions[i].on = detail.at)
      BY <1>1, <1>7, OnItsWay
    <2>2. detail' = [detail EXCEPT !.shown = submissions[i].on, !.last = submissions[i].decision]
      BY <1>7 DEF DecisionArrives, Heard
    <2>3. /\ detail'.at = detail.at /\ detail'.done = detail.done /\ detail'.raced = detail.raced
          /\ detail'.reqs = detail.reqs /\ detail'.shown = submissions[i].on
          /\ detail'.pending = detail.pending /\ detail' # NoDetail
      BY <1>3, <2>1, <2>2, NoneIsNothing DEF Detail, NoDetail
    <2>4. PageNeedsCase' /\ HeardNeedsPage' /\ DialogIsOfItsDecision' /\ RecordedNoticeIsTrue'
      BY <1>3, <2>1, <2>3 DEF Consistent, PageNeedsCase, HeardNeedsPage, DialogIsOfItsDecision,
                              RecordedNoticeIsTrue
    <2>5. PageIsOfItsAddress' /\ ReasonIsForTheDecision'
      BY <1>5, <2>1, <2>3 DEF Consistent, PageIsOfItsAddress, Heard, ReasonIsForTheDecision
    <2> QED
      BY <1>2, <1>6, <2>4, <2>5 DEF Consistent
  <1>8. CASE ~Heard(i)
    <2>1. detail' = detail
      BY <1>1, <1>8 DEF DecisionArrives, Heard
    <2> QED
      BY <1>2, <1>3, <1>5, <1>6, <2>1
      DEF Consistent, PageNeedsCase, HeardNeedsPage, Heard, PageIsOfItsAddress,
          DialogIsOfItsDecision, ReasonIsForTheDecision, RecordedNoticeIsTrue
  <1> QED
    BY <1>7, <1>8

\* A decision that is over, refused or recorded and announced.
LEMMA DecisionEndsConsistent ==
  ASSUME Consistent, NEW i \in Slots, DecisionFails(i) \/ SearchEnds(i)
  PROVE  Consistent'
  <1>1. Deciding(i)
    BY DEF DecisionFails, SearchEnds
  <1>2. TypeOK'
    BY <1>1, OnItsWay, DecisionTyped DEF Consistent
  <1>3. /\ submissions' = [submissions EXCEPT ![i] = NoSubmission]
        /\ recorded' = recorded /\ dialog \in Dialog
    BY DEF DecisionFails, SearchEnds, server, Consistent, TypeOK
  <1>4. /\ ~Deciding(i)' /\ \A j \in Slots \ {i} : submissions'[j] = submissions[j]
    BY <1>3 DEF Deciding, Consistent, TypeOK
  <1>5. AnswersWereRecorded'
    BY <1>3, <1>4 DEF Consistent, AnswersWereRecorded, Deciding
  <1>6. dialog'.reason = dialog.reason
    BY <1>3 DEF DecisionFails, SearchEnds, Dialog
  <1>7. load = "ready" => load' = "ready"
    BY DEF DecisionFails, SearchEnds, layout, Reloaded
  <1>8. CASE detail' = detail
    BY <1>2, <1>3, <1>4, <1>5, <1>6, <1>7, <1>8
    DEF Consistent, PageNeedsCase, HeardNeedsPage, Heard, Deciding, PageIsOfItsAddress,
        DialogIsOfItsDecision, ReasonIsForTheDecision, RecordedNoticeIsTrue
  <1>9. CASE SearchEnds(i) /\ Heard(i)
    <2>1. detail \in Detail /\ detail # NoDetail /\ (~detail.raced => submissions[i].on = detail.at)
      BY <1>1, <1>9, OnItsWay
    <2>2. /\ detail' = [detail EXCEPT !.done = [candidate |-> submissions[i].on,
                                                decision |-> submissions[i].decision],
                                      !.pending = None]
          /\ submissions[i].phase = "searching"
      BY <1>9 DEF SearchEnds, Heard
    <2>3. /\ detail'.at = detail.at /\ detail'.raced = detail.raced
          /\ detail'.reqs = detail.reqs /\ detail'.shown = detail.shown
          /\ detail'.done = [candidate |-> submissions[i].on, decision |-> submissions[i].decision]
          /\ detail'.pending = None
      BY <2>1, <2>2 DEF Detail
    <2>4. detail' # NoDetail
      BY <2>1, <2>3, NoneIsNothing DEF Detail, NoDetail
    <2>5. <<submissions[i].on, submissions[i].decision>> \in recorded
      BY <1>1, <2>2 DEF Consistent, AnswersWereRecorded
    <2>6. RecordedNoticeIsTrue'
      BY <1>3, <2>1, <2>3, <2>5 DEF RecordedNoticeIsTrue
    <2>7. PageNeedsCase' /\ HeardNeedsPage' /\ DialogIsOfItsDecision'
      BY <1>7, <2>1, <2>3, <2>4 DEF Consistent, PageNeedsCase, HeardNeedsPage, DialogIsOfItsDecision
    <2>8. PageIsOfItsAddress' /\ ReasonIsForTheDecision'
      BY <1>4, <2>1, <2>3 DEF Consistent, PageIsOfItsAddress, Heard, Deciding, ReasonIsForTheDecision
    <2> QED
      BY <1>2, <1>5, <2>6, <2>7, <2>8 DEF Consistent
  <1> QED
    BY <1>1, <1>8, <1>9 DEF DecisionFails, SearchEnds, Heard

LEMMA StepConsistent == Consistent /\ [Next]_vars => Consistent'
  <1> SUFFICES ASSUME Consistent, [Next]_vars PROVE Consistent'
    OBVIOUS
  <1>1. CASE Next
    BY <1>1, NavigationConsistent, PageConsistent, ErrorsConsistent, DialogConsistent,
       ServerConsistent, DecisionArrivesConsistent, DecisionEndsConsistent DEF Next
  <1>2. CASE UNCHANGED vars
    BY <1>2
    DEF vars, layout, page, server, Consistent, TypeOK, PageNeedsCase, HeardNeedsPage, Heard,
        Deciding, PageIsOfItsAddress, DialogIsOfItsDecision, AnswersWereRecorded,
        ReasonIsForTheDecision, RecordedNoticeIsTrue
  <1> QED
    BY <1>1, <1>2

LEMMA AlwaysConsistent == Spec => []Consistent
  BY InitConsistent, StepConsistent, PTL DEF Spec

-----------------------------------------------------------------------------
(* Theorems                                                                *)

\* Page, dialog, decisions and server keep their types.
THEOREM ReviewPageTypeCorrect == Spec => []TypeOK
  <1>1. Consistent => TypeOK
    BY DEF Consistent
  <1> QED
    BY <1>1, AlwaysConsistent, PTL

\* However many candidates: a page with one request at a time shows its own candidate.
THEOREM ScreenShowsItsAddress == Spec => []ScreenIsOfItsAddress
  <1>1. Consistent => ScreenIsOfItsAddress
    BY DEF Consistent, PageIsOfItsAddress, ScreenIsOfItsAddress
  <1> QED
    BY <1>1, AlwaysConsistent, PTL

\* However many dialogs were opened before: a reason is sent with the decision and the
\* records it was typed for.
THEOREM ReasonsForTheDecision == Spec => []ReasonIsForTheDecision
  <1>1. Consistent => ReasonIsForTheDecision
    BY DEF Consistent
  <1> QED
    BY <1>1, AlwaysConsistent, PTL

\* The page says "Recorded" of its own candidate, and the server did record it.
THEOREM NoticesAreTrue == Spec => []RecordedNoticeIsTrue
  <1>1. Consistent => RecordedNoticeIsTrue
    BY DEF Consistent
  <1> QED
    BY <1>1, AlwaysConsistent, PTL
=============================================================================
