------------------------------ MODULE CaseTabs ------------------------------
(***************************************************************************)
(* The pages of a case in the browser that show lists: the layout that     *)
(* loads the case for all of them (features/cases/case-layout.tsx,         *)
(* case-context.tsx), the evidence tab with its drawer, whose state is     *)
(* gone when the tab is left, and the timeline and the audit log, whose    *)
(* stores (stores/timelineStore.ts, auditStore.ts) outlive tab and case.   *)
(* The queue of features/review/review-page.tsx loads its rows with the    *)
(* same lines as the evidence tab.                                         *)
(*                                                                         *)
(* The browser's history holds every address, so any step is one click.    *)
(***************************************************************************)
EXTENDS Naturals, FiniteSets

CONSTANTS
    Cases,
    Items,              \* evidence of the case on the screen
    Statuses,           \* what the list of evidence can be filtered by, "ALL" among them
    Entities,           \* what ?entityId= and ?targetId= can name
    MaxLoads,           \* bound: requests of one store, list or loader in flight
    MaxTabs             \* bound: different tabs visited, the overview not counted

None == "none"

ASSUME CaseTabConstants ==
    /\ "ALL" \in Statuses
    /\ None \notin Cases \cup Items \cup Entities
    /\ MaxLoads \in Nat \ {0} /\ MaxTabs \in Nat

-----------------------------------------------------------------------------
(* Addresses, and what the components and stores keep.                     *)

Tabs == {"overview", "evidence", "timeline", "audit"}
Home == [case |-> None, tab |-> None, scope |-> None]
Routes == {Home} \cup
    {r \in [case : Cases, tab : Tabs, scope : Entities \cup {None}] :
        r.scope # None => r.tab \in {"timeline", "audit"}}

CaseRequest == [case : Cases, alive : BOOLEAN]

\* CaseEvidenceView: rows is the query whose answer the table shows.  raced: history,
\* another query was sent while one was in flight.
Query == [status : Statuses, offset : {0, 1}]
NoQuery == [status |-> None]
List == [query : Query, rows : Query \cup {NoQuery}, reqs : SUBSET Query, error : BOOLEAN, raced : BOOLEAN]
NoList == [query |-> NoQuery]

\* EvidenceDetailDrawer: detail is the item whose answer came last, verdict the one
\* that was verified.  job: its verify or reprocess request, with the list's query
\* of the moment it was sent.  raced: history, opened while something was in flight.
Job == [kind : {"verify", "reprocess"}, item : Items, query : Query]
NoJob == [kind |-> None]
Drawer == [item : Items \cup {None}, detail : Items \cup {None}, verdict : Items \cup {None, "busy", "error"},
           reqs : SUBSET Items, job : Job \cup {NoJob}, raced : BOOLEAN]
ClosedDrawer == [item |-> None, detail |-> None, verdict |-> None, reqs |-> {}, job |-> NoJob, raced |-> FALSE]

\* The timeline store.  asked: its case and entityScope.  filterOf: the case that was
\* on the screen when a filter was set.  cleared: history, the scope in the address was
\* cleared in the filter bar.  overlapped: history, a load began while another one was
\* in flight.  Two requests for the same are one.
Scoped == [case : Cases, scope : Entities \cup {None}]
NoScoped == [case |-> None, scope |-> None]
Timeline == [asked : Scoped \cup {NoScoped}, events : Scoped \cup {NoScoped}, isLoading : BOOLEAN, error : BOOLEAN,
             filterOf : Cases \cup {None}, cleared : BOOLEAN, reqs : SUBSET Scoped, overlapped : BOOLEAN]

\* The audit store.  logs and selected: the case the entries are of.
Audit == [caseId : Cases \cup {None}, logs : Cases \cup {None}, isLoading : BOOLEAN, error : BOOLEAN,
          filterOf : Cases \cup {None}, selected : Cases \cup {None}, reqs : SUBSET Cases, overlapped : BOOLEAN]

VARIABLES
    route,
    load, loadedFor, shownCase, caseReqs,       \* useCaseLoader
    list, drawer,
    timeline, audit,
    visited             \* tabs visited so far

layout == <<load, loadedFor, shownCase, caseReqs>>
evidence == <<list, drawer>>
stores == <<timeline, audit>>
vars == <<route, layout, evidence, stores, visited>>

Init ==
    /\ route = Home
    /\ load = "loading" /\ loadedFor = None /\ shownCase = None /\ caseReqs = {}
    /\ list = NoList /\ drawer = ClosedDrawer
    /\ timeline = [asked |-> NoScoped, events |-> NoScoped, isLoading |-> FALSE, error |-> FALSE,
                   filterOf |-> None, cleared |-> FALSE, reqs |-> {}, overlapped |-> FALSE]
    /\ audit = [caseId |-> None, logs |-> None, isLoading |-> FALSE, error |-> FALSE,
                filterOf |-> None, selected |-> None, reqs |-> {}, overlapped |-> FALSE]
    /\ visited = {}

-----------------------------------------------------------------------------
(* What the stores do when their tab asks for a case.                      *)

\* Faulty variant: what is on the screen stays there while it loads.
loadTimeline_KeepScreen(q, cleared) ==
    [timeline EXCEPT !.asked = q, !.cleared = cleared, !.error = FALSE,
                     !.filterOf = IF q.case # timeline.asked.case THEN None ELSE @,
                     !.reqs = @ \cup {q}, !.overlapped = timeline.reqs # {} /\ timeline.reqs # {q}]

\* Filters are reset for another case; the events stay, under the skeleton.
loadTimeline(q, cleared) ==
    [timeline EXCEPT !.asked = q, !.cleared = cleared, !.isLoading = TRUE, !.error = FALSE,
                     !.filterOf = IF q.case # timeline.asked.case THEN None ELSE @,
                     !.reqs = @ \cup {q}, !.overlapped = timeline.reqs # {} /\ timeline.reqs # {q}]

\* Filters are reset for another case, the entries cleared; the selected one is not.
loadLogs(c) ==
    [audit EXCEPT !.caseId = c, !.logs = None, !.isLoading = TRUE, !.error = FALSE,
                  !.filterOf = IF c # audit.caseId THEN None ELSE @,
                  !.reqs = @ \cup {c}, !.overlapped = audit.reqs # {} /\ audit.reqs # {c}]

\* ?targetId= sets a filter, after the load.
Targeted(a, r) == [a EXCEPT !.filterOf = IF r.scope # None THEN r.case ELSE @]

\* Bound: the store of the tab has room for one request more.
Room(r) ==
    /\ r.tab = "timeline" => Cardinality(timeline.reqs \cup {[case |-> r.case, scope |-> r.scope]}) <= MaxLoads
    /\ r.tab = "audit" => Cardinality(audit.reqs \cup {r.case}) <= MaxLoads

Visit(t) ==
    /\ visited' = visited \cup ({t} \ {"overview"})
    /\ Cardinality(visited') <= MaxTabs

\* The effects of the tab of r as it mounts on a case that is on the screen.
Effects(r) ==
    /\ timeline' = IF r.tab = "timeline"
                   THEN loadTimeline([case |-> r.case, scope |-> r.scope], FALSE) ELSE timeline
    /\ audit' = IF r.tab = "audit" THEN Targeted(loadLogs(r.case), r) ELSE audit

MountedList(r) ==
    IF r.tab # "evidence" THEN NoList
    ELSE LET q == [status |-> "ALL", offset |-> 0]
         IN [query |-> q, rows |-> NoQuery, reqs |-> {q}, error |-> FALSE, raced |-> FALSE]

\* Faulty variant: the drawer is mounted beside the tabs.
Unmounted_KeepDrawer == list' = NoList /\ UNCHANGED drawer

Unmounted == list' = NoList /\ drawer' = ClosedDrawer

\* The effect of useCaseLoader: the one before is cleaned up.
AskCase(c) ==
    /\ caseReqs' = {[q EXCEPT !.alive = FALSE] : q \in caseReqs} \cup {[case |-> c, alive |-> TRUE]}
    /\ Cardinality(caseReqs') <= MaxLoads

-----------------------------------------------------------------------------
(* Navigation.                                                             *)

GoHome ==
    /\ route # Home
    /\ route' = Home
    /\ load' = "loading" /\ loadedFor' = None /\ shownCase' = None /\ caseReqs' = {}
    /\ Unmounted
    /\ UNCHANGED <<stores, visited>>

\* Into a case, or from one to another.  The layout stays and loads the other; one
\* render shows the tab under the new address before that, and its effects run.
GoToCase(r) ==
    /\ r.case \notin {None, route.case}
    /\ Room(r) /\ Visit(r.tab)
    /\ route' = r
    /\ AskCase(r.case)
    /\ load' = IF loadedFor # r.case THEN "loading" ELSE load
    /\ IF load = "ready" THEN Effects(r) ELSE UNCHANGED stores
    /\ Unmounted
    /\ UNCHANGED <<loadedFor, shownCase>>

\* Another tab of the case, or another scope of the same one.
GoToTab(r) ==
    /\ r # route /\ r.case = route.case
    /\ Room(r) /\ Visit(r.tab)
    /\ route' = r
    /\ IF load # "ready" THEN UNCHANGED <<list, drawer, stores>>
       ELSE /\ list' = MountedList(r) /\ drawer' = ClosedDrawer
            /\ IF r.tab = "audit" /\ route.tab = "audit"
               THEN audit' = Targeted(audit, r) /\ UNCHANGED timeline
               ELSE Effects(r)
    /\ UNCHANGED layout

-----------------------------------------------------------------------------
(* Loading the case.                                                       *)

\* "Try again", or reload() after an assignment or an upload.
Reload ==
    /\ load = "error" \/ (load = "ready" /\ route.tab \in {"overview", "evidence"})
    /\ AskCase(route.case)
    /\ load' = IF loadedFor # route.case THEN "loading" ELSE load
    /\ UNCHANGED <<route, loadedFor, shownCase, evidence, stores, visited>>

\* A case that was not on the screen: its tab mounts.
Here == IF load = "ready" THEN UNCHANGED <<list, stores>>
        ELSE Room(route) /\ list' = MountedList(route) /\ Effects(route)

\* Faulty variant: an answer counts also when its effect was cleaned up.
CaseArrives_Dead(q) ==
    /\ q \in caseReqs
    /\ caseReqs' = caseReqs \ {q}
    /\ loadedFor' = q.case /\ shownCase' = q.case /\ load' = "ready"
    /\ Here
    /\ UNCHANGED <<route, drawer, visited>>

\* An answer whose effect was cleaned up meanwhile is dropped.
CaseArrives(q) ==
    /\ q \in caseReqs
    /\ caseReqs' = caseReqs \ {q}
    /\ IF q.alive
       THEN /\ loadedFor' = q.case /\ shownCase' = q.case /\ load' = "ready"
            /\ Here
       ELSE UNCHANGED <<load, loadedFor, shownCase, list, stores>>
    /\ UNCHANGED <<route, drawer, visited>>

\* Refused (403, 404: no way to try again), or the connection failed.
CaseFails(q, how) ==
    /\ q \in caseReqs
    /\ how \in {"denied", "error"}
    /\ caseReqs' = caseReqs \ {q}
    /\ IF q.alive
       THEN loadedFor' = None /\ load' = how /\ Unmounted
       ELSE UNCHANGED <<load, loadedFor, list, drawer>>
    /\ UNCHANGED <<route, shownCase, stores, visited>>

-----------------------------------------------------------------------------
(* The list of evidence.                                                   *)

Ask(queries, q) ==
    /\ Cardinality(list.reqs \cup queries) <= MaxLoads
    /\ list' = [list EXCEPT !.query = q, !.error = FALSE, !.reqs = @ \cup queries,
                            !.raced = @ \/ Cardinality(list.reqs \cup queries) > 1]

\* Faulty variant: the status is no dependency of load().
SetStatus_NotAsked(s) ==
    /\ list # NoList /\ drawer.item = None
    /\ s # list.query.status
    /\ list' = [list EXCEPT !.query = [status |-> s, offset |-> 0]]
    /\ UNCHANGED <<route, layout, drawer, stores, visited>>

\* The effect that goes back to the first page and the one that loads both run: on
\* any page but the first the query is sent twice, with the old offset and with 0.
SetStatus(s) ==
    /\ list # NoList /\ drawer.item = None
    /\ s # list.query.status
    /\ LET first == [status |-> s, offset |-> 0]
       IN Ask({[list.query EXCEPT !.status = s], first}, first)
    /\ UNCHANGED <<route, layout, drawer, stores, visited>>

\* The pager stands under a table with rows.
SetOffset(n) ==
    /\ list # NoList /\ drawer.item = None
    /\ list.rows # NoQuery /\ ~list.error
    /\ n \in {0, 1} \ {list.query.offset}
    /\ LET q == [list.query EXCEPT !.offset = n] IN Ask({q}, q)
    /\ UNCHANGED <<route, layout, drawer, stores, visited>>

RetryList ==
    /\ list # NoList /\ list.error /\ drawer.item = None
    /\ Ask({list.query}, list.query)
    /\ UNCHANGED <<route, layout, drawer, stores, visited>>

\* The answers to queries made before are not told apart.
RowsArrive(q) ==
    /\ list # NoList /\ q \in list.reqs
    /\ list' = [list EXCEPT !.reqs = @ \ {q}, !.rows = q]
    /\ UNCHANGED <<route, layout, drawer, stores, visited>>

RowsFail(q) ==
    /\ list # NoList /\ q \in list.reqs
    /\ list' = [list EXCEPT !.reqs = @ \ {q}, !.error = TRUE]
    /\ UNCHANGED <<route, layout, drawer, stores, visited>>

-----------------------------------------------------------------------------
(* The drawer of one item of evidence.                                     *)

\* Faulty variant: what was loaded and verified before stays.
Opened_KeepVerdict(i) ==
    [drawer EXCEPT !.item = i, !.detail = None, !.reqs = @ \cup {i},
                   !.raced = drawer.reqs # {} \/ drawer.job # NoJob]

\* load(): cleared, and the item asked for.
Opened(i) ==
    [drawer EXCEPT !.item = i, !.detail = None, !.verdict = None, !.reqs = @ \cup {i},
                   !.raced = drawer.reqs # {} \/ drawer.job # NoJob]

\* A row of the table; the drawer covers it while it is open.
OpenItem(i) ==
    /\ list # NoList /\ list.rows # NoQuery /\ ~list.error
    /\ drawer.item = None
    /\ drawer' = Opened(i)
    /\ UNCHANGED <<route, layout, list, stores, visited>>

\* The component stays mounted, with what it loaded and what is in flight.
CloseItem ==
    /\ drawer.item # None
    /\ drawer' = [drawer EXCEPT !.item = None]
    /\ UNCHANGED <<route, layout, list, stores, visited>>

DetailArrives(i) ==
    /\ i \in drawer.reqs
    /\ drawer' = [drawer EXCEPT !.reqs = @ \ {i}, !.detail = i]
    /\ UNCHANGED <<route, layout, list, stores, visited>>

DetailFails(i) ==
    /\ i \in drawer.reqs
    /\ drawer' = [drawer EXCEPT !.reqs = @ \ {i}, !.detail = None]
    /\ UNCHANGED <<route, layout, list, stores, visited>>

ShownItem == IF drawer.detail # None THEN drawer.detail ELSE drawer.item

\* "Verify integrity", "Reprocess": for the item the drawer displays.  Bound: one at a time.
Run(kind) ==
    /\ drawer.item # None /\ drawer.verdict # "busy"
    /\ drawer.job = NoJob
    /\ drawer' = [drawer EXCEPT !.job = [kind |-> kind, item |-> ShownItem, query |-> list.query],
                                !.verdict = IF kind = "verify" THEN "busy" ELSE @]
    /\ UNCHANGED <<route, layout, list, stores, visited>>

\* The verdict, or the item loaded again; and onChanged(), which loads the list with
\* the query of the render the button was clicked in.
JobEnds ==
    /\ drawer.job # NoJob
    /\ LET job == drawer.job IN
       /\ drawer' = IF job.kind = "verify"
                    THEN [drawer EXCEPT !.job = NoJob, !.verdict = job.item]
                    ELSE [drawer EXCEPT !.job = NoJob, !.verdict = None, !.detail = None, !.reqs = @ \cup {job.item},
                                        !.raced = @ \/ drawer.reqs # {}]
       /\ list' = [list EXCEPT !.error = FALSE, !.reqs = @ \cup {job.query},
                               !.raced = @ \/ list.reqs \cup {job.query} # {list.query}]
    /\ UNCHANGED <<route, layout, stores, visited>>

JobFails ==
    /\ drawer.job # NoJob
    /\ drawer' = [drawer EXCEPT !.job = NoJob, !.verdict = IF drawer.job.kind = "verify" THEN "error" ELSE @]
    /\ UNCHANGED <<route, layout, list, stores, visited>>

-----------------------------------------------------------------------------
(* The timeline.                                                           *)

OnTab(t) == load = "ready" /\ route.tab = t

\* A date, or a search term.
FilterTimeline ==
    /\ OnTab("timeline") /\ timeline.filterOf = None
    /\ timeline' = [timeline EXCEPT !.filterOf = route.case]
    /\ UNCHANGED <<route, layout, evidence, audit, visited>>

ResetTimeline ==
    /\ OnTab("timeline") /\ timeline.filterOf # None
    /\ timeline' = [timeline EXCEPT !.filterOf = None]
    /\ UNCHANGED <<route, layout, evidence, audit, visited>>

\* Bound: the store has room for one request more.
Asks(q) == Cardinality(timeline.reqs \cup {q}) <= MaxLoads

\* "Clear entity scope" in the filter bar.  It loads the whole case, and leaves
\* ?entityId= in the address ("Show all events" changes both: GoToTab).
ClearEntityScope ==
    /\ OnTab("timeline") /\ timeline.asked.scope # None
    /\ LET q == [case |-> timeline.asked.case, scope |-> None] IN
       /\ Asks(q)
       /\ timeline' = loadTimeline(q, TRUE)
    /\ UNCHANGED <<route, layout, evidence, audit, visited>>

\* The tag of an entity in a row, that of the address: no effect runs, as the address
\* is the same.  Another entity's changes both: GoToTab.
handleScopeEntity ==
    /\ OnTab("timeline") /\ ~timeline.isLoading /\ ~timeline.error
    /\ route.scope # None
    /\ LET q == [case |-> timeline.asked.case, scope |-> route.scope] IN
       /\ Asks(q)
       /\ timeline' = loadTimeline(q, FALSE)
    /\ UNCHANGED <<route, layout, evidence, audit, visited>>

RetryTimeline ==
    /\ OnTab("timeline") /\ timeline.error /\ ~timeline.isLoading
    /\ Asks([case |-> route.case, scope |-> timeline.asked.scope])
    /\ timeline' = loadTimeline([case |-> route.case, scope |-> timeline.asked.scope], timeline.cleared)
    /\ UNCHANGED <<route, layout, evidence, audit, visited>>

EventsArrive(q) ==
    /\ q \in timeline.reqs
    /\ timeline' = [timeline EXCEPT !.reqs = @ \ {q}, !.events = q, !.isLoading = FALSE]
    /\ UNCHANGED <<route, layout, evidence, audit, visited>>

EventsFail(q) ==
    /\ q \in timeline.reqs
    /\ timeline' = [timeline EXCEPT !.reqs = @ \ {q}, !.error = TRUE, !.isLoading = FALSE]
    /\ UNCHANGED <<route, layout, evidence, audit, visited>>

-----------------------------------------------------------------------------
(* The audit log.                                                          *)

FilterAudit ==
    /\ OnTab("audit") /\ audit.filterOf = None
    /\ audit' = [audit EXCEPT !.filterOf = route.case]
    /\ UNCHANGED <<route, layout, evidence, timeline, visited>>

ResetAudit ==
    /\ OnTab("audit") /\ audit.filterOf # None
    /\ audit' = [audit EXCEPT !.filterOf = None]
    /\ UNCHANGED <<route, layout, evidence, timeline, visited>>

RetryAudit ==
    /\ OnTab("audit") /\ audit.error /\ ~audit.isLoading
    /\ Room(route)
    /\ audit' = loadLogs(route.case)
    /\ UNCHANGED <<route, layout, evidence, timeline, visited>>

openDrawer ==
    /\ OnTab("audit") /\ ~audit.isLoading /\ ~audit.error /\ audit.logs # None
    /\ audit.selected = None
    /\ audit' = [audit EXCEPT !.selected = audit.logs]
    /\ UNCHANGED <<route, layout, evidence, timeline, visited>>

closeDrawer ==
    /\ OnTab("audit") /\ audit.selected # None
    /\ audit' = [audit EXCEPT !.selected = None]
    /\ UNCHANGED <<route, layout, evidence, timeline, visited>>

LogsArrive(c) ==
    /\ c \in audit.reqs
    /\ audit' = [audit EXCEPT !.reqs = @ \ {c}, !.logs = c, !.isLoading = FALSE]
    /\ UNCHANGED <<route, layout, evidence, timeline, visited>>

LogsFail(c) ==
    /\ c \in audit.reqs
    /\ audit' = [audit EXCEPT !.reqs = @ \ {c}, !.error = TRUE, !.isLoading = FALSE]
    /\ UNCHANGED <<route, layout, evidence, timeline, visited>>

-----------------------------------------------------------------------------
Next ==
    \/ GoHome
    \/ \E r \in Routes : GoToCase(r)
    \/ \E r \in Routes : GoToTab(r)
    \/ Reload
    \/ \E q \in CaseRequest : CaseArrives(q)
    \/ \E q \in CaseRequest, how \in {"denied", "error"} : CaseFails(q, how)
    \/ \E s \in Statuses : SetStatus(s)
    \/ \E n \in {0, 1} : SetOffset(n)
    \/ RetryList
    \/ \E q \in Query : RowsArrive(q)
    \/ \E q \in Query : RowsFail(q)
    \/ \E i \in Items : OpenItem(i)
    \/ CloseItem
    \/ \E i \in Items : DetailArrives(i)
    \/ \E i \in Items : DetailFails(i)
    \/ \E kind \in {"verify", "reprocess"} : Run(kind)
    \/ JobEnds
    \/ JobFails
    \/ FilterTimeline
    \/ ResetTimeline
    \/ ClearEntityScope
    \/ handleScopeEntity
    \/ RetryTimeline
    \/ \E q \in Scoped : EventsArrive(q)
    \/ \E q \in Scoped : EventsFail(q)
    \/ FilterAudit
    \/ ResetAudit
    \/ RetryAudit
    \/ openDrawer
    \/ closeDrawer
    \/ \E c \in Cases : LogsArrive(c)
    \/ \E c \in Cases : LogsFail(c)

Spec == Init /\ [][Next]_vars

-----------------------------------------------------------------------------
(* Properties.                                                             *)

\* Type invariant.
TypeOK ==
    /\ route \in Routes
    /\ load \in {"loading", "denied", "error", "ready"}
    /\ loadedFor \in Cases \cup {None} /\ shownCase \in Cases \cup {None}
    /\ caseReqs \subseteq CaseRequest
    /\ list \in List \cup {NoList}
    /\ drawer \in Drawer
    /\ timeline \in Timeline
    /\ audit \in Audit
    /\ visited \subseteq Tabs
    /\ list = NoList => drawer = ClosedDrawer
    /\ load = "ready" => route # Home

\* "Never keep the previous case on screen while another loads or is refused"
\* (DEF-078, case-context.tsx:45): the header and the tabs are of the case in the
\* address, however its requests and those of the cases before are answered.
CaseShownIsRouted ==
    load = "ready" => shownCase = route.case

\* A list that asked for one page at a time shows, once it is answered, the rows of
\* the filter and the page its controls stand at (case-evidence-view.tsx:50-59).
ListIsOfItsQuery ==
    list # NoList /\ ~list.raced /\ list.reqs = {} /\ ~list.error => list.rows = list.query

\* What the drawer says of an item, its hash check above all, is of the item it was
\* opened for (evidence-detail-drawer.tsx:38, 50).  Excepted is a drawer opened
\* while an answer for the item before was still to come.
DrawerIsOfItsItem ==
    drawer.item # None /\ ~drawer.raced =>
        /\ drawer.detail \in {None, drawer.item}
        /\ drawer.verdict \in {None, "busy", "error", drawer.item}

\* The scope the filter bar displays: that of the address, until it is cleared there.
ScopeInForce == IF timeline.cleared THEN None ELSE route.scope

\* The events the timeline shows are of the case in the address, and of the entity
\* its filter bar says they are scoped to.
TimelineIsOfItsAddress ==
    OnTab("timeline") =>
        /\ timeline.asked.scope = ScopeInForce
        /\ ~timeline.isLoading /\ ~timeline.error /\ ~timeline.overlapped =>
               timeline.events = [case |-> route.case, scope |-> ScopeInForce]

\* The entries of the audit log, and the actors and actions its filter bar offers
\* also while it loads, are of the case in the address.
LogsAreOfTheCase ==
    OnTab("audit") /\ ~audit.overlapped => audit.logs \in {None, route.case}

\* The two tabs whose stores outlive the case show the case of the address, whatever
\* was opened before (timelineStore.ts:50, auditStore.ts:56).  Excepted are loads that overlapped.
TabsShowTheirAddress ==
    /\ TimelineIsOfItsAddress
    /\ LogsAreOfTheCase
=============================================================================
