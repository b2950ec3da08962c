--------------------------- MODULE CasePagesProofs ---------------------------
(***************************************************************************)
(* Proofs about the pages of a case in the browser: CaseTabs, the loader   *)
(* and the tabs with lists, and GraphWorkspace, the relationship graph.    *)
(* In both, answers come in any order, also to pages that were left, and   *)
(* the invariants say what a store still waits for and what it holds until *)
(* then: for any number of cases, items and requests in flight, and for    *)
(* all graphs the server may answer.                                       *)
(***************************************************************************)
EXTENDS CaseTabs, GraphWorkspace, FiniteSetTheorems, TLAPS

-----------------------------------------------------------------------------
(* CaseTabs: the case, the lists, the drawer and the stores.                 *)

\* The case on the screen is the one of the address, and so is the one that is asked for.
LoaderFollows ==
    /\ load = "ready" => loadedFor = route.case /\ shownCase = route.case
    /\ load # "ready" => list = NoList
    /\ load = "error" => route # Home
    /\ \A q \in caseReqs : q.alive => q.case = route.case

\* A list that never had two queries under way waits for the one it stands at.
ListFollows ==
    list # NoList /\ ~list.raced =>
        /\ list.reqs \subseteq {list.query}
        /\ list.reqs = {} /\ ~list.error => list.rows = list.query

\* A drawer opened with nothing under way asks, and has asked, for its item alone.
DrawerFollows ==
    drawer.item # None /\ ~drawer.raced =>
        /\ drawer.reqs \subseteq {drawer.item}
        /\ drawer.job # NoJob => drawer.job.item = drawer.item
        /\ drawer.detail \in {None, drawer.item}
        /\ drawer.verdict \in {None, "busy", "error", drawer.item}

\* A store whose loads did not overlap waits for what it asked for last, and holds that.
TimelineFollows ==
    /\ OnTab("timeline") => timeline.asked = [case |-> route.case, scope |-> ScopeInForce]
    /\ ~timeline.overlapped =>
         /\ timeline.reqs \subseteq {timeline.asked}
         /\ ~timeline.isLoading /\ ~timeline.error => timeline.events = timeline.asked

AuditFollows ==
    /\ OnTab("audit") => audit.caseId = route.case
    /\ ~audit.overlapped => audit.reqs \subseteq {audit.caseId} /\ audit.logs \in {None, audit.caseId}

Follows ==
    /\ TypeOK
    /\ LoaderFollows
    /\ ListFollows
    /\ DrawerFollows
    /\ TimelineFollows
    /\ AuditFollows

-----------------------------------------------------------------------------
LEMMA NothingIsNoThing ==
  /\ NoQuery \notin Query /\ NoList \notin List /\ NoJob \notin Job /\ NoScoped \notin Scoped
  /\ None \notin Cases /\ None \notin Items /\ None \notin Entities
  BY CaseTabConstants DEF NoQuery, Query, NoList, List, NoJob, Job, NoScoped, Scoped, None

LEMMA ClosedDrawerType ==
  ClosedDrawer \in Drawer /\ ClosedDrawer.item = None /\ ClosedDrawer.job = NoJob
  BY DEF ClosedDrawer, Drawer

LEMMA RouteType ==
  ASSUME NEW r \in Routes
  PROVE  /\ r.case \in Cases \cup {None} /\ r.tab \in Tabs \cup {None}
         /\ r.scope \in Entities \cup {None}
         /\ r # Home => r.case \in Cases /\ r.tab \in Tabs
         /\ Home.case = None /\ Home.tab = None
  BY DEF Routes, Home

LEMMA InitFollows == Init => Follows
  <1> SUFFICES ASSUME Init PROVE Follows
    OBVIOUS
  <1>1. Home \in Routes
    BY DEF Routes
  <1>2. timeline \in Timeline
    BY DEF Init, Timeline
  <1>3. audit \in Audit
    BY DEF Init, Audit
  <1>4. TypeOK
    BY <1>1, <1>2, <1>3, ClosedDrawerType DEF Init, TypeOK
  <1>5. LoaderFollows /\ ListFollows /\ DrawerFollows
    BY ClosedDrawerType DEF Init, LoaderFollows, ListFollows, DrawerFollows
  <1>6. TimelineFollows /\ AuditFollows
    BY DEF Init, TimelineFollows, ScopeInForce, AuditFollows, OnTab
  <1> QED
    BY <1>4, <1>5, <1>6 DEF Follows

-----------------------------------------------------------------------------
(* What the stores do when they are asked.                                   *)

LEMMA TimelineLoads ==
  ASSUME timeline \in Timeline, NEW q \in Scoped, NEW cleared \in BOOLEAN, NEW t, t = loadTimeline(q, cleared)
  PROVE  /\ t \in Timeline /\ t.asked = q /\ t.cleared = cleared /\ t.isLoading
         /\ ~t.overlapped => t.reqs \subseteq {t.asked}
  <1> DEFINE o == timeline.reqs # {} /\ timeline.reqs # {q}
  <1>1. /\ timeline.asked.case \in Cases \cup {None} /\ timeline.filterOf \in Cases \cup {None}
        /\ timeline.reqs \cup {q} \in SUBSET Scoped
    <2>1. timeline.asked \in Scoped \/ timeline.asked = NoScoped
      BY DEF Timeline
    <2>2. timeline.asked.case \in Cases \cup {None}
      BY <2>1 DEF Scoped, NoScoped
    <2> QED
      BY <2>2 DEF Timeline
  <1>2. t = [asked |-> q, events |-> timeline.events, isLoading |-> TRUE, error |-> FALSE,
             filterOf |-> IF q.case # timeline.asked.case THEN None ELSE timeline.filterOf,
             cleared |-> cleared, reqs |-> timeline.reqs \cup {q}, overlapped |-> o]
    BY DEF loadTimeline, Timeline
  <1>3. o \in BOOLEAN /\ (~o => timeline.reqs \cup {q} \subseteq {q})
    OBVIOUS
  <1> HIDE DEF o
  <1>4. t \in Timeline
    BY <1>1, <1>2, <1>3 DEF Timeline
  <1> QED
    BY <1>2, <1>3, <1>4

LEMMA LogsLoad ==
  ASSUME audit \in Audit, NEW c \in Cases, NEW a, a = loadLogs(c)
  PROVE  /\ a \in Audit /\ a.caseId = c /\ a.logs = None
         /\ ~a.overlapped => a.reqs \subseteq {c}
  <1> DEFINE o == audit.reqs # {} /\ audit.reqs # {c}
  <1>1. audit.reqs \cup {c} \in SUBSET Cases
    BY DEF Audit
  <1>2. a = [caseId |-> c, logs |-> None, isLoading |-> TRUE, error |-> FALSE,
             filterOf |-> IF c # audit.caseId THEN None ELSE audit.filterOf,
             selected |-> audit.selected, reqs |-> audit.reqs \cup {c}, overlapped |-> o]
    BY DEF loadLogs, Audit
  <1>3. o \in BOOLEAN /\ (~o => audit.reqs \cup {c} \subseteq {c})
    OBVIOUS
  <1> HIDE DEF o
  <1>4. a \in Audit
    BY <1>1, <1>2, <1>3 DEF Audit
  <1> QED
    BY <1>2, <1>3, <1>4

LEMMA TargetedIs ==
  ASSUME NEW a \in Audit, NEW r \in Routes
  PROVE  /\ Targeted(a, r) \in Audit
         /\ Targeted(a, r).caseId = a.caseId /\ Targeted(a, r).logs = a.logs
         /\ Targeted(a, r).reqs = a.reqs /\ Targeted(a, r).overlapped = a.overlapped
  BY RouteType DEF Targeted, Audit

\* The stores after the effects of a tab that mounts.
LEMMA EffectsFollow ==
  ASSUME Follows, NEW r \in Routes, r # Home, Effects(r)
  PROVE  /\ timeline' \in Timeline /\ audit' \in Audit
         /\ r.tab = "timeline" =>
              timeline'.asked = [case |-> r.case, scope |-> r.scope] /\ ~timeline'.cleared
         /\ r.tab = "audit" => audit'.caseId = r.case
         /\ ~timeline'.overlapped =>
              /\ timeline'.reqs \subseteq {timeline'.asked}
              /\ ~timeline'.isLoading /\ ~timeline'.error => timeline'.events = timeline'.asked
         /\ ~audit'.overlapped =>
              audit'.reqs \subseteq {audit'.caseId} /\ audit'.logs \in {None, audit'.caseId}
  <1> DEFINE q == [case |-> r.case, scope |-> r.scope]
  <1>1. timeline \in Timeline /\ audit \in Audit
    BY DEF Follows, TypeOK
  <1>2. q \in Scoped /\ r.case \in Cases
    BY RouteType DEF Scoped
  <1>3. /\ timeline' \in Timeline
        /\ r.tab = "timeline" =>
              timeline'.asked = [case |-> r.case, scope |-> r.scope] /\ ~timeline'.cleared
        /\ ~timeline'.overlapped =>
              /\ timeline'.reqs \subseteq {timeline'.asked}
              /\ ~timeline'.isLoading /\ ~timeline'.error => timeline'.events = timeline'.asked
    <2>1. CASE r.tab = "timeline"
      <3>1. timeline' = loadTimeline(q, FALSE)
        BY <2>1 DEF Effects
      <3> HIDE DEF q
      <3>2. /\ timeline' \in Timeline /\ timeline'.asked = q /\ timeline'.cleared = FALSE
            /\ timeline'.isLoading
            /\ ~timeline'.overlapped => timeline'.reqs \subseteq {timeline'.asked}
        BY <1>1, <1>2, <3>1, TimelineLoads
      <3> QED
        BY <3>2 DEF q
    <2>2. CASE r.tab # "timeline"
      BY <1>1, <2>2 DEF Effects, Follows, TimelineFollows
    <2> QED
      BY <2>1, <2>2
  <1>4. /\ audit' \in Audit
        /\ r.tab = "audit" => audit'.caseId = r.case
        /\ ~audit'.overlapped =>
              audit'.reqs \subseteq {audit'.caseId} /\ audit'.logs \in {None, audit'.caseId}
    <2>1. CASE r.tab = "audit"
      <3> DEFINE a == loadLogs(r.case)
      <3>1. audit' = Targeted(a, r)
        BY <2>1 DEF Effects
      <3>2. a \in Audit /\ a.caseId = r.case /\ a.logs = None /\ (~a.overlapped => a.reqs \subseteq {r.case})
        BY <1>1, <1>2, LogsLoad
      <3> HIDE DEF a
      <3> QED
        BY <3>1, <3>2, TargetedIs
    <2>2. CASE r.tab # "audit"
      BY <1>1, <2>2 DEF Effects, Follows, AuditFollows
    <2> QED
      BY <2>1, <2>2
  <1> QED
    BY <1>3, <1>4

LEMMA MountedListFollows ==
  ASSUME NEW r
  PROVE  /\ MountedList(r) \in List \cup {NoList}
         /\ MountedList(r) # NoList =>
              /\ MountedList(r).reqs = {MountedList(r).query} /\ MountedList(r).reqs # {}
  <1> DEFINE q == [status |-> "ALL", offset |-> 0]
             l == [query |-> q, rows |-> NoQuery, reqs |-> {q}, error |-> FALSE, raced |-> FALSE]
  <1>1. q \in Query
    BY CaseTabConstants DEF Query
  <1> HIDE DEF q
  <1>2. l \in List /\ l.reqs = {q} /\ l.query = q
    BY <1>1 DEF List
  <1>3. MountedList(r) = IF r.tab # "evidence" THEN NoList ELSE l
    BY DEF MountedList, q
  <1> QED
    BY <1>2, <1>3

-----------------------------------------------------------------------------
(* Navigation and the loader.                                                *)

LEMMA AskCaseFollows ==
  ASSUME Follows, NEW c \in Cases, AskCase(c)
  PROVE  caseReqs' \subseteq CaseRequest /\ \A q \in caseReqs' : q.alive => q.case = c
  <1>1. \A q \in CaseRequest : [q EXCEPT !.alive = FALSE] \in CaseRequest /\ ~[q EXCEPT !.alive = FALSE].alive
    BY DEF CaseRequest
  <1>2. [case |-> c, alive |-> TRUE] \in CaseRequest
    BY DEF CaseRequest
  <1>3. caseReqs \subseteq CaseRequest
    BY DEF Follows, TypeOK
  <1>4. \A q \in caseReqs' : \/ q = [case |-> c, alive |-> TRUE]
                              \/ \E p \in caseReqs : q = [p EXCEPT !.alive = FALSE]
    BY DEF AskCase
  <1>5. ASSUME NEW q \in caseReqs' PROVE q \in CaseRequest /\ (q.alive => q.case = c)
    <2>1. CASE q = [case |-> c, alive |-> TRUE]
      BY <1>2, <2>1
    <2>2. CASE \E p \in caseReqs : q = [p EXCEPT !.alive = FALSE]
      BY <1>1, <1>3, <2>2
    <2> QED
      BY <1>4, <2>1, <2>2
  <1> QED
    BY <1>5

LEMMA VisitType ==
  ASSUME Follows, NEW r \in Routes, r # Home, Visit(r.tab)
  PROVE  visited' \subseteq Tabs
  BY RouteType DEF Visit, Follows, TypeOK

\* Away from the case pages, or to a page that is not shown yet.
LEMMA HomeStep ==
  ASSUME Follows, GoHome
  PROVE  Follows'
  <1> USE DEF layout, evidence, stores
  <1>1. /\ route' = Home /\ load' = "loading" /\ loadedFor' = None /\ shownCase' = None /\ caseReqs' = {}
        /\ list' = NoList /\ drawer' = ClosedDrawer /\ UNCHANGED <<timeline, audit, visited>>
    BY DEF GoHome, Unmounted
  <1>2. TypeOK'
    BY <1>1, ClosedDrawerType DEF Follows, TypeOK, Routes
  <1>3. LoaderFollows' /\ ListFollows' /\ DrawerFollows'
    BY <1>1, ClosedDrawerType DEF LoaderFollows, ListFollows, DrawerFollows
  <1>4. TimelineFollows' /\ AuditFollows'
    BY <1>1 DEF Follows, TimelineFollows, ScopeInForce, AuditFollows, OnTab
  <1> QED
    BY <1>2, <1>3, <1>4 DEF Follows

LEMMA CaseStep ==
  ASSUME Follows, NEW r \in Routes, GoToCase(r)
  PROVE  Follows'
  <1>1. r # Home /\ r.case \in Cases /\ r.case # route.case
    BY RouteType DEF GoToCase
  <1>2. /\ route' = r /\ list' = NoList /\ drawer' = ClosedDrawer
        /\ UNCHANGED <<loadedFor, shownCase>>
        /\ load' = IF loadedFor # r.case THEN "loading" ELSE load
    BY DEF GoToCase, Unmounted
  <1>3. load' # "ready" /\ load' \in {"loading", "denied", "error", "ready"}
    BY <1>1, <1>2 DEF Follows, LoaderFollows, TypeOK
  <1>4. caseReqs' \subseteq CaseRequest /\ \A q \in caseReqs' : q.alive => q.case = r.case
    BY <1>1, AskCaseFollows DEF GoToCase
  <1>5. visited' \subseteq Tabs
    BY <1>1, VisitType DEF GoToCase
  <1>6. Effects(r) \/ UNCHANGED <<timeline, audit>>
    BY DEF GoToCase, stores
  <1>7. timeline' \in Timeline /\ audit' \in Audit
    BY <1>1, <1>6, EffectsFollow DEF Follows, TypeOK
  <1>8. TypeOK'
    BY <1>2, <1>3, <1>4, <1>5, <1>7, ClosedDrawerType DEF Follows, TypeOK
  <1>9. LoaderFollows' /\ ListFollows' /\ DrawerFollows'
    BY <1>1, <1>2, <1>3, <1>4, ClosedDrawerType DEF LoaderFollows, ListFollows, DrawerFollows
  <1>10. TimelineFollows' /\ AuditFollows'
    BY <1>1, <1>3, <1>6, EffectsFollow DEF Follows, TimelineFollows, ScopeInForce, AuditFollows, OnTab
  <1> QED
    BY <1>8, <1>9, <1>10 DEF Follows

LEMMA TabStep ==
  ASSUME Follows, NEW r \in Routes, GoToTab(r)
  PROVE  Follows'
  <1> USE DEF layout, stores
  <1>1. route' = r /\ r.case = route.case /\ r # route /\ UNCHANGED <<load, loadedFor, shownCase, caseReqs>>
    BY DEF GoToTab
  <1>2. route \in Routes /\ r # Home
    <2>1. route \in Routes
      BY DEF Follows, TypeOK
    <2>2. \A a \in Routes : a.case = None => a = Home
      BY NothingIsNoThing DEF Routes, Home
    <2> QED
      BY <1>1, <2>1, <2>2 DEF Home
  <1>3. visited' \subseteq Tabs
    BY <1>2, VisitType DEF GoToTab
  <1>4. LoaderFollows'
    BY <1>1, <1>2 DEF Follows, LoaderFollows, GoToTab
  <1>5. CASE load # "ready"
    <2>1. UNCHANGED <<list, drawer, timeline, audit>>
      BY <1>5 DEF GoToTab
    <2>2. TypeOK'
      BY <1>1, <1>2, <1>3, <1>5, <2>1 DEF Follows, TypeOK
    <2>3. TimelineFollows' /\ AuditFollows'
      BY <1>1, <1>5, <2>1 DEF Follows, TimelineFollows, ScopeInForce, AuditFollows, OnTab
    <2> QED
      BY <1>4, <2>1, <2>2, <2>3 DEF Follows, ListFollows, DrawerFollows
  <1>6. CASE load = "ready"
    <2>1. list' = MountedList(r) /\ drawer' = ClosedDrawer
      BY <1>6 DEF GoToTab
    <2>2. ListFollows' /\ DrawerFollows'
      BY <2>1, MountedListFollows, ClosedDrawerType DEF ListFollows, DrawerFollows
    <2>3. CASE r.tab = "audit" /\ route.tab = "audit"
      <3>1. audit' = Targeted(audit, r) /\ UNCHANGED timeline
        BY <1>6, <2>3 DEF GoToTab
      <3>2. audit \in Audit /\ OnTab("audit")
        BY <1>6, <2>3 DEF Follows, TypeOK, OnTab
      <3>3. TypeOK'
        BY <1>1, <1>2, <1>3, <2>1, <3>1, <3>2, TargetedIs, MountedListFollows, ClosedDrawerType
        DEF Follows, TypeOK
      <3>4. AuditFollows'
        BY <1>1, <3>1, <3>2, TargetedIs DEF Follows, AuditFollows, OnTab
      <3>5. TimelineFollows'
        BY <1>1, <2>3, <3>1 DEF Follows, TimelineFollows, ScopeInForce, OnTab
      <3> QED
        BY <1>4, <2>2, <3>3, <3>4, <3>5 DEF Follows
    <2>4. CASE ~(r.tab = "audit" /\ route.tab = "audit")
      <3>1. Effects(r)
        BY <1>6, <2>4 DEF GoToTab
      <3>2. timeline' \in Timeline /\ audit' \in Audit
        BY <1>2, <3>1, EffectsFollow
      <3>3. TypeOK'
        BY <1>1, <1>2, <1>3, <2>1, <3>2, MountedListFollows, ClosedDrawerType DEF Follows, TypeOK
      <3>4. TimelineFollows' /\ AuditFollows'
        BY <1>1, <1>2, <3>1, EffectsFollow DEF TimelineFollows, ScopeInForce, AuditFollows, OnTab
      <3> QED
        BY <1>4, <2>2, <3>3, <3>4 DEF Follows
    <2> QED
      BY <2>3, <2>4
  <1> QED
    BY <1>5, <1>6

LEMMA ReloadStep ==
  ASSUME Follows, Reload
  PROVE  Follows'
  <1> USE DEF evidence, stores
  <1>1. /\ UNCHANGED <<route, loadedFor, shownCase, list, drawer, timeline, audit, visited>>
        /\ load' = IF loadedFor # route.case THEN "loading" ELSE load
        /\ AskCase(route.case) /\ load \in {"error", "ready"}
    BY DEF Reload
  <1>2. route \in Routes /\ route.case \in Cases
    BY <1>1, RouteType DEF Follows, TypeOK, LoaderFollows
  <1>3. caseReqs' \subseteq CaseRequest /\ \A q \in caseReqs' : q.alive => q.case = route.case
    BY <1>1, <1>2, AskCaseFollows
  <1>4. load' \in {load, "loading"}
    BY <1>1
  <1>5. TypeOK' /\ LoaderFollows'
    BY <1>1, <1>3, <1>4 DEF Follows, TypeOK, LoaderFollows
  <1>6. OnTab("timeline")' => OnTab("timeline")
    BY <1>1, <1>4 DEF OnTab
  <1>7. OnTab("audit")' => OnTab("audit")
    BY <1>1, <1>4 DEF OnTab
  <1> QED
    BY <1>1, <1>5, <1>6, <1>7 DEF Follows, ListFollows, DrawerFollows, TimelineFollows, ScopeInForce, AuditFollows

LEMMA CaseArrivesStep ==
  ASSUME Follows, NEW q \in CaseRequest, CaseArrives(q)
  PROVE  Follows'
  <1> USE DEF stores
  <1>1. /\ q \in caseReqs /\ caseReqs' = caseReqs \ {q}
        /\ UNCHANGED <<route, drawer, visited>>
    BY DEF CaseArrives
  <1>2. CASE ~q.alive
    <2>1. UNCHANGED <<load, loadedFor, shownCase, list, timeline, audit>>
      BY <1>2 DEF CaseArrives
    <2> QED
      BY <1>1, <2>1
      DEF Follows, TypeOK, LoaderFollows, ListFollows, DrawerFollows, TimelineFollows, ScopeInForce, AuditFollows, OnTab
  <1>3. CASE q.alive
    <2>1. loadedFor' = route.case /\ shownCase' = route.case /\ load' = "ready" /\ Here
      BY <1>1, <1>3 DEF CaseArrives, Follows, LoaderFollows
    <2>2. route \in Routes /\ route # Home /\ route.case \in Cases
      BY <1>1, <1>3, NothingIsNoThing, RouteType DEF Follows, TypeOK, LoaderFollows, CaseRequest
    <2>3. LoaderFollows'
      BY <1>1, <2>1, <2>2 DEF Follows, LoaderFollows
    <2>4. DrawerFollows'
      BY <1>1 DEF Follows, DrawerFollows
    <2>5. CASE load = "ready"
      <3>1. UNCHANGED <<list, timeline, audit>>
        BY <2>1, <2>5 DEF Here
      <3>2. TypeOK'
        BY <1>1, <2>1, <2>2, <3>1 DEF Follows, TypeOK
      <3>3. ListFollows' /\ TimelineFollows' /\ AuditFollows'
        BY <1>1, <2>5, <3>1 DEF Follows, ListFollows, TimelineFollows, ScopeInForce, AuditFollows, OnTab
      <3> QED
        BY <2>3, <2>4, <3>2, <3>3 DEF Follows
    <2>6. CASE load # "ready"
      <3>1. list' = MountedList(route) /\ Effects(route)
        BY <2>1, <2>6 DEF Here
      <3>2. list = NoList /\ drawer = ClosedDrawer
        BY <2>6 DEF Follows, TypeOK, LoaderFollows
      <3>3. TypeOK'
        BY <1>1, <2>1, <2>2, <3>1, <3>2, EffectsFollow, MountedListFollows DEF Follows, TypeOK
      <3>4. ListFollows'
        BY <3>1, MountedListFollows DEF ListFollows
      <3>5. TimelineFollows' /\ AuditFollows'
        BY <1>1, <2>2, <3>1, EffectsFollow DEF TimelineFollows, ScopeInForce, AuditFollows, OnTab
      <3> QED
        BY <2>3, <2>4, <3>3, <3>4, <3>5 DEF Follows
    <2> QED
      BY <2>5, <2>6
  <1> QED
    BY <1>2, <1>3

LEMMA CaseFailsStep ==
  ASSUME Follows, NEW q \in CaseRequest, NEW how, CaseFails(q, how)
  PROVE  Follows'
  <1> USE DEF stores
  <1>1. /\ q \in caseReqs /\ caseReqs' = caseReqs \ {q} /\ how \in {"denied", "error"}
        /\ UNCHANGED <<route, shownCase, timeline, audit, visited>>
    BY DEF CaseFails
  <1>2. CASE ~q.alive
    <2>1. UNCHANGED <<load, loadedFor, list, drawer>>
      BY <1>2 DEF CaseFails
    <2> QED
      BY <1>1, <2>1
      DEF Follows, TypeOK, LoaderFollows, ListFollows, DrawerFollows, TimelineFollows, ScopeInForce, AuditFollows, OnTab
  <1>3. CASE q.alive
    <2>1. loadedFor' = None /\ load' = how /\ list' = NoList /\ drawer' = ClosedDrawer
      BY <1>3 DEF CaseFails, Unmounted
    <2>2. route # Home
      BY <1>1, <1>3, NothingIsNoThing, RouteType DEF Follows, TypeOK, LoaderFollows, CaseRequest
    <2>3. TypeOK' /\ LoaderFollows'
      BY <1>1, <2>1, <2>2, ClosedDrawerType DEF Follows, TypeOK, LoaderFollows
    <2>4. ListFollows' /\ DrawerFollows'
      BY <2>1, ClosedDrawerType DEF ListFollows, DrawerFollows
    <2>5. TimelineFollows' /\ AuditFollows'
      BY <1>1, <2>1 DEF Follows, TimelineFollows, ScopeInForce, AuditFollows, OnTab
    <2> QED
      BY <2>3, <2>4, <2>5 DEF Follows
  <1> QED
    BY <1>2, <1>3

-----------------------------------------------------------------------------
(* The list of evidence.                                                     *)

LEMMA OneElement ==
  ASSUME NEW S, IsFiniteSet(S), NEW x \in S, ~(Cardinality(S) > 1)
  PROVE  S = {x}
  <1>1. IsFiniteSet(S \ {x}) /\ Cardinality(S \ {x}) = Cardinality(S) - 1
    BY FS_RemoveElement
  <1>2. Cardinality(S) \in Nat /\ Cardinality(S \ {x}) \in Nat
    BY <1>1, FS_CardinalityType
  <1>3. Cardinality(S \ {x}) = 0
    BY <1>1, <1>2
  <1> QED
    BY <1>1, <1>3, FS_EmptySet

LEMMA ListType ==
  ASSUME Follows, list # NoList
  PROVE  /\ list \in List /\ list.query \in Query /\ list.reqs \subseteq Query
         /\ load = "ready"
  BY DEF Follows, TypeOK, LoaderFollows, List

\* A step that changes the list, or the drawer, and nothing else.
LEMMA EvidenceChanges ==
  ASSUME Follows, list # NoList, UNCHANGED <<route, layout, stores, visited>>,
         list' \in List, drawer' \in Drawer, ListFollows', DrawerFollows'
  PROVE  Follows'
  <1> USE DEF layout, stores
  <1>1. list' # NoList
    BY NothingIsNoThing
  <1>2. TypeOK' /\ LoaderFollows'
    BY <1>1, ListType DEF Follows, TypeOK, LoaderFollows
  <1>3. TimelineFollows' /\ AuditFollows'
    BY DEF Follows, TimelineFollows, ScopeInForce, AuditFollows, OnTab
  <1> QED
    BY <1>2, <1>3 DEF Follows

\* While one query is under way and no other was sent, the list stands at it.
LEMMA AskFollows ==
  ASSUME Follows, list # NoList, NEW queries \in SUBSET Query, IsFiniteSet(queries),
         NEW q \in queries, Ask(queries, q)
  PROVE  list' \in List /\ ListFollows'
  <1> DEFINE all == list.reqs \cup queries
             two == Cardinality(all) > 1
  <1>1. list \in List /\ all \subseteq Query
    BY ListType
  <1>2. list' = [query |-> q, rows |-> list.rows, reqs |-> all, error |-> FALSE,
                 raced |-> list.raced \/ two]
    BY <1>1 DEF Ask, List
  <1>3. ~list.raced /\ ~two => all = {q}
    <2> SUFFICES ASSUME ~list.raced, ~two PROVE all = {q}
      OBVIOUS
    <2>1. IsFiniteSet(list.reqs)
      BY FS_Singleton, FS_Subset DEF Follows, ListFollows
    <2>2. IsFiniteSet(all)
      BY <2>1, FS_Union
    <2> QED
      BY <2>2, OneElement
  <1>4. (list.raced \/ two) \in BOOLEAN
    OBVIOUS
  <1> DEFINE raced == list.raced \/ two
  <1>5. /\ list' = [query |-> q, rows |-> list.rows, reqs |-> all, error |-> FALSE, raced |-> raced]
        /\ raced \in BOOLEAN /\ (~raced => all = {q})
    BY <1>2, <1>3, <1>4
  <1> HIDE DEF all, two, raced
  <1>6. list' \in List
    BY <1>1, <1>5 DEF List
  <1>7. ListFollows'
    BY <1>5 DEF ListFollows
  <1> QED
    BY <1>6, <1>7

LEMMA AskingStep ==
  ASSUME Follows, list # NoList, NEW queries \in SUBSET Query, IsFiniteSet(queries),
         NEW q \in queries, Ask(queries, q), drawer.item = None,
         UNCHANGED <<route, layout, drawer, stores, visited>>
  PROVE  Follows'
  <1>1. list' \in List /\ ListFollows'
    BY AskFollows
  <1>2. drawer' \in Drawer /\ DrawerFollows'
    BY DEF Follows, TypeOK, DrawerFollows
  <1> QED
    BY <1>1, <1>2, EvidenceChanges

LEMMA SetStatusStep ==
  ASSUME Follows, NEW s \in Statuses, SetStatus(s)
  PROVE  Follows'
  <1> DEFINE first == [status |-> s, offset |-> 0]
             old == [list.query EXCEPT !.status = s]
  <1>1. list # NoList /\ drawer.item = None /\ Ask({old, first}, first)
        /\ UNCHANGED <<route, layout, drawer, stores, visited>>
    BY DEF SetStatus
  <1>2. first \in Query /\ old \in Query
    BY <1>1, ListType DEF Query
  <1> HIDE DEF first, old
  <1>3. IsFiniteSet({old, first}) /\ {old, first} \in SUBSET Query /\ first \in {old, first}
    <2>1. IsFiniteSet({old} \cup {first})
      BY FS_Singleton, FS_Union
    <2>2. {old} \cup {first} = {old, first}
      OBVIOUS
    <2> QED
      BY <1>2, <2>1, <2>2
  <1> QED
    BY <1>1, <1>3, AskingStep

LEMMA SetOffsetStep ==
  ASSUME Follows, NEW n \in {0, 1}, SetOffset(n)
  PROVE  Follows'
  <1> DEFINE q == [list.query EXCEPT !.offset = n]
  <1>1. list # NoList /\ drawer.item = None /\ Ask({q}, q)
        /\ UNCHANGED <<route, layout, drawer, stores, visited>>
    BY DEF SetOffset
  <1>2. q \in Query
    BY <1>1, ListType DEF Query
  <1> HIDE DEF q
  <1>3. IsFiniteSet({q}) /\ {q} \in SUBSET Query /\ q \in {q}
    BY <1>2, FS_Singleton
  <1> QED
    BY <1>1, <1>3, AskingStep

LEMMA RetryListStep ==
  ASSUME Follows, RetryList
  PROVE  Follows'
  <1>1. list # NoList /\ drawer.item = None /\ Ask({list.query}, list.query)
        /\ UNCHANGED <<route, layout, drawer, stores, visited>>
    BY DEF RetryList
  <1>2. IsFiniteSet({list.query}) /\ {list.query} \in SUBSET Query
    BY <1>1, ListType, FS_Singleton
  <1> QED
    BY <1>1, <1>2, AskingStep

LEMMA RowsStep ==
  ASSUME Follows, NEW q \in Query, RowsArrive(q) \/ RowsFail(q)
  PROVE  Follows'
  <1>1. list # NoList /\ q \in list.reqs /\ UNCHANGED <<route, layout, drawer, stores, visited>>
    BY DEF RowsArrive, RowsFail
  <1>2. list \in List
    BY <1>1, ListType
  <1>3. drawer' \in Drawer /\ DrawerFollows'
    BY <1>1 DEF Follows, TypeOK, DrawerFollows
  <1>4. ~list.raced => list.reqs \subseteq {list.query}
    BY <1>1 DEF Follows, ListFollows
  <1>5. CASE RowsArrive(q)
    <2>1. list' = [list EXCEPT !.reqs = @ \ {q}, !.rows = q]
      BY <1>5 DEF RowsArrive
    <2>2. list' \in List
      BY <1>2, <2>1 DEF List
    <2>3. ListFollows'
      BY <1>1, <1>2, <1>4, <2>1 DEF ListFollows, List
    <2> QED
      BY <1>1, <1>3, <2>2, <2>3, EvidenceChanges
  <1>6. CASE RowsFail(q)
    <2>1. list' = [list EXCEPT !.reqs = @ \ {q}, !.error = TRUE]
      BY <1>6 DEF RowsFail
    <2>2. list' \in List
      BY <1>2, <2>1 DEF List
    <2>3. ListFollows'
      BY <1>1, <1>2, <1>4, <2>1 DEF ListFollows, List
    <2> QED
      BY <1>1, <1>3, <2>2, <2>3, EvidenceChanges
  <1> QED
    BY <1>5, <1>6

-----------------------------------------------------------------------------
(* The drawer.                                                               *)

LEMMA DrawerType ==
  ASSUME Follows
  PROVE  /\ drawer \in Drawer
         /\ drawer.item \in Items \cup {None} /\ drawer.detail \in Items \cup {None}
         /\ drawer.verdict \in Items \cup {None, "busy", "error"}
         /\ drawer.reqs \subseteq Items
         /\ drawer.job # NoJob => drawer.job \in Job /\ drawer.job.item \in Items /\ drawer.job.query \in Query
         /\ drawer.item # None \/ drawer.job # NoJob \/ drawer.reqs # {} => list # NoList
  <1>1. drawer \in Drawer /\ (list = NoList => drawer = ClosedDrawer)
    BY DEF Follows, TypeOK
  <1>2. drawer.job \in Job \cup {NoJob}
    BY <1>1 DEF Drawer
  <1>3. \A j \in Job : j.item \in Items /\ j.query \in Query
    BY DEF Job
  <1>4. ClosedDrawer.item = None /\ ClosedDrawer.job = NoJob /\ ClosedDrawer.reqs = {}
    BY DEF ClosedDrawer
  <1> QED
    BY <1>1, <1>2, <1>3, <1>4 DEF Drawer

\* The list stays: the drawer has to follow.
LEMMA DrawerChanges ==
  ASSUME Follows, UNCHANGED <<route, layout, list, stores, visited>>, list # NoList,
         drawer' \in Drawer, DrawerFollows'
  PROVE  Follows'
  <1>1. list' \in List /\ ListFollows'
    BY ListType DEF Follows, ListFollows
  <1> QED
    BY <1>1, EvidenceChanges

LEMMA OpenItemStep ==
  ASSUME Follows, NEW i \in Items, OpenItem(i)
  PROVE  Follows'
  <1> DEFINE r == drawer.reqs # {} \/ drawer.job # NoJob
  <1>1. drawer' = Opened(i) /\ list # NoList /\ UNCHANGED <<route, layout, list, stores, visited>>
    BY DEF OpenItem
  <1>2. drawer' = [item |-> i, detail |-> None, verdict |-> None, reqs |-> drawer.reqs \cup {i},
                   job |-> drawer.job, raced |-> r]
    BY <1>1, DrawerType DEF Opened, Drawer
  <1>3. r \in BOOLEAN /\ (~r => drawer.reqs = {} /\ drawer.job = NoJob)
    OBVIOUS
  <1> HIDE DEF r
  <1>4. drawer' \in Drawer
    BY <1>2, <1>3, DrawerType DEF Drawer
  <1>5. DrawerFollows'
    BY <1>2, <1>3 DEF DrawerFollows
  <1> QED
    BY <1>1, <1>4, <1>5, DrawerChanges

LEMMA CloseItemStep ==
  ASSUME Follows, CloseItem
  PROVE  Follows'
  <1>1. /\ drawer.item # None /\ drawer' = [drawer EXCEPT !.item = None]
        /\ UNCHANGED <<route, layout, list, stores, visited>>
    BY DEF CloseItem
  <1>2. drawer' \in Drawer /\ drawer'.item = None
    BY <1>1, DrawerType DEF Drawer
  <1> QED
    BY <1>1, <1>2, DrawerType, DrawerChanges DEF DrawerFollows

LEMMA DetailStep ==
  ASSUME Follows, NEW i \in Items, DetailArrives(i) \/ DetailFails(i)
  PROVE  Follows'
  <1>1. /\ i \in drawer.reqs /\ UNCHANGED <<route, layout, list, stores, visited>>
        /\ \E d \in {i, None} : drawer' = [drawer EXCEPT !.reqs = @ \ {i}, !.detail = d]
    BY DEF DetailArrives, DetailFails
  <1>2. PICK d \in {i, None} : drawer' = [drawer EXCEPT !.reqs = @ \ {i}, !.detail = d]
    BY <1>1
  <1>3. drawer' \in Drawer
    BY <1>2, DrawerType DEF Drawer
  <1>4. /\ drawer'.item = drawer.item /\ drawer'.raced = drawer.raced /\ drawer'.job = drawer.job
        /\ drawer'.verdict = drawer.verdict /\ drawer'.detail = d /\ drawer'.reqs = drawer.reqs \ {i}
    BY <1>2, DrawerType DEF Drawer
  <1>5. DrawerFollows'
    BY <1>1, <1>2, <1>4 DEF Follows, DrawerFollows
  <1> QED
    BY <1>1, <1>3, <1>5, DrawerType, DrawerChanges

LEMMA RunStep ==
  ASSUME Follows, NEW kind \in {"verify", "reprocess"}, Run(kind)
  PROVE  Follows'
  <1> DEFINE job == [kind |-> kind, item |-> ShownItem, query |-> list.query]
             v == IF kind = "verify" THEN "busy" ELSE drawer.verdict
  <1>1. /\ drawer.item # None /\ UNCHANGED <<route, layout, list, stores, visited>>
        /\ drawer' = [drawer EXCEPT !.job = job, !.verdict = v]
    BY DrawerType DEF Run, Drawer
  <1>2. list # NoList /\ list.query \in Query
    BY <1>1, DrawerType, ListType
  <1>3. job \in Job /\ job.item = ShownItem
    BY <1>1, <1>2, DrawerType DEF Job, ShownItem
  <1>4. v \in Items \cup {None, "busy", "error"} /\ v \in {"busy", drawer.verdict}
    BY DrawerType
  <1> HIDE DEF job, v
  <1>5. drawer' \in Drawer
    BY <1>1, <1>3, <1>4, DrawerType DEF Drawer
  <1>6. /\ drawer'.item = drawer.item /\ drawer'.raced = drawer.raced /\ drawer'.job = job
        /\ drawer'.verdict = v /\ drawer'.detail = drawer.detail /\ drawer'.reqs = drawer.reqs
    BY <1>1, DrawerType DEF Drawer
  <1>7. DrawerFollows'
    BY <1>1, <1>3, <1>4, <1>6 DEF Follows, DrawerFollows, ShownItem
  <1> QED
    BY <1>1, <1>2, <1>5, <1>7, DrawerChanges

LEMMA JobEndsStep ==
  ASSUME Follows, JobEnds
  PROVE  Follows'
  <1> DEFINE job == drawer.job
  <1>1. /\ job # NoJob /\ job \in Job /\ job.item \in Items /\ job.query \in Query
        /\ drawer \in Drawer /\ list # NoList /\ list \in List
        /\ UNCHANGED <<route, layout, stores, visited>>
    BY DrawerType, ListType DEF JobEnds
  <1>2. list' \in List /\ ListFollows'
    <2> DEFINE r == list.raced \/ list.reqs \cup {job.query} # {list.query}
    <2>1. list' = [query |-> list.query, rows |-> list.rows, reqs |-> list.reqs \cup {job.query},
                   error |-> FALSE, raced |-> r]
      BY <1>1 DEF JobEnds, List
    <2>2. r \in BOOLEAN /\ (~r => list.reqs \cup {job.query} = {list.query})
      OBVIOUS
    <2> HIDE DEF r
    <2>3. list' \in List
      BY <1>1, <2>1, <2>2 DEF List
    <2> QED
      BY <2>1, <2>2, <2>3 DEF ListFollows
  <1>3. drawer' \in Drawer /\ DrawerFollows'
    <2>1. CASE job.kind = "verify"
      <3>1. drawer' = [drawer EXCEPT !.job = NoJob, !.verdict = job.item]
        BY <2>1 DEF JobEnds
      <3>2. drawer' \in Drawer
        BY <1>1, <3>1 DEF Drawer
      <3>3. /\ drawer'.item = drawer.item /\ drawer'.raced = drawer.raced /\ drawer'.job = NoJob
            /\ drawer'.verdict = job.item /\ drawer'.detail = drawer.detail /\ drawer'.reqs = drawer.reqs
        BY <1>1, <3>1 DEF Drawer
      <3> QED
        BY <1>1, <3>2, <3>3 DEF Follows, DrawerFollows
    <2>2. CASE job.kind # "verify"
      <3> DEFINE r == drawer.raced \/ drawer.reqs # {}
      <3>1. drawer' = [item |-> drawer.item, detail |-> None, verdict |-> None,
                       reqs |-> drawer.reqs \cup {job.item}, job |-> NoJob, raced |-> r]
        BY <1>1, <2>2 DEF JobEnds, Drawer
      <3>2. r \in BOOLEAN /\ (~r => ~drawer.raced /\ drawer.reqs = {})
        BY <1>1 DEF Drawer
      <3> HIDE DEF r
      <3>3. drawer' \in Drawer
        BY <1>1, <3>1, <3>2 DEF Drawer
      <3>4. DrawerFollows'
        BY <1>1, <3>1, <3>2 DEF Follows, DrawerFollows
      <3> QED
        BY <3>3, <3>4
    <2> QED
      BY <2>1, <2>2
  <1> QED
    BY <1>1, <1>2, <1>3, EvidenceChanges

LEMMA JobFailsStep ==
  ASSUME Follows, JobFails
  PROVE  Follows'
  <1> DEFINE v == IF drawer.job.kind = "verify" THEN "error" ELSE drawer.verdict
  <1>1. /\ drawer.job # NoJob /\ UNCHANGED <<route, layout, list, stores, visited>>
        /\ drawer' = [drawer EXCEPT !.job = NoJob, !.verdict = v]
    BY DrawerType DEF JobFails, Drawer
  <1>2. v \in Items \cup {None, "busy", "error"} /\ v \in {"error", drawer.verdict}
    BY DrawerType
  <1> HIDE DEF v
  <1>3. drawer' \in Drawer
    BY <1>1, <1>2, DrawerType DEF Drawer
  <1>4. /\ drawer'.item = drawer.item /\ drawer'.raced = drawer.raced /\ drawer'.job = NoJob
        /\ drawer'.verdict = v /\ drawer'.detail = drawer.detail /\ drawer'.reqs = drawer.reqs
    BY <1>1, DrawerType DEF Drawer
  <1>5. DrawerFollows'
    BY <1>2, <1>4 DEF Follows, DrawerFollows
  <1> QED
    BY <1>1, <1>3, <1>5, DrawerType, DrawerChanges

-----------------------------------------------------------------------------
(* The two stores.                                                           *)

\* A step that changes one of the stores, or both, and nothing else.
LEMMA StoresChange ==
  ASSUME Follows, UNCHANGED <<route, layout, evidence, visited>>,
         timeline' \in Timeline, TimelineFollows', audit' \in Audit, AuditFollows'
  PROVE  Follows'
  BY DEF Follows, TypeOK, LoaderFollows, ListFollows, DrawerFollows, layout, evidence

LEMMA OnTabIs ==
  ASSUME Follows, NEW t, OnTab(t)
  PROVE  route \in Routes /\ route.case \in Cases
  BY RouteType DEF Follows, TypeOK, OnTab

\* The store still knows the case of the address and the scope in force.
LEMMA TimelineChanges ==
  ASSUME Follows, UNCHANGED <<route, layout, evidence, audit, visited>>,
         timeline' \in Timeline,
         OnTab("timeline") => timeline'.asked = [case |-> route.case, scope |-> ScopeInForce'],
         ~timeline'.overlapped =>
              /\ timeline'.reqs \subseteq {timeline'.asked}
              /\ ~timeline'.isLoading /\ ~timeline'.error => timeline'.events = timeline'.asked
  PROVE  Follows'
  <1>1. TimelineFollows'
    BY DEF Follows, TimelineFollows, OnTab, layout
  <1>2. audit' \in Audit /\ AuditFollows'
    BY DEF Follows, TypeOK, AuditFollows, OnTab, layout
  <1> QED
    BY <1>1, <1>2, StoresChange

\* It does if it asked for nothing else.
LEMMA AskedStays ==
  ASSUME Follows, UNCHANGED route, timeline'.asked = timeline.asked, timeline'.cleared = timeline.cleared
  PROVE  OnTab("timeline") => timeline'.asked = [case |-> route.case, scope |-> ScopeInForce']
  BY DEF Follows, TimelineFollows, ScopeInForce

\* A load for the case on the screen and for the scope that is in force afterwards.
LEMMA LoadedFollows ==
  ASSUME Follows, OnTab("timeline"), UNCHANGED <<route, layout, evidence, audit, visited>>,
         NEW q, NEW cleared \in BOOLEAN, timeline' = loadTimeline(q, cleared),
         q = [case |-> route.case, scope |-> IF cleared THEN None ELSE route.scope]
  PROVE  Follows'
  <1>1. timeline \in Timeline
    BY DEF Follows, TypeOK
  <1>2. q \in Scoped
    BY OnTabIs, RouteType DEF Scoped
  <1>3. /\ timeline' \in Timeline /\ timeline'.asked = q /\ timeline'.cleared = cleared
        /\ timeline'.isLoading
        /\ ~timeline'.overlapped => timeline'.reqs \subseteq {timeline'.asked}
    BY <1>1, <1>2, TimelineLoads
  <1>4. timeline'.asked = [case |-> route.case, scope |-> ScopeInForce']
    BY <1>3 DEF ScopeInForce
  <1> QED
    BY <1>3, <1>4, TimelineChanges

LEMMA AuditChanges ==
  ASSUME Follows, UNCHANGED <<route, layout, evidence, timeline, visited>>,
         audit' \in Audit, audit'.caseId = audit.caseId,
         ~audit'.overlapped => audit'.reqs \subseteq {audit'.caseId} /\ audit'.logs \in {None, audit'.caseId}
  PROVE  Follows'
  <1>1. AuditFollows'
    BY DEF Follows, AuditFollows, OnTab, layout
  <1>2. timeline' \in Timeline /\ TimelineFollows'
    BY DEF Follows, TypeOK, TimelineFollows, ScopeInForce, OnTab, layout
  <1> QED
    BY <1>1, <1>2, StoresChange

LEMMA FilterTimelineStep ==
  ASSUME Follows, FilterTimeline \/ ResetTimeline
  PROVE  Follows'
  <1>1. /\ UNCHANGED <<route, layout, evidence, audit, visited>>
        /\ \E f \in Cases \cup {None} : timeline' = [timeline EXCEPT !.filterOf = f]
    BY OnTabIs DEF FilterTimeline, ResetTimeline
  <1>2. timeline \in Timeline
    BY DEF Follows, TypeOK
  <1>3. timeline' \in Timeline
    BY <1>1, <1>2 DEF Timeline
  <1>4. /\ timeline'.asked = timeline.asked /\ timeline'.cleared = timeline.cleared /\ timeline'.overlapped = timeline.overlapped
        /\ timeline'.reqs = timeline.reqs /\ timeline'.isLoading = timeline.isLoading
        /\ timeline'.error = timeline.error /\ timeline'.events = timeline.events
    BY <1>1, <1>2 DEF Timeline
  <1> QED
    BY <1>1, <1>3, <1>4, AskedStays, TimelineChanges DEF Follows, TimelineFollows

LEMMA LoadTimelineStep ==
  ASSUME Follows, RetryTimeline \/ ClearEntityScope \/ handleScopeEntity
  PROVE  Follows'
  <1>1. OnTab("timeline") /\ UNCHANGED <<route, layout, evidence, audit, visited>>
    BY DEF RetryTimeline, ClearEntityScope, handleScopeEntity
  <1>2. timeline.asked = [case |-> route.case, scope |-> IF timeline.cleared THEN None ELSE route.scope]
    BY <1>1 DEF Follows, TimelineFollows, ScopeInForce
  <1>3. timeline.cleared \in BOOLEAN
    BY DEF Follows, TypeOK, Timeline
  <1>4. CASE RetryTimeline
    BY <1>1, <1>2, <1>3, <1>4, LoadedFollows DEF RetryTimeline
  <1>5. CASE ClearEntityScope
    <2>1. timeline' = loadTimeline([case |-> route.case, scope |-> None], TRUE)
      BY <1>2, <1>5 DEF ClearEntityScope
    <2> QED
      BY <1>1, <2>1, LoadedFollows
  <1>6. CASE handleScopeEntity
    <2>1. timeline' = loadTimeline([case |-> route.case, scope |-> route.scope], FALSE)
      BY <1>2, <1>6 DEF handleScopeEntity
    <2> QED
      BY <1>1, <2>1, LoadedFollows
  <1> QED
    BY <1>4, <1>5, <1>6

LEMMA EventsStep ==
  ASSUME Follows, NEW q \in Scoped, EventsArrive(q) \/ EventsFail(q)
  PROVE  Follows'
  <1>1. q \in timeline.reqs /\ UNCHANGED <<route, layout, evidence, audit, visited>>
    BY DEF EventsArrive, EventsFail
  <1>2. timeline \in Timeline
    BY DEF Follows, TypeOK
  <1>3. ~timeline.overlapped => timeline.reqs \subseteq {timeline.asked}
    BY DEF Follows, TimelineFollows
  <1>4. CASE EventsArrive(q)
    <2>1. timeline' = [timeline EXCEPT !.reqs = @ \ {q}, !.events = q, !.isLoading = FALSE]
      BY <1>4 DEF EventsArrive
    <2>2. timeline' \in Timeline
      BY <1>2, <2>1 DEF Timeline
    <2>3. /\ timeline'.asked = timeline.asked /\ timeline'.cleared = timeline.cleared /\ timeline'.overlapped = timeline.overlapped
          /\ timeline'.reqs = timeline.reqs \ {q} /\ timeline'.events = q
      BY <1>2, <2>1 DEF Timeline
    <2> QED
      BY <1>1, <1>3, <2>2, <2>3, AskedStays, TimelineChanges
  <1>5. CASE EventsFail(q)
    <2>1. timeline' = [timeline EXCEPT !.reqs = @ \ {q}, !.error = TRUE, !.isLoading = FALSE]
      BY <1>5 DEF EventsFail
    <2>2. timeline' \in Timeline
      BY <1>2, <2>1 DEF Timeline
    <2>3. /\ timeline'.asked = timeline.asked /\ timeline'.cleared = timeline.cleared /\ timeline'.overlapped = timeline.overlapped
          /\ timeline'.reqs = timeline.reqs \ {q} /\ timeline'.error = TRUE
      BY <1>2, <2>1 DEF Timeline
    <2> QED
      BY <1>1, <1>3, <2>2, <2>3, AskedStays, TimelineChanges
  <1> QED
    BY <1>4, <1>5

\* Filters and the selected entry are no part of what follows the address.
LEMMA BrowseAuditStep ==
  ASSUME Follows, FilterAudit \/ ResetAudit \/ openDrawer \/ closeDrawer
  PROVE  Follows'
  <1>1. audit \in Audit /\ audit.logs \in Cases \cup {None}
    BY DEF Follows, TypeOK, Audit
  <1>2. /\ UNCHANGED <<route, layout, evidence, timeline, visited>>
        /\ \E f \in Cases \cup {None} :
             audit' = [audit EXCEPT !.filterOf = f] \/ audit' = [audit EXCEPT !.selected = f]
    BY <1>1, OnTabIs DEF FilterAudit, ResetAudit, openDrawer, closeDrawer
  <1>3. audit' \in Audit
    BY <1>1, <1>2 DEF Audit
  <1>4. /\ audit'.caseId = audit.caseId /\ audit'.overlapped = audit.overlapped
        /\ audit'.reqs = audit.reqs /\ audit'.logs = audit.logs
    BY <1>1, <1>2 DEF Audit
  <1> QED
    BY <1>2, <1>3, <1>4, AuditChanges DEF Follows, AuditFollows

LEMMA RetryAuditStep ==
  ASSUME Follows, RetryAudit
  PROVE  Follows'
  <1>1. /\ OnTab("audit") /\ UNCHANGED <<route, layout, evidence, timeline, visited>>
        /\ audit' = loadLogs(route.case)
    BY DEF RetryAudit
  <1>2. route.case \in Cases /\ audit.caseId = route.case /\ audit \in Audit
    BY <1>1, OnTabIs DEF Follows, AuditFollows, TypeOK
  <1>3. /\ audit' \in Audit /\ audit'.caseId = route.case /\ audit'.logs = None
        /\ ~audit'.overlapped => audit'.reqs \subseteq {route.case}
    BY <1>1, <1>2, LogsLoad
  <1> QED
    BY <1>1, <1>2, <1>3, AuditChanges

LEMMA LogsStep ==
  ASSUME Follows, NEW c \in Cases, LogsArrive(c) \/ LogsFail(c)
  PROVE  Follows'
  <1>1. c \in audit.reqs /\ UNCHANGED <<route, layout, evidence, timeline, visited>>
    BY DEF LogsArrive, LogsFail
  <1>2. audit \in Audit
    BY DEF Follows, TypeOK
  <1>3. ~audit.overlapped => audit.reqs \subseteq {audit.caseId} /\ audit.logs \in {None, audit.caseId}
    BY DEF Follows, AuditFollows
  <1>4. \/ audit' = [audit EXCEPT !.reqs = @ \ {c}, !.logs = c, !.isLoading = FALSE]
        \/ audit' = [audit EXCEPT !.reqs = @ \ {c}, !.error = TRUE, !.isLoading = FALSE]
    BY DEF LogsArrive, LogsFail
  <1>5. audit' \in Audit
    BY <1>2, <1>4 DEF Audit
  <1>6. /\ audit'.caseId = audit.caseId /\ audit'.overlapped = audit.overlapped
        /\ audit'.reqs = audit.reqs \ {c} /\ audit'.logs \in {c, audit.logs}
    BY <1>2, <1>4 DEF Audit
  <1> QED
    BY <1>1, <1>3, <1>5, <1>6, AuditChanges

-----------------------------------------------------------------------------
(* The theorems.                                                             *)

LEMMA StepFollows == Follows /\ [Next]_vars => Follows'
  <1> SUFFICES ASSUME Follows, [Next]_vars PROVE Follows'
    OBVIOUS
  <1>1. CASE GoHome
    BY <1>1, HomeStep
  <1>2. CASE \E r \in Routes : GoToCase(r)
    BY <1>2, CaseStep
  <1>3. CASE \E r \in Routes : GoToTab(r)
    BY <1>3, TabStep
  <1>4. CASE Reload
    BY <1>4, ReloadStep
  <1>5. CASE \E q \in CaseRequest : CaseArrives(q)
    BY <1>5, CaseArrivesStep
  <1>6. CASE \E q \in CaseRequest, how \in {"denied", "error"} : CaseFails(q, how)
    BY <1>6, CaseFailsStep
  <1>7. CASE \E s \in Statuses : SetStatus(s)
    BY <1>7, SetStatusStep
  <1>8. CASE \E n \in {0, 1} : SetOffset(n)
    BY <1>8, SetOffsetStep
  <1>9. CASE RetryList
    BY <1>9, RetryListStep
  <1>10. CASE \E q \in Query : RowsArrive(q) \/ RowsFail(q)
    BY <1>10, RowsStep
  <1>11. CASE \E i \in Items : OpenItem(i)
    BY <1>11, OpenItemStep
  <1>12. CASE CloseItem
    BY <1>12, CloseItemStep
  <1>13. CASE \E i \in Items : DetailArrives(i) \/ DetailFails(i)
    BY <1>13, DetailStep
  <1>14. CASE \E kind \in {"verify", "reprocess"} : Run(kind)
    BY <1>14, RunStep
  <1>15. CASE JobEnds
    BY <1>15, JobEndsStep
  <1>16. CASE JobFails
    BY <1>16, JobFailsStep
  <1>17. CASE FilterTimeline \/ ResetTimeline
    BY <1>17, FilterTimelineStep
  <1>18. CASE RetryTimeline \/ ClearEntityScope \/ handleScopeEntity
    BY <1>18, LoadTimelineStep
  <1>19. CASE \E q \in Scoped : EventsArrive(q) \/ EventsFail(q)
    BY <1>19, EventsStep
  <1>20. CASE FilterAudit \/ ResetAudit \/ openDrawer \/ closeDrawer
    BY <1>20, BrowseAuditStep
  <1>21. CASE RetryAudit
    BY <1>21, RetryAuditStep
  <1>22. CASE \E c \in Cases : LogsArrive(c) \/ LogsFail(c)
    BY <1>22, LogsStep
  <1>23. CASE UNCHANGED vars
    BY <1>23
    DEF vars, layout, evidence, stores, Follows, TypeOK, LoaderFollows, ListFollows, DrawerFollows,
        TimelineFollows, ScopeInForce, AuditFollows, OnTab
  <1> QED
    BY <1>1, <1>2, <1>3, <1>4, <1>5, <1>6, <1>7, <1>8, <1>9, <1>10, <1>11, <1>12, <1>13, <1>14,
       <1>15, <1>16, <1>17, <1>18, <1>19, <1>20, <1>21, <1>22, <1>23 DEF Next

LEMMA AlwaysFollows == Spec => []Follows
  BY InitFollows, StepFollows, PTL DEF Spec

\* Loader, list, drawer and stores keep their types, for any number of cases,
\* items, filters, entities and requests in flight.
THEOREM TabsTypeCorrect == Spec => []TypeOK
  <1>1. Follows => TypeOK
    BY DEF Follows
  <1> QED
    BY <1>1, AlwaysFollows, PTL

\* However its requests and those of the cases before are answered, the case on
\* the screen is the one in the address (case-context.tsx:45).
THEOREM TheCaseOfTheAddress == Spec => []CaseShownIsRouted
  <1>1. Follows => CaseShownIsRouted
    BY DEF Follows, LoaderFollows, CaseShownIsRouted
  <1> QED
    BY <1>1, AlwaysFollows, PTL

\* A list whose queries were never two at a time shows, once answered, the rows of
\* the filter and the page it stands at (case-evidence-view.tsx:50).
THEOREM ListsShowTheirQuery == Spec => []ListIsOfItsQuery
  <1>1. Follows => ListIsOfItsQuery
    BY DEF Follows, ListFollows, ListIsOfItsQuery
  <1> QED
    BY <1>1, AlwaysFollows, PTL

\* A drawer opened with nothing under way speaks of its own item only, verdict
\* included (evidence-detail-drawer.tsx:38).
THEOREM DrawersShowTheirItem == Spec => []DrawerIsOfItsItem
  <1>1. Follows => DrawerIsOfItsItem
    BY DEF Follows, DrawerFollows, DrawerIsOfItsItem
  <1> QED
    BY <1>1, AlwaysFollows, PTL

\* The timeline and the audit log show the case, and the entity, of the address
\* unless loads overlapped (timelineStore.ts:50, auditStore.ts:56).
THEOREM TabsFollowTheAddress == Spec => []TabsShowTheirAddress
  <1>1. Follows => TabsShowTheirAddress
    BY DEF Follows, TimelineFollows, ScopeInForce, AuditFollows, TabsShowTheirAddress, TimelineIsOfItsAddress,
           LogsAreOfTheCase, OnTab
  <1> QED
    BY <1>1, AlwaysFollows, PTL

-----------------------------------------------------------------------------
(* GraphWorkspace: the tab with its graph, and what is selected in it.       *)

\* While no load overlapped, at most one is in flight, for the case of the store, and
\* the canvas has given way to "Loading".
OneLoadAtATime ==
    ~overlapped => \A d \in CaseIds : loads[d] > 0 => d = caseId /\ loads[d] = 1 /\ isLoading

\* The store names the case of the tab, and holds nothing of another one.
StoreIsOfTheTab ==
    ~overlapped =>
        /\ routed # NoCase => caseId = routed
        /\ graph # EmptyGraph => caseId # NoCase /\ graph \in Snapshots[caseId]

\* The canvas draws the graph of the store, not more.
CanvasIsTheStore ==
    engine # NoEngine /\ ~overlapped =>
        engine.nodes = graph.nodes /\ engine.edges = Connected(graph.nodes, graph.edges)

\* The two halves of the type invariant: the tab with its graph, and the selection.
TabTyped ==
    /\ routed \in CaseIds \cup {NoCase}
    /\ focus \in Linked \cup {NoNode}
    /\ view \in {"graph", "list"}
    /\ caseId \in CaseIds \cup {NoCase}
    /\ isLoading \in BOOLEAN /\ error \in BOOLEAN
    /\ graph \in Graph
    /\ isLayoutRunning \in BOOLEAN
    /\ loads \in [CaseIds -> Nat]
    /\ engine \in Engine \cup {NoEngine}
    /\ engine # NoEngine <=> CanvasShown
    /\ timers \in Nat
    /\ overlapped \in BOOLEAN

SelectionTyped ==
    /\ selectedNodeId \in Nodes \cup {NoNode}
    /\ selectedEdgeId \in Edges \cup {NoEdge}
    /\ selectedEntityDetail \in Nodes \cup {NoNode}
    /\ selectedRelationshipDetail \in
         {NoRel} \cup [edge : Edges, claims : Edges \cup {"loading", "failed"}]
    /\ nodeReqs \in [Nodes -> Nat]
    /\ edgeReqs \in [Edges -> Nat]
    /\ stray \in BOOLEAN

TabInStep ==
    TabTyped /\ OneLoadAtATime /\ StoreIsOfTheTab /\ CanvasIsTheStore /\ EngineHoldsTheStore

SelectionInStep == SelectionTyped /\ EdgeDrawerIsTruthful

InStep == TabInStep /\ SelectionInStep

LEMMA WorkspaceTypes == WorkspaceTypeOK <=> TabTyped /\ SelectionTyped
  BY DEF WorkspaceTypeOK, TabTyped, SelectionTyped

-----------------------------------------------------------------------------
(* Operators.                                                                *)

LEMMA Counted ==
  ASSUME NEW S, NEW f \in [S -> Nat], NEW x \in S
  PROVE  /\ [f EXCEPT ![x] = @ + 1] \in [S -> Nat]
         /\ f[x] > 0 => [f EXCEPT ![x] = @ - 1] \in [S -> Nat]
  OBVIOUS

LEMMA NoEngineIsNone == NoEngine \notin Engine
  BY DEF NoEngine, Engine

LEMMA GraphTypes ==
  ASSUME NEW g \in Graph
  PROVE  /\ g.nodes \subseteq Nodes /\ g.edges \subseteq Edges
         /\ Cardinality(g.nodes) \in Nat
         /\ Connected(g.nodes, g.edges) \subseteq Edges
         /\ g.nodes = {} => Connected(g.nodes, g.edges) = {}
  <1>1. g.nodes \subseteq Nodes /\ g.edges \subseteq Edges
    BY DEF Graph
  <1>2. Cardinality(g.nodes) \in Nat
    BY <1>1, WorkspaceConstants, FS_Subset, FS_CardinalityType
  <1> QED
    BY <1>1, <1>2 DEF Connected

\* Whatever the engine does with a graph, it draws all of it afterwards; on a new
\* engine nothing else.
LEMMA SyncedDraws ==
  ASSUME NEW eng \in Engine, NEW g \in Graph
  PROVE  /\ Synced(eng, g) \in Engine
         /\ g.nodes \subseteq Synced(eng, g).nodes
         /\ Connected(g.nodes, g.edges) \subseteq Synced(eng, g).edges
         /\ eng.nodes = {} /\ eng.edges = {} =>
              Synced(eng, g).nodes = g.nodes /\ Synced(eng, g).edges = Connected(g.nodes, g.edges)
  <1>1. eng.nodes \subseteq Nodes /\ eng.edges \subseteq Edges
    BY DEF Engine
  <1>2. CASE g.nodes = {}
    BY <1>2, GraphTypes DEF Synced
  <1>3. CASE g.nodes # {} /\ (eng.nodes = {} \/ Cardinality(g.nodes) < eng.prev)
    BY <1>3, GraphTypes DEF Synced, Loaded, Engine
  <1>4. CASE g.nodes # {} /\ ~(eng.nodes = {} \/ Cardinality(g.nodes) < eng.prev)
    <2> DEFINE all == eng.nodes \cup g.nodes
    <2>1. Synced(eng, g) = [nodes |-> all, edges |-> eng.edges \cup Connected(all, g.edges),
                            prev |-> Cardinality(g.nodes)]
      BY <1>4 DEF Synced, applyDelta
    <2>2. /\ Connected(g.nodes, g.edges) \subseteq Connected(all, g.edges)
          /\ Connected(all, g.edges) \subseteq Edges
      BY GraphTypes DEF Connected
    <2>3. all \subseteq Nodes /\ g.nodes \subseteq all
      BY <1>1, GraphTypes
    <2> HIDE DEF all
    <2>4. eng.edges \cup Connected(all, g.edges) \subseteq Edges
      BY <1>1, <2>2
    <2>5. Synced(eng, g) \in Engine
      BY <2>1, <2>3, <2>4, GraphTypes DEF Engine
    <2> QED
      BY <1>4, <2>1, <2>2, <2>3, <2>5
  <1> QED
    BY <1>2, <1>3, <1>4

LEMMA MountedDraws ==
  ASSUME NEW g \in Graph
  PROVE  /\ Mounted(g) \in Engine
         /\ Mounted(g).nodes = g.nodes
         /\ Mounted(g).edges = Connected(g.nodes, g.edges)
  <1> DEFINE new == [nodes |-> {}, edges |-> {}, prev |-> 0]
  <1>1. new \in Engine /\ new.nodes = {} /\ new.edges = {}
    BY DEF Engine
  <1>2. Mounted(g) = Synced(new, g)
    BY DEF Mounted
  <1> HIDE DEF new
  <1> QED
    BY <1>1, <1>2, SyncedDraws

LEMMA MountsLayoutTypes ==
  ASSUME TabTyped, NEW g, MountsLayout(g)
  PROVE  timers' \in Nat /\ isLayoutRunning' \in BOOLEAN
  <1>1. timers \in Nat /\ isLayoutRunning \in BOOLEAN
    BY DEF TabTyped
  <1>2. \/ UNCHANGED <<isLayoutRunning, timers>>
        \/ isLayoutRunning' = FALSE /\ UNCHANGED timers
        \/ timers' = timers + 1 /\ UNCHANGED isLayoutRunning
    BY DEF MountsLayout, organizing
  <1>3. timers + 1 \in Nat
    BY <1>1
  <1> QED
    BY <1>1, <1>2, <1>3

\* What a render does with a graph, once nothing is loading any more.
LEMMA RenderedDraws ==
  ASSUME TabTyped, NEW g \in Graph, Rendered(g), isLoading' = FALSE, UNCHANGED <<routed, view>>
  PROVE  /\ timers' \in Nat /\ isLayoutRunning' \in BOOLEAN
         /\ engine' \in Engine \cup {NoEngine}
         /\ engine' # NoEngine <=> CanvasShown'
         /\ engine' # NoEngine => g.nodes \subseteq engine'.nodes
                                  /\ Connected(g.nodes, g.edges) \subseteq engine'.edges
         /\ engine' # NoEngine /\ isLoading => engine'.nodes = g.nodes
                                  /\ engine'.edges = Connected(g.nodes, g.edges)
  <1>1. CASE routed = NoCase \/ view = "list"
    <2>1. UNCHANGED <<engine, timers, isLayoutRunning>> /\ ~CanvasShown /\ ~CanvasShown'
      BY <1>1 DEF Rendered, organizing, CanvasShown
    <2> QED
      BY <2>1 DEF TabTyped
  <1>2. CASE ~(routed = NoCase \/ view = "list") /\ isLoading
    <2>1. engine' = Mounted(g) /\ MountsLayout(g)
      BY <1>2 DEF Rendered
    <2>2. CanvasShown'
      BY <1>2 DEF CanvasShown, TabTyped
    <2>3. engine' # NoEngine
      BY <2>1, MountedDraws, NoEngineIsNone
    <2> QED
      BY <2>1, <2>2, <2>3, MountedDraws, MountsLayoutTypes
  <1>3. CASE ~(routed = NoCase \/ view = "list") /\ ~isLoading
    <2>1. engine' = Synced(engine, g) /\ UNCHANGED <<timers, isLayoutRunning>>
      BY <1>3 DEF Rendered, organizing
    <2>2. CanvasShown /\ CanvasShown'
      BY <1>3 DEF CanvasShown, TabTyped
    <2>3. engine \in Engine
      BY <2>2 DEF TabTyped
    <2>4. engine' \in Engine /\ engine' # NoEngine
      BY <2>1, <2>3, SyncedDraws, NoEngineIsNone
    <2> QED
      BY <1>3, <2>1, <2>2, <2>3, <2>4, SyncedDraws DEF TabTyped
  <1> QED
    BY <1>1, <1>2, <1>3

-----------------------------------------------------------------------------
(* The selection.                                                            *)

LEMMA SelectedNodeInStep ==
  ASSUME SelectionTyped, NEW n \in Nodes, SelectedNode(n), UNCHANGED edgeReqs
  PROVE  SelectionInStep'
  <1>1. nodeReqs' \in [Nodes -> Nat]
    BY Counted DEF SelectionTyped, SelectedNode
  <1>2. selectedEdgeId' = NoEdge
    BY DEF SelectedNode
  <1>3. SelectionTyped'
    BY <1>1 DEF SelectionTyped, SelectedNode
  <1> QED
    BY <1>2, <1>3 DEF SelectionInStep, EdgeDrawerIsTruthful

LEMMA UnselectedInStep ==
  ASSUME SelectionTyped, Unselected, UNCHANGED edgeReqs
  PROVE  SelectionInStep'
  BY DEF SelectionTyped, SelectionInStep, EdgeDrawerIsTruthful, Unselected

LEMMA SelectionStays ==
  ASSUME InStep, UNCHANGED <<selection, nodeReqs, edgeReqs>>
  PROVE  SelectionInStep'
  BY DEF InStep, SelectionInStep, SelectionTyped, EdgeDrawerIsTruthful, selection

LEMMA TabStays ==
  ASSUME InStep, UNCHANGED <<page, content, loads, overlapped, engine, organizing>>
  PROVE  TabInStep'
  BY DEF InStep, TabInStep, TabTyped, OneLoadAtATime, StoreIsOfTheTab, CanvasIsTheStore,
         EngineHoldsTheStore, CanvasShown, page, content, organizing

LEMMA SelectNodeStep ==
  ASSUME InStep, NEW n \in Nodes, SelectNode(n)
  PROVE  InStep'
  <1>1. SelectionInStep'
    BY SelectedNodeInStep DEF SelectNode, InStep, SelectionInStep
  <1>2. TabInStep'
    BY TabStays DEF SelectNode
  <1> QED
    BY <1>1, <1>2 DEF InStep

LEMMA SelectEdgeStep ==
  ASSUME InStep, NEW e \in Edges, SelectEdge(e)
  PROVE  InStep'
  <1>1. SelectionTyped
    BY DEF InStep, SelectionInStep
  <1>2. /\ selectedEdgeId' = e /\ selectedNodeId' = NoNode /\ selectedEntityDetail' = NoNode
        /\ stray' = (e \notin graph.edges) /\ UNCHANGED nodeReqs
    BY DEF SelectEdge
  <1>3. CASE e \in graph.edges
    <2>1. /\ selectedRelationshipDetail' = [edge |-> e, claims |-> "loading"]
          /\ edgeReqs' = [edgeReqs EXCEPT ![e] = @ + 1]
      BY <1>3 DEF SelectEdge
    <2>2. edgeReqs' \in [Edges -> Nat] /\ edgeReqs'[e] > 0
      BY <1>1, <2>1 DEF SelectionTyped
    <2> QED
      BY <1>1, <1>2, <2>1, <2>2, TabStays
      DEF SelectEdge, InStep, SelectionInStep, SelectionTyped, EdgeDrawerIsTruthful
  <1>4. CASE e \notin graph.edges
    <2>1. UNCHANGED <<selectedRelationshipDetail, edgeReqs>> /\ stray' = TRUE
      BY <1>2, <1>4 DEF SelectEdge
    <2> QED
      BY <1>1, <1>2, <2>1, TabStays
      DEF SelectEdge, InStep, SelectionInStep, SelectionTyped, EdgeDrawerIsTruthful
  <1> QED
    BY <1>3, <1>4

LEMMA ClearSelectionStep ==
  ASSUME InStep, ClearSelection
  PROVE  InStep'
  <1>1. UNCHANGED <<page, content, loads, overlapped, engine, organizing, nodeReqs, edgeReqs>>
    BY DEF ClearSelection, requests
  <1>2. SelectionInStep'
    BY <1>1 DEF ClearSelection, InStep, SelectionInStep, SelectionTyped, EdgeDrawerIsTruthful
  <1> QED
    BY <1>1, <1>2, TabStays DEF InStep

LEMMA EntityArrivesStep ==
  ASSUME InStep, NEW n \in Nodes, EntityArrives(n)
  PROVE  InStep'
  <1>1. SelectionInStep'
    BY DEF EntityArrives, InStep, SelectionInStep, SelectionTyped, EdgeDrawerIsTruthful
  <1>2. TabInStep'
    BY TabStays DEF EntityArrives
  <1> QED
    BY <1>1, <1>2 DEF InStep

LEMMA ClaimsArriveStep ==
  ASSUME InStep, NEW e \in Edges, ClaimsArrive(e)
  PROVE  InStep'
  <1>1. SelectionTyped /\ EdgeDrawerIsTruthful
    BY DEF InStep, SelectionInStep
  <1>2. /\ edgeReqs' = [edgeReqs EXCEPT ![e] = @ - 1] /\ edgeReqs[e] > 0
        /\ UNCHANGED <<selectedNodeId, selectedEdgeId, selectedEntityDetail, stray, nodeReqs>>
        /\ UNCHANGED <<page, content, loads, overlapped, engine, organizing>>
    BY DEF ClaimsArrive
  <1>3. edgeReqs' \in [Edges -> Nat] /\ \A d \in Edges \ {e} : edgeReqs'[d] = edgeReqs[d]
    BY <1>1, <1>2 DEF SelectionTyped
  <1>4. CASE selectedEdgeId # e \/ selectedRelationshipDetail = NoRel
    <2>1. UNCHANGED selectedRelationshipDetail
      BY <1>4 DEF ClaimsArrive
    <2>2. selectedEdgeId = e /\ ~stray => FALSE
      BY <1>1, <1>4, WorkspaceConstants DEF EdgeDrawerIsTruthful, NoRel
    <2> QED
      BY <1>1, <1>2, <1>3, <2>1, <2>2, TabStays
      DEF InStep, SelectionInStep, SelectionTyped, EdgeDrawerIsTruthful
  <1>5. CASE selectedEdgeId = e /\ selectedRelationshipDetail # NoRel
    <2>1. PICK answer \in {e, "failed"} :
             selectedRelationshipDetail' = [selectedRelationshipDetail EXCEPT !.claims = answer]
      BY <1>5 DEF ClaimsArrive
    <2>2. /\ selectedRelationshipDetail' \in [edge : Edges, claims : Edges \cup {"loading", "failed"}]
          /\ selectedRelationshipDetail'.edge = selectedRelationshipDetail.edge
          /\ selectedRelationshipDetail'.claims = answer
      BY <1>1, <1>5, <2>1 DEF SelectionTyped
    <2>3. answer # "loading"
      BY WorkspaceConstants
    <2> QED
      BY <1>1, <1>2, <1>3, <1>5, <2>2, <2>3, TabStays
      DEF InStep, SelectionInStep, SelectionTyped, EdgeDrawerIsTruthful
  <1> QED
    BY <1>4, <1>5

-----------------------------------------------------------------------------
(* Loads.                                                                    *)

LEMMA EmptyGraphType == EmptyGraph \in Graph
  BY DEF EmptyGraph, Graph

\* A load asked for by the tab that is open then.
LEMMA LoadInStep ==
  ASSUME TabInStep, NEW c \in CaseIds, Load(c), routed' = c, focus' \in Linked \cup {NoNode},
         view' \in {"graph", "list"}, UNCHANGED organizing
  PROVE  TabInStep'
  <1>1. TabTyped
    BY DEF TabInStep
  <1>2. /\ loads' = [loads EXCEPT ![c] = @ + 1] /\ overlapped' = (\E d \in CaseIds : loads[d] > 0)
        /\ caseId' = c /\ isLoading' = TRUE /\ error' = FALSE /\ graph' = EmptyGraph /\ engine' = NoEngine
    BY DEF Load
  <1>3. loads' \in [CaseIds -> Nat] /\ ~CanvasShown'
    BY <1>1, <1>2 DEF TabTyped, CanvasShown
  <1>4. TabTyped'
    BY <1>1, <1>2, <1>3, EmptyGraphType DEF TabTyped, organizing
  <1>5. OneLoadAtATime'
    BY <1>1, <1>2 DEF OneLoadAtATime, TabTyped
  <1>6. StoreIsOfTheTab' /\ CanvasIsTheStore' /\ EngineHoldsTheStore'
    BY <1>2 DEF StoreIsOfTheTab, CanvasIsTheStore, EngineHoldsTheStore
  <1> QED
    BY <1>4, <1>5, <1>6 DEF TabInStep

LEMMA OpenGraphStep ==
  ASSUME InStep, NEW c \in CaseIds, NEW f \in Linked \cup {NoNode}, OpenGraph(c, f)
  PROVE  InStep'
  <1>1. TabInStep'
    BY LoadInStep DEF OpenGraph, InStep
  <1>2. SelectionTyped /\ UNCHANGED edgeReqs
    BY DEF OpenGraph, InStep, SelectionInStep
  <1>3. CASE ~isLoading /\ f \in graph.nodes
    <2>1. f \in Nodes
      BY <1>3, GraphTypes DEF InStep, TabInStep, TabTyped
    <2> QED
      BY <1>1, <1>2, <1>3, <2>1, SelectedNodeInStep DEF OpenGraph, InStep
  <1>4. CASE ~(~isLoading /\ f \in graph.nodes)
    BY <1>1, <1>2, <1>4, UnselectedInStep DEF OpenGraph, InStep
  <1> QED
    BY <1>3, <1>4

LEMMA RetryStep ==
  ASSUME InStep, Retry
  PROVE  InStep'
  <1>1. /\ routed # NoCase /\ Load(routed) /\ Unselected /\ UNCHANGED <<page, edgeReqs, organizing>>
    BY DEF Retry
  <1>2. /\ routed \in CaseIds /\ routed' = routed /\ focus' \in Linked \cup {NoNode}
        /\ view' \in {"graph", "list"}
    BY <1>1 DEF InStep, TabInStep, TabTyped, page
  <1>3. TabInStep'
    BY <1>1, <1>2, LoadInStep DEF InStep
  <1> QED
    BY <1>1, <1>3, UnselectedInStep DEF InStep, SelectionInStep

LEMMA LeaveGraphStep ==
  ASSUME InStep, LeaveGraph
  PROVE  InStep'
  <1>1. /\ routed' = NoCase /\ focus' = NoNode /\ view' = "graph" /\ engine' = NoEngine
        /\ UNCHANGED <<caseId, isLoading, error, graph, loads, overlapped, isLayoutRunning, timers>>
        /\ UNCHANGED <<selection, nodeReqs, edgeReqs>>
    BY DEF LeaveGraph, content, requests, organizing
  <1>2. TabTyped'
    BY <1>1 DEF InStep, TabInStep, TabTyped, CanvasShown
  <1>3. TabInStep'
    BY <1>1, <1>2 DEF InStep, TabInStep, OneLoadAtATime, StoreIsOfTheTab, CanvasIsTheStore, EngineHoldsTheStore
  <1> QED
    BY <1>1, <1>3, SelectionStays DEF InStep

LEMMA GraphArrivesStep ==
  ASSUME InStep, NEW c \in CaseIds, NEW g \in Snapshots[c], GraphArrives(c, g)
  PROVE  InStep'
  <1>1. g \in Graph
    BY WorkspaceConstants
  <1>2. /\ loads[c] > 0 /\ loads' = [loads EXCEPT ![c] = @ - 1]
        /\ caseId' = c /\ graph' = g /\ isLoading' = FALSE /\ Rendered(g)
        /\ UNCHANGED <<routed, focus, view, error, edgeReqs, overlapped>>
    BY DEF GraphArrives, page
  <1>3. TabTyped /\ SelectionTyped
    BY DEF InStep, TabInStep, SelectionInStep
  <1>4. TabTyped'
    <2>1. loads' \in [CaseIds -> Nat]
      BY <1>2, <1>3, Counted DEF TabTyped
    <2>2. /\ timers' \in Nat /\ isLayoutRunning' \in BOOLEAN
          /\ engine' \in Engine \cup {NoEngine} /\ (engine' # NoEngine <=> CanvasShown')
      BY <1>1, <1>2, <1>3, RenderedDraws
    <2> QED
      BY <1>1, <1>2, <1>3, <2>1, <2>2 DEF TabTyped
  <1>5. ~overlapped => c = caseId /\ loads[c] = 1 /\ isLoading
    BY <1>2 DEF InStep, TabInStep, OneLoadAtATime
  <1>6. OneLoadAtATime'
    BY <1>2, <1>3, <1>5 DEF InStep, TabInStep, OneLoadAtATime, TabTyped
  <1>7. StoreIsOfTheTab'
    BY <1>2, <1>5, WorkspaceConstants DEF InStep, TabInStep, StoreIsOfTheTab
  <1>8. CanvasIsTheStore' /\ EngineHoldsTheStore'
    BY <1>1, <1>2, <1>3, <1>5, RenderedDraws DEF CanvasIsTheStore, EngineHoldsTheStore
  <1>9. SelectionInStep'
    <2>1. CASE routed # NoCase /\ focus \in g.nodes
      BY <1>1, <1>2, <1>3, <2>1, GraphTypes, SelectedNodeInStep DEF GraphArrives
    <2>2. CASE ~(routed # NoCase /\ focus \in g.nodes)
      BY <1>2, <2>2, SelectionStays DEF GraphArrives
    <2> QED
      BY <2>1, <2>2
  <1> QED
    BY <1>4, <1>6, <1>7, <1>8, <1>9 DEF InStep, TabInStep

LEMMA GraphFailsStep ==
  ASSUME InStep, NEW c \in CaseIds, GraphFails(c)
  PROVE  InStep'
  <1>1. /\ loads[c] > 0 /\ loads' = [loads EXCEPT ![c] = @ - 1]
        /\ isLoading' = FALSE /\ error' = TRUE
        /\ UNCHANGED <<routed, focus, view, caseId, graph, selection, nodeReqs, edgeReqs, overlapped>>
    BY DEF GraphFails, page
  <1>2. TabTyped /\ graph \in Graph
    BY DEF InStep, TabInStep, TabTyped
  <1>3. /\ timers' \in Nat /\ isLayoutRunning' \in BOOLEAN
        /\ engine' \in Engine \cup {NoEngine}
        /\ engine' # NoEngine <=> CanvasShown'
        /\ EngineHoldsTheStore' /\ CanvasIsTheStore'
    <2>1. CASE CanvasShown
      <3>1. UNCHANGED <<engine, timers, isLayoutRunning>> /\ CanvasShown'
        BY <1>1, <2>1 DEF GraphFails, organizing, CanvasShown
      <3> QED
        BY <1>1, <2>1, <3>1 DEF InStep, TabInStep, TabTyped, EngineHoldsTheStore, CanvasIsTheStore
    <2>2. CASE ~CanvasShown
      <3>1. Rendered(graph)
        BY <2>2 DEF GraphFails
      <3>2. engine' # NoEngine => isLoading
        BY <1>1, <1>2, <2>2, <3>1 DEF Rendered, TabTyped, CanvasShown
      <3> QED
        BY <1>1, <1>2, <3>1, <3>2, RenderedDraws DEF EngineHoldsTheStore, CanvasIsTheStore
    <2> QED
      BY <2>1, <2>2
  <1>4. TabTyped'
    <2>1. loads' \in [CaseIds -> Nat]
      BY <1>1, <1>2, Counted DEF TabTyped
    <2> QED
      BY <1>1, <1>2, <1>3, <2>1 DEF TabTyped
  <1>5. OneLoadAtATime'
    BY <1>1, <1>2 DEF InStep, TabInStep, OneLoadAtATime, TabTyped
  <1>6. StoreIsOfTheTab'
    BY <1>1 DEF InStep, TabInStep, StoreIsOfTheTab
  <1>7. SelectionInStep'
    BY <1>1, SelectionStays
  <1> QED
    BY <1>3, <1>4, <1>5, <1>6, <1>7 DEF InStep, TabInStep

-----------------------------------------------------------------------------
(* The view and the layout.                                                  *)

LEMMA SetViewStep ==
  ASSUME InStep, NEW v \in {"graph", "list"}, SetView(v)
  PROVE  InStep'
  <1>1. /\ routed # NoCase /\ view' = v
        /\ UNCHANGED <<routed, focus, caseId, isLoading, error, graph, loads, overlapped>>
        /\ UNCHANGED <<selection, nodeReqs, edgeReqs>>
    BY DEF SetView, content, requests
  <1>2. TabTyped /\ graph \in Graph
    BY DEF InStep, TabInStep, TabTyped
  <1>3. /\ timers' \in Nat /\ isLayoutRunning' \in BOOLEAN
        /\ engine' \in Engine \cup {NoEngine}
        /\ engine' # NoEngine <=> CanvasShown'
        /\ EngineHoldsTheStore' /\ CanvasIsTheStore'
    <2>1. CASE v = "graph" /\ ~isLoading
      <3>1. engine' = Mounted(graph) /\ MountsLayout(graph) /\ CanvasShown'
        BY <1>1, <2>1 DEF SetView, CanvasShown
      <3>2. engine' \in Engine /\ engine' # NoEngine
        BY <1>2, <3>1, MountedDraws, NoEngineIsNone
      <3> QED
        BY <1>1, <1>2, <3>1, <3>2, MountedDraws, MountsLayoutTypes DEF EngineHoldsTheStore, CanvasIsTheStore
    <2>2. CASE ~(v = "graph" /\ ~isLoading)
      <3>1. engine' = NoEngine /\ UNCHANGED <<timers, isLayoutRunning>> /\ ~CanvasShown'
        BY <1>1, <2>2 DEF SetView, organizing, CanvasShown
      <3> QED
        BY <1>2, <3>1 DEF TabTyped, EngineHoldsTheStore, CanvasIsTheStore
    <2> QED
      BY <2>1, <2>2
  <1>4. TabTyped'
    BY <1>1, <1>2, <1>3 DEF TabTyped
  <1>5. OneLoadAtATime' /\ StoreIsOfTheTab'
    BY <1>1 DEF InStep, TabInStep, OneLoadAtATime, StoreIsOfTheTab
  <1>6. SelectionInStep'
    BY <1>1, SelectionStays
  <1> QED
    BY <1>3, <1>4, <1>5, <1>6 DEF InStep, TabInStep

LEMMA LayoutStep ==
  ASSUME InStep, ToggleLayout \/ TimerFires
  PROVE  InStep'
  <1>1. /\ UNCHANGED <<routed, focus, view, caseId, isLoading, error, graph, loads, overlapped, engine>>
        /\ UNCHANGED <<selection, nodeReqs, edgeReqs>>
        /\ isLayoutRunning' \in BOOLEAN
    BY DEF ToggleLayout, TimerFires, page, content, requests
  <1>2. timers' \in Nat
    BY DEF ToggleLayout, TimerFires, InStep, TabInStep, TabTyped
  <1>3. TabInStep'
    BY <1>1, <1>2
    DEF InStep, TabInStep, TabTyped, OneLoadAtATime, StoreIsOfTheTab, CanvasIsTheStore,
        EngineHoldsTheStore, CanvasShown
  <1> QED
    BY <1>1, <1>3, SelectionStays DEF InStep

-----------------------------------------------------------------------------
(* The theorems.                                                             *)

LEMMA WorkspaceInitInStep == WorkspaceInit => InStep
  <1> SUFFICES ASSUME WorkspaceInit PROVE InStep
    OBVIOUS
  <1>1. TabTyped
    BY EmptyGraphType DEF WorkspaceInit, TabTyped, CanvasShown
  <1>2. SelectionTyped
    BY DEF WorkspaceInit, SelectionTyped
  <1>3. OneLoadAtATime /\ StoreIsOfTheTab /\ CanvasIsTheStore /\ EngineHoldsTheStore /\ EdgeDrawerIsTruthful
    BY DEF WorkspaceInit, OneLoadAtATime, StoreIsOfTheTab, CanvasIsTheStore, EngineHoldsTheStore,
           EdgeDrawerIsTruthful
  <1> QED
    BY <1>1, <1>2, <1>3 DEF InStep, TabInStep, SelectionInStep

LEMMA WorkspaceStepInStep == InStep /\ [WorkspaceNext]_workspaceVars => InStep'
  <1> SUFFICES ASSUME InStep, [WorkspaceNext]_workspaceVars PROVE InStep'
    OBVIOUS
  <1>1. CASE \E c \in CaseIds, f \in Linked \cup {NoNode} : OpenGraph(c, f)
    BY <1>1, OpenGraphStep
  <1>2. CASE Retry
    BY <1>2, RetryStep
  <1>3. CASE LeaveGraph
    BY <1>3, LeaveGraphStep
  <1>4. CASE \E c \in CaseIds : \E g \in Snapshots[c] : GraphArrives(c, g)
    BY <1>4, GraphArrivesStep
  <1>5. CASE \E c \in CaseIds : GraphFails(c)
    BY <1>5, GraphFailsStep
  <1>6. CASE \E n \in Nodes : SelectNode(n)
    BY <1>6, SelectNodeStep
  <1>7. CASE \E e \in Edges : SelectEdge(e)
    BY <1>7, SelectEdgeStep
  <1>8. CASE \E e \in Edges : SelectConnectedEdge(e)
    BY <1>8, SelectEdgeStep DEF SelectConnectedEdge
  <1>9. CASE ClearSelection
    BY <1>9, ClearSelectionStep
  <1>10. CASE \E n \in Nodes : EntityArrives(n)
    BY <1>10, EntityArrivesStep
  <1>11. CASE \E e \in Edges : ClaimsArrive(e)
    BY <1>11, ClaimsArriveStep
  <1>12. CASE \E v \in {"graph", "list"} : SetView(v)
    BY <1>12, SetViewStep
  <1>13. CASE ToggleLayout \/ TimerFires
    BY <1>13, LayoutStep
  <1>14. CASE UNCHANGED workspaceVars
    BY <1>14, TabStays, SelectionStays DEF workspaceVars, requests, InStep
  <1> QED
    BY <1>1, <1>2, <1>3, <1>4, <1>5, <1>6, <1>7, <1>8, <1>9, <1>10, <1>11, <1>12, <1>13, <1>14
    DEF WorkspaceNext

LEMMA AlwaysInStep == WorkspaceSpec => []InStep
  BY WorkspaceInitInStep, WorkspaceStepInStep, PTL DEF WorkspaceSpec

\* Page, store, canvas and requests keep their types, and a canvas is mounted just
\* when the page shows it, for all graphs the server may answer.
THEOREM WorkspaceTypeCorrect == WorkspaceSpec => []WorkspaceTypeOK
  <1>1. InStep => WorkspaceTypeOK
    BY WorkspaceTypes DEF InStep, TabInStep, SelectionInStep
  <1> QED
    BY <1>1, AlwaysInStep, PTL

\* However graphs grow and shrink between two answers, the canvas lacks no entity
\* of the store and no relationship between two of them (FE-015, FE-016).
THEOREM NothingIsMissing == WorkspaceSpec => []EngineHoldsTheStore
  <1>1. InStep => EngineHoldsTheStore
    BY DEF InStep, TabInStep
  <1> QED
    BY <1>1, AlwaysInStep, PTL

\* The edge drawer shows the selected edge and claims fetched for it, in whatever
\* order the answers come (graphStore.ts:229).
THEOREM DrawersTellTheTruth == WorkspaceSpec => []EdgeDrawerIsTruthful
  <1>1. InStep => EdgeDrawerIsTruthful
    BY DEF InStep, SelectionInStep
  <1> QED
    BY <1>1, AlwaysInStep, PTL

\* Unless loads overlapped, the canvas draws the graph of the case in the address
\* and nothing else (DEF-061, graphStore.ts:129).
THEOREM CanvasDrawsTheCase == WorkspaceSpec => []CanvasIsOfTheRoutedCase
  <1>1. ASSUME InStep PROVE CanvasIsOfTheRoutedCase
    <2> SUFFICES ASSUME engine # NoEngine, ~overlapped
                 PROVE  /\ graph \in Snapshots[routed] \cup {EmptyGraph}
                        /\ engine.nodes = graph.nodes
                        /\ engine.edges = Connected(graph.nodes, graph.edges)
      BY DEF CanvasIsOfTheRoutedCase
    <2>1. routed # NoCase
      BY <1>1 DEF InStep, TabInStep, TabTyped, CanvasShown
    <2> QED
      BY <1>1, <2>1 DEF InStep, TabInStep, StoreIsOfTheTab, CanvasIsTheStore
  <1> QED
    BY <1>1, AlwaysInStep, PTL
=============================================================================
