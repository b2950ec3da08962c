------------------------ MODULE ReviewDecisionsProofs ------------------------
(***************************************************************************)
(* Proofs about ReviewDecisions: types, the line of reviews of a target,   *)
(* the state of a candidate, the pairs proposed, the contradictions        *)
(* flagged, the evidence that reaches the candidates.  Nothing is assumed  *)
(* of how decisions, extractions and resolutions overlap.                  *)
(***************************************************************************)
EXTENDS ReviewDecisions, TLAPS

\* What a request began with and what it found are among its target's reviews.
LastInHistory ==
    \A r \in Reviewer : request[r] # None =>
        LET n == Len(reviews[request[r].target]) IN
        /\ request[r].began <= n
        /\ request[r].last # None => request[r].last <= n

Typed == TypeOK /\ LastInHistory

LEMMA OutcomeTyped ==
  ASSUME NEW t \in Target, NEW d \in Decision, NEW b \in BOOLEAN
  PROVE  Outcome(t, d, b) \in State \ {"none"}
  <1>1. d \in {"APPROVE", "REJECT", "DEFER", "REVERSE", "STALE", "CONTRADICTORY"}
    BY ReviewAssumption
  <1>2. CASE t \in Row
    <2>1. t \notin Claim
      BY <1>2, ReviewAssumption
    <2> QED
      BY <1>1, <1>2, <2>1 DEF Outcome, State
  <1>3. CASE t \in Claim
    <2>1. t \notin Row
      BY <1>3, ReviewAssumption
    <2> QED
      BY <1>1, <1>3, <2>1 DEF Outcome, State
  <1> QED
    BY <1>2, <1>3 DEF Target

LEMMA InitTyped == Init => Typed
  <1> SUFFICES ASSUME Init PROVE Typed
    OBVIOUS
  <1>1. TypeOK
    BY DEF Init, TypeOK, State, Target
  <1>2. LastInHistory
    BY DEF Init, LastInHistory
  <1> QED
    BY <1>1, <1>2 DEF Typed

LEMMA LoadTyped ==
  ASSUME Typed, NEW r \in Reviewer, NEW t \in Target, NEW d \in Decision, LoadTarget(r, t, d)
  PROVE  Typed'
  <1> DEFINE q == [target |-> t, decision |-> d, copy |-> state[t],
                   contra |-> t \in flagged, began |-> Len(reviews[t]), last |-> None]
  <1>1. request' = [request EXCEPT ![r] = q]
        /\ UNCHANGED <<rowVars, stage, extractVars, resolveVars, history>>
    BY DEF LoadTarget
  <1>2. q \in Request
    BY DEF Request, Typed, TypeOK
  <1>7. Len(reviews[t]) \in Nat
    BY DEF Typed, TypeOK
  <1>3. request' \in [Reviewer -> Request \cup {None}]
    BY <1>1, <1>2 DEF Typed, TypeOK
  <1>4. TypeOK'
    BY <1>1, <1>3 DEF Typed, TypeOK, rowVars, extractVars, resolveVars, history
  <1>5. q.last = None /\ q.target = t /\ q.began = Len(reviews[t])
    OBVIOUS
  <1> HIDE DEF q
  <1>6. LastInHistory'
    BY <1>1, <1>5, <1>7 DEF LastInHistory, Typed, TypeOK, rowVars
  <1> QED
    BY <1>4, <1>6 DEF Typed

LEMMA FindTyped ==
  ASSUME Typed, NEW r \in Reviewer, FindLast(r)
  PROVE  Typed'
  <1> DEFINE n == Len(reviews[request[r].target])
  <1>1. /\ \/ request' = [request EXCEPT ![r] = None]
           \/ request' = [request EXCEPT ![r].last = n]
        /\ request[r] # None
        /\ UNCHANGED <<rowVars, stage, extractVars, resolveVars, history>>
    BY DEF FindLast
  <1>2. request[r] \in Request /\ request[r].target \in Target
    BY <1>1 DEF Typed, TypeOK, Request
  <1>3. n \in Nat
    BY <1>2 DEF Typed, TypeOK
  <1> HIDE DEF n
  <1>4. [request[r] EXCEPT !.last = n] \in Request
    BY <1>2, <1>3 DEF Request
  <1>5. request' \in [Reviewer -> Request \cup {None}]
    BY <1>1, <1>4 DEF Typed, TypeOK
  <1>6. TypeOK'
    BY <1>1, <1>5 DEF Typed, TypeOK, rowVars, extractVars, resolveVars, history
  <1>7. LastInHistory'
    <2> SUFFICES ASSUME NEW s \in Reviewer, request'[s] # None
                 PROVE  LET m == Len(reviews'[request'[s].target]) IN
                        /\ request'[s].began <= m
                        /\ request'[s].last # None => request'[s].last <= m
      BY DEF LastInHistory
    <2>1. CASE s # r
      BY <1>1, <2>1 DEF LastInHistory, Typed, TypeOK, rowVars
    <2>2. CASE s = r
      <3>1. request' = [request EXCEPT ![r].last = n]
        BY <1>1, <2>2 DEF Typed, TypeOK
      <3>2. request'[r] = [request[r] EXCEPT !.last = n]
        BY <3>1 DEF Typed, TypeOK
      <3>3. /\ request'[r].last = n /\ request'[r].target = request[r].target
            /\ request'[r].began = request[r].began
        BY <1>2, <3>2 DEF Request
      <3>4. reviews' = reviews /\ request[r].began <= n
        BY <1>1 DEF rowVars, n, Typed, LastInHistory
      <3> QED
        BY <1>3, <2>2, <3>3, <3>4 DEF n
    <2> QED
      BY <2>1, <2>2
  <1> QED
    BY <1>6, <1>7 DEF Typed

LEMMA CommitTyped ==
  ASSUME Typed, NEW r \in Reviewer, CommitDecision(r)
  PROVE  Typed'
  <1> DEFINE q == request[r]
             new == Outcome(q.target, q.decision, q.contra)
             rev == [decision |-> q.decision, supersedes |-> q.last, began |-> q.began]
             t == q.target
  <1>1. /\ q # None /\ q.last # None
        /\ reviews' = [reviews EXCEPT ![t] = Append(reviews[t], rev)]
        /\ state' = IF new = q.copy THEN state ELSE [state EXCEPT ![t] = new]
        /\ request' = [request EXCEPT ![r] = None]
        /\ UNCHANGED <<flagged, pair, signals, stage, extractVars, resolveVars, history>>
    BY DEF CommitDecision
  <1>2. /\ t \in Target /\ q.decision \in Decision /\ q.contra \in BOOLEAN /\ q.last \in Nat
        /\ q.last <= Len(reviews[t]) /\ q.began \in Nat
    BY <1>1 DEF Typed, TypeOK, Request, LastInHistory
  <1>3. new \in State
    BY <1>2, OutcomeTyped
  <1>4. rev \in Review /\ rev.supersedes = q.last
    BY <1>2 DEF Review
  <1> HIDE DEF q, new, rev, t
  <1>5. reviews[t] \in Seq(Review) /\ Len(reviews[t]) \in Nat
    BY <1>2 DEF Typed, TypeOK
  <1>6. /\ Append(reviews[t], rev) \in Seq(Review)
        /\ Len(Append(reviews[t], rev)) = Len(reviews[t]) + 1
        /\ \A n \in 1..Len(reviews[t]) : Append(reviews[t], rev)[n] = reviews[t][n]
        /\ Append(reviews[t], rev)[Len(reviews[t]) + 1] = rev
    BY <1>4, <1>5
  <1>7. state' \in [Target -> State]
    BY <1>1, <1>2, <1>3 DEF Typed, TypeOK
  <1>8. reviews' \in [Target -> Seq(Review)]
    BY <1>1, <1>2, <1>6 DEF Typed, TypeOK
  <1>9. request' \in [Reviewer -> Request \cup {None}]
    BY <1>1 DEF Typed, TypeOK
  <1>10. \A u \in Target : \A n \in 1..Len(reviews'[u]) : reviews'[u][n].supersedes < n
    <2> TAKE u \in Target
    <2>1. CASE u # t
      BY <1>1, <2>1 DEF Typed, TypeOK
    <2>2. CASE u = t
      <3>1. reviews'[u] = Append(reviews[t], rev)
        BY <1>1, <1>2, <2>2 DEF Typed, TypeOK
      <3> SUFFICES ASSUME NEW n \in 1..(Len(reviews[t]) + 1)
                   PROVE  Append(reviews[t], rev)[n].supersedes < n
        BY <1>6, <3>1
      <3>2. CASE n = Len(reviews[t]) + 1
        BY <1>2, <1>4, <1>5, <1>6, <3>2
      <3>3. CASE n # Len(reviews[t]) + 1
        <4>1. n \in 1..Len(reviews[t])
          BY <1>5, <3>3
        <4>2. reviews[t][n].supersedes < n
          BY <1>2, <4>1 DEF Typed, TypeOK
        <4> QED
          BY <1>6, <4>1, <4>2
      <3> QED
        BY <3>2, <3>3
    <2> QED
      BY <2>1, <2>2
  <1>11. TypeOK'
    BY <1>1, <1>7, <1>8, <1>9, <1>10 DEF Typed, TypeOK, extractVars, resolveVars, history
  <1>12. LastInHistory'
    <2> SUFFICES ASSUME NEW s \in Reviewer, request'[s] # None
                 PROVE  LET m == Len(reviews'[request'[s].target]) IN
                        /\ request'[s].began <= m
                        /\ request'[s].last # None => request'[s].last <= m
      BY DEF LastInHistory
    <2>1. s # r /\ request'[s] = request[s]
      BY <1>1 DEF Typed, TypeOK
    <2>2. LET m == Len(reviews[request[s].target]) IN
          /\ request[s].began <= m
          /\ request[s].last # None => request[s].last <= m
      BY <2>1 DEF Typed, LastInHistory
    <2>3. /\ request[s].target \in Target /\ request[s].began \in Nat
          /\ request[s].last \in Nat \cup {None}
      BY <2>1 DEF Typed, TypeOK, Request
    <2>4. CASE request[s].target # t
      BY <1>1, <2>1, <2>2, <2>3, <2>4 DEF Typed, TypeOK
    <2>5. CASE request[s].target = t
      <3>1. Len(reviews'[t]) = Len(reviews[t]) + 1
        BY <1>1, <1>2, <1>6 DEF Typed, TypeOK
      <3> QED
        BY <1>5, <2>1, <2>2, <2>3, <2>5, <3>1
    <2> QED
      BY <2>4, <2>5
  <1> QED
    BY <1>11, <1>12 DEF Typed

\* Processing an item touches no request and no review.
LEMMA ProcessTyped ==
  ASSUME Typed, NEW i \in Item,
         \/ FlagContradictions(i) \/ ExtractCommit(i) \/ ExtractFails(i)
         \/ Profiles(i) \/ Compare(i) \/ ResolveCommit(i) \/ ResolveFails(i)
  PROVE  Typed'
  <1>1. UNCHANGED <<reviews, request>>
    BY DEF FlagContradictions, ExtractCommit, ExtractFails, Profiles, Compare, ResolveCommit,
           ResolveFails, rowVars
  <1>2. LastInHistory'
    BY <1>1 DEF Typed, LastInHistory
  <1>3. /\ Committed \subseteq Claim /\ Own(i) \subseteq Claim /\ Contested(i) \subseteq Claim
        /\ Missing(i) \subseteq Pair /\ \A prior : Stale(i, prior) \subseteq Row
    BY DEF Committed, Own, Contested, Missing, Stale
  <1>11. overtaken' \subseteq Item /\ clean' \subseteq {"extract", "resolve"}
    BY DEF FlagContradictions, ExtractCommit, ExtractFails, Profiles, Compare, ResolveCommit,
           ResolveFails, Commits, RollsBack, history, Typed, TypeOK
  <1>4. CASE FlagContradictions(i)
    <2>1. marks' \in [Item -> SUBSET Claim] /\ writes' \in [Item -> SUBSET Claim]
      BY <1>3, <1>4 DEF FlagContradictions, Typed, TypeOK
    <2> QED
      BY <1>1, <1>2, <1>11, <1>4, <2>1 DEF FlagContradictions, Typed, TypeOK, rowVars, resolveVars
  <1>5. CASE ExtractCommit(i)
    <2>1. state' \in [Target -> State]
      BY <1>5, ReviewAssumption DEF ExtractCommit, Typed, TypeOK, State, Own, Target
    <2>2. flagged' \subseteq Claim
      BY <1>5 DEF ExtractCommit, Typed, TypeOK
    <2> QED
      BY <1>1, <1>2, <1>11, <1>5, <2>1, <2>2 DEF ExtractCommit, Typed, TypeOK, resolveVars
  <1>6. CASE ExtractFails(i)
    BY <1>1, <1>2, <1>11, <1>6 DEF ExtractFails, Typed, TypeOK, rowVars, resolveVars
  <1>7. CASE Profiles(i)
    <2>1. met' \in [Item -> SUBSET Claim] /\ known' \in [Item -> SUBSET Claim]
      BY <1>3, <1>7 DEF Profiles, Typed, TypeOK
    <2> QED
      BY <1>1, <1>2, <1>11, <1>7, <2>1 DEF Profiles, Typed, TypeOK, rowVars, extractVars
  <1>8. CASE Compare(i)
    <2>1. rewrite' \in [Item -> SUBSET Row] /\ create' \in [Item -> SUBSET Pair]
      BY <1>3, <1>8 DEF Compare, Typed, TypeOK
    <2> QED
      BY <1>1, <1>2, <1>11, <1>8, <2>1 DEF Compare, Typed, TypeOK, rowVars, extractVars
  <1>9. CASE ResolveCommit(i)
    <2>1. PICK new \in [create[i] -> {w \in Row : pair[w] = None}] :
             /\ state' = StateAfter(i, new)
             /\ pair' = [w \in Row |-> IF \E p \in create[i] : new[p] = w
                                       THEN CHOOSE p \in create[i] : new[p] = w ELSE pair[w]]
      BY <1>9 DEF ResolveCommit
    <2>2. state' \in [Target -> State]
      BY <2>1 DEF StateAfter, Typed, TypeOK, State
    <2>3. pair' \in [Row -> Pair \cup {None}]
      <3> SUFFICES ASSUME NEW w \in Row
                   PROVE  (IF \E p \in create[i] : new[p] = w
                           THEN CHOOSE p \in create[i] : new[p] = w ELSE pair[w])
                          \in Pair \cup {None}
        BY <2>1
      <3>1. create[i] \subseteq Pair /\ pair[w] \in Pair \cup {None}
        BY DEF Typed, TypeOK
      <3> QED
        BY <3>1
    <2>4. signals' \in [Row -> SUBSET Claim]
      <3>1. known[i] \subseteq Claim /\ \A w \in Row : signals[w] \subseteq Claim
        BY DEF Typed, TypeOK
      <3> QED
        BY <1>9, <3>1 DEF ResolveCommit
    <2>5. /\ met' \in [Item -> SUBSET Claim] /\ known' \in [Item -> SUBSET Claim]
          /\ rewrite' \in [Item -> SUBSET Row] /\ create' \in [Item -> SUBSET Pair]
      BY <1>9 DEF ResolveCommit, Typed, TypeOK
    <2> QED
      BY <1>1, <1>2, <1>11, <1>9, <2>2, <2>3, <2>4, <2>5 DEF ResolveCommit, Typed, TypeOK, extractVars
  <1>10. CASE ResolveFails(i)
    BY <1>1, <1>2, <1>11, <1>10 DEF ResolveFails, Typed, TypeOK, rowVars, extractVars
  <1> QED
    BY <1>4, <1>5, <1>6, <1>7, <1>8, <1>9, <1>10

LEMMA NextTyped == Typed /\ [Next]_vars => Typed'
  <1> SUFFICES ASSUME Typed, [Next]_vars PROVE Typed'
    OBVIOUS
  <1>1. CASE UNCHANGED vars
    BY <1>1 DEF Typed, TypeOK, LastInHistory, vars, rowVars, extractVars, resolveVars, history
  <1>2. CASE Next
    BY <1>2, LoadTyped, FindTyped, CommitTyped, ProcessTyped DEF Next
  <1> QED
    BY <1>1, <1>2

LEMMA AlwaysTyped == Spec => []Typed
  BY InitTyped, NextTyped, PTL DEF Spec

\* Every variable keeps its type, and a review supersedes only reviews that were
\* there before it, however decisions overlap.
THEOREM ReviewsTypeCorrect == Spec => []TypeOK
  <1>1. Typed => TypeOK
    BY DEF Typed
  <1> QED
    BY <1>1, AlwaysTyped, PTL

-----------------------------------------------------------------------------
(* Decisions on one target *)

\* A row has a pair from its beginning, and no review before.
RowsPaired ==
    \A w \in Row : /\ pair[w] = None <=> state[w] = "none"
                   /\ pair[w] = None => reviews[w] = <<>>

\* What a request on a target loaded still holds, or a review since has changed it, and
\* what it is to supersede is the last review or one that was the last since it began.
Follows(t, q) ==
    /\ state[t] # "none"
    /\ t \in Row => q.copy = state[t] \/ DecidedSince(t, q.began)
    /\ q.last # None =>
          /\ q.last \in q.began..Len(reviews[t])
          /\ q.decision = "REVERSE" =>
                q.last > 0 /\ (t \in Row => reviews[t][q.last].decision # "REVERSE")

RequestsFollow ==
    \A r \in Reviewer, q \in Request : request[r] = q => Follows(q.target, q)

Decisions ==
    /\ Typed
    /\ RowsPaired
    /\ RequestsFollow
    /\ OnlyOverlapForks
    /\ StateFollowsReviews

LEMMA InitDecisions == Init => Decisions
  <1> SUFFICES ASSUME Init PROVE Decisions
    OBVIOUS
  <1>1. RequestsFollow
    BY RequestAssumption DEF Init, RequestsFollow
  <1>2. RowsPaired /\ StateFollowsReviews
    BY DEF Init, RowsPaired, StateFollowsReviews, Target
  <1>3. OnlyOverlapForks
    BY DEF Init, OnlyOverlapForks
  <1> QED
    BY <1>1, <1>2, <1>3, InitTyped DEF Decisions

\* Processing takes no target away, and gives a row a state only when it makes the row.
LEMMA ProcessingKeepsRows ==
  ASSUME Typed, RowsPaired, NEW i \in Item,
         \/ FlagContradictions(i) \/ ExtractCommit(i) \/ ExtractFails(i)
         \/ Profiles(i) \/ Compare(i) \/ ResolveCommit(i) \/ ResolveFails(i)
  PROVE  /\ UNCHANGED <<reviews, request>>
         /\ \A t \in Target : state[t] # "none" => state'[t] # "none"
         /\ \A w \in Row : \/ state'[w] = state[w] /\ pair'[w] = pair[w]
                           \/ /\ pair[w] = None /\ state[w] = "none"
                              /\ pair'[w] # None /\ state'[w] = "REVIEW_REQUIRED"
  <1>1. UNCHANGED <<reviews, request>>
    BY DEF FlagContradictions, ExtractCommit, ExtractFails, Profiles, Compare, ResolveCommit,
           ResolveFails, rowVars
  <1>2. CASE UNCHANGED <<state, pair>>
    BY <1>1, <1>2
  <1>3. CASE ExtractCommit(i)
    <2>1. \A w \in Row : w \notin writes[i] /\ w \notin Own(i)
      BY ReviewAssumption DEF Own, Typed, TypeOK
    <2>2. \A w \in Row : state'[w] = state[w] /\ pair'[w] = pair[w]
      BY <1>3, <2>1 DEF ExtractCommit, Target
    <2>3. \A t \in Target : state[t] # "none" => state'[t] # "none"
      BY <1>3, ReviewAssumption DEF ExtractCommit, Own
    <2> QED
      BY <1>1, <2>2, <2>3
  <1>4. CASE ResolveCommit(i)
    <2>1. PICK new \in [create[i] -> {w \in Row : pair[w] = None}] :
             /\ state' = StateAfter(i, new)
             /\ pair' = [w \in Row |-> IF \E p \in create[i] : new[p] = w
                                       THEN CHOOSE p \in create[i] : new[p] = w ELSE pair[w]]
      BY <1>4 DEF ResolveCommit
    <2>2. create[i] \subseteq Pair
      BY DEF Typed, TypeOK
    <2>3. \A t \in Target : state[t] # "none" => state'[t] # "none"
      BY <2>1 DEF StateAfter
    <2>4. ASSUME NEW w \in Row
          PROVE  \/ state'[w] = state[w] /\ pair'[w] = pair[w]
                 \/ /\ pair[w] = None /\ state[w] = "none"
                    /\ pair'[w] # None /\ state'[w] = "REVIEW_REQUIRED"
      <3>1. CASE \E p \in create[i] : new[p] = w
        <4>1. pair[w] = None
          BY <2>1, <3>1
        <4>2. pair'[w] \in create[i]
          BY <2>1, <3>1
        <4>3. state'[w] = "REVIEW_REQUIRED"
          BY <2>1, <3>1 DEF StateAfter, Target
        <4> QED
          BY <2>2, <4>1, <4>2, <4>3, ReviewAssumption DEF RowsPaired
      <3>2. CASE ~ \E p \in create[i] : new[p] = w
        BY <2>1, <3>2 DEF StateAfter, Target
      <3> QED
        BY <3>1, <3>2
    <2> QED
      BY <1>1, <2>3, <2>4
  <1> QED
    BY <1>2, <1>3, <1>4
    DEF FlagContradictions, ExtractFails, Profiles, Compare, ResolveFails, rowVars

LEMMA ProcessKeepsDecisions ==
  ASSUME Decisions, NEW i \in Item,
         \/ FlagContradictions(i) \/ ExtractCommit(i) \/ ExtractFails(i)
         \/ Profiles(i) \/ Compare(i) \/ ResolveCommit(i) \/ ResolveFails(i)
  PROVE  Decisions'
  <1>1. Typed'
    BY ProcessTyped DEF Decisions
  <1>2. /\ UNCHANGED <<reviews, request>>
        /\ \A t \in Target : state[t] # "none" => state'[t] # "none"
        /\ \A w \in Row : \/ state'[w] = state[w] /\ pair'[w] = pair[w]
                          \/ /\ pair[w] = None /\ state[w] = "none"
                             /\ pair'[w] # None /\ state'[w] = "REVIEW_REQUIRED"
    BY ProcessingKeepsRows DEF Decisions
  <1>3. OnlyOverlapForks'
    BY <1>2 DEF Decisions, OnlyOverlapForks
  <1>4. RowsPaired'
    BY <1>2 DEF Decisions, RowsPaired
  <1>5. ASSUME NEW w \in Row, state[w] # "none", NEW n, DecidedSince(w, n)
        PROVE  DecidedSince(w, n)'
    BY <1>2, <1>5 DEF DecidedSince, Outcome
  <1>6. RequestsFollow'
    <2> SUFFICES ASSUME NEW r \in Reviewer, NEW q \in Request, request[r] = q
                 PROVE  Follows(q.target, q)'
      BY <1>2 DEF RequestsFollow
    <2>1. Follows(q.target, q) /\ q.target \in Target
      BY DEF Decisions, RequestsFollow, Request
    <2>2. q.target \in Row => q.copy = state'[q.target] \/ DecidedSince(q.target, q.began)'
      BY <1>2, <1>5, <2>1 DEF Follows
    <2> QED
      BY <1>2, <2>1, <2>2 DEF Follows
  <1>7. StateFollowsReviews'
    <2> SUFFICES ASSUME NEW w \in Row, state'[w] # "none"
                 PROVE  IF reviews[w] = <<>> THEN state'[w] = "REVIEW_REQUIRED"
                        ELSE DecidedSince(w, LastReview(w).began)'
      BY <1>2 DEF StateFollowsReviews, LastReview
    <2>1. CASE state[w] = "none"
      BY <1>2, <2>1 DEF Decisions, RowsPaired
    <2>2. CASE state[w] # "none"
      <3>1. IF reviews[w] = <<>> THEN state[w] = "REVIEW_REQUIRED"
            ELSE DecidedSince(w, LastReview(w).began)
        BY <2>2 DEF Decisions, StateFollowsReviews
      <3>2. LastReview(w)' = LastReview(w) /\ state'[w] = state[w]
        BY <1>2, <2>2 DEF LastReview
      <3> QED
        BY <1>2, <3>1, <3>2 DEF DecidedSince, Outcome
    <2> QED
      BY <2>1, <2>2
  <1> QED
    BY <1>1, <1>3, <1>4, <1>6, <1>7 DEF Decisions

LEMMA LoadKeepsDecisions ==
  ASSUME Decisions,
         NEW r \in Reviewer, NEW t \in Target, NEW d \in Decision, LoadTarget(r, t, d)
  PROVE  Decisions'
  <1> DEFINE q == [target |-> t, decision |-> d, copy |-> state[t],
                   contra |-> t \in flagged, began |-> Len(reviews[t]), last |-> None]
  <1>1. /\ request' = [request EXCEPT ![r] = q]
        /\ UNCHANGED rowVars
        /\ request[r] = None /\ state[t] # "none"
    BY DEF LoadTarget
  <1>2. q.target = t /\ q.copy = state[t] /\ q.last = None
    OBVIOUS
  <1> HIDE DEF q
  <1>3. Typed'
    BY LoadTyped DEF Decisions
  <1>4. \A s \in Reviewer : request'[s] = IF s = r THEN q ELSE request[s]
    BY <1>1 DEF Decisions, Typed, TypeOK
  <1>5. \A w, n : DecidedSince(w, n)' <=> DecidedSince(w, n)
    BY <1>1 DEF DecidedSince, Outcome, rowVars
  <1>6. RequestsFollow'
    <2> SUFFICES ASSUME NEW s \in Reviewer, NEW p \in Request, request'[s] = p
                 PROVE  Follows(p.target, p)'
      BY DEF RequestsFollow
    <2>1. CASE s = r
      BY <1>1, <1>2, <1>4, <2>1 DEF Follows, rowVars
    <2>2. CASE s # r
      <3>1. Follows(p.target, p)
        BY <1>4, <2>2 DEF Decisions, RequestsFollow
      <3> QED
        BY <1>1, <1>5, <3>1 DEF Follows, rowVars
    <2> QED
      BY <2>1, <2>2
  <1>7. RowsPaired' /\ OnlyOverlapForks'
    BY <1>1 DEF Decisions, RowsPaired, OnlyOverlapForks, rowVars
  <1>8. StateFollowsReviews'
    BY <1>1 DEF Decisions, StateFollowsReviews, LastReview, DecidedSince, Outcome, rowVars
  <1> QED
    BY <1>3, <1>6, <1>7, <1>8 DEF Decisions

LEMMA FindKeepsDecisions ==
  ASSUME Decisions, NEW r \in Reviewer, FindLast(r)
  PROVE  Decisions'
  <1> DEFINE t == request[r].target
             n == Len(reviews[t])
  <1>1. /\ request[r] # None
        /\ UNCHANGED rowVars
        /\ \/ request' = [request EXCEPT ![r] = None]
           \/ /\ request' = [request EXCEPT ![r].last = n]
              /\ request[r].decision = "REVERSE" => ~ NothingToReverse(t)
    BY DEF FindLast
  <1>2. Typed'
    BY FindTyped DEF Decisions
  <1>3. request[r] \in Request /\ t \in Target
    BY <1>1 DEF Decisions, Typed, TypeOK, Request
  <1>4. /\ reviews[t] \in Seq(Review) /\ n \in Nat /\ request[r].began \in Nat
        /\ request[r].began <= n
    BY <1>1, <1>3 DEF Decisions, Typed, TypeOK, Request, LastInHistory
  <1>5. ~ NothingToReverse(t) => n > 0 /\ (t \in Row => reviews[t][n].decision # "REVERSE")
    BY <1>4 DEF NothingToReverse
  <1>6. Follows(t, request[r])
    BY <1>3 DEF Decisions, RequestsFollow
  <1> HIDE DEF t, n
  <1>7. \A s \in Reviewer : request'[s] # None =>
           \/ s # r /\ request'[s] = request[s]
           \/ /\ s = r
              /\ request'[r] = [request[r] EXCEPT !.last = n]
              /\ request[r].decision = "REVERSE" => ~ NothingToReverse(t)
    BY <1>1 DEF Decisions, Typed, TypeOK
  <1>8. \A w, m : DecidedSince(w, m)' <=> DecidedSince(w, m)
    BY <1>1 DEF DecidedSince, Outcome, rowVars
  <1>9. RequestsFollow'
    <2> SUFFICES ASSUME NEW s \in Reviewer, NEW p \in Request, request'[s] = p
                 PROVE  Follows(p.target, p)'
      BY DEF RequestsFollow
    <2>1. UNCHANGED <<state, reviews>> /\ p # None
      BY <1>1, RequestAssumption DEF rowVars
    <2>2. CASE s = r
      <3>1. /\ p.target = t /\ p.copy = request[r].copy
            /\ p.decision = request[r].decision
            /\ p.began = request[r].began /\ p.last = n
            /\ request[r].decision = "REVERSE" => ~ NothingToReverse(t)
        BY <1>3, <1>7, <2>1, <2>2 DEF Request, t
      <3>2. n \in request[r].began..Len(reviews[t])
        BY <1>4 DEF n
      <3> QED
        BY <1>5, <1>6, <1>8, <2>1, <2>2, <3>1, <3>2 DEF Follows
    <2>3. CASE s # r
      <3>1. Follows(p.target, p)
        BY <1>7, <2>1, <2>3 DEF Decisions, RequestsFollow
      <3> QED
        BY <1>8, <2>1, <3>1 DEF Follows
    <2> QED
      BY <2>2, <2>3
  <1>10. RowsPaired' /\ OnlyOverlapForks'
    BY <1>1 DEF Decisions, RowsPaired, OnlyOverlapForks, rowVars
  <1>11. StateFollowsReviews'
    BY <1>1 DEF Decisions, StateFollowsReviews, LastReview, DecidedSince, Outcome, rowVars
  <1> QED
    BY <1>2, <1>9, <1>10, <1>11 DEF Decisions

\* A commit puts its review last.  If it writes no state, because the outcome is the
\* copy it loaded, the state is that outcome or one of a review that overtook it.
LEMMA CommitKeepsDecisions ==
  ASSUME Decisions, NEW r \in Reviewer, CommitDecision(r)
  PROVE  Decisions'
  <1>22. PICK q \in Request : request[r] = q
    BY DEF CommitDecision, Decisions, Typed, TypeOK
  <1> DEFINE t == q.target
             new == Outcome(t, q.decision, q.contra)
             rev == [decision |-> q.decision, supersedes |-> q.last, began |-> q.began]
             len == Len(reviews[t])
  <1>1. /\ request[r] # None /\ q.last # None
        /\ reviews' = [reviews EXCEPT ![t] = Append(reviews[t], rev)]
        /\ state' = IF new = q.copy THEN state ELSE [state EXCEPT ![t] = new]
        /\ request' = [request EXCEPT ![r] = None]
        /\ pair' = pair
    BY <1>22 DEF CommitDecision
  <1>2. /\ t \in Target /\ q.decision \in Decision /\ q.contra \in BOOLEAN /\ q.last \in Nat
        /\ q.began \in Nat
    BY <1>1 DEF Request
  <1>3. Follows(t, q)
    BY <1>22 DEF Decisions, RequestsFollow
  <1>4. new # "none"
    BY <1>2, OutcomeTyped
  <1>5. /\ rev \in Review /\ rev.decision = q.decision /\ rev.supersedes = q.last
        /\ rev.began = q.began
    BY <1>2 DEF Review
  <1>6. t \in Row => \A b \in BOOLEAN : Outcome(t, q.decision, b) = new
    BY <1>2, ReviewAssumption DEF Outcome
  <1>7. q.began <= len
    BY <1>1, <1>22 DEF Decisions, Typed, LastInHistory
  <1> HIDE DEF t, new, rev, len
  <1>8. reviews[t] \in Seq(Review) /\ len \in Nat /\ (len = 0 <=> reviews[t] = <<>>)
    BY <1>2 DEF Decisions, Typed, TypeOK, len
  <1>9. /\ reviews'[t] # <<>> /\ Len(reviews'[t]) = len + 1
        /\ \A n \in 1..len : reviews'[t][n] = reviews[t][n]
        /\ reviews'[t][len + 1] = rev
    <2>1. reviews'[t] = Append(reviews[t], rev)
      BY <1>1, <1>2 DEF Decisions, Typed, TypeOK
    <2> QED
      BY <1>5, <1>8, <2>1 DEF len
  <1>10. \A u \in Target \ {t} : reviews'[u] = reviews[u] /\ state'[u] = state[u]
    BY <1>1 DEF Decisions, Typed, TypeOK
  <1>11. state'[t] # "none" /\ state'[t] = IF new = q.copy THEN state[t] ELSE new
    BY <1>1, <1>2, <1>3, <1>4 DEF Follows, Decisions, Typed, TypeOK
  <1>12. \A s \in Reviewer : request'[s] # None => s # r /\ request'[s] = request[s]
    BY <1>1 DEF Decisions, Typed, TypeOK
  <1>21. \A w, n : DecidedSince(w, n)' <=>
            \E k \in (n + 1)..Len(reviews'[w]) :
               state'[w] = Outcome(w, reviews'[w][k].decision, FALSE)
    BY DEF DecidedSince, Outcome
  <1>13. ASSUME t \in Row, NEW n \in Nat, n <= len, state'[t] = new
         PROVE  DecidedSince(t, n)'
    <2>1. len + 1 \in (n + 1)..Len(reviews'[t])
      BY <1>8, <1>9, <1>13
    <2>2. state'[t] = Outcome(t, reviews'[t][len + 1].decision, FALSE)
      BY <1>5, <1>6, <1>9, <1>13
    <2> QED
      BY <1>21, <2>1, <2>2
  <1>14. ASSUME t \in Row, NEW n \in Nat, DecidedSince(t, n), state'[t] = state[t]
         PROVE  DecidedSince(t, n)'
    <2>1. PICK k \in (n + 1)..len : state[t] = Outcome(t, reviews[t][k].decision, FALSE)
      BY <1>14 DEF DecidedSince, len
    <2>2. k \in 1..len /\ k \in (n + 1)..Len(reviews'[t])
      BY <1>8, <1>9
    <2>3. state'[t] = Outcome(t, reviews'[t][k].decision, FALSE)
      BY <1>9, <1>14, <2>1, <2>2
    <2> QED
      BY <1>21, <2>2, <2>3
  <1>15. \A w \in Target \ {t} : \A n : DecidedSince(w, n) => DecidedSince(w, n)'
    BY <1>10, <1>21 DEF DecidedSince
  <1>16. Typed'
    BY CommitTyped DEF Decisions
  <1>17. RowsPaired'
    <2> SUFFICES ASSUME NEW w \in Row
                 PROVE  /\ pair[w] = None <=> state'[w] = "none"
                        /\ pair[w] = None => reviews'[w] = <<>>
      BY <1>1 DEF RowsPaired
    <2>1. /\ pair[w] = None <=> state[w] = "none"
          /\ pair[w] = None => reviews[w] = <<>>
      BY DEF Decisions, RowsPaired
    <2>2. CASE w = t
      BY <1>3, <1>11, <2>1, <2>2 DEF Follows
    <2>3. CASE w # t
      BY <1>10, <2>1, <2>3 DEF Target
    <2> QED
      BY <2>2, <2>3
  <1>18. RequestsFollow'
    <2> SUFFICES ASSUME NEW s \in Reviewer, NEW p \in Request, request'[s] = p
                 PROVE  Follows(p.target, p)'
      BY DEF RequestsFollow
    <2>1. s # r /\ request[s] = p
      BY <1>12, RequestAssumption
    <2>2. /\ p.target \in Target /\ p.began \in Nat /\ p.last \in Nat \cup {None}
          /\ p.began <= Len(reviews[p.target])
      BY <2>1, RequestAssumption DEF Decisions, Typed, LastInHistory, Request
    <2>3. Follows(p.target, p)
      BY <2>1 DEF Decisions, RequestsFollow
    <2>4. CASE p.target # t
      BY <1>10, <1>15, <2>1, <2>2, <2>3, <2>4 DEF Follows
    <2>5. CASE p.target = t
      <3>1. t \in Row => p.copy = state'[t] \/ DecidedSince(t, p.began)'
        BY <1>11, <1>13, <1>14, <2>2, <2>3, <2>5 DEF Follows, len
      <3>2. p.last # None => p.last \in p.began..Len(reviews'[t])
        BY <1>8, <1>9, <2>2, <2>3, <2>5 DEF Follows, len
      <3>3. p.last # None /\ p.last > 0 => reviews'[t][p.last] = reviews[t][p.last]
        BY <1>8, <1>9, <2>2, <2>3, <2>5 DEF Follows, len
      <3>4. p.last # None /\ p.decision = "REVERSE" =>
               p.last > 0 /\ (t \in Row => reviews'[t][p.last].decision # "REVERSE")
        BY <2>3, <2>5, <3>3 DEF Follows
      <3>5. Follows(t, p)'
        BY <1>11, <3>1, <3>2, <3>4 DEF Follows
      <3> QED
        BY <2>5, <3>5
    <2> QED
      BY <2>4, <2>5
  <1>19. OnlyOverlapForks'
    <2> SUFFICES ASSUME NEW u \in Target, NEW n \in 1..Len(reviews'[u])
                 PROVE  LET v == reviews'[u][n] IN
                        /\ v.supersedes \in v.began..(n - 1)
                        /\ v.decision = "REVERSE" =>
                              /\ v.supersedes > 0
                              /\ u \in Row => reviews'[u][v.supersedes].decision # "REVERSE"
      BY DEF OnlyOverlapForks
    <2>1. CASE u # t
      BY <1>10, <2>1 DEF Decisions, OnlyOverlapForks
    <2>2. CASE u = t /\ n \in 1..len
      <3> DEFINE v == reviews[t][n]
      <3>1. /\ v.supersedes \in v.began..(n - 1)
            /\ v.decision = "REVERSE" =>
                  /\ v.supersedes > 0
                  /\ t \in Row => reviews[t][v.supersedes].decision # "REVERSE"
        BY <1>2, <2>2 DEF Decisions, OnlyOverlapForks, len
      <3>2. v.supersedes \in Nat /\ v.began \in Nat
        <4>1. n \in 1..Len(reviews[t])
          BY <2>2 DEF len
        <4>2. reviews[t][n] \in Review
          BY <1>8, <4>1
        <4> QED
          BY <4>2 DEF Review
      <3>3. reviews'[t][n] = v
        BY <1>9, <2>2
      <3> HIDE DEF v
      <3>4. v.supersedes > 0 => reviews'[t][v.supersedes] = reviews[t][v.supersedes]
        BY <1>8, <1>9, <2>2, <3>1, <3>2
      <3> QED
        BY <2>2, <3>1, <3>3, <3>4
    <2>3. CASE u = t /\ n = len + 1
      <3>1. /\ q.last \in q.began..len
            /\ q.decision = "REVERSE" =>
                  q.last > 0 /\ (t \in Row => reviews[t][q.last].decision # "REVERSE")
        BY <1>1, <1>3 DEF Follows, len
      <3>2. q.last > 0 => reviews'[t][q.last] = reviews[t][q.last]
        BY <1>2, <1>8, <1>9, <3>1
      <3>3. /\ reviews'[u][n] = rev /\ n - 1 = len
        BY <1>8, <1>9, <2>3
      <3> QED
        BY <1>5, <2>3, <3>1, <3>2, <3>3
    <2> QED
      BY <1>8, <1>9, <2>1, <2>2, <2>3
  <1>20. StateFollowsReviews'
    <2> SUFFICES ASSUME NEW w \in Row, state'[w] # "none"
                 PROVE  IF reviews'[w] = <<>> THEN state'[w] = "REVIEW_REQUIRED"
                        ELSE DecidedSince(w, LastReview(w).began)'
      BY DEF StateFollowsReviews
    <2>1. CASE w = t
      <3>1. LastReview(w)' = rev
        BY <1>9, <2>1 DEF LastReview
      <3>2. DecidedSince(t, q.began)'
        BY <1>2, <1>3, <1>7, <1>11, <1>13, <1>14, <2>1 DEF Follows
      <3> QED
        BY <1>5, <1>9, <2>1, <3>1, <3>2
    <2>2. CASE w # t
      <3>1. /\ reviews'[w] = reviews[w] /\ state'[w] = state[w]
            /\ LastReview(w)' = LastReview(w)
        BY <1>10, <2>2 DEF LastReview, Target
      <3>2. IF reviews[w] = <<>> THEN state[w] = "REVIEW_REQUIRED"
            ELSE DecidedSince(w, LastReview(w).began)
        BY <3>1 DEF Decisions, StateFollowsReviews
      <3> QED
        BY <1>15, <2>2, <3>1, <3>2 DEF Target
    <2> QED
      BY <2>1, <2>2
  <1> QED
    BY <1>16, <1>17, <1>18, <1>19, <1>20 DEF Decisions

LEMMA AlwaysDecisions == Spec => []Decisions
  <1>1. Decisions /\ [Next]_vars => Decisions'
    <2> SUFFICES ASSUME Decisions, [Next]_vars PROVE Decisions'
      OBVIOUS
    <2>1. CASE UNCHANGED vars
      <3>1. Typed'
        BY <2>1, NextTyped DEF Decisions
      <3>2. RowsPaired' /\ OnlyOverlapForks'
        BY <2>1 DEF Decisions, RowsPaired, OnlyOverlapForks, vars, rowVars
      <3>3. RequestsFollow'
        BY <2>1 DEF Decisions, RequestsFollow, Follows, DecidedSince, Outcome, vars, rowVars
      <3>4. StateFollowsReviews'
        BY <2>1
        DEF Decisions, StateFollowsReviews, LastReview, DecidedSince, Outcome, vars, rowVars
      <3> QED
        BY <3>1, <3>2, <3>3, <3>4 DEF Decisions
    <2>2. CASE Next
      BY <2>2, LoadKeepsDecisions, FindKeepsDecisions, CommitKeepsDecisions, ProcessKeepsDecisions
         DEF Next
    <2> QED
      BY <2>1, <2>2
  <1> QED
    BY <1>1, InitDecisions, PTL DEF Spec

\* However decisions on a target overlap, its history forks only between decisions that
\* did: a review supersedes the last one its request began with or a later one, and a
\* reversal supersedes a decision.
THEOREM HistoryForksOnlyByOverlap == Spec => []OnlyOverlapForks
  <1>1. Decisions => OnlyOverlapForks
    BY DEF Decisions
  <1> QED
    BY <1>1, AlwaysDecisions, PTL

\* However decisions, extractions and resolutions overlap, a candidate is in the state
\* of its last review or of one that overtook it, so that a decision nobody overtook
\* takes effect and no resolution takes it back.
THEOREM CandidateFollowsReviews == Spec => []StateFollowsReviews
  <1>1. Decisions => StateFollowsReviews
    BY DEF Decisions
  <1> QED
    BY <1>1, AlwaysDecisions, PTL

-----------------------------------------------------------------------------
(* Pairs that resolutions propose *)

Resolving(i) == stage[i] \in {"profiled", "compared"}

\* What a resolution nobody overtook is to propose has not been proposed since it looked.
ProposesNew ==
    \A i \in Item \ overtaken : stage[i] = "compared" => \A p \in create[i] : Existing(p) = {}

Proposals == Typed /\ ProposesNew

LEMMA InitProposals == Init => Proposals
  BY InitTyped DEF Init, Proposals, ProposesNew

\* A step that leaves the pairs alone and lets no resolution look.
LEMMA OthersKeepProposals ==
  ASSUME Proposals, Typed', pair' = pair,
         \A i \in Item \ overtaken' : stage'[i] = "compared" =>
            i \notin overtaken /\ stage[i] = "compared" /\ create'[i] = create[i]
  PROVE  Proposals'
  BY DEF Proposals, ProposesNew, Existing

LEMMA CompareKeepsProposals ==
  ASSUME Proposals, NEW i \in Item, Compare(i)
  PROVE  Proposals'
  <1>1. /\ \A j \in Item : stage'[j] = IF j = i THEN "compared" ELSE stage[j]
        /\ \A j \in Item : create'[j] = IF j = i THEN Missing(i) ELSE create[j]
        /\ pair' = pair /\ overtaken' = overtaken
    BY DEF Compare, Proposals, Typed, TypeOK, rowVars, history
  <1>2. ProposesNew'
    <2> SUFFICES ASSUME NEW j \in Item \ overtaken, stage'[j] = "compared", NEW p \in create'[j]
                 PROVE  Existing(p) = {}
      BY <1>1 DEF ProposesNew, Existing
    <2>1. CASE j = i
      BY <1>1, <2>1 DEF Missing
    <2>2. CASE j # i
      BY <1>1, <2>2 DEF Proposals, ProposesNew
    <2> QED
      BY <2>1, <2>2
  <1> QED
    BY <1>2, ProcessTyped DEF Proposals

\* Every resolution still to commit has been overtaken.
LEMMA ResolveKeepsProposals ==
  ASSUME Proposals, NEW i \in Item, ResolveCommit(i)
  PROVE  Proposals'
  <1>1. /\ \A j \in Item : stage'[j] = IF j = i THEN "resolved" ELSE stage[j]
        /\ \A j \in Item \ {i} : stage[j] = "compared" => j \in overtaken'
    BY DEF ResolveCommit, Commits, Proposals, Typed, TypeOK
  <1>2. ProposesNew'
    BY <1>1 DEF ProposesNew
  <1> QED
    BY <1>2, ProcessTyped DEF Proposals

\* One that nobody overtook gives a row to pairs that have none, one row each.
LEMMA ResolveProposesOnce ==
  ASSUME Proposals, NEW i \in Item, i \notin overtaken, ResolveCommit(i),
         NEW w \in Row, pair'[w] # pair[w], NEW v \in Row, pair'[v] = pair'[w]
  PROVE  v = w
  <1>1. PICK new \in [create[i] -> {u \in Row : pair[u] = None}] :
           /\ \A p, q \in create[i] : new[p] = new[q] => p = q
           /\ pair' = [u \in Row |-> IF \E p \in create[i] : new[p] = u
                                     THEN CHOOSE p \in create[i] : new[p] = u ELSE pair[u]]
    BY DEF ResolveCommit
  <1>2. \A p \in create[i] : \A u \in Row : pair[u] # p
    BY DEF ResolveCommit, Proposals, ProposesNew, Existing
  <1>3. ASSUME NEW u \in Row
        PROVE  pair'[u] = pair[u] \/ (pair'[u] \in create[i] /\ new[pair'[u]] = u)
    BY <1>1
  <1> QED
    BY <1>2, <1>3

LEMMA NextProposals ==
  ASSUME Proposals, [Next]_vars
  PROVE  Proposals'
  <1>1. Typed'
    BY NextTyped DEF Proposals
  <1>2. CASE UNCHANGED <<pair, stage, create, overtaken>>
    BY <1>1, <1>2, OthersKeepProposals
  <1>3. ASSUME NEW i \in Item,
               \/ FlagContradictions(i) \/ ExtractCommit(i) \/ ExtractFails(i)
               \/ Profiles(i) \/ ResolveFails(i)
        PROVE  Proposals'
    <2>1. pair' = pair
      BY <1>3 DEF FlagContradictions, ExtractCommit, ExtractFails, Profiles, ResolveFails, rowVars
    <2>2. /\ \E v \in {"extracting", "new", "extracted", "profiled"} :
                stage' = [stage EXCEPT ![i] = v]
          /\ overtaken \ {i} \subseteq overtaken'
      BY <1>3 DEF FlagContradictions, ExtractCommit, ExtractFails, Profiles, ResolveFails,
                  Commits, RollsBack, history
    <2>3. create' = create \/ create' = [create EXCEPT ![i] = {}]
      BY <1>3 DEF FlagContradictions, ExtractCommit, ExtractFails, Profiles, ResolveFails,
                  resolveVars
    <2>4. \A j \in Item \ overtaken' : stage'[j] = "compared" =>
             j \notin overtaken /\ stage[j] = "compared" /\ create'[j] = create[j]
      BY <2>2, <2>3 DEF Proposals, Typed, TypeOK
    <2> QED
      BY <1>1, <2>1, <2>4, OthersKeepProposals
  <1>4. CASE \E i \in Item : Compare(i) \/ ResolveCommit(i)
    BY <1>4, CompareKeepsProposals, ResolveKeepsProposals
  <1> QED
    BY <1>2, <1>3, <1>4
    DEF Next, LoadTarget, FindLast, CommitDecision, vars, rowVars, resolveVars, history

\* Whatever resolutions, extractions and reviewers do at once, a pair of records that
\* was proposed is proposed again only by a resolution that another one overtook.
THEOREM DuplicatesOnlyByOverlap == Spec => OnlyTheOvertakenDuplicate
  <1> DEFINE Once == \A i \in Item \ overtaken, w \in Row :
                        stage[i] = "compared" /\ stage'[i] = "resolved" /\ pair'[w] # pair[w] =>
                           \A v \in Row : pair'[v] = pair'[w] => v = w
  <1>1. Proposals /\ [Next]_vars => Proposals'
    BY NextProposals
  <1>2. Proposals /\ [Next]_vars => [Once]_vars
    <2> SUFFICES ASSUME Proposals, [Next]_vars,
                        NEW i \in Item \ overtaken, stage[i] = "compared",
                        stage'[i] = "resolved", NEW w \in Row, pair'[w] # pair[w],
                        NEW v \in Row, pair'[v] = pair'[w]
                 PROVE  v = w
      OBVIOUS
    <2>1. \E j \in Item : ResolveCommit(j)
      BY DEF Next, LoadTarget, FindLast, CommitDecision, FlagContradictions, ExtractCommit,
             ExtractFails, Profiles, Compare, ResolveFails, vars, rowVars
    <2>2. PICK j \in Item : ResolveCommit(j)
      BY <2>1
    <2>3. j = i
      BY <2>2 DEF ResolveCommit, Proposals, Typed, TypeOK
    <2> QED
      BY <2>2, <2>3, ResolveProposesOnce
  <1> QED
    BY <1>1, <1>2, InitProposals, PTL DEF Spec, OnlyTheOvertakenDuplicate

-----------------------------------------------------------------------------
(* Contradictions that extractions flag *)

\* Requests work on rows that are there.
Loaded == \A r \in Reviewer : request[r] # None => state[request[r].target] # "none"

\* A claim nobody has decided on has one of two states.
UndecidedClaims ==
    \A c \in Claim : state[c] # "none" /\ reviews[c] = <<>> =>
        state[c] \in {Initial[c], "CONTRADICTORY"}

\* Claim c is contradicted by d and nobody has decided on it.
ToFlag(c, d) == <<c, d>> \in Contradicts /\ Initial[c] = "ALLOWED" /\ reviews[c] = <<>>

\* The extraction writes claims that are there or its own.
WritesClaims == \A i \in Item : stage[i] = "extracting" => writes[i] \subseteq Committed \cup Own(i)

\* An extraction nobody overtook will flag what its claims bring to light.
FlagsPending ==
    \A i \in Item \ overtaken : stage[i] = "extracting" =>
        \A c, d \in Committed \cup Own(i) : ToFlag(c, d) =>
            /\ c \in marks[i]
            /\ c \in writes[i] \/ (c \notin Own(i) /\ state[c] = "CONTRADICTORY")

Surfacing ==
    /\ Typed
    /\ Loaded
    /\ UndecidedClaims
    /\ WritesClaims
    /\ FlagsPending
    /\ ContradictionsSurface

LEMMA InitSurfacing == Init => Surfacing
  <1> SUFFICES ASSUME Init PROVE Surfacing
    OBVIOUS
  <1>1. Loaded /\ WritesClaims /\ FlagsPending
    BY DEF Init, Loaded, WritesClaims, FlagsPending
  <1>2. \A c \in Claim : state[c] = "none"
    BY DEF Init, Target
  <1>3. UndecidedClaims /\ ContradictionsSurface
    BY <1>2 DEF UndecidedClaims, ContradictionsSurface, Committed
  <1> QED
    BY <1>1, <1>3, InitTyped DEF Surfacing

\* A step that commits no claim, starts no extraction, and changes the state only of
\* claims that a reviewer has decided on.  It may overtake resolutions.
LEMMA OthersKeepSurfacing ==
  ASSUME Surfacing, Typed', Loaded', flagged' = flagged,
         "extract" \in clean' => "extract" \in clean,
         \A c \in Claim : state'[c] = "none" <=> state[c] = "none",
         \A c \in Claim : reviews'[c] = <<>> => reviews[c] = <<>> /\ state'[c] = state[c],
         \A i \in Item : stage'[i] = "extracting" =>
            /\ stage[i] = "extracting" /\ marks'[i] = marks[i] /\ writes'[i] = writes[i]
            /\ i \in overtaken => i \in overtaken'
  PROVE  Surfacing'
  <1>1. Committed' = Committed
    BY DEF Committed
  <1>3. UndecidedClaims' /\ WritesClaims'
    BY <1>1 DEF Surfacing, UndecidedClaims, WritesClaims, Own
  <1>4. FlagsPending'
    <2> SUFFICES ASSUME NEW i \in Item \ overtaken', stage'[i] = "extracting",
                        NEW c \in Committed \cup Own(i), NEW d \in Committed \cup Own(i),
                        <<c, d>> \in Contradicts, Initial[c] = "ALLOWED", reviews'[c] = <<>>
                 PROVE  /\ c \in marks'[i]
                        /\ c \in writes'[i] \/ (c \notin Own(i) /\ state'[c] = "CONTRADICTORY")
      BY <1>1 DEF FlagsPending, ToFlag, Own
    <2>1. c \in Claim
      BY DEF Committed, Own
    <2>2. ToFlag(c, d) /\ state'[c] = state[c]
      BY <2>1 DEF ToFlag
    <2> QED
      BY <2>2 DEF Surfacing, FlagsPending
  <1>5. ContradictionsSurface'
    <2> SUFFICES ASSUME "extract" \in clean, NEW c \in Committed, NEW d \in Committed,
                        <<c, d>> \in Contradicts, Initial[c] = "ALLOWED", reviews'[c] = <<>>
                 PROVE  state'[c] = "CONTRADICTORY" /\ c \in flagged'
      BY <1>1 DEF ContradictionsSurface
    <2>1. c \in Claim
      BY DEF Committed
    <2> QED
      BY <2>1 DEF Surfacing, ContradictionsSurface
  <1> QED
    BY <1>3, <1>4, <1>5 DEF Surfacing

\* The extraction looks at every claim there is.
LEMMA FlagKeepsSurfacing ==
  ASSUME Surfacing, NEW i \in Item, FlagContradictions(i)
  PROVE  Surfacing'
  <1>1. /\ \A j \in Item : stage'[j] = IF j = i THEN "extracting" ELSE stage[j]
        /\ marks'[i] = Contested(i)
        /\ writes'[i] = {c \in Contested(i) : Seen(i, c) = "ALLOWED"}
        /\ \A j \in Item \ {i} : marks'[j] = marks[j] /\ writes'[j] = writes[j]
        /\ UNCHANGED <<state, flagged, reviews, request, overtaken, clean>>
    BY DEF FlagContradictions, Surfacing, Typed, TypeOK, rowVars, history
  <1>3. Loaded' /\ UndecidedClaims'
    BY <1>1 DEF Surfacing, Loaded, UndecidedClaims
  <1>4. Committed' = Committed
    BY <1>1 DEF Committed
  <1>5. WritesClaims'
    BY <1>1, <1>4 DEF Surfacing, WritesClaims, Contested, Own
  <1>6. FlagsPending'
    <2> SUFFICES ASSUME NEW c \in Committed \cup Own(i), NEW d \in Committed \cup Own(i),
                        ToFlag(c, d)
                 PROVE  /\ c \in marks'[i]
                        /\ c \in writes'[i] \/ (c \notin Own(i) /\ state[c] = "CONTRADICTORY")
      BY <1>1, <1>4 DEF Surfacing, FlagsPending, ToFlag, Own
    <2>1. Seen(i, c) \in {"ALLOWED", "CONTRADICTORY"}
      BY DEF Seen, ToFlag, Surfacing, UndecidedClaims, Committed
    <2>2. c \in Contested(i)
      BY <2>1 DEF Contested, ToFlag
    <2>3. Seen(i, c) = "CONTRADICTORY" => c \notin Own(i) /\ state[c] = "CONTRADICTORY"
      BY DEF Seen, ToFlag
    <2> QED
      BY <1>1, <2>1, <2>2, <2>3
  <1>7. ContradictionsSurface'
    BY <1>1, <1>4 DEF Surfacing, ContradictionsSurface
  <1> QED
    BY <1>3, <1>5, <1>6, <1>7, ProcessTyped DEF Surfacing

\* What it looked at is what the commit finds, but for decisions, unless it was overtaken;
\* and it overtakes every other extraction under way.
LEMMA ExtractKeepsSurfacing ==
  ASSUME Surfacing, NEW i \in Item, ExtractCommit(i)
  PROVE  Surfacing'
  <1>1. /\ stage[i] = "extracting"
        /\ \A j \in Item : stage'[j] = IF j = i THEN "extracted" ELSE stage[j]
        /\ \A t \in Target : state'[t] = IF t \in writes[i] THEN "CONTRADICTORY"
                                       ELSE IF t \in Own(i) THEN Initial[t] ELSE state[t]
        /\ flagged' = flagged \cup marks[i]
        /\ \A j \in Item \ {i} : writes'[j] = writes[j]
        /\ \A j \in Item \ {i} : stage[j] = "extracting" => j \in overtaken'
        /\ i \in overtaken => "extract" \notin clean'
        /\ UNCHANGED <<reviews, request>>
    BY DEF ExtractCommit, Commits, Surfacing, Typed, TypeOK
  <1>2. \A c \in Claim : Initial[c] # "none"
    BY ReviewAssumption
  <1>4. \A t \in Target : state[t] # "none" => state'[t] # "none"
    BY <1>1, <1>2 DEF Own
  <1>5. Loaded'
    BY <1>1, <1>4 DEF Surfacing, Loaded, Typed, TypeOK, Request
  <1>6. UndecidedClaims'
    BY <1>1 DEF Surfacing, UndecidedClaims, Target
  <1>7. Committed' \subseteq Committed \cup Own(i)
    <2> SUFFICES ASSUME NEW c \in Claim, state'[c] # "none", state[c] = "none", c \notin Own(i)
                 PROVE  FALSE
      BY DEF Committed
    <2>1. c \notin writes[i]
      BY <1>1 DEF Surfacing, WritesClaims, Committed
    <2> QED
      BY <1>1, <2>1 DEF Target
  <1>8. ContradictionsSurface'
    <2> SUFFICES ASSUME i \notin overtaken, NEW c \in Committed', NEW d \in Committed',
                        ToFlag(c, d)
                 PROVE  state'[c] = "CONTRADICTORY" /\ c \in flagged'
      BY <1>1 DEF ContradictionsSurface, ToFlag
    <2>1. /\ c \in marks[i]
          /\ c \in writes[i] \/ (c \notin Own(i) /\ state[c] = "CONTRADICTORY")
      BY <1>1, <1>7 DEF Surfacing, FlagsPending
    <2>2. c \in Target
      BY DEF Committed, Target
    <2> QED
      BY <1>1, <2>1, <2>2
  <1>9. Committed \subseteq Committed'
    BY <1>4 DEF Committed, Target
  <1>10. WritesClaims'
    BY <1>1, <1>9 DEF Surfacing, WritesClaims, Own
  <1>11. FlagsPending'
    BY <1>1 DEF FlagsPending
  <1> QED
    BY <1>5, <1>6, <1>8, <1>10, <1>11, ProcessTyped DEF Surfacing

\* A decision takes no target away, changes the state only of its target, and leaves
\* a review there.
LEMMA DecisionAddsReview ==
  ASSUME Typed, Loaded, NEW r \in Reviewer,
         \/ \E t \in Target, d \in Decision : LoadTarget(r, t, d)
         \/ FindLast(r) \/ CommitDecision(r)
  PROVE  /\ Loaded'
         /\ \A u \in Target : state'[u] = "none" <=> state[u] = "none"
         /\ \A u \in Target : reviews'[u] = <<>> => reviews[u] = <<>> /\ state'[u] = state[u]
  <1>1. CASE \E t \in Target, d \in Decision : LoadTarget(r, t, d)
    <2>1. PICK t \in Target, d \in Decision : LoadTarget(r, t, d)
      BY <1>1
    <2>2. UNCHANGED <<state, reviews>>
      BY <2>1 DEF LoadTarget, rowVars
    <2>3. /\ state[t] # "none" /\ request'[r].target = t
          /\ \A s \in Reviewer : s # r => request'[s] = request[s]
      BY <2>1 DEF LoadTarget, Typed, TypeOK
    <2> QED
      BY <2>2, <2>3 DEF Loaded
  <1>2. CASE FindLast(r)
    <2>1. UNCHANGED <<state, reviews>>
      BY <1>2 DEF FindLast, rowVars
    <2>2. /\ request[r] # None /\ request[r] \in Request
          /\ \/ request' = [request EXCEPT ![r] = None]
             \/ request' = [request EXCEPT ![r].last = Len(reviews[request[r].target])]
      BY <1>2 DEF FindLast, Typed, TypeOK
    <2>3. /\ request'[r] = None \/ request'[r].target = request[r].target
          /\ \A s \in Reviewer : s # r => request'[s] = request[s]
      BY <2>2 DEF Typed, TypeOK, Request
    <2> QED
      BY <2>1, <2>2, <2>3 DEF Loaded
  <1>3. CASE CommitDecision(r)
    <2> DEFINE q == request[r]
               t == q.target
               new == Outcome(t, q.decision, q.contra)
               rev == [decision |-> q.decision, supersedes |-> q.last, began |-> q.began]
    <2>1. /\ q # None /\ q.last # None
          /\ reviews' = [reviews EXCEPT ![t] = Append(reviews[t], rev)]
          /\ state' = IF new = q.copy THEN state ELSE [state EXCEPT ![t] = new]
          /\ request' = [request EXCEPT ![r] = None]
      BY <1>3 DEF CommitDecision
    <2>2. /\ t \in Target /\ q.decision \in Decision /\ q.contra \in BOOLEAN /\ q.last \in Nat
          /\ q.began \in Nat
      BY <2>1 DEF Typed, TypeOK, Request
    <2>3. new # "none" /\ state[t] # "none" /\ rev \in Review
      BY <2>1, <2>2, OutcomeTyped DEF Loaded, Review
    <2> HIDE DEF q, t, new, rev
    <2>4. reviews'[t] # <<>>
      <3>1. reviews[t] \in Seq(Review) /\ reviews'[t] = Append(reviews[t], rev)
        BY <2>1, <2>2 DEF Typed, TypeOK
      <3> QED
        BY <2>3, <3>1
    <2>5. \A u \in Target : u # t => reviews'[u] = reviews[u] /\ state'[u] = state[u]
      BY <2>1 DEF Typed, TypeOK
    <2>6. state'[t] # "none"
      BY <2>1, <2>2, <2>3 DEF Typed, TypeOK
    <2>7. \A u \in Target : state'[u] = "none" <=> state[u] = "none"
      BY <2>3, <2>5, <2>6
    <2>8. \A s \in Reviewer : request'[s] # None => request'[s] = request[s]
      BY <2>1 DEF Typed, TypeOK
    <2>9. Loaded'
      BY <2>7, <2>8 DEF Loaded, Typed, TypeOK, Request
    <2> QED
      BY <2>4, <2>5, <2>7, <2>9
  <1> QED
    BY <1>1, <1>2, <1>3

LEMMA DecideKeepsSurfacing ==
  ASSUME Surfacing, NEW r \in Reviewer,
         \/ \E t \in Target, d \in Decision : LoadTarget(r, t, d)
         \/ FindLast(r) \/ CommitDecision(r)
  PROVE  Surfacing'
  <1>1. Typed'
    BY LoadTyped, FindTyped, CommitTyped DEF Surfacing
  <1>2. UNCHANGED <<flagged, stage, marks, writes, overtaken, clean>>
    BY DEF LoadTarget, FindLast, CommitDecision, rowVars, extractVars, history
  <1>3. /\ Loaded'
        /\ \A c \in Claim : state'[c] = "none" <=> state[c] = "none"
        /\ \A c \in Claim : reviews'[c] = <<>> => reviews[c] = <<>> /\ state'[c] = state[c]
    BY DecisionAddsReview DEF Surfacing, Target
  <1> QED
    BY <1>1, <1>2, <1>3, OthersKeepSurfacing

\* A resolution writes to rows of candidates only.
LEMMA ResolutionKeepsSurfacing ==
  ASSUME Surfacing, NEW i \in Item,
         ExtractFails(i) \/ Profiles(i) \/ Compare(i) \/ ResolveCommit(i) \/ ResolveFails(i)
  PROVE  Surfacing'
  <1>1. Typed'
    BY ProcessTyped DEF Surfacing
  <1>2. UNCHANGED <<flagged, reviews, request>>
    BY DEF ExtractFails, Profiles, Compare, ResolveCommit, ResolveFails, rowVars
  <1>3. \A j \in Item : stage'[j] = "extracting" =>
           /\ stage[j] = "extracting" /\ marks'[j] = marks[j] /\ writes'[j] = writes[j]
           /\ j \in overtaken => j \in overtaken'
    <2>1. \E v \in {"new", "profiled", "compared", "resolved", "extracted"} :
             stage' = [stage EXCEPT ![i] = v]
      BY DEF ExtractFails, Profiles, Compare, ResolveCommit, ResolveFails
    <2>2. \A j \in Item : j # i => marks'[j] = marks[j] /\ writes'[j] = writes[j]
      BY DEF ExtractFails, Profiles, Compare, ResolveCommit, ResolveFails, extractVars, Surfacing,
             Typed, TypeOK
    <2>3. overtaken \ {i} \subseteq overtaken'
      BY DEF ExtractFails, Profiles, Compare, ResolveCommit, ResolveFails, Commits, RollsBack, history
    <2> QED
      BY <2>1, <2>2, <2>3 DEF Surfacing, Typed, TypeOK
  <1>7. "extract" \in clean' => "extract" \in clean
    BY DEF ExtractFails, Profiles, Compare, ResolveCommit, ResolveFails, Commits, RollsBack, history
  <1>4. \A t \in Target : state'[t] = state[t] \/ (t \in Row /\ state'[t] # "none")
    <2>1. CASE ResolveCommit(i)
      <3>1. PICK new \in [create[i] -> {w \in Row : pair[w] = None}] : state' = StateAfter(i, new)
        BY <2>1 DEF ResolveCommit
      <3> QED
        BY <3>1 DEF StateAfter
    <2>2. CASE state' = state
      BY <2>2
    <2> QED
      BY <2>1, <2>2 DEF ExtractFails, Profiles, Compare, ResolveFails, rowVars
  <1>5. Loaded'
    BY <1>2, <1>4 DEF Surfacing, Loaded, Typed, TypeOK, Request
  <1>6. \A c \in Claim : state'[c] = state[c]
    BY <1>4, ReviewAssumption DEF Target
  <1> QED
    BY <1>1, <1>2, <1>3, <1>5, <1>6, <1>7, OthersKeepSurfacing

\* Contradicting claims are flagged when the last extraction to commit was not overtaken
\* by another, however extractions overlapped before, and whatever reviewers and
\* resolutions do in between.
THEOREM ContradictionsAreFlagged == Spec => []ContradictionsSurface
  <1>1. Surfacing /\ [Next]_vars => Surfacing'
    <2> SUFFICES ASSUME Surfacing, [Next]_vars PROVE Surfacing'
      OBVIOUS
    <2>1. CASE UNCHANGED vars
      <3>1. Typed' /\ Loaded'
        BY <2>1, NextTyped DEF Surfacing, Loaded, vars, rowVars
      <3> QED
        BY <2>1, <3>1, OthersKeepSurfacing DEF vars, rowVars, extractVars, history
    <2>2. CASE Next
      BY <2>2, FlagKeepsSurfacing, ExtractKeepsSurfacing, DecideKeepsSurfacing,
         ResolutionKeepsSurfacing DEF Next
    <2> QED
      BY <2>1, <2>2
  <1>2. Surfacing => ContradictionsSurface
    BY DEF Surfacing
  <1> QED
    BY <1>1, <1>2, InitSurfacing, PTL DEF Spec

-----------------------------------------------------------------------------
(* What a resolution leaves to the candidates.  Until another one commits,   *)
(* its profiles hold the claims of its own item and of every item already    *)
(* resolved, so its rewriting loses none; and of each pair such a claim      *)
(* belongs to it proposes a row, rewrites one, or found one up to date.      *)

\* A row nobody has decided on is open.
RowsOpen == \A w \in Row : pair[w] # None /\ reviews[w] = <<>> => state[w] = "REVIEW_REQUIRED"

\* Claims are there once the extraction of their item is committed.
ClaimsExtracted ==
    \A c \in Committed : stage[ItemOf[c]] \in {"extracted", "profiled", "compared", "resolved"}

Tracked ==
    /\ Typed
    /\ Loaded
    /\ UndecidedClaims
    /\ WritesClaims
    /\ RowsOpen
    /\ ClaimsExtracted

LEMMA InitTracked == Init => Tracked
  <1> SUFFICES ASSUME Init PROVE Tracked
    OBVIOUS
  <1>1. Loaded /\ WritesClaims /\ RowsOpen
    BY DEF Init, Loaded, WritesClaims, RowsOpen
  <1>2. \A c \in Claim : state[c] = "none"
    BY DEF Init, Target
  <1>3. UndecidedClaims /\ ClaimsExtracted
    BY <1>2 DEF UndecidedClaims, ClaimsExtracted, Committed
  <1> QED
    BY <1>1, <1>3, InitTyped DEF Tracked

LEMMA DecideKeepsTracked ==
  ASSUME Tracked, NEW r \in Reviewer,
         \/ \E t \in Target, d \in Decision : LoadTarget(r, t, d)
         \/ FindLast(r) \/ CommitDecision(r)
  PROVE  Tracked'
  <1>1. Typed'
    BY LoadTyped, FindTyped, CommitTyped DEF Tracked
  <1>2. UNCHANGED <<pair, stage, writes>>
    BY DEF LoadTarget, FindLast, CommitDecision, rowVars, extractVars
  <1>3. /\ Loaded'
        /\ \A u \in Target : state'[u] = "none" <=> state[u] = "none"
        /\ \A u \in Target : reviews'[u] = <<>> => reviews[u] = <<>> /\ state'[u] = state[u]
    BY DecisionAddsReview DEF Tracked
  <1>4. Committed' = Committed
    BY <1>3 DEF Committed, Target
  <1>5. UndecidedClaims' /\ RowsOpen'
    BY <1>2, <1>3 DEF Tracked, UndecidedClaims, RowsOpen, Target
  <1>6. WritesClaims' /\ ClaimsExtracted'
    BY <1>2, <1>4 DEF Tracked, WritesClaims, ClaimsExtracted, Own
  <1> QED
    BY <1>1, <1>3, <1>5, <1>6 DEF Tracked

LEMMA ExtractKeepsTracked ==
  ASSUME Tracked, NEW i \in Item, FlagContradictions(i) \/ ExtractCommit(i) \/ ExtractFails(i)
  PROVE  Tracked'
  <1>1. Typed'
    BY ProcessTyped DEF Tracked
  <1>2. CASE FlagContradictions(i) \/ ExtractFails(i)
    <2>1. UNCHANGED <<state, pair, reviews, request>>
      BY <1>2 DEF FlagContradictions, ExtractFails, rowVars
    <2>2. /\ stage[i] \in {"new", "extracting"}
          /\ \A j \in Item \ {i} : stage'[j] = stage[j]
      BY <1>2 DEF FlagContradictions, ExtractFails, Tracked, Typed, TypeOK
    <2>3. Committed' = Committed
      BY <2>1 DEF Committed
    <2>4. Loaded' /\ UndecidedClaims' /\ RowsOpen'
      BY <2>1 DEF Tracked, Loaded, UndecidedClaims, RowsOpen
    <2>5. ClaimsExtracted'
      <3>1. \A c \in Committed : ItemOf[c] \in Item
        BY ReviewAssumption DEF Committed
      <3> QED
        BY <2>2, <2>3, <3>1 DEF Tracked, ClaimsExtracted
    <2>6. /\ writes'[i] \subseteq Committed \cup Own(i)
          /\ \A j \in Item \ {i} : writes'[j] = writes[j]
      BY <1>2 DEF FlagContradictions, ExtractFails, Contested, Tracked, Typed, TypeOK
    <2>7. WritesClaims'
      BY <2>2, <2>3, <2>6 DEF Tracked, WritesClaims, Own
    <2> QED
      BY <1>1, <2>4, <2>5, <2>7 DEF Tracked
  <1>3. CASE ExtractCommit(i)
    <2>1. /\ stage[i] = "extracting"
          /\ \A j \in Item : stage'[j] = IF j = i THEN "extracted" ELSE stage[j]
          /\ \A t \in Target : state'[t] = IF t \in writes[i] THEN "CONTRADICTORY"
                                         ELSE IF t \in Own(i) THEN Initial[t] ELSE state[t]
          /\ \A j \in Item \ {i} : writes'[j] = writes[j]
          /\ UNCHANGED <<pair, reviews, request>>
      BY <1>3 DEF ExtractCommit, Tracked, Typed, TypeOK
    <2>2. \A c \in Claim : Initial[c] # "none"
      BY ReviewAssumption
    <2>3. \A t \in Target : state[t] # "none" => state'[t] # "none"
      BY <2>1, <2>2 DEF Own
    <2>4. Loaded'
      BY <2>1, <2>3 DEF Tracked, Loaded, Typed, TypeOK, Request
    <2>5. UndecidedClaims'
      BY <2>1 DEF Tracked, UndecidedClaims, Target
    <2>6. writes[i] \subseteq Committed \cup Own(i)
      BY <2>1 DEF Tracked, WritesClaims
    <2>7. RowsOpen'
      <3>1. \A w \in Row : w \in Target /\ w \notin writes[i] /\ w \notin Own(i)
        BY <2>6, ReviewAssumption DEF Target, Committed, Own
      <3> QED
        BY <2>1, <3>1 DEF Tracked, RowsOpen
    <2>8. Committed \subseteq Committed' /\ Committed' \subseteq Committed \cup Own(i)
      BY <2>1, <2>3, <2>6 DEF Committed, Target
    <2>9. WritesClaims'
      BY <2>1, <2>8 DEF Tracked, WritesClaims, Own
    <2>10. ClaimsExtracted'
      <3>1. \A c \in Committed' : /\ ItemOf[c] \in Item
                                  /\ c \in Committed \/ ItemOf[c] = i
        BY <2>8, ReviewAssumption DEF Committed, Own
      <3> QED
        BY <2>1, <3>1 DEF Tracked, ClaimsExtracted
    <2> QED
      BY <1>1, <2>4, <2>5, <2>7, <2>9, <2>10 DEF Tracked
  <1> QED
    BY <1>2, <1>3

LEMMA ResolveKeepsTracked ==
  ASSUME Tracked, NEW i \in Item,
         Profiles(i) \/ Compare(i) \/ ResolveCommit(i) \/ ResolveFails(i)
  PROVE  Tracked'
  <1>1. Typed'
    BY ProcessTyped DEF Tracked
  <1>2. /\ UNCHANGED <<reviews, request, writes>>
        /\ \A j \in Item : IF j = i
                           THEN stage'[j] \in {"extracted", "profiled", "compared", "resolved"}
                           ELSE stage'[j] = stage[j]
    BY DEF Profiles, Compare, ResolveCommit, ResolveFails, rowVars, extractVars, Tracked, Typed,
           TypeOK
  <1>3. \A t \in Target : state'[t] = state[t] \/ (t \in Row /\ state'[t] = "REVIEW_REQUIRED")
    <2>1. CASE ResolveCommit(i)
      <3>1. PICK new \in [create[i] -> {w \in Row : pair[w] = None}] : state' = StateAfter(i, new)
        BY <2>1 DEF ResolveCommit
      <3> QED
        BY <3>1 DEF StateAfter
    <2>2. CASE state' = state
      BY <2>2
    <2> QED
      BY <2>1, <2>2 DEF Profiles, Compare, ResolveFails, rowVars
  <1>4. Loaded'
    BY <1>2, <1>3 DEF Tracked, Loaded, Typed, TypeOK, Request
  <1>5. \A c \in Claim : state'[c] = state[c]
    BY <1>3, ReviewAssumption DEF Target
  <1>6. Committed' = Committed /\ UndecidedClaims'
    BY <1>2, <1>5 DEF Tracked, UndecidedClaims, Committed
  <1>7. WritesClaims'
    BY <1>2, <1>6 DEF Tracked, WritesClaims, Own
  <1>8. ClaimsExtracted'
    <2>1. \A c \in Committed : ItemOf[c] \in Item
      BY ReviewAssumption DEF Committed
    <2> QED
      BY <1>2, <1>6, <2>1 DEF Tracked, ClaimsExtracted
  <1>9. RowsOpen'
    <2>1. ASSUME NEW w \in Row, pair'[w] # None, pair[w] = None
          PROVE  state'[w] = "REVIEW_REQUIRED"
      <3>1. ResolveCommit(i)
        BY <2>1 DEF Profiles, Compare, ResolveFails, rowVars
      <3>2. PICK new \in [create[i] -> {v \in Row : pair[v] = None}] :
               /\ state' = StateAfter(i, new)
               /\ pair' = [v \in Row |-> IF \E p \in create[i] : new[p] = v
                                         THEN CHOOSE p \in create[i] : new[p] = v ELSE pair[v]]
        BY <3>1 DEF ResolveCommit
      <3> QED
        BY <2>1, <3>2 DEF StateAfter, Target
    <2> QED
      BY <1>2, <1>3, <2>1 DEF Tracked, RowsOpen, Target
  <1> QED
    BY <1>1, <1>4, <1>6, <1>7, <1>8, <1>9 DEF Tracked

LEMMA NextTracked == Tracked /\ [Next]_vars => Tracked'
  <1> SUFFICES ASSUME Tracked, [Next]_vars PROVE Tracked'
    OBVIOUS
  <1>1. CASE UNCHANGED vars
    <2>1. Typed' /\ Loaded' /\ Committed' = Committed
      BY <1>1, NextTyped DEF Tracked, Loaded, Committed, vars, rowVars
    <2> QED
      BY <1>1, <2>1 DEF Tracked, UndecidedClaims, WritesClaims, RowsOpen, ClaimsExtracted, Own,
                        vars, rowVars, extractVars
  <1>2. CASE Next
    BY <1>2, DecideKeepsTracked, ExtractKeepsTracked, ResolveKeepsTracked DEF Next
  <1> QED
    BY <1>1, <1>2

\* A resolution nobody overtook knows the undecided claims of its item and of those
\* resolved.
ProfilesComplete ==
    \A i \in Item \ overtaken : Resolving(i) =>
        \A c \in Committed : ItemOf[c] = i \/ stage[ItemOf[c]] = "resolved" =>
            c \in met[i] /\ (reviews[c] = <<>> => c \in known[i])

\* One that has compared deals with each pair it compared: it proposes it, or there is
\* a row of it that is decided, to be rewritten or up to date.
PairsDealtWith ==
    \A i \in Item \ overtaken : stage[i] = "compared" =>
        \A p \in Pair : Comparable(i, p) =>
            \/ p \in create[i]
            \/ \E w \in Existing(p) : reviews[w] = <<>> =>
                  w \in rewrite[i] \/ signals[w] = known[i] \cap Basis[p]

\* The candidates have the claims of the items that were resolved, if nobody overtook
\* the last resolution to commit.
ResolvedReach ==
    "resolve" \in clean =>
      \A p \in Pair, c \in Committed : c \in Basis[p] /\ stage[ItemOf[c]] = "resolved" =>
        \E w \in Existing(p) : reviews[w] = <<>> /\ reviews[c] = <<>> => c \in signals[w]

Reaching ==
    /\ Tracked
    /\ ProfilesComplete
    /\ PairsDealtWith
    /\ ResolvedReach

LEMMA InitReaching == Init => Reaching
  <1> SUFFICES ASSUME Init PROVE Reaching
    OBVIOUS
  <1>1. \A i \in Item : stage[i] = "new"
    BY DEF Init
  <1>2. ProfilesComplete /\ PairsDealtWith
    BY <1>1 DEF ProfilesComplete, PairsDealtWith, Resolving
  <1>3. ResolvedReach
    BY DEF Init, ResolvedReach, Committed, Target
  <1> QED
    BY <1>2, <1>3, InitTracked DEF Reaching

\* A step that resolves nothing, commits only claims of items not resolved, and
\* leaves the rows and the resolutions under way as they are.
LEMMA OthersKeepReaching ==
  ASSUME Reaching, Tracked', UNCHANGED <<pair, signals>>,
         "resolve" \in clean' => "resolve" \in clean,
         \A t \in Target : reviews'[t] = <<>> => reviews[t] = <<>>,
         \A c \in Committed' : c \in Committed \/ stage'[ItemOf[c]] = "extracted",
         \A i \in Item : /\ stage'[i] = "resolved" => stage[i] = "resolved"
                         /\ Resolving(i)' =>
                               /\ stage'[i] = stage[i] /\ met'[i] = met[i] /\ known'[i] = known[i]
                               /\ rewrite'[i] = rewrite[i] /\ create'[i] = create[i]
                               /\ i \in overtaken => i \in overtaken'
  PROVE  Reaching'
  <1>1. \A c \in Committed' : c \in Target /\ ItemOf[c] \in Item
    BY ReviewAssumption DEF Committed, Target
  <1>3. ProfilesComplete'
    <2> SUFFICES ASSUME NEW i \in Item \ overtaken', Resolving(i)', NEW c \in Committed',
                        ItemOf[c] = i \/ stage'[ItemOf[c]] = "resolved"
                 PROVE  c \in met'[i] /\ (reviews'[c] = <<>> => c \in known'[i])
      BY DEF ProfilesComplete
    <2>1. Resolving(i) /\ i \notin overtaken /\ c \in Committed
          /\ (ItemOf[c] = i \/ stage[ItemOf[c]] = "resolved")
      BY <1>1 DEF Resolving
    <2> QED
      BY <1>1, <2>1 DEF Reaching, ProfilesComplete
  <1>4. PairsDealtWith'
    <2> SUFFICES ASSUME NEW i \in Item \ overtaken', stage'[i] = "compared",
                        NEW p \in Pair, Comparable(i, p)'
                 PROVE  \/ p \in create'[i]
                        \/ \E w \in Existing(p)' : reviews'[w] = <<>> =>
                              w \in rewrite'[i] \/ signals'[w] = known'[i] \cap Basis[p]
      BY DEF PairsDealtWith
    <2>1. stage[i] = "compared" /\ i \notin overtaken /\ Comparable(i, p)
      BY DEF Resolving, Comparable
    <2>2. /\ rewrite'[i] = rewrite[i] /\ create'[i] = create[i] /\ known'[i] = known[i]
          /\ Existing(p)' = Existing(p)
      BY DEF Resolving, Existing
    <2>3. \A w \in Existing(p) : w \in Target
      BY DEF Existing, Target
    <2> QED
      BY <2>1, <2>2, <2>3 DEF Reaching, PairsDealtWith
  <1>5. ResolvedReach'
    <2> SUFFICES ASSUME "resolve" \in clean,
                        NEW p \in Pair, NEW c \in Committed', c \in Basis[p],
                        stage'[ItemOf[c]] = "resolved"
                 PROVE  \E w \in Existing(p)' :
                           reviews'[w] = <<>> /\ reviews'[c] = <<>> => c \in signals'[w]
      BY DEF ResolvedReach
    <2>1. c \in Committed /\ stage[ItemOf[c]] = "resolved"
      BY <1>1
    <2>2. Existing(p)' = Existing(p) /\ \A w \in Existing(p) : w \in Target
      BY DEF Existing, Target
    <2> QED
      BY <1>1, <2>1, <2>2 DEF Reaching, ResolvedReach
  <1> QED
    BY <1>3, <1>4, <1>5 DEF Reaching

\* The profiles are made when every item resolved and the item itself is committed.
LEMMA ProfilesKeepsReaching ==
  ASSUME Reaching, NEW i \in Item, Profiles(i)
  PROVE  Reaching'
  <1>1. Tracked'
    BY ResolveKeepsTracked DEF Reaching
  <1>2. /\ stage[i] = "extracted"
        /\ \A j \in Item : stage'[j] = IF j = i THEN "profiled" ELSE stage[j]
        /\ met'[i] = Committed /\ known'[i] = {c \in Committed : state[c] # "REJECT"}
        /\ \A j \in Item \ {i} : met'[j] = met[j] /\ known'[j] = known[j]
        /\ UNCHANGED <<state, pair, signals, reviews, rewrite, create, overtaken, clean>>
    BY DEF Profiles, Reaching, Tracked, Typed, TypeOK, rowVars, history
  <1>3. Committed' = Committed /\ \A c \in Committed : ItemOf[c] \in Item
    BY <1>2, ReviewAssumption DEF Committed
  <1>4. \A c \in Committed : reviews[c] = <<>> => state[c] # "REJECT"
    BY ReviewAssumption DEF Reaching, Tracked, UndecidedClaims, Committed
  <1>6. ProfilesComplete'
    <2> SUFFICES ASSUME NEW j \in Item \ overtaken, Resolving(j)', NEW c \in Committed,
                        ItemOf[c] = j \/ stage'[ItemOf[c]] = "resolved"
                 PROVE  c \in met'[j] /\ (reviews[c] = <<>> => c \in known'[j])
      BY <1>2, <1>3 DEF ProfilesComplete
    <2>1. CASE j = i
      BY <1>2, <1>4, <2>1
    <2>2. CASE j # i
      BY <1>2, <1>3, <2>2 DEF Reaching, ProfilesComplete, Resolving
    <2> QED
      BY <2>1, <2>2
  <1>7. PairsDealtWith'
    BY <1>2 DEF Reaching, PairsDealtWith, Existing, Comparable
  <1>8. ResolvedReach'
    BY <1>2, <1>3 DEF Reaching, ResolvedReach, Existing
  <1> QED
    BY <1>1, <1>6, <1>7, <1>8 DEF Reaching

\* The row that is looked at of a pair is decided, rewritten or up to date.
LEMMA CompareKeepsReaching ==
  ASSUME Reaching, NEW i \in Item, Compare(i)
  PROVE  Reaching'
  <1>1. Tracked'
    BY ResolveKeepsTracked DEF Reaching
  <1>2. /\ stage[i] = "profiled"
        /\ \A j \in Item : stage'[j] = IF j = i THEN "compared" ELSE stage[j]
        /\ \A j \in Item \ {i} : create'[j] = create[j] /\ rewrite'[j] = rewrite[j]
        /\ create'[i] = Missing(i)
        /\ UNCHANGED <<state, pair, signals, reviews, met, known, overtaken, clean>>
    BY DEF Compare, Reaching, Tracked, Typed, TypeOK, rowVars, history
  <1>3. Committed' = Committed /\ \A c \in Committed : ItemOf[c] \in Item
    BY <1>2, ReviewAssumption DEF Committed
  <1>5. ProfilesComplete'
    BY <1>2, <1>3 DEF Reaching, ProfilesComplete, Resolving
  <1>6. PairsDealtWith'
    <2>1. PICK prior \in [Pair -> Row \cup {None}] :
             /\ \A p \in Pair : IF Existing(p) = {} THEN prior[p] = None
                                ELSE prior[p] \in Existing(p)
             /\ rewrite'[i] = Stale(i, prior)
      BY DEF Compare, Reaching, Tracked, Typed, TypeOK
    <2>2. ASSUME NEW p \in Pair, Comparable(i, p), p \notin create'[i]
          PROVE  \E w \in Existing(p) : reviews[w] = <<>> =>
                    w \in rewrite'[i] \/ signals[w] = known[i] \cap Basis[p]
      <3>1. prior[p] \in Existing(p)
        BY <1>2, <2>1, <2>2 DEF Missing
      <3>2. prior[p] \in Row /\ pair[prior[p]] = p /\ p # None
        BY <3>1, ReviewAssumption DEF Existing
      <3>3. reviews[prior[p]] = <<>> => state[prior[p]] = "REVIEW_REQUIRED"
        BY <3>2 DEF Reaching, Tracked, RowsOpen
      <3> QED
        BY <2>1, <2>2, <3>1, <3>2, <3>3 DEF Stale
    <2> SUFFICES ASSUME NEW j \in Item \ overtaken, stage'[j] = "compared",
                        NEW p \in Pair, Comparable(j, p)
                 PROVE  \/ p \in create'[j]
                        \/ \E w \in Existing(p) : reviews[w] = <<>> =>
                              w \in rewrite'[j] \/ signals[w] = known[j] \cap Basis[p]
      BY <1>2 DEF PairsDealtWith, Existing, Comparable
    <2>3. CASE j = i
      BY <2>2, <2>3
    <2>4. CASE j # i
      BY <1>2, <2>4 DEF Reaching, PairsDealtWith
    <2> QED
      BY <2>3, <2>4
  <1>7. ResolvedReach'
    BY <1>2, <1>3 DEF Reaching, ResolvedReach, Existing
  <1> QED
    BY <1>1, <1>5, <1>6, <1>7 DEF Reaching

\* Every claim of the item and of those resolved before is in the profiles, so every
\* pair it belongs to was compared and has its row, unless the resolution was overtaken;
\* and it overtakes every other one under way.
LEMMA ResolveKeepsReaching ==
  ASSUME Reaching, NEW i \in Item, ResolveCommit(i)
  PROVE  Reaching'
  <1>1. Tracked'
    BY ResolveKeepsTracked DEF Reaching
  <1>2. /\ stage[i] = "compared"
        /\ \A j \in Item : stage'[j] = IF j = i THEN "resolved" ELSE stage[j]
        /\ \A j \in Item \ {i} : Resolving(j) => j \in overtaken'
        /\ i \in overtaken => "resolve" \notin clean'
        /\ reviews' = reviews
    BY DEF ResolveCommit, Commits, Resolving, Reaching, Tracked, Typed, TypeOK
  <1>3. \A j \in Item \ overtaken' : ~ Resolving(j)'
    BY <1>2 DEF Resolving
  <1>4. ProfilesComplete' /\ PairsDealtWith'
    BY <1>3 DEF ProfilesComplete, PairsDealtWith, Resolving
  <1>5. PICK new \in [create[i] -> {w \in Row : pair[w] = None}] :
           /\ \A p, q \in create[i] : new[p] = new[q] => p = q
           /\ state' = StateAfter(i, new)
           /\ pair' = [w \in Row |-> IF \E p \in create[i] : new[p] = w
                                     THEN CHOOSE p \in create[i] : new[p] = w ELSE pair[w]]
    BY DEF ResolveCommit
  <1>6. \A w \in Row : signals'[w] = IF w \in rewrite[i] \/ pair'[w] # pair[w]
                                     THEN known[i] \cap Basis[pair'[w]] ELSE signals[w]
    BY DEF ResolveCommit
  <1>7. \A w \in Row : pair[w] # None => pair'[w] = pair[w]
    BY <1>5
  <1>8. \A p \in create[i] : /\ new[p] \in Row /\ pair[new[p]] = None
                             /\ pair'[new[p]] = p
    BY <1>5
  <1>9. \A c \in Claim : state'[c] = state[c]
    BY <1>5, ReviewAssumption DEF StateAfter, Target
  <1>10. Committed' = Committed /\ \A c \in Committed : ItemOf[c] \in Item
    BY <1>9, ReviewAssumption DEF Committed
  <1>11. ResolvedReach'
    <2> SUFFICES ASSUME i \notin overtaken,
                        NEW p \in Pair, NEW c \in Committed, c \in Basis[p],
                        stage'[ItemOf[c]] = "resolved"
                 PROVE  \E w \in Existing(p)' :
                           reviews[w] = <<>> /\ reviews[c] = <<>> => c \in signals'[w]
      BY <1>2, <1>10 DEF ResolvedReach
    <2>1. c \in met[i] /\ (reviews[c] = <<>> => c \in known[i])
      BY <1>2, <1>10 DEF Reaching, ProfilesComplete, Resolving
    <2>2. Comparable(i, p) /\ p # None
      BY <2>1, ReviewAssumption DEF Comparable
    <2>3. CASE p \in create[i]
      <3>1. new[p] \in Existing(p)' /\ pair'[new[p]] # pair[new[p]]
        BY <1>8, <2>2, <2>3 DEF Existing
      <3>2. signals'[new[p]] = known[i] \cap Basis[p]
        BY <1>6, <1>8, <2>3, <3>1
      <3> QED
        BY <2>1, <3>1, <3>2
    <2>4. CASE p \notin create[i]
      <3>1. PICK w \in Existing(p) :
               reviews[w] = <<>> => w \in rewrite[i] \/ signals[w] = known[i] \cap Basis[p]
        BY <1>2, <2>2, <2>4 DEF Reaching, PairsDealtWith
      <3>2. w \in Row /\ pair[w] = p /\ pair'[w] = p /\ w \in Existing(p)'
        BY <1>7, <2>2 DEF Existing
      <3>3. reviews[w] = <<>> => signals'[w] = known[i] \cap Basis[p]
        BY <1>6, <3>1, <3>2
      <3> QED
        BY <2>1, <3>2, <3>3
    <2> QED
      BY <2>3, <2>4
  <1> QED
    BY <1>1, <1>4, <1>11 DEF Reaching

LEMMA NextReaching ==
  ASSUME Reaching, [Next]_vars
  PROVE  Reaching'
  <1>1. Tracked'
    BY NextTracked DEF Reaching
  <1>2. CASE UNCHANGED vars
    BY <1>1, <1>2, OthersKeepReaching
    DEF Committed, Resolving, vars, rowVars, resolveVars, history
  <1>3. ASSUME NEW r \in Reviewer,
               \/ \E t \in Target, d \in Decision : LoadTarget(r, t, d)
               \/ FindLast(r) \/ CommitDecision(r)
        PROVE  Reaching'
    <2>1. UNCHANGED <<pair, signals, stage, met, known, rewrite, create, overtaken, clean>>
      BY <1>3 DEF LoadTarget, FindLast, CommitDecision, rowVars, resolveVars, history
    <2>2. /\ \A t \in Target : reviews'[t] = <<>> => reviews[t] = <<>>
          /\ Committed' = Committed
      BY <1>3, DecisionAddsReview DEF Reaching, Tracked, Committed, Target
    <2> QED
      BY <1>1, <2>1, <2>2, OthersKeepReaching DEF Resolving
  <1>4. ASSUME NEW i \in Item, FlagContradictions(i) \/ ExtractCommit(i) \/ ExtractFails(i)
                               \/ ResolveFails(i)
        PROVE  Reaching'
    <2>1. UNCHANGED <<pair, signals, reviews>>
      BY <1>4 DEF FlagContradictions, ExtractCommit, ExtractFails, ResolveFails, rowVars
    <2>2. /\ stage'[i] \in {"new", "extracting", "extracted"}
          /\ \A j \in Item \ {i} : stage'[j] = stage[j]
      BY <1>4 DEF FlagContradictions, ExtractCommit, ExtractFails, ResolveFails, Reaching,
                  Tracked, Typed, TypeOK
    <2>3. \A j \in Item \ {i} : /\ met'[j] = met[j] /\ known'[j] = known[j]
                               /\ rewrite'[j] = rewrite[j] /\ create'[j] = create[j]
      BY <1>4 DEF FlagContradictions, ExtractCommit, ExtractFails, ResolveFails, resolveVars,
                  Reaching, Tracked, Typed, TypeOK
    <2>4. \A c \in Committed' : c \in Committed \/ stage'[ItemOf[c]] = "extracted"
      <3>1. CASE ExtractCommit(i)
        <4>1. /\ stage[i] = "extracting" /\ stage'[i] = "extracted"
              /\ \A t \in Target : state'[t] = IF t \in writes[i] THEN "CONTRADICTORY"
                                             ELSE IF t \in Own(i) THEN Initial[t] ELSE state[t]
          BY <3>1 DEF ExtractCommit, Reaching, Tracked, Typed, TypeOK
        <4>2. writes[i] \subseteq Committed \cup Own(i)
          BY <4>1 DEF Reaching, Tracked, WritesClaims
        <4>3. Committed' \subseteq Committed \cup Own(i)
          BY <4>1, <4>2 DEF Committed, Target
        <4> QED
          BY <4>1, <4>3 DEF Own
      <3>2. CASE state' = state
        BY <3>2 DEF Committed
      <3> QED
        BY <1>4, <3>1, <3>2 DEF FlagContradictions, ExtractFails, ResolveFails, rowVars
    <2>6. overtaken \ {i} \subseteq overtaken' /\ ("resolve" \in clean' => "resolve" \in clean)
      BY <1>4 DEF FlagContradictions, ExtractCommit, ExtractFails, ResolveFails, Commits, RollsBack,
                  history
    <2>5. \A j \in Item : /\ stage'[j] = "resolved" => stage[j] = "resolved"
                          /\ Resolving(j)' => j # i
      BY <2>2 DEF Resolving
    <2> QED
      BY <1>1, <2>1, <2>2, <2>3, <2>4, <2>5, <2>6, OthersKeepReaching
  <1>5. ASSUME NEW i \in Item, Profiles(i) \/ Compare(i) \/ ResolveCommit(i) PROVE Reaching'
    BY <1>5, ProfilesKeepsReaching, CompareKeepsReaching, ResolveKeepsReaching
  <1> QED
    BY <1>2, <1>3, <1>4, <1>5 DEF Next

\* The claims of every extracted item have reached the open candidates once no item is
\* left to be resolved and nobody overtook the last resolution to commit, however
\* resolutions overlapped or failed before, and whatever extractors and reviewers do.
THEOREM EvidenceReaches == Spec => []EvidenceReachesCandidates
  <1>1. Reaching /\ [Next]_vars => Reaching'
    BY NextReaching
  <1>2. Reaching => EvidenceReachesCandidates
    <2> SUFFICES ASSUME Reaching, "resolve" \in clean,
                        ~ Working({"extracted", "profiled", "compared"}),
                        NEW p \in Pair, NEW c \in Committed, c \in Basis[p]
                 PROVE  \E w \in Existing(p) :
                           reviews[w] = <<>> /\ reviews[c] = <<>> => c \in signals[w]
      BY DEF EvidenceReachesCandidates
    <2>1. stage[ItemOf[c]] = "resolved"
      BY ReviewAssumption DEF Reaching, Tracked, ClaimsExtracted, Working, Committed
    <2> QED
      BY <2>1 DEF Reaching, ResolvedReach
  <1> QED
    BY <1>1, <1>2, InitReaching, PTL DEF Spec
=============================================================================
