--------------------------- MODULE ReviewDecisions ---------------------------
(***************************************************************************)
(* Human decisions on the match candidates and claims of one case, against *)
(* the automation that writes the same rows: flag_contradictions() at the  *)
(* end of an extraction and generate_candidates() in a resolution.         *)
(*                                                                         *)
(* Both sides load rows, compute, and commit later, and nothing keeps two  *)
(* decisions on a target, two extractions or two resolutions of the case   *)
(* apart: no row is locked and no constraint refuses what they insert.  A  *)
(* commit sends no UPDATE for a column that has the value it was loaded    *)
(* with, and writes over whatever the column holds by then otherwise.      *)
(*                                                                         *)
(* What overlapped is kept in history: the reviews a target had when its   *)
(* row was loaded (began), the extractions and resolutions under way while *)
(* another of their kind committed (overtaken), and the kinds whose last   *)
(* commit was of none of those (clean).                                    *)
(*                                                                         *)
(* That a stage of an item has one session at a time is EvidencePipeline's *)
(* OneHolder; what a decision does to evidence statuses is its DecideRead  *)
(* and DecideCommit.                                                       *)
(***************************************************************************)
EXTENDS Naturals, Sequences, FiniteSets

CONSTANTS
    Item,         \* evidence items of the case
    Claim,        \* claims their extractions yield
    ItemOf,       \* the item a claim is extracted from
    Initial,      \* the state a claim is extracted with
    Contradicts,  \* pairs of attribute claims: one entity and attribute, two values
    Pair,         \* pairs of person records the matcher compares
    Basis,        \* the claims the profiles of a pair are made of
    Row,          \* rows of match_candidates
    Reviewer,     \* sessions of reviewers
    Decision,     \* decisions they submit
    MaxReviews,   \* bound on the reviews of the case when a decision begins
    None          \* no pair, no target

ASSUME ReviewAssumption ==
    /\ ItemOf \in [Claim -> Item]
    /\ Initial \in [Claim -> {"ALLOWED", "REVIEW_REQUIRED"}]
    /\ Contradicts \subseteq Claim \X Claim
    /\ \A c, d \in Claim : <<c, d>> \in Contradicts => c # d /\ <<d, c>> \in Contradicts
    /\ Basis \in [Pair -> SUBSET Claim]
    /\ Row \cap Claim = {}
    /\ Decision \subseteq {"APPROVE", "REJECT", "DEFER", "REVERSE", "STALE", "CONTRADICTORY"}
    /\ MaxReviews \in Nat
    /\ None \notin Pair /\ None \notin Row \cup Claim /\ None \notin Nat

Target == Row \cup Claim

State == {"none", "REVIEW_REQUIRED", "ALLOWED", "APPROVE", "REJECT", "DEFER", "STALE",
          "CONTRADICTORY"}

Review == [decision : Decision, supersedes : Nat, began : Nat]

VARIABLES
    state,     \* per target: its committed state, "none" before the row exists
    flagged,   \* claims whose flags name a contradiction
    pair,      \* per row of match_candidates: its pair
    signals,   \* per row: the claims its signals were computed from
    reviews,   \* per target: its reviews, oldest first
    request,   \* per reviewer's session: the request it works on
    stage,     \* per item: how far its processing is
    marks,     \* per item: the claims its extraction is to flag
    writes,    \* ... those of them whose state it is to write
    met,       \* per item: the claims whose persons its resolution compares
    known,     \* ... the claims it made their profiles of
    rewrite,   \* ... the rows it is to rewrite
    create,    \* ... the pairs it is to propose
    overtaken, \* history: items whose session another one's commit overtook
    clean      \* history: the kinds of session whose last commit was not overtaken

rowVars     == <<state, flagged, pair, signals, reviews>>
extractVars == <<marks, writes>>
resolveVars == <<met, known, rewrite, create>>
history     == <<overtaken, clean>>
vars == <<rowVars, request, stage, extractVars, resolveVars, history>>

\* What a request loaded; it has not looked for the last review while last = None.
Request == [target : Target, decision : Decision, copy : State, contra : BOOLEAN,
            began : Nat, last : Nat \cup {None}]

ASSUME RequestAssumption == None \notin Request

TypeOK ==
    /\ state   \in [Target -> State]
    /\ flagged \subseteq Claim
    /\ pair    \in [Row -> Pair \cup {None}]
    /\ signals \in [Row -> SUBSET Claim]
    /\ reviews \in [Target -> Seq(Review)]
    /\ request \in [Reviewer -> Request \cup {None}]
    /\ stage   \in [Item -> {"new", "extracting", "extracted", "profiled", "compared", "resolved"}]
    /\ marks   \in [Item -> SUBSET Claim]
    /\ writes  \in [Item -> SUBSET Claim]
    /\ met     \in [Item -> SUBSET Claim]
    /\ known   \in [Item -> SUBSET Claim]
    /\ rewrite \in [Item -> SUBSET Row]
    /\ create  \in [Item -> SUBSET Pair]
    /\ overtaken \subseteq Item
    /\ clean \subseteq {"extract", "resolve"}
    /\ \A t \in Target : \A n \in 1..Len(reviews[t]) : reviews[t][n].supersedes < n

Init ==
    /\ state   = [t \in Target |-> "none"]
    /\ flagged = {}
    /\ pair    = [w \in Row |-> None]
    /\ signals = [w \in Row |-> {}]
    /\ reviews = [t \in Target |-> <<>>]
    /\ request = [r \in Reviewer |-> None]
    /\ stage   = [i \in Item |-> "new"]
    /\ marks   = [i \in Item |-> {}]
    /\ writes  = [i \in Item |-> {}]
    /\ met     = [i \in Item |-> {}]
    /\ known   = [i \in Item |-> {}]
    /\ rewrite = [i \in Item |-> {}]
    /\ create  = [i \in Item |-> {}]
    /\ overtaken = {}
    /\ clean = {"extract", "resolve"}

Committed == {c \in Claim : state[c] # "none"}

Own(i) == {c \in Claim : ItemOf[c] = i}

-----------------------------------------------------------------------------
(* decide() and decide_claim() *)

\* The state a decision gives its target.
Outcome(t, d, contradicted) ==
    CASE t \in Row /\ d = "REVERSE"   -> "REVIEW_REQUIRED"
      [] t \in Claim /\ d = "REVERSE" -> IF contradicted THEN "CONTRADICTORY" ELSE "ALLOWED"
      [] t \in Claim /\ d = "APPROVE" -> "ALLOWED"
      [] OTHER                        -> d

\* db.get(): the row is read once and not again.
LoadTarget(r, t, d) ==
    /\ request[r] = None
    /\ state[t] # "none"
    /\ t \in Row => d # "CONTRADICTORY"
    /\ Cardinality(UNION {{u} \X DOMAIN reviews[u] : u \in Target}) < MaxReviews
    /\ request' = [request EXCEPT ![r] = [target |-> t, decision |-> d, copy |-> state[t],
                                          contra |-> t \in flagged, began |-> Len(reviews[t]),
                                          last |-> None]]
    /\ UNCHANGED <<rowVars, stage, extractVars, resolveVars, history>>

\* There is nothing to reverse: no review, or for a candidate only a reversal.
NothingToReverse(t) ==
    \/ reviews[t] = <<>>
    \/ t \in Row /\ reviews[t][Len(reviews[t])].decision = "REVERSE"

\* Faulty variant: only a reversal supersedes anything.
FindLast_Reversal(r) ==
    /\ request[r] # None /\ request[r].last = None
    /\ LET t == request[r].target IN
       IF request[r].decision # "REVERSE"
       THEN request' = [request EXCEPT ![r].last = 0]
       ELSE IF NothingToReverse(t)
            THEN request' = [request EXCEPT ![r] = None]
            ELSE request' = [request EXCEPT ![r].last = Len(reviews[t])]
    /\ UNCHANGED <<rowVars, stage, extractVars, resolveVars, history>>

\* The last review is looked up, and the request refused or carried on.
FindLast(r) ==
    /\ request[r] # None /\ request[r].last = None
    /\ LET t == request[r].target IN
       IF request[r].decision = "REVERSE" /\ NothingToReverse(t)
       THEN request' = [request EXCEPT ![r] = None]
       ELSE request' = [request EXCEPT ![r].last = Len(reviews[t])]
    /\ UNCHANGED <<rowVars, stage, extractVars, resolveVars, history>>

\* db.commit(): the review, and the state if it differs from the loaded one.
CommitDecision(r) ==
    /\ request[r] # None /\ request[r].last # None
    /\ LET q == request[r]
           new == Outcome(q.target, q.decision, q.contra)
       IN
       /\ reviews' = [reviews EXCEPT ![q.target] =
                         Append(@, [decision |-> q.decision, supersedes |-> q.last, began |-> q.began])]
       /\ state' = IF new = q.copy THEN state ELSE [state EXCEPT ![q.target] = new]
    /\ request' = [request EXCEPT ![r] = None]
    /\ UNCHANGED <<flagged, pair, signals, stage, extractVars, resolveVars, history>>

-----------------------------------------------------------------------------
(* run_extract(): the claims of an item and flag_contradictions() *)

Working(S) == \E i \in Item : stage[i] \in S

\* The session of item i commits: it overtakes the others of its kind, which are in S.
Commits(i, kind, S) ==
    /\ overtaken' = (overtaken \ {i}) \cup {j \in Item \ {i} : stage[j] \in S}
    /\ clean' = IF i \in overtaken THEN clean \ {kind} ELSE clean \cup {kind}

\* It is rolled back.
RollsBack(i) == overtaken' = overtaken \ {i} /\ UNCHANGED clean

\* The state of claim c as the extraction of item i sees it: its own are new.
Seen(i, c) == IF c \in Own(i) THEN Initial[c] ELSE state[c]

\* Faulty variant: only the claims of the item itself are looked at.
Contested_Own(i) ==
    {c \in Own(i) : /\ \E d \in Own(i) : <<c, d>> \in Contradicts
                    /\ Seen(i, c) \in {"ALLOWED", "CONTRADICTORY"}
                    /\ reviews[c] = <<>>}

\* The claims to flag: contradicted by another, not decided on by a reviewer.
Contested(i) ==
    {c \in Committed \cup Own(i) :
        /\ \E d \in Committed \cup Own(i) : <<c, d>> \in Contradicts
        /\ Seen(i, c) \in {"ALLOWED", "CONTRADICTORY"}
        /\ reviews[c] = <<>>}

FlagContradictions(i) ==
    /\ stage[i] = "new"
    /\ stage'  = [stage EXCEPT ![i] = "extracting"]
    /\ marks'  = [marks EXCEPT ![i] = Contested(i)]
    /\ writes' = [writes EXCEPT ![i] = {c \in Contested(i) : Seen(i, c) = "ALLOWED"}]
    /\ UNCHANGED <<rowVars, request, resolveVars, history>>

ExtractCommit(i) ==
    /\ stage[i] = "extracting"
    /\ stage' = [stage EXCEPT ![i] = "extracted"]
    /\ state' = [t \in Target |-> IF t \in writes[i] THEN "CONTRADICTORY"
                                  ELSE IF t \in Own(i) THEN Initial[t] ELSE state[t]]
    /\ flagged' = flagged \cup marks[i]
    /\ marks'  = [marks EXCEPT ![i] = {}]
    /\ writes' = [writes EXCEPT ![i] = {}]
    /\ Commits(i, "extract", {"extracting"})
    /\ UNCHANGED <<pair, signals, reviews, request, resolveVars>>

\* The extraction raises and is rolled back; it may be tried again.
ExtractFails(i) ==
    /\ stage[i] = "extracting"
    /\ stage'  = [stage EXCEPT ![i] = "new"]
    /\ marks'  = [marks EXCEPT ![i] = {}]
    /\ writes' = [writes EXCEPT ![i] = {}]
    /\ RollsBack(i)
    /\ UNCHANGED <<rowVars, request, resolveVars>>

-----------------------------------------------------------------------------
(* run_resolve(): generate_candidates() *)

\* Every claim brings its persons into the comparison; their profiles leave out the
\* claims that are rejected.
Profiles(i) ==
    /\ stage[i] = "extracted"
    /\ stage' = [stage EXCEPT ![i] = "profiled"]
    /\ met'   = [met EXCEPT ![i] = Committed]
    /\ known' = [known EXCEPT ![i] = {c \in Committed : state[c] # "REJECT"}]
    /\ UNCHANGED <<rowVars, request, extractVars, rewrite, create, history>>

\* The records of the pair are in the case and share a block.
Comparable(i, p) == Basis[p] \cap met[i] # {}

Existing(p) == {w \in Row : pair[w] = p}

\* Faulty variant: candidates that exist are skipped.
Stale_None(i, prior) == {}

\* The undecided candidates whose signals are out of date; of two rows of one
\* pair, prior holds the one that is looked at.
Stale(i, prior) ==
    {w \in Row : /\ pair[w] # None /\ Comparable(i, pair[w]) /\ prior[pair[w]] = w
                 /\ state[w] = "REVIEW_REQUIRED"
                 /\ signals[w] # known[i] \cap Basis[pair[w]]}

\* Faulty variant: existing candidates are not looked for.
Missing_All(i) == {p \in Pair : Comparable(i, p)}

Missing(i) == {p \in Pair : Comparable(i, p) /\ Existing(p) = {}}

Compare(i) ==
    /\ stage[i] = "profiled"
    /\ stage' = [stage EXCEPT ![i] = "compared"]
    /\ \E prior \in [Pair -> Row \cup {None}] :
          /\ \A p \in Pair : IF Existing(p) = {} THEN prior[p] = None ELSE prior[p] \in Existing(p)
          /\ rewrite' = [rewrite EXCEPT ![i] = Stale(i, prior)]
    /\ create' = [create EXCEPT ![i] = Missing(i)]
    /\ UNCHANGED <<rowVars, request, extractVars, met, known, history>>

\* Faulty variant: what is rewritten is open again.
StateAfter_Reset(i, new) ==
    [t \in Target |-> IF t \in rewrite[i] \/ \E p \in create[i] : new[p] = t
                      THEN "REVIEW_REQUIRED" ELSE state[t]]

StateAfter(i, new) ==
    [t \in Target |-> IF \E p \in create[i] : new[p] = t THEN "REVIEW_REQUIRED" ELSE state[t]]

ResolveCommit(i) ==
    /\ stage[i] = "compared"
    /\ stage' = [stage EXCEPT ![i] = "resolved"]
    /\ \E new \in [create[i] -> {w \in Row : pair[w] = None}] :
          /\ \A p, q \in create[i] : new[p] = new[q] => p = q
          /\ state' = StateAfter(i, new)
          /\ pair' = [w \in Row |-> IF \E p \in create[i] : new[p] = w
                                    THEN CHOOSE p \in create[i] : new[p] = w ELSE pair[w]]
    /\ signals' = [w \in Row |-> IF w \in rewrite[i] \/ pair'[w] # pair[w]
                                 THEN known[i] \cap Basis[pair'[w]] ELSE signals[w]]
    /\ met'     = [met EXCEPT ![i] = {}]
    /\ known'   = [known EXCEPT ![i] = {}]
    /\ rewrite' = [rewrite EXCEPT ![i] = {}]
    /\ create'  = [create EXCEPT ![i] = {}]
    /\ Commits(i, "resolve", {"profiled", "compared"})
    /\ UNCHANGED <<flagged, reviews, request, extractVars>>

\* The resolution raises and is rolled back; it may be tried again.
ResolveFails(i) ==
    /\ stage[i] \in {"profiled", "compared"}
    /\ stage'   = [stage EXCEPT ![i] = "extracted"]
    /\ met'     = [met EXCEPT ![i] = {}]
    /\ known'   = [known EXCEPT ![i] = {}]
    /\ rewrite' = [rewrite EXCEPT ![i] = {}]
    /\ create'  = [create EXCEPT ![i] = {}]
    /\ RollsBack(i)
    /\ UNCHANGED <<rowVars, request, extractVars>>

-----------------------------------------------------------------------------
Next ==
    \/ \E r \in Reviewer :
          \/ \E t \in Target, d \in Decision : LoadTarget(r, t, d)
          \/ FindLast(r)
          \/ CommitDecision(r)
    \/ \E i \in Item :
          \/ FlagContradictions(i) \/ ExtractCommit(i) \/ ExtractFails(i)
          \/ Profiles(i) \/ Compare(i) \/ ResolveCommit(i) \/ ResolveFails(i)

Spec == Init /\ [][Next]_vars

-----------------------------------------------------------------------------
(* Properties *)

LastReview(t) == reviews[t][Len(reviews[t])]

\* The state of row w is the one a review gave it, of those after the first n.
DecidedSince(w, n) ==
    \E k \in (n + 1)..Len(reviews[w]) : state[w] = Outcome(w, reviews[w][k].decision, FALSE)

\* A candidate is open before its first review, and afterwards in the state its last
\* review gave it, or one of the reviews that overtook that one did: a decision nobody
\* overtook takes effect ("APPROVE is the only path to a merged node",
\* review_routes.py:90), whatever was lost before, and no resolution that loaded the row
\* earlier takes it back.
StateFollowsReviews ==
    \A w \in Row : state[w] # "none" =>
        IF reviews[w] = <<>> THEN state[w] = "REVIEW_REQUIRED"
        ELSE DecidedSince(w, LastReview(w).began)

\* A review supersedes none older than the last its target had when it began: only
\* decisions that overlap fork the history.  A reversal has a decision to reverse, for
\* a candidate one that is no reversal itself (review_routes.py:97-105, 159-167).
OnlyOverlapForks ==
    \A t \in Target : \A n \in 1..Len(reviews[t]) :
        LET v == reviews[t][n] IN
        /\ v.supersedes \in v.began..(n - 1)
        /\ v.decision = "REVERSE" =>
              v.supersedes > 0 /\ (t \in Row => reviews[t][v.supersedes].decision # "REVERSE")

\* Two records are proposed to the reviewers a second time only by a resolution that
\* another one overtook (resolution.py:69-88).
OnlyTheOvertakenDuplicate ==
    [][\A i \in Item \ overtaken, w \in Row :
          stage[i] = "compared" /\ stage'[i] = "resolved" /\ pair'[w] # pair[w] =>
              \A v \in Row : pair'[v] = pair'[w] => v = w]_vars

\* Claims that contradict each other are flagged, whichever item brought the second
\* one, unless a reviewer has decided on them (extract_common.py:277-297).  Extractions
\* that overlap miss each other's claims, until one commits that nobody overtook.
ContradictionsSurface ==
    "extract" \in clean =>
        \A c, d \in Committed :
            <<c, d>> \in Contradicts /\ Initial[c] = "ALLOWED" /\ reviews[c] = <<>> =>
                state[c] = "CONTRADICTORY" /\ c \in flagged

\* When every extracted item has been resolved, its claims have reached the open
\* candidates, unless a reviewer has decided on claim or candidate (DEF-099,
\* resolution.py:73-75).  Of two rows of one pair, one has them.  A resolution that was
\* overtaken may write old signals over newer ones, until one commits that was not.
EvidenceReachesCandidates ==
    "resolve" \in clean /\ ~ Working({"extracted", "profiled", "compared"}) =>
        \A p \in Pair, c \in Committed : c \in Basis[p] =>
            \E w \in Existing(p) :
                reviews[w] = <<>> /\ reviews[c] = <<>> => c \in signals[w]

=============================================================================
