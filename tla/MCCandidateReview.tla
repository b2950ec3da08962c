-------------------------- MODULE MCCandidateReview --------------------------
EXTENDS CandidateReview, TLC

\* The candidates of a case are alike.
MCSymmetry == Permutations(Candidates)
=============================================================================
