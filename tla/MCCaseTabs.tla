----------------------------- MODULE MCCaseTabs -----------------------------
EXTENDS CaseTabs, TLC

\* The cases are alike, and so are the items of evidence.
MCSymmetry == Permutations(Cases) \cup Permutations(Items)
=============================================================================
