------------------------- MODULE MCEvidencePipeline -------------------------
(* Small instances of EvidencePipeline for TLC. *)
EXTENDS EvidencePipeline, TLC

\* Sessions are interchangeable.  Sound for the runs without liveness only.
SessionSymmetry == Permutations(Session)
=============================================================================
