---------------------------- MODULE MCKafkaWorker ----------------------------
(* Small instances of KafkaWorker for TLC. *)
EXTENDS KafkaWorker, TLC

CONSTANTS e1, e2, p1, p2

\* The producer hashes the items' keys apart, so that one poll() may return both.
TwoKeys == (e1 :> p1) @@ (e2 :> p2)

\* One partition takes a second copy of its item's message.
TwoAndOne == (p1 :> 2) @@ (p2 :> 1)

=============================================================================
