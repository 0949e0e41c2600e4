-------------------------- MODULE MCQueueAdmission --------------------------
(* Small instances of QueueAdmission for TLC. *)
EXTENDS QueueAdmissionInv, TLC

CONSTANTS b1, b2, r1, r2, h1, h2, w1, n1, n2, n3

OneBuild == {b1}
TwoBuilds == {b1, b2}
TwoUsers == {r1, r2}
OwnApart == [b \in {b1, b2} |-> IF b = b1 THEN r1 ELSE r2]
OwnTogether == [b \in {b1, b2} |-> r1]
OwnOne == [b \in {b1} |-> r1]
TwoHandlers == {h1, h2}
OneWorker == {w1}
TwoNonces == {n1, n2}
ThreeNonces == {n1, n2, n3}
Sym == Permutations({n1, n2, n3}) \cup Permutations({h1, h2})
=============================================================================
