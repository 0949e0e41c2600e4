---------------------------- MODULE MCFairQueue ----------------------------
(* Small instances of FairQueue for TLC. *)
EXTENDS FairQueue, TLC

OneTwo == {1, 2}
One == {1}

Sym == Permutations(Requesters)

=============================================================================
