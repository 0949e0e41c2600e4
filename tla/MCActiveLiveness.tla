-------------------------- MODULE MCActiveLiveness --------------------------
(***************************************************************************)
(* Liveness of ActiveAdmission for both versions of the ledger: the build  *)
(* of the module on a Genesis ledger, and a build on a ledger of version 1 *)
(* in the hands of a leader and its successor.  "ledger" is drawn in the   *)
(* initial state and never changes.                                        *)
(***************************************************************************)
EXTENDS MCActiveAdmission

VARIABLE ledger      \* which of the two the behaviour is one of

Pair == INSTANCE ActiveAdmission WITH
    Genesis <- FALSE, Nonces <- OneNonce, Procs <- TwoProcs

PairNext ==
    /\ \/ ledger = "genesis" /\ Next
       \/ ledger = "pair" /\ Pair!Next
    /\ UNCHANGED ledger

PairCalm ==
    \/ ledger = "genesis" /\ Calm
    \/ ledger = "pair" /\ Pair!Calm

(* Each under the fairness that FairSpec states for it. *)
PairFairSpec ==
    /\ \/ ledger = "genesis" /\ Init
       \/ ledger = "pair" /\ Pair!Init
    /\ [][PairNext]_<<vars, ledger>>
    /\ \A p \in Procs : WF_vars(ledger = "genesis" /\ Reconcile(p))
    /\ \A p \in TwoProcs : WF_vars(ledger = "pair" /\ Pair!Reconcile(p))
    /\ <>[][PairCalm]_vars

SettledHere(b) ==
    \/ ledger = "genesis" /\ Settled(b)
    \/ ledger = "pair" /\ Pair!Settled(b)

(* The charge of a finished build with known outcomes is released in the   *)
(* end, whatever races with it: directly on a version 1 ledger, and        *)
(* through the marks and deletes of the receipts on a Genesis ledger       *)
(* (releaseReservation).  In Genesis mode a Pod without a witness in the   *)
(* status is not known (see DeletionStopsRunner).                          *)
BothAreReleased == \A b \in Builds : SettledHere(b) ~> ~Held(b)
=============================================================================
