------------------------- MODULE MCActiveAdmission -------------------------
(* Small instances of ActiveAdmission for TLC. *)
EXTENDS ActiveAdmission, TLC

CONSTANTS b1, b2, r1, r2, p1, p2, n1, n2, n3

OneBuild == {b1}
TwoBuilds == {b1, b2}
TwoUsers == {r1, r2}
OwnOne == [b \in {b1} |-> r1]
OwnApart == [b \in {b1, b2} |-> IF b = b1 THEN r1 ELSE r2]
WantOne == [b \in {b1} |-> 1]
WantMore == [b \in {b1} |-> 2]
WantTwo == [b \in {b1, b2} |-> 2]
OneProc == {p1}
TwoProcs == {p1, p2}
OneNonce == {n1}
TwoNonces == {n1, n2}
ThreeNonces == {n1, n2, n3}
Sym1 == Permutations({p1, p2})
Sym2 == Permutations({p1, p2}) \cup Permutations({n1, n2})
Sym3 == Permutations({p1, p2}) \cup Permutations({n1, n2, n3})

(* The two-build run looks at builds that end by themselves: no user       *)
(* cancels or deletes one.  The other runs cover those.                    *)
NoUser == \A b \in Builds : ~crs[b].cancel /\ ~crs[b].deleting
=============================================================================
