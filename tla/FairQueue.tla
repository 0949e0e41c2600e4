----------------------------- MODULE FairQueue -----------------------------
(***************************************************************************)
(* Which queued build the active ledger grants next                        *)
(* (internal/service/buildcontroller/admission.go and queuepump.go).       *)
(*                                                                         *)
(* Two places decide it from the same ledger and list of builds: a build's *)
(* own reconcile (saturatedAdmission, then decideAdmission) and the pump,  *)
(* which wakes one build (nextAdmissionCandidate).  No queued build has a  *)
(* timer of its own, so a pump that wakes a build decideAdmission refuses  *)
(* leaves free capacity unused.                                            *)
(*                                                                         *)
(* A build's age is its position in queued: buildLess is a total order of  *)
(* creation time and name.  How the grant is committed, and what else a    *)
(* reconcile must check first, is in ActiveAdmission.                      *)
(***************************************************************************)
EXTENDS Integers, BagsExt, SequencesExt

CONSTANTS Requesters,       \* requesterKey of the builds
          Wants,            \* requestedConcurrency of the builds
          MaxQueued,        \* bound: builds that wait at one time
          MaxJobs,          \* MaxActiveJobs, 0 for none
          MaxPerRequester,  \* MaxActiveJobsPerRequester, 0 for none
          WorkerSlots,      \* 0 for none
          None

ASSUME FairQueueConstants ==
    /\ Wants \subseteq Nat \ {0} /\ MaxQueued \in Nat
    /\ MaxJobs \in Nat /\ MaxPerRequester \in Nat /\ WorkerSlots \in Nat
    /\ None \notin Requesters

VARIABLES queued,  \* the builds that wait, oldest first
          active,  \* the bag of grants in the active ledger
          last     \* LastGrantedRequesterHash

vars == <<queued, active, last>>

Build == [who : Requesters, want : Wants]

Grants == [who : Requesters, slots : Wants \cup 1..WorkerSlots]

Init == queued = <<>> /\ active = EmptyBag /\ last = None

-----------------------------------------------------------------------------

(* What a decision is made from: the list of builds and the active ledger. *)
View == [queued |-> queued, active |-> active, last |-> last]

(* A limit of zero or less does not bound anything. *)
AtLimit(n, limit) == limit > 0 /\ n >= limit

ActiveCount(v, r) ==
    MapThenSumSet(LAMBDA g : CopiesIn(g, v.active), {g \in BagToSet(v.active) : g.who = r})

UsedSlots(v) ==
    MapThenSumSet(LAMBDA g : g.slots * CopiesIn(g, v.active), BagToSet(v.active))

Waiting(v) == {v.queued[i].who : i \in DOMAIN v.queued}

Oldest(v, r) == Min({i \in DOMAIN v.queued : v.queued[i].who = r})

(* Mutant: a requester's newest build comes first. *)
RoundNewest(v, i) ==
    Cardinality({j \in i..Len(v.queued) : v.queued[j].who = v.queued[i].who})

(* The place of a build among those of its requester, oldest first: the round *)
(* in which it comes.                                                         *)
Round(v, i) == Cardinality({j \in 1..i : v.queued[j].who = v.queued[i].who})

(* Mutant: among requesters served alike the newest one comes first. *)
SoonerNewest(v, q, r) ==
    \/ ActiveCount(v, q) < ActiveCount(v, r)
    \/ ActiveCount(v, q) = ActiveCount(v, r) /\ Oldest(v, q) > Oldest(v, r)

(* The first sort of the requesters: fewest current grants, then oldest build. *)
Sooner(v, q, r) ==
    \/ ActiveCount(v, q) < ActiveCount(v, r)
    \/ ActiveCount(v, q) = ActiveCount(v, r) /\ Oldest(v, q) < Oldest(v, r)

(* Mutant: the rotation begins at the front of the ring, not of the tier. *)
TierStartFront(v, ring, i) == 1

(* The first and the last position of the run of equal grants around i. *)
TierStart(v, ring, i) ==
    Min({k \in 1..i : \A m \in k..i : ActiveCount(v, ring[m]) = ActiveCount(v, ring[i])})

(* Mutant: the scan stops one short of the end of the ring. *)
TierEndShort(v, ring, i) ==
    Max({i} \cup {k \in i..(Len(ring) - 1) :
                    \A m \in i..k : ActiveCount(v, ring[m]) = ActiveCount(v, ring[i])})

TierEnd(v, ring, i) ==
    Max({k \in i..Len(ring) : \A m \in i..k : ActiveCount(v, ring[m]) = ActiveCount(v, ring[i])})

(* Mutant: no rotation, the oldest requester of a tier is always first. *)
RotateNever(v, ring, i) == ring

(* Within the tier, what follows position i comes before what leads up to it. *)
Rotate(v, ring, i) ==
    LET start == TierStart(v, ring, i)
        end   == TierEnd(v, ring, i)
    IN  SubSeq(ring, 1, start - 1) \o SubSeq(ring, i + 1, end)
          \o SubSeq(ring, start, i) \o SubSeq(ring, end + 1, Len(ring))

(* The requesters in their turn: sorted, then rotated past the one that was *)
(* granted last if it still has a build that waits.                         *)
Ring(v) ==
    LET ring == SetToSortSeq(Waiting(v), LAMBDA q, r : Sooner(v, q, r))
        i    == SelectInSeq(ring, LAMBDA r : r = v.last)
    IN  IF i = 0 THEN ring ELSE Rotate(v, ring, i)

(* fairQueue: round after round, one build of each requester of the ring. *)
FairOrder(v) ==
    LET ring    == Ring(v)
        Turn(i) == SelectInSeq(ring, LAMBDA r : r = v.queued[i].who)
    IN  SetToSortSeq(DOMAIN v.queued, LAMBDA i, j :
            \/ Round(v, i) < Round(v, j)
            \/ Round(v, i) = Round(v, j) /\ Turn(i) < Turn(j))

-----------------------------------------------------------------------------

(* The virtual allocation of decideAdmission: how many grants each requester *)
(* would have, the capacity that is left, and what each build would get.     *)
Start(v) ==
    [count |-> [r \in Requesters |-> ActiveCount(v, r)],
     jobs  |-> IF MaxJobs > 0 THEN MaxJobs - BagCardinality(v.active) ELSE Len(v.queued),
     slots |-> WorkerSlots - UsedSlots(v),
     plan  |-> [i \in DOMAIN v.queued |-> 0],
     stop  |-> FALSE]

Share(a, build) ==
    IF WorkerSlots > 0 /\ build.want > a.slots THEN a.slots ELSE build.want

(* Mutant: the capacity of a virtual grant is not taken from what is left. *)
AllocateForFree(v, a, i) ==
    LET build == v.queued[i]
    IN  CASE a.stop \/ AtLimit(a.count[build.who], MaxPerRequester) -> a
          [] Share(a, build) <= 0 \/ a.jobs <= 0 -> [a EXCEPT !.stop = TRUE]
          [] OTHER -> [a EXCEPT !.count[build.who] = @ + 1, !.plan[i] = Share(a, build)]

(* One iteration of the loop of decideAdmission: a requester at its limit is *)
(* passed over, exhausted capacity ends the loop.                            *)
Allocate(v, a, i) ==
    LET build == v.queued[i]
    IN  CASE a.stop \/ AtLimit(a.count[build.who], MaxPerRequester) -> a
          [] Share(a, build) <= 0 \/ a.jobs <= 0 -> [a EXCEPT !.stop = TRUE]
          [] OTHER -> [a EXCEPT !.count[build.who] = @ + 1, !.jobs = @ - 1,
                                !.slots = @ - Share(a, build), !.plan[i] = Share(a, build)]

(* decideAdmission for every queued build: its allocation, 0 when refused. *)
Plan(v) == FoldLeft(LAMBDA a, i : Allocate(v, a, i), Start(v), FairOrder(v)).plan

(* activeCapacityExhausted *)
Exhausted(v) ==
    AtLimit(BagCardinality(v.active), MaxJobs) \/ AtLimit(UsedSlots(v), WorkerSlots)

(* Mutant: a build is turned away while its requester is one below the limit. *)
SaturatedEarly(v, r) == Exhausted(v) \/ AtLimit(ActiveCount(v, r) + 1, MaxPerRequester)

(* saturatedAdmission *)
Saturated(v, r) == Exhausted(v) \/ AtLimit(ActiveCount(v, r), MaxPerRequester)

(* Mutant: the pump wakes the oldest build whose requester is below its limit. *)
CandidateOldest(v) ==
    LET below == {i \in DOMAIN v.queued : ~ Saturated(v, v.queued[i].who)}
    IN  IF below = {} THEN 0 ELSE Min(below)

(* nextAdmissionCandidate, 0 for none *)
Candidate(v) ==
    LET order == FairOrder(v)
        k == SelectInSeq(order, LAMBDA i :
                ~ AtLimit(ActiveCount(v, v.queued[i].who), MaxPerRequester))
    IN  IF Exhausted(v) \/ k = 0 THEN 0 ELSE order[k]

-----------------------------------------------------------------------------

(* A build is created, by the HTTP service or directly. *)
Submit ==
    /\ Len(queued) < MaxQueued
    /\ \E b \in Build : queued' = Append(queued, b)
    /\ UNCHANGED <<active, last>>

(* Mutant: the cursor names the build and not its requester. *)
AdmitNamesBuild(i) ==
    /\ ~ Saturated(View, queued[i].who)
    /\ \E share \in {Plan(View)[i]} \ {0} :
          active' = BagAdd(active, [who |-> queued[i].who, slots |-> share])
    /\ last' = queued[i]
    /\ queued' = RemoveAt(queued, i)

(* The reconcile of build i commits a grant and the cursor in one write. *)
Admit(i) ==
    /\ ~ Saturated(View, queued[i].who)
    /\ \E share \in {Plan(View)[i]} \ {0} :
          active' = BagAdd(active, [who |-> queued[i].who, slots |-> share])
    /\ last' = queued[i].who
    /\ queued' = RemoveAt(queued, i)

(* The reconcile that the pump wakes, when it is one of requester r. *)
AdmitWoken(r) == \E i \in {Candidate(View)} \ {0} : queued[i].who = r /\ Admit(i)

(* A build is cancelled or deleted before it has a grant. *)
Withdraw ==
    /\ \E i \in DOMAIN queued : queued' = RemoveAt(queued, i)
    /\ UNCHANGED <<active, last>>

(* releaseReservation: the grant of a finished build goes away. *)
Release(g) ==
    /\ g \in BagToSet(active)
    /\ active' = BagRemove(active, g)
    /\ UNCHANGED <<queued, last>>

Next ==
    \/ Submit \/ Withdraw
    \/ \E i \in DOMAIN queued : Admit(i)
    \/ \E g \in Grants : Release(g)

Spec == Init /\ [][Next]_vars

(* The pump runs after every change of the ledger or of a queued build and   *)
(* every 30 s, and a build that it keeps waking does not lose the race for   *)
(* the ledger every time.  A granted build ends: it has a maximum duration.  *)
(* Users do not withdraw builds for ever.                                    *)
FairSpec ==
    /\ Spec
    /\ \A r \in Requesters : SF_vars(AdmitWoken(r))
    /\ \A g \in Grants : WF_vars(Release(g))
    /\ <>[][~ Withdraw]_vars

-----------------------------------------------------------------------------

(* Builds that wait have an owner and a size, and no grant is for zero slots. *)
TypeOK ==
    /\ queued \in Seq(Build) /\ Len(queued) <= MaxQueued
    /\ IsABag(active) /\ BagToSet(active) \subseteq Grants
    /\ last \in Requesters \cup {None}

(* The builds that decideAdmission would admit from one reading of the ledger *)
(* fit together into all three limits, whichever of them are granted, so no   *)
(* grant of the plan is taken from another one.                               *)
PlanFits ==
    LET plan == Plan(View)
        in   == {i \in DOMAIN queued : plan[i] > 0}
    IN  /\ MaxJobs > 0 => BagCardinality(active) + Cardinality(in) <= MaxJobs \/ in = {}
        /\ WorkerSlots > 0 =>
              UsedSlots(View) + MapThenSumSet(LAMBDA i : plan[i], in) <= WorkerSlots \/ in = {}
        /\ MaxPerRequester > 0 => \A r \in Requesters :
              LET own == {i \in in : queued[i].who = r}
              IN  own = {} \/ ActiveCount(View, r) + Cardinality(own) <= MaxPerRequester

(* The pump wakes a build whenever one can be granted, and the build that     *)
(* nextAdmissionCandidate selects is one that saturatedAdmission lets pass    *)
(* and decideAdmission admits: the wakeup is never wasted on another build.   *)
WakeupAdmits ==
    LET c == Candidate(View)
        plan == Plan(View)
    IN  IF c = 0 THEN \A i \in DOMAIN queued : plan[i] = 0
                 ELSE plan[c] > 0 /\ ~ Saturated(View, queued[c].who)

(* saturatedAdmission, which skips the scan of all builds and Pods, turns     *)
(* away only builds that decideAdmission would refuse as well.                *)
SaturationIsFinal ==
    LET plan == Plan(View)
    IN  \A i \in DOMAIN queued : Saturated(View, queued[i].who) => plan[i] = 0

(* "Never rotate a more-served requester in front of a less-served one": the  *)
(* build to be granted next is of a requester with the fewest grants among    *)
(* the waiting ones below their limit, and is its oldest.                     *)
LeastServedFirst ==
    LET c == Candidate(View)
    IN  c # 0 =>
          /\ \A r \in Waiting(View) : ActiveCount(View, queued[c].who) <= ActiveCount(View, r)
          /\ \A j \in 1..(c - 1) : queued[j].who # queued[c].who

(* The slices that fairQueue cuts and joins lose no requester, repeat none,   *)
(* and yield the order its comment describes: fewest grants first; in the     *)
(* tier of the requester granted last, those whose oldest build is younger    *)
(* than its own before it and those whose oldest build is older.              *)
RingIsFair ==
    LET ring == Ring(View)
        Passed(r) == /\ last \in Waiting(View) /\ ActiveCount(View, r) = ActiveCount(View, last)
                     /\ Oldest(View, r) <= Oldest(View, last)
        Before(q, r) ==
            \/ ActiveCount(View, q) < ActiveCount(View, r)
            \/ /\ ActiveCount(View, q) = ActiveCount(View, r)
               /\ \/ ~ Passed(q) /\ Passed(r)
                  \/ Passed(q) = Passed(r) /\ Oldest(View, q) < Oldest(View, r)
    IN  /\ Len(ring) = Cardinality(Waiting(View)) /\ ToSet(ring) = Waiting(View)
        /\ \A k \in 1..(Len(ring) - 1) : Before(ring[k], ring[k + 1])

NextView == [queued |-> queued', active |-> active', last |-> last']

(* decideAdmission admits several builds of one requester from one ledger,    *)
(* and the reconcile that commits first is granted first: a younger build may *)
(* overtake an older one.  The older one loses nothing by that step: it was   *)
(* admitted itself, and from the ledger that the younger one's grant leaves   *)
(* behind it is admitted still, with the same slots.                          *)
OvertakenIsStillAdmitted ==
    [][\A i, j \in DOMAIN queued :
          i < j /\ queued[i].who = queued[j].who /\ Admit(j) =>
             Plan(View)[i] > 0 /\ Plan(NextView)[i] = Plan(View)[i]]_vars

(* What docs/service-admission-design.md:14 says: "Queued jobs remain FIFO    *)
(* within a requester".  A grant goes to no build while an older one of its   *)
(* requester waits.  (Builds of one requester and size are alike here, so the *)
(* step only tells builds apart that differ in size.)                         *)
FifoWithinRequester ==
    [][\A i, j \in DOMAIN queued :
          i < j /\ queued[i].who = queued[j].who /\ Admit(j) => queued[i] = queued[j]]_vars

(* "An older backlog cannot recapture the only free slot on every release":   *)
(* the requester granted last is next again only when no other waiting one    *)
(* below its limit has as few grants.                                         *)
NoRecapture ==
    LET c == Candidate(View)
    IN  c # 0 /\ queued[c].who = last =>
          \A r \in Waiting(View) \ {last} : ActiveCount(View, r) > ActiveCount(View, last)

(* No requester that keeps builds waiting is passed over for ever by the    *)
(* grants of others, in whichever order new builds arrive.                    *)
NobodyStarves ==
    \A r \in Requesters : r \in Waiting(View) ~> (last = r \/ r \notin Waiting(View))

=============================================================================
