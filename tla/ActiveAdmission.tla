--------------------------- MODULE ActiveAdmission ---------------------------
(***************************************************************************)
(* The active ledger of the Kova controller: one ConfigMap, changed only   *)
(* by resourceVersion compare-and-swap, that charges a build for capacity  *)
(* from its grant until its runner Pod is known to be gone.  In Genesis    *)
(* mode the grant and the one Pod Create of a build each have an immutable *)
(* receipt ConfigMap that is armed, recorded and pinned before the effect. *)
(*                                                                         *)
(* A process is one reconcile.  Two of them may hold the same build: a     *)
(* paused leader and its successor.  A step is one API call together with  *)
(* the checks around it.  A CAS loop reads the ledger and then the         *)
(* KovaBuild; eligibility is never regained, so both reads are one step,   *)
(* taken at the time of the ledger read.  As in QueueAdmission, "current"  *)
(* holds the processes whose ledger copy still has the ledger's version;   *)
(* "seen" holds those whose KovaBuild copy does.                           *)
(***************************************************************************)
EXTENDS Naturals, FiniteSets, FiniteSetsExt

CONSTANTS
    Builds,           \* KovaBuild objects, one for each UID
    Requesters,       \* users
    Owner,            \* the requester of a build
    Want,             \* requestedConcurrency of a build
    Procs,            \* reconciles in progress
    Nonces,           \* grant nonces and Pod attempts; bounds how many are drawn
    MaxJobs,          \* Cfg.MaxActiveJobs
    MaxPerRequester,  \* Cfg.MaxActiveJobsPerRequester
    WorkerSlots,      \* Cfg.WorkerSlots
    Genesis,          \* TRUE: ledger version 2 with receipts; FALSE: legacy
    None              \* no nonce, no build, no Pod

ASSUME ConstantsAssumption ==
    /\ Owner \in [Builds -> Requesters]
    /\ Want \in [Builds -> Nat \ {0}]
    /\ MaxJobs \in Nat \ {0} /\ MaxPerRequester \in Nat \ {0} /\ WorkerSlots \in Nat \ {0}
    /\ Genesis \in BOOLEAN
    /\ None \notin Nonces \cup Builds
    /\ IsFiniteSet(Builds)

VARIABLES
    active,           \* the active ledger: an entry (or NoEntry) for every build
    crs,              \* the KovaBuild object of every build
    pods,             \* the attempt stamped on the runner Pod of a build, or None
    receipts,         \* nonces whose grant or Pod receipt exists
    used,             \* nonces already drawn
    pc, task, job, tok, \* per process: next call, what it is for, build, nonce
    current,          \* processes whose ledger copy has the ledger's version
    seen,             \* processes whose KovaBuild copy has the object's version
    lateWrites,       \* ledger updates in flight that still carry that version
    lateReceipts,     \* receipt Creates in flight after their caller gave up
    latePods          \* Pod Creates in flight after their caller gave up

ledgerVars == <<active, current, lateWrites>>
crVars == <<crs, seen>>
effectVars == <<pods, receipts, lateReceipts, latePods>>
vars == <<active, crs, pods, receipts, used, pc, task, job, tok, current, seen,
          lateWrites, lateReceipts, latePods>>

(* How far a receipt is: GrantObservedRV or PodTemplateDigest set; UID and *)
(* digest pinned; cleanup mark set.                                        *)
Progress == {"none", "armed", "pinned", "cleanup"}

Entry == [slots : 0..WorkerSlots, grant : Nonces \cup {None}, gs : Progress,
          attempt : Nonces \cup {None}, ps : Progress,
          inflight : Nonces \cup {None}, closing : BOOLEAN]

NoEntry == [slots |-> 0, grant |-> None, gs |-> "none", attempt |-> None,
            ps |-> "none", inflight |-> None, closing |-> FALSE]

NewEntry(s, n) == [NoEntry EXCEPT !.slots = s, !.grant = n]

Held(b) == active[b].slots > 0

(* "active" stands for Starting, Running, Verifying and FailedVerifying.   *)
CR == [phase : {"new", "queued", "active", "terminal", "gone"},
       cancel : BOOLEAN, deleting : BOOLEAN,
       witness : Nonces \cup {None}, stop : BOOLEAN]

NoCR == [phase |-> "new", cancel |-> FALSE, deleting |-> FALSE,
         witness |-> None, stop |-> FALSE]

Exists(b) == crs[b].phase \notin {"new", "gone"}

(* ensureLiveAdmissionBuild *)
Live(b) == crs[b].phase = "queued" /\ ~crs[b].cancel /\ ~crs[b].deleting

Init ==
    /\ active = [b \in Builds |-> NoEntry]
    /\ crs = [b \in Builds |-> NoCR]
    /\ pods = [b \in Builds |-> None]
    /\ receipts = {} /\ used = {}
    /\ pc = [p \in Procs |-> "idle"] /\ task = [p \in Procs |-> "none"]
    /\ job = [p \in Procs |-> None] /\ tok = [p \in Procs |-> None]
    /\ current = {} /\ seen = {}
    /\ lateWrites = {} /\ lateReceipts = {} /\ latePods = {}

----------------------------------------------------------------------------
(* Control of one process, and the two optimistic locks.                   *)

Goto(p, l) ==
    /\ pc' = [pc EXCEPT ![p] = l]
    /\ UNCHANGED <<task, job, tok>>

Return(p) ==
    /\ pc' = [pc EXCEPT ![p] = "idle"]
    /\ task' = [task EXCEPT ![p] = "none"]
    /\ job' = [job EXCEPT ![p] = None]
    /\ tok' = [tok EXCEPT ![p] = None]

Begin(p, b, t, l) ==
    /\ pc[p] = "idle"
    /\ pc' = [pc EXCEPT ![p] = l]
    /\ task' = [task EXCEPT ![p] = t]
    /\ job' = [job EXCEPT ![p] = b]
    /\ seen' = seen \cup {p}
    /\ UNCHANGED <<tok, ledgerVars, crs, effectVars, used>>

NoWrite == UNCHANGED <<active, lateWrites>>

Hold(p) == current' = current \cup {p} /\ NoWrite

Drop(p) == current' = current \ {p} /\ NoWrite

(* The early returns, with or without an error: nothing is written.        *)
Refuse(p) == Return(p) /\ Drop(p) /\ seen' = seen \ {p} /\ UNCHANGED crs

(* The check passed: go on to the write, with the version just read.       *)
Propose(p, l) == Goto(p, l) /\ Hold(p) /\ UNCHANGED crVars

Proceed(p, l) == Goto(p, l) /\ UNCHANGED <<ledgerVars, crVars>>

(* Mutant: an update without a resourceVersion invalidates nobody's copy.  *)
CommitUnconditional(b, e) ==
    /\ active' = [active EXCEPT ![b] = e]
    /\ UNCHANGED <<current, lateWrites>>

Commit(b, e) ==
    /\ active' = [active EXCEPT ![b] = e]
    /\ current' = {}
    /\ lateWrites' = {}

Leave(p, l) == IF l = "idle" THEN Return(p) ELSE Goto(p, l)

(* writeReservations: committed; a conflict, and the loop reads again; or  *)
(* the response is lost and the update is committed, on its way or lost.   *)
(* A lost response without a lookup ends the call ("idle").                *)
Update(p, b, e, next, retry, lost) ==
    /\ \/ p \in current /\ Commit(b, e) /\ Goto(p, next) /\ UNCHANGED seen
       \/ p \notin current /\ Goto(p, retry) /\ UNCHANGED <<ledgerVars, seen>>
       \/ /\ Leave(p, lost)
          /\ seen' = IF lost = "idle" THEN seen \ {p} ELSE seen
          /\ \/ p \in current /\ Commit(b, e)
             \/ /\ p \in current
                /\ lateWrites' = lateWrites \cup {<<b, e>>}
                /\ current' = current \ {p}
                /\ UNCHANGED active
             \/ Drop(p)
    /\ UNCHANGED <<crs, effectVars, used>>

(* Every change of a KovaBuild moves its resourceVersion.                  *)
SetCR(b, c, keep) ==
    /\ crs' = [crs EXCEPT ![b] = c]
    /\ seen' = (seen \ {p \in Procs : job[p] = b}) \cup keep

(* A read failed, a Genesis check refused, the attempts ran out, capacity  *)
(* was missing, the local coordinator deferred, the process crashed.       *)
Abort(p) ==
    /\ pc[p] # "idle"
    /\ Refuse(p)
    /\ UNCHANGED <<effectVars, used>>

----------------------------------------------------------------------------
(* startBuild: the grant.                                                  *)

Charged == {b \in Builds : Held(b)}

UsedSlots == MapThenSumSet(LAMBDA b : active[b].slots, Builds)

(* Mutant: capacity is counted by phases instead of charges.               *)
MayGrantByPhase(b) ==
    LET busy == {c \in Builds : crs[c].phase = "active"} IN
    /\ Cardinality(busy) < MaxJobs
    /\ Cardinality({c \in busy : Owner[c] = Owner[b]}) < MaxPerRequester
    /\ UsedSlots < WorkerSlots

(* saturatedAdmission and decideAdmission, without the fair order that     *)
(* FairQueue describes: a grant fits into all three limits, and takes what *)
(* was asked for or less.                                                  *)
MayGrant(b) ==
    /\ Cardinality(Charged) < MaxJobs
    /\ Cardinality({c \in Charged : Owner[c] = Owner[b]}) < MaxPerRequester
    /\ UsedSlots < WorkerSlots

(* ensureNoUnreservedRunner *)
NoUnreservedRunner ==
    \A b \in Builds :
       /\ crs[b].phase = "active" => Held(b)
       /\ pods[b] # None => Exists(b) /\ Held(b)

(* verifyPinnedGrant *)
GrantVerified(b) ==
    ~active[b].closing /\ active[b].gs = "pinned" /\ active[b].grant \in receipts

ProposeWith(p, l, n) ==
    /\ pc' = [pc EXCEPT ![p] = l]
    /\ tok' = [tok EXCEPT ![p] = n]
    /\ Hold(p)
    /\ UNCHANGED <<task, job, crVars>>

(* newPodCreateAttempt, once for each call that needs a nonce.  A start    *)
(* for which the bound leaves no nonce ends here.                          *)
ProposeFresh(p, l) ==
    \/ tok[p] # None /\ Propose(p, l) /\ UNCHANGED used
    \/ \E n \in Nonces \ used :
          tok[p] = None /\ ProposeWith(p, l, n) /\ used' = used \cup {n}
    \/ tok[p] = None /\ Nonces \subseteq used /\ Refuse(p) /\ UNCHANGED used

BeginStart(p, b) == Live(b) /\ Begin(p, b, "start", "admit")

(* admission: an existing grant is kept if it is still good; a new one is  *)
(* proposed with the ledger version read here.                             *)
AdmitRead(p) ==
    LET b == job[p] IN
    /\ pc[p] = "admit"
    /\ CASE Live(b) /\ NoUnreservedRunner /\ Held(b) /\ ~active[b].closing
                /\ (Genesis => GrantVerified(b)) ->
              Proceed(p, "pod") /\ UNCHANGED used
         [] Live(b) /\ NoUnreservedRunner /\ ~Held(b) /\ MayGrant(b) ->
              IF Genesis THEN ProposeFresh(p, "admitWrite")
                         ELSE Propose(p, "admitWrite") /\ UNCHANGED used
         [] OTHER -> Refuse(p) /\ UNCHANGED used
    /\ UNCHANGED effectVars

(* Mutant: the allocation is not cut down to the free slots.               *)
AdmitUncapped(p) ==
    /\ pc[p] = "admitWrite"
    /\ Update(p, job[p], NewEntry(Want[job[p]], tok[p]),
              IF Genesis THEN "arm" ELSE "pod", "admit", "idle")

AdmitWrite(p) ==
    /\ pc[p] = "admitWrite"
    /\ \E s \in 1..Want[job[p]] :
          /\ p \in current => s <= WorkerSlots - UsedSlots
          /\ Update(p, job[p], NewEntry(s, tok[p]),
                    IF Genesis THEN "arm" ELSE "pod", "admit", "idle")

----------------------------------------------------------------------------
(* finishFreshGrant: the grant receipt of Genesis mode.                    *)

(* The ledger still shows this grant, with the receipt at one of stages S. *)
SameGrant(p, S) ==
    /\ Held(job[p]) /\ active[job[p]].grant = tok[p]
    /\ active[job[p]].gs \in S

Arm(p) ==
    /\ pc[p] = "arm"
    /\ IF SameGrant(p, {"none"}) /\ ~active[job[p]].closing /\ Live(job[p])
       THEN Propose(p, "armWrite") ELSE Refuse(p)
    /\ UNCHANGED <<effectVars, used>>

ArmWrite(p) ==
    /\ pc[p] = "armWrite"
    /\ Update(p, job[p], [active[job[p]] EXCEPT !.gs = "armed"],
              "armConfirm", "arm", "idle")

ArmConfirm(p) ==
    /\ pc[p] = "armConfirm"
    /\ IF SameGrant(p, {"armed"}) /\ ~active[job[p]].closing /\ Live(job[p])
       THEN Proceed(p, "grantReceipt") ELSE Refuse(p)
    /\ UNCHANGED <<effectVars, used>>

(* recordEffectOnce: one Create and one read.  The read finds the receipt, *)
(* or the Create is still on its way and this process gives up.            *)
RecordOnce(p, next) ==
    /\ \/ /\ receipts' = receipts \cup {tok[p]}
          /\ Proceed(p, next)
          /\ UNCHANGED lateReceipts
       \/ /\ lateReceipts' = lateReceipts \cup {tok[p]}
          /\ Refuse(p)
          /\ UNCHANGED receipts
    /\ UNCHANGED <<pods, latePods, used>>

RecordGrantOnce(p) == pc[p] = "grantReceipt" /\ RecordOnce(p, "grantPin")

(* pinGrantReceipt, for a fresh grant and for a release that observed the  *)
(* receipt of an armed one.                                                *)
GrantPin(p) ==
    /\ pc[p] = "grantPin"
    /\ CASE SameGrant(p, {"armed"}) -> Propose(p, "grantPinWrite")
         [] SameGrant(p, {"pinned"}) -> Proceed(p, "grantConfirm")
         [] OTHER -> Refuse(p)
    /\ UNCHANGED <<effectVars, used>>

GrantPinWrite(p) ==
    /\ pc[p] = "grantPinWrite"
    /\ Update(p, job[p], [active[job[p]] EXCEPT !.gs = "pinned"],
              "grantConfirm", "grantPin", "grantConfirm")

GrantConfirm(p) ==
    /\ pc[p] = "grantConfirm"
    /\ CASE ~SameGrant(p, {"pinned", "cleanup"}) -> Refuse(p)
         [] task[p] # "start" -> Proceed(p, "release")
         [] Live(job[p]) /\ GrantVerified(job[p]) -> Proceed(p, "pod")
         [] OTHER -> Refuse(p)
    /\ UNCHANGED <<effectVars, used>>

----------------------------------------------------------------------------
(* startBuild: the one Pod Create of an attempt.                           *)

GotoWith(p, l, n) ==
    /\ pc' = [pc EXCEPT ![p] = l]
    /\ tok' = [tok EXCEPT ![p] = n]
    /\ UNCHANGED <<task, job, ledgerVars, crVars>>

(* qualifyGenesisPod *)
Qualified(b) ==
    /\ Held(b) /\ pods[b] # None /\ active[b].attempt = pods[b]
    /\ active[b].ps \in {"pinned", "cleanup"} /\ pods[b] \in receipts

(* getOwnedPod: a Pod of an earlier attempt is adopted, never created anew.*)
GetOwnedPod(p) ==
    LET b == job[p] IN
    /\ pc[p] = "pod"
    /\ CASE pods[b] = None -> GotoWith(p, "begin", None)
         [] pods[b] # None /\ (Genesis => Qualified(b) /\ ~active[b].closing) ->
              GotoWith(p, "complete", pods[b])
         [] OTHER -> Refuse(p)
    /\ UNCHANGED <<effectVars, used>>

(* Mutant: an attempt in flight is replaced by a new one.                  *)
BeginPodAgain(p) ==
    /\ pc[p] = "begin"
    /\ IF Live(job[p]) /\ Held(job[p]) /\ ~active[job[p]].closing
       THEN ProposeFresh(p, "beginWrite")
       ELSE Refuse(p) /\ UNCHANGED used
    /\ UNCHANGED effectVars

(* beginPodCreate: the nonce is durable before the Create is issued.       *)
BeginPod(p) ==
    LET e == active[job[p]] IN
    /\ pc[p] = "begin"
    /\ IF /\ Live(job[p]) /\ Held(job[p]) /\ ~e.closing /\ e.inflight = None
          /\ Genesis => GrantVerified(job[p]) /\ e.attempt = None
       THEN ProposeFresh(p, "beginWrite")
       ELSE Refuse(p) /\ UNCHANGED used
    /\ UNCHANGED effectVars

(* Mutant: the Create is issued before its receipt exists.                 *)
AfterBeginAtOnce == "create"

AfterBegin == IF Genesis THEN "podArm" ELSE "create"

BeginPodWrite(p) ==
    LET e == active[job[p]] IN
    /\ pc[p] = "beginWrite"
    /\ Update(p, job[p],
              IF Genesis THEN [e EXCEPT !.attempt = tok[p]]
                         ELSE [e EXCEPT !.inflight = tok[p]],
              AfterBegin, "begin", "beginLookup")

(* podCreateAttemptRecorded resolves a lost response for its own caller.   *)
BeginPodLookup(p) ==
    LET e == active[job[p]] IN
    /\ pc[p] = "beginLookup"
    /\ IF Held(job[p]) /\ (IF Genesis THEN e.attempt ELSE e.inflight) = tok[p]
       THEN Proceed(p, AfterBegin) ELSE Refuse(p)
    /\ UNCHANGED <<effectVars, used>>

(* The ledger still shows this attempt, with its receipt at one of S.      *)
SameAttempt(p, S) ==
    /\ Held(job[p]) /\ active[job[p]].attempt = tok[p]
    /\ active[job[p]].ps \in S

Open(p) == ~active[job[p]].closing /\ active[job[p]].inflight = None

PodArm(p) ==
    /\ pc[p] = "podArm"
    /\ IF SameAttempt(p, {"none"}) /\ Open(p) /\ Live(job[p]) /\ GrantVerified(job[p])
       THEN Propose(p, "podArmWrite") ELSE Refuse(p)
    /\ UNCHANGED <<effectVars, used>>

PodArmWrite(p) ==
    /\ pc[p] = "podArmWrite"
    /\ Update(p, job[p], [active[job[p]] EXCEPT !.ps = "armed"],
              "podArmConfirm", "podArm", "idle")

PodArmConfirm(p) ==
    /\ pc[p] = "podArmConfirm"
    /\ IF SameAttempt(p, {"armed"}) /\ Open(p) /\ Live(job[p])
       THEN Proceed(p, "podReceipt") ELSE Refuse(p)
    /\ UNCHANGED <<effectVars, used>>

RecordPodCreateOnce(p) == pc[p] = "podReceipt" /\ RecordOnce(p, "podPin")

PodPin(p) ==
    /\ pc[p] = "podPin"
    /\ CASE SameAttempt(p, {"armed"}) -> Propose(p, "podPinWrite")
         [] SameAttempt(p, {"pinned"}) -> Proceed(p, "podConfirm")
         [] OTHER -> Refuse(p)
    /\ UNCHANGED <<effectVars, used>>

PodPinWrite(p) ==
    /\ pc[p] = "podPinWrite"
    /\ Update(p, job[p], [active[job[p]] EXCEPT !.ps = "pinned"],
              "podConfirm", "podPin", "podConfirm")

PodConfirm(p) ==
    /\ pc[p] = "podConfirm"
    /\ IF SameAttempt(p, {"pinned", "cleanup"})
       THEN Proceed(p, IF task[p] = "start" THEN "issue" ELSE "release")
       ELSE Refuse(p)
    /\ UNCHANGED <<effectVars, used>>

(* authorizeFreshPodCreate: the issue fence.                               *)
Issue(p) ==
    /\ pc[p] = "issue"
    /\ IF /\ SameAttempt(p, {"pinned"}) /\ Open(p) /\ Live(job[p])
          /\ GrantVerified(job[p]) /\ tok[p] \in receipts
       THEN Propose(p, "issueWrite") ELSE Refuse(p)
    /\ UNCHANGED <<effectVars, used>>

IssueWrite(p) ==
    /\ pc[p] = "issueWrite"
    /\ Update(p, job[p], [active[job[p]] EXCEPT !.inflight = tok[p]],
              "issueConfirm", "issue", "issueConfirm")

(* Mutant: a lost response of the issue fence is taken for success.        *)
IssueUnconfirmed(p) ==
    /\ pc[p] = "issueConfirm"
    /\ Proceed(p, "create")
    /\ UNCHANGED <<effectVars, used>>

(* freshIssueRecorded *)
IssueConfirm(p) ==
    /\ pc[p] = "issueConfirm"
    /\ IF SameAttempt(p, {"pinned"}) /\ ~active[job[p]].closing
             /\ active[job[p]].inflight = tok[p]
       THEN Proceed(p, "create") ELSE Refuse(p)
    /\ UNCHANGED <<effectVars, used>>

(* r.Create of the runner Pod.  The API server refuses a second Pod of the *)
(* name; the attempt is the Pod's UID as far as this model can tell.       *)
Retask(p, t, l) ==
    /\ task' = [task EXCEPT ![p] = t]
    /\ pc' = [pc EXCEPT ![p] = l]
    /\ UNCHANGED <<job, tok, ledgerVars, crVars>>

CreatePod(p) ==
    LET b == job[p] IN
    /\ pc[p] = "create"
    /\ \/ /\ pods[b] = None
          /\ pods' = [pods EXCEPT ![b] = tok[p]]
          /\ Proceed(p, IF Genesis THEN "qualify" ELSE "complete")
          /\ UNCHANGED latePods
       \/ /\ pods[b] # None                    \* AlreadyExists
          /\ IF Genesis THEN Proceed(p, "qualify") ELSE Retask(p, "dup", "complete")
          /\ UNCHANGED <<pods, latePods>>
       \/ /\ Retask(p, "reject", "complete")   \* definitivePodCreateRejection
          /\ UNCHANGED <<pods, latePods>>
       \/ /\ Retask(p, "fail", "finish")       \* RunnerCreateOutcomeUnknown
          /\ \/ /\ pods' = IF pods[b] = None THEN [pods EXCEPT ![b] = tok[p]] ELSE pods
                /\ UNCHANGED latePods
             \/ latePods' = latePods \cup {<<b, tok[p]>>} /\ UNCHANGED pods
             \/ UNCHANGED <<pods, latePods>>
    /\ UNCHANGED <<receipts, lateReceipts, used>>

QualifyPod(p) ==
    /\ pc[p] = "qualify"
    /\ IF /\ pods[job[p]] = tok[p] /\ Qualified(job[p])
          /\ ~active[job[p]].closing
       THEN Proceed(p, "complete") ELSE Refuse(p)
    /\ UNCHANGED <<effectVars, used>>

(* What follows completePodCreate in each of its callers.                  *)
AfterComplete(t) ==
    CASE t = "start" -> "starting"
      [] t = "dup" -> "observed"
      [] t = "reject" -> "finish"
      [] OTHER -> "deletePod"

Spent(p) == SameAttempt(p, {"pinned", "cleanup"})

(* completePodCreate and completeGenesisPodCreate                          *)
CompletePodCreate(p) ==
    LET e == active[job[p]]
        done == IF Genesis THEN Spent(p) /\ e.inflight = None
                           ELSE Held(job[p]) /\ e.inflight # tok[p]
        mine == /\ Held(job[p]) /\ e.inflight = tok[p]
                /\ Genesis => Spent(p) /\ tok[p] \in receipts
    IN
    /\ pc[p] = "complete"
    /\ CASE done -> Proceed(p, AfterComplete(task[p]))
         [] mine -> Propose(p, "completeWrite")
         [] OTHER -> Refuse(p)
    /\ UNCHANGED <<effectVars, used>>

CompleteWrite(p) ==
    /\ pc[p] = "completeWrite"
    /\ Update(p, job[p], [active[job[p]] EXCEPT !.inflight = None],
              AfterComplete(task[p]), "complete", "completeLookup")

CompleteLookup(p) ==
    LET e == active[job[p]] IN
    /\ pc[p] = "completeLookup"
    /\ IF IF Genesis THEN Spent(p) /\ e.inflight = None
                     ELSE Held(job[p]) /\ e.inflight # tok[p]
       THEN Proceed(p, AfterComplete(task[p])) ELSE Refuse(p)
    /\ UNCHANGED <<effectVars, used>>

(* After AlreadyExists the attempt stamped on the Pod is completed too.    *)
CompleteObserved(p) ==
    /\ pc[p] = "observed"
    /\ task' = [task EXCEPT ![p] = "start"]
    /\ IF pods[job[p]] = None
       THEN pc' = [pc EXCEPT ![p] = "starting"] /\ UNCHANGED tok
       ELSE /\ pc' = [pc EXCEPT ![p] = "complete"]
            /\ tok' = [tok EXCEPT ![p] = pods[job[p]]]
    /\ UNCHANGED <<job, ledgerVars, crVars, effectVars, used>>

(* Status().Update or Update with the copy this process read: a conflict   *)
(* ends the reconcile.  A write in flight after its caller gave up is the  *)
(* same as a caller that pauses before it.                                 *)
WriteAnd(p, c, l) ==
    IF p \in seen
    THEN /\ Leave(p, l)
         /\ SetCR(job[p], c, IF l = "idle" THEN {} ELSE {p})
         /\ Drop(p)
    ELSE Refuse(p)

(* The Starting status; in Genesis mode with the witness of the Pod.       *)
Starting(p) ==
    LET b == job[p] IN
    /\ pc[p] = "starting"
    /\ IF Genesis => Qualified(b) /\ ~active[b].closing
       THEN WriteAnd(p, [crs[b] EXCEPT !.phase = "active",
                            !.witness = IF Genesis THEN pods[b] ELSE None], "idle")
       ELSE Refuse(p)
    /\ UNCHANGED <<effectVars, used>>

(* finish: a terminal phase.  reconcileDelete goes on to the release.      *)
Finish(p) ==
    /\ pc[p] = "finish"
    /\ WriteAnd(p, [crs[job[p]] EXCEPT !.phase = "terminal"],
                IF task[p] = "delete" THEN "release" ELSE "idle")
    /\ UNCHANGED <<effectVars, used>>

----------------------------------------------------------------------------
(* Cancellation, expiry, terminal cleanup and deletion.                    *)

Nonterminal(b) == crs[b].phase \in {"queued", "active"}

BeginCancel(p, b) ==
    /\ Nonterminal(b) /\ crs[b].cancel /\ ~crs[b].deleting
    /\ Genesis => crs[b].witness = None
    /\ Begin(p, b, "cancel", "fence")

(* expireActiveBuild and the poll window of retryStatusObservation stop    *)
(* the runner and fail the build without a fence of their own.             *)
BeginExpire(p, b) ==
    /\ ~Genesis /\ crs[b].phase = "active" /\ ~crs[b].deleting
    /\ Begin(p, b, "cancel", "podCheck")

BeginTerminal(p, b) ==
    /\ crs[b].phase = "terminal" /\ ~crs[b].deleting
    /\ Begin(p, b, "terminal", "fence")

BeginDelete(p, b) ==
    /\ Exists(b) /\ crs[b].deleting
    /\ Genesis /\ crs[b].witness # None => crs[b].phase = "terminal"
    /\ Begin(p, b, "delete", "fence")

(* Mutant: without an entry there is nothing to fence.                     *)
FenceEntryOnly(p) ==
    /\ pc[p] = "fence"
    /\ IF Held(job[p]) THEN Propose(p, "fenceWrite") ELSE Proceed(p, "podCheck")
    /\ UNCHANGED <<effectVars, used>>

(* fenceReservation commits even when there is no entry to close.          *)
Fence(p) ==
    /\ pc[p] = "fence"
    /\ Propose(p, "fenceWrite")
    /\ UNCHANGED <<effectVars, used>>

FenceWrite(p) ==
    /\ pc[p] = "fenceWrite"
    /\ Update(p, job[p],
              IF Held(job[p]) THEN [active[job[p]] EXCEPT !.closing = TRUE] ELSE NoEntry,
              IF task[p] = "stop" THEN "stopIntent" ELSE "podCheck", "fence", "idle")

(* What follows the absence of the Pod in each caller.                     *)
AfterGone(p) ==
    CASE task[p] = "stop" -> "stopFinish"
      [] task[p] = "cancel" -> "finish"
      [] OTHER -> IF crs[job[p]].phase = "terminal" THEN "release" ELSE "finish"

(* deleteOwnedRunnerPodAndConfirm may go on, in Genesis mode.              *)
MayStop(b) ==
    /\ crs[b].phase = "terminal" \/ crs[b].stop
    /\ pods[b] = crs[b].witness /\ Qualified(b) /\ active[b].closing

(* Mutant: the absence of the Pod is reported as an error.                 *)
RunnerCheckNeedsPod(p) ==
    LET b == job[p] IN
    /\ pc[p] = "podCheck"
    /\ IF pods[b] # None /\ (Genesis => MayStop(b))
       THEN GotoWith(p, "complete", pods[b]) ELSE Refuse(p)
    /\ UNCHANGED <<effectVars, used>>

(* deleteRunnerAndConfirm: in Genesis mode the absence of the Pod of a     *)
(* build with a witness means something only after a terminal result.      *)
RunnerCheck(p) ==
    LET b == job[p]
        gone == pods[b] = None /\ (Genesis /\ crs[b].witness # None => crs[b].phase = "terminal")
    IN
    /\ pc[p] = "podCheck"
    /\ CASE gone -> Proceed(p, AfterGone(p))
         [] pods[b] # None /\ (Genesis => MayStop(b)) -> GotoWith(p, "complete", pods[b])
         [] OTHER -> Refuse(p)
    /\ UNCHANGED <<effectVars, used>>

(* DeletePodWithUID, and the read that confirms it.                        *)
DeletePod(p) ==
    LET b == job[p] IN
    /\ pc[p] = "deletePod"
    /\ IF pods[b] \in {tok[p], None}
       THEN pods' = [pods EXCEPT ![b] = None] /\ Proceed(p, AfterGone(p))
       ELSE Refuse(p) /\ UNCHANGED pods
    /\ UNCHANGED <<receipts, lateReceipts, latePods, used>>

----------------------------------------------------------------------------
(* releaseReservation.  In Genesis mode each pass takes one receipt one    *)
(* stage further: an armed one is observed and pinned, a pinned one marked *)
(* for cleanup, a marked one deleted.  The Pod's receipt goes first.       *)

(* Mutant: an armed receipt that is not found is taken for never created.  *)
ReleaseReceiptAbsent(p, s, n, pin, mark, delete) ==
    CASE s = "armed" /\ n \in receipts -> GotoWith(p, pin, n)
      [] s = "pinned" /\ n \in receipts -> ProposeWith(p, mark, n)
      [] s = "cleanup" -> ProposeWith(p, delete, n)
      [] OTHER -> Propose(p, "remove")

(* releaseGenesisPodReceipt or releaseGenesisGrantReceipt, for the receipt *)
(* of nonce n at stage s.                                                  *)
ReleaseReceipt(p, s, n, pin, mark, delete) ==
    CASE s = "armed" /\ n \in receipts -> GotoWith(p, pin, n)
      [] s = "pinned" /\ n \in receipts -> ProposeWith(p, mark, n)
      [] s = "cleanup" -> ProposeWith(p, delete, n)
      [] OTHER -> Refuse(p)

(* Mutant: the attempt in flight does not hold the charge.                 *)
ReleasableInFlight(b) ==
    /\ active[b].closing /\ pods[b] = None
    /\ Genesis => crs[b].phase = "terminal" \/ crs[b].deleting

Releasable(b) ==
    /\ active[b].closing /\ active[b].inflight = None /\ pods[b] = None
    /\ Genesis => crs[b].phase = "terminal" \/ crs[b].deleting

(* Mutant: the grant's receipt goes before the Pod's.                      *)
ReleaseGrantFirst(p) ==
    LET b == job[p]
        e == active[b]
    IN
    /\ pc[p] = "release"
    /\ CASE ~Held(b) -> Proceed(p, "released")
         [] Held(b) /\ ~Releasable(b) -> Refuse(p)
         [] Held(b) /\ Releasable(b) /\ e.gs # "none" ->
              ReleaseReceipt(p, e.gs, e.grant, "grantPin", "grantMark", "grantDelete")
         [] OTHER -> Propose(p, "remove")
    /\ UNCHANGED <<effectVars, used>>

Release(p) ==
    LET b == job[p]
        e == active[b]
    IN
    /\ pc[p] = "release"
    /\ CASE ~Held(b) -> Proceed(p, "released")
         [] Held(b) /\ ~Releasable(b) -> Refuse(p)
         [] Held(b) /\ Releasable(b) /\ e.ps # "none" ->
              ReleaseReceipt(p, e.ps, e.attempt, "podPin", "podMark", "podDelete")
         [] Held(b) /\ Releasable(b) /\ e.ps = "none" /\ e.gs # "none" ->
              ReleaseReceipt(p, e.gs, e.grant, "grantPin", "grantMark", "grantDelete")
         [] OTHER -> Propose(p, "remove")
    /\ UNCHANGED <<effectVars, used>>

PodMark(p) ==
    /\ pc[p] = "podMark"
    /\ Update(p, job[p], [active[job[p]] EXCEPT !.ps = "cleanup"],
              "release", "release", "idle")

GrantMark(p) ==
    /\ pc[p] = "grantMark"
    /\ Update(p, job[p], [active[job[p]] EXCEPT !.gs = "cleanup"],
              "release", "release", "idle")

(* deletePinnedPodReceipt; the grant's receipt follows in the same pass    *)
(* with the version already read.  A stale version ends in a conflict.     *)
PodReceiptDelete(p) ==
    /\ pc[p] = "podDelete"
    /\ receipts' = receipts \ {tok[p]}
    /\ pc' = [pc EXCEPT ![p] = CASE active[job[p]].gs = "cleanup" -> "grantDelete"
                                 [] active[job[p]].gs = "pinned" -> "grantMark"
                                 [] OTHER -> "remove"]
    /\ tok' = [tok EXCEPT ![p] = active[job[p]].grant]
    /\ UNCHANGED <<task, job, ledgerVars, crVars, pods, lateReceipts, latePods, used>>

GrantReceiptDelete(p) ==
    /\ pc[p] = "grantDelete"
    /\ receipts' = receipts \ {tok[p]}
    /\ Proceed(p, "remove")
    /\ UNCHANGED <<pods, lateReceipts, latePods, used>>

RemoveWrite(p) ==
    /\ pc[p] = "remove"
    /\ Update(p, job[p], NoEntry, "released", "release", "idle")

(* The queue intent is released here (see QueueAdmission); reconcileDelete *)
(* then removes the finalizer and the object disappears.                   *)
Released(p) ==
    /\ pc[p] = "released"
    /\ IF task[p] = "delete"
       THEN WriteAnd(p, [crs[job[p]] EXCEPT !.phase = "gone"], "idle")
       ELSE Refuse(p)
    /\ UNCHANGED <<effectVars, used>>

----------------------------------------------------------------------------
(* The forced stop of a witnessed Genesis runner.                          *)

(* stopGenesisRunner, for a cancellation, a deletion or an expiry.         *)
BeginStop(p, b) ==
    /\ Genesis /\ crs[b].phase = "active" /\ ~crs[b].stop
    /\ pods[b] # None /\ pods[b] = crs[b].witness /\ Held(b)
    /\ Begin(p, b, "stop", "fence")

(* The stop intent becomes durable under a fenced charge.                  *)
StopIntent(p) ==
    LET b == job[p] IN
    /\ pc[p] = "stopIntent"
    /\ IF Held(b) /\ active[b].closing
       THEN WriteAnd(p, [crs[b] EXCEPT !.stop = TRUE], "resume")
       ELSE Refuse(p)
    /\ UNCHANGED <<effectVars, used>>

BeginResume(p, b) ==
    /\ Genesis /\ crs[b].stop /\ Nonterminal(b)
    /\ Begin(p, b, "stop", "resume")

ResumeStop(p) ==
    LET b == job[p]
        fenced == crs[b].stop /\ Nonterminal(b) /\ Held(b) /\ active[b].closing
    IN
    /\ pc[p] = "resume"
    /\ CASE fenced /\ pods[b] = None -> Proceed(p, "stopFinish")
         [] fenced /\ pods[b] # None /\ MayStop(b) -> GotoWith(p, "complete", pods[b])
         [] OTHER -> Refuse(p)
    /\ UNCHANGED <<effectVars, used>>

(* finishGenesisStopped reads the KovaBuild again before it writes.        *)
FinishStopped(p) ==
    LET b == job[p] IN
    /\ pc[p] = "stopFinish"
    /\ IF /\ crs[b].stop /\ Nonterminal(b) /\ pods[b] = None
          /\ Held(b) /\ active[b].closing /\ active[b].inflight = None
       THEN /\ SetCR(b, [crs[b] EXCEPT !.phase = "terminal"], {})
            /\ Return(p) /\ Drop(p)
       ELSE Refuse(p)
    /\ UNCHANGED <<effectVars, used>>

----------------------------------------------------------------------------
(* Users, the runner, the rest of the reconciler and the API server.       *)

World(b, c) ==
    /\ SetCR(b, c, {})
    /\ UNCHANGED <<pc, task, job, tok, ledgerVars, effectVars, used>>

(* The object with its cleanup finalizer, which precedes every grant.      *)
CreateBuild(b) == crs[b].phase = "new" /\ World(b, [NoCR EXCEPT !.phase = "queued"])

(* handleCancelBuild *)
Cancel(b) == Nonterminal(b) /\ ~crs[b].cancel /\ World(b, [crs[b] EXCEPT !.cancel = TRUE])

(* A user's delete, or the JobTTL delete of reconcileTerminal.             *)
Delete(b) == Exists(b) /\ ~crs[b].deleting /\ World(b, [crs[b] EXCEPT !.deleting = TRUE])

(* finish for an invalid queued build, or after the observation of a       *)
(* runner: pollBuild, submitWhenReady and the verification phases.  Any    *)
(* Pod they looked at may be gone again when the status is written.        *)
FinishRun(b) ==
    /\ Nonterminal(b) /\ ~crs[b].deleting /\ ~crs[b].stop
    /\ World(b, [crs[b] EXCEPT !.phase = "terminal"])

(* Eviction, node loss, or a Delete whose caller gave up.                  *)
PodVanish(b) ==
    /\ pods[b] # None
    /\ pods' = [pods EXCEPT ![b] = None]
    /\ UNCHANGED <<pc, task, job, tok, ledgerVars, crVars, receipts, lateReceipts,
                   latePods, used>>

DeliverWrite(b, e) ==
    /\ Commit(b, e)
    /\ UNCHANGED <<pc, task, job, tok, crVars, effectVars, used>>

DeliverReceipt(n) ==
    /\ receipts' = receipts \cup {n}
    /\ lateReceipts' = lateReceipts \ {n}
    /\ UNCHANGED <<pc, task, job, tok, ledgerVars, crVars, pods, latePods, used>>

DeliverPod(b, n) ==
    /\ latePods' = latePods \ {<<b, n>>}
    /\ pods' = IF pods[b] = None THEN [pods EXCEPT ![b] = n] ELSE pods
    /\ UNCHANGED <<pc, task, job, tok, ledgerVars, crVars, receipts, lateReceipts, used>>

----------------------------------------------------------------------------

StartStep(p) ==
    \/ \E b \in Builds : BeginStart(p, b)
    \/ AdmitRead(p) \/ AdmitWrite(p)
    \/ GetOwnedPod(p) \/ BeginPod(p) \/ BeginPodWrite(p) \/ BeginPodLookup(p)
    \/ CreatePod(p) \/ QualifyPod(p) \/ CompleteObserved(p)
    \/ Starting(p)

ReceiptStep(p) ==
    \/ Arm(p) \/ ArmWrite(p) \/ ArmConfirm(p) \/ RecordGrantOnce(p)
    \/ GrantPin(p) \/ GrantPinWrite(p) \/ GrantConfirm(p)
    \/ PodArm(p) \/ PodArmWrite(p) \/ PodArmConfirm(p) \/ RecordPodCreateOnce(p)
    \/ PodPin(p) \/ PodPinWrite(p) \/ PodConfirm(p)
    \/ Issue(p) \/ IssueWrite(p) \/ IssueConfirm(p)

CleanupStep(p) ==
    \/ \E b \in Builds : \/ BeginCancel(p, b) \/ BeginExpire(p, b)
                         \/ BeginTerminal(p, b) \/ BeginDelete(p, b)
    \/ Fence(p) \/ FenceWrite(p) \/ RunnerCheck(p) \/ DeletePod(p)
    \/ CompletePodCreate(p) \/ CompleteWrite(p) \/ CompleteLookup(p)
    \/ Finish(p) \/ Release(p) \/ RemoveWrite(p) \/ Released(p)
    \/ PodMark(p) \/ GrantMark(p) \/ PodReceiptDelete(p) \/ GrantReceiptDelete(p)

StopStep(p) ==
    \/ \E b \in Builds : BeginStop(p, b) \/ BeginResume(p, b)
    \/ StopIntent(p) \/ ResumeStop(p) \/ FinishStopped(p)

Environment ==
    \/ \E b \in Builds : \/ CreateBuild(b) \/ Cancel(b) \/ Delete(b)
                         \/ FinishRun(b) \/ PodVanish(b)
    \/ \E u \in lateWrites : DeliverWrite(u[1], u[2])
    \/ \E n \in lateReceipts : DeliverReceipt(n)
    \/ \E u \in latePods : DeliverPod(u[1], u[2])

Reconcile(p) == StartStep(p) \/ ReceiptStep(p) \/ CleanupStep(p) \/ StopStep(p)

Next ==
    \/ \E p \in Procs : Reconcile(p) \/ Abort(p)
    \/ Environment

Spec == Init /\ [][Next]_vars

----------------------------------------------------------------------------
(* Fairness: a reconcile that failed is requeued and goes on, and from     *)
(* some time on the API server answers.  Nothing is assumed of users or of *)
(* requests already given up.                                              *)

(* A write that is not in conflict commits, and its caller learns of it.   *)
Answered(p) ==
    pc[p] \in {"admitWrite", "armWrite", "grantPinWrite", "beginWrite", "podArmWrite",
               "podPinWrite", "issueWrite", "completeWrite", "fenceWrite", "podMark",
               "grantMark", "remove"} =>
       pc'[p] # "idle" /\ (p \in current => current' = {})

Calm == (\E p \in Procs : Reconcile(p) /\ Answered(p)) \/ Environment

FairSpec ==
    /\ Spec
    /\ \A p \in Procs : WF_vars(Reconcile(p))
    /\ <>[][Calm]_vars

----------------------------------------------------------------------------
(* Properties.                                                             *)

PCs == {"idle", "admit", "admitWrite", "arm", "armWrite", "armConfirm",
        "grantReceipt", "grantPin", "grantPinWrite", "grantConfirm", "pod",
        "begin", "beginWrite", "beginLookup", "podArm", "podArmWrite",
        "podArmConfirm", "podReceipt", "podPin", "podPinWrite", "podConfirm",
        "issue", "issueWrite", "issueConfirm", "create", "qualify", "complete",
        "completeWrite", "completeLookup", "observed", "starting", "finish",
        "fence", "fenceWrite", "podCheck", "deletePod", "release", "podMark",
        "grantMark", "podDelete", "grantDelete", "remove", "released",
        "stopIntent", "resume", "stopFinish"}

Tasks == {"none", "start", "dup", "reject", "fail", "cancel", "terminal",
          "delete", "stop"}

(* Every variable has its type; an update in flight is a ledger entry.     *)
TypeOK ==
    /\ active \in [Builds -> Entry]
    /\ crs \in [Builds -> CR]
    /\ pods \in [Builds -> Nonces \cup {None}]
    /\ receipts \subseteq used /\ used \subseteq Nonces
    /\ pc \in [Procs -> PCs] /\ task \in [Procs -> Tasks]
    /\ job \in [Procs -> Builds \cup {None}]
    /\ tok \in [Procs -> Nonces \cup {None}]
    /\ current \subseteq Procs /\ seen \subseteq Procs
    /\ lateWrites \subseteq Builds \X Entry
    /\ lateReceipts \subseteq used
    /\ latePods \subseteq Builds \X used

PodInFlight(b) == \E n \in Nonces : <<b, n>> \in latePods

(* A build whose runner exists, can still appear, or is reported active.   *)
Running(b) == crs[b].phase = "active" \/ pods[b] # None \/ PodInFlight(b)

(* ensureNoUnreservedRunner never finds anything: a build that runs or may *)
(* still start to run keeps its KovaBuild and its charge, through lost     *)
(* responses, failover, late Pods, cancellation, expiry and deletion.      *)
RunningIsCharged == \A b \in Builds : Running(b) => Exists(b) /\ Held(b)

(* The configured limits bound the builds that run or may still start.     *)
RunningWithinLimits ==
    LET R == {b \in Builds : Running(b)} IN
    /\ Cardinality(R) <= MaxJobs
    /\ \A r \in Requesters : Cardinality({b \in R : Owner[b] = r}) <= MaxPerRequester
    /\ MapThenSumSet(LAMBDA b : active[b].slots, R) <= WorkerSlots

Pinned(s) == s \in {"pinned", "cleanup"}

(* validateReservationState: a state it rejects can be neither read nor    *)
(* written again, so no sequence of commits may ever reach one.            *)
LedgerValid ==
    /\ Cardinality(Charged) <= MaxJobs /\ UsedSlots <= WorkerSlots
    /\ \A r \in Requesters : Cardinality({b \in Charged : Owner[b] = r}) <= MaxPerRequester
    /\ \A b \in Charged :
          LET e == active[b] IN
          IF Genesis
          THEN /\ e.grant # None
               /\ e.gs = "cleanup" => e.closing /\ e.inflight = None /\ e.ps \in {"none", "cleanup"}
               /\ e.attempt = None => e.ps = "none"
               /\ e.ps # "none" => Pinned(e.gs)
               /\ e.ps = "cleanup" => e.closing /\ e.inflight = None
               /\ e.inflight # None => e.inflight = e.attempt /\ Pinned(e.ps)
          ELSE e.grant = None /\ e.attempt = None /\ e.gs = "none" /\ e.ps = "none"

(* Reconciles that are allowed to issue a Pod Create.                      *)
Creators(b) == {p \in Procs : job[p] = b /\ pc[p] = "create"}

(* A Pod Create that may still reach the API server, of a caller or of one *)
(* that gave up, is the one attempt recorded as in flight in the ledger.   *)
InFlightRecorded ==
    \A b \in Builds :
       /\ \A p \in Creators(b) : active[b].inflight = tok[p]
       /\ \A n \in Nonces : <<b, n>> \in latePods => active[b].inflight = n
       /\ PodInFlight(b) => Creators(b) = {}
       /\ Cardinality(Creators(b)) <= 1

(* In Genesis mode a runner is the Pod of the receipted attempt: the       *)
(* receipt exists before the Pod and while there is one.                   *)
RunnerIsReceipted ==
    Genesis => \A b \in Builds : pods[b] # None =>
                  /\ active[b].attempt = pods[b] /\ active[b].ps = "pinned"
                  /\ pods[b] \in receipts

(* No receipt is orphaned: whatever exists or may still be created is      *)
(* named by an entry that was armed for it.                                *)
ReceiptIsArmed ==
    \A n \in receipts \cup lateReceipts : \E b \in Builds :
       \/ active[b].grant = n /\ active[b].gs # "none"
       \/ active[b].attempt = n /\ active[b].ps # "none"

(* When the finalizer lets a KovaBuild go, nothing of it is left and       *)
(* nothing can come back: not even a grant a paused leader had read for.   *)
NothingLeftBehind ==
    \A b \in Builds : crs[b].phase = "gone" =>
       /\ ~Held(b) /\ pods[b] = None /\ ~PodInFlight(b)
       /\ \A u \in lateWrites : u[1] = b => u[2].slots = 0
       /\ \A p \in current : job[p] = b => pc[p] # "admitWrite"

(* Once closed, an entry can only lose its attempt and then disappear: no  *)
(* step of a paused leader reopens it or issues another Create.            *)
ClosingIsFinal ==
    [][\A b \in Builds : active[b].closing =>
          \/ ~Held(b)'
          \/ /\ active'[b].closing
             /\ active'[b].slots = active[b].slots
             /\ active'[b].inflight \in {active[b].inflight, None}]_vars

(* A finished build whose outcomes are all known (MCActiveLiveness).       *)
Settled(b) ==
    /\ crs[b].phase = "terminal"
    /\ Held(b) /\ active[b].closing /\ active[b].inflight = None
    /\ active[b].gs # "armed" /\ active[b].ps # "armed"
    /\ Genesis => pods[b] \in {None, crs[b].witness}

(* What docs/service-genesis-recovery-proposal.md, line 92, says of a      *)
(* deleted KovaBuild, for a runner whose Create is known to have worked:   *)
(* "Explicit CR deletion requests discard the result and use this stop     *)
(* path".  It fails in Genesis mode if the deletion (or a cancellation)    *)
(* comes between the Pod Create and the Starting status: that write        *)
(* conflicts, so the Pod never gets its witness, and without one neither   *)
(* the stop path nor deleteRunnerAndConfirm ever removes it.               *)
DeletionStopsRunner ==
    \A b \in Builds :
       (crs[b].deleting /\ pods[b] # None /\ active[b].inflight = None) ~> (pods[b] = None)
=============================================================================
