--------------------------- MODULE QueueAdmission ---------------------------
(***************************************************************************)
(* The HTTP queue of the Kova service: the queue ledger (one ConfigMap,    *)
(* changed only by resourceVersion compare-and-swap), the immutable queue  *)
(* receipts, and the KovaBuild objects that a POST /builds creates.        *)
(*                                                                         *)
(* Handlers are HTTP create requests being served by any replica; Workers  *)
(* are controller reconciles that release the queue intent of a build.     *)
(* Every step is one API call together with the local work around it, so   *)
(* the steps of different processes interleave between any two calls.      *)
(*                                                                         *)
(* A process that has read the ledger is in "current" until the next       *)
(* commit: its resourceVersion is then still the ledger's, what it read is *)
(* what the ledger holds, and its write commits; otherwise the write is a  *)
(* conflict and the loop reads again.  A request whose response was lost   *)
(* may take effect later: such requests are in the late* variables.        *)
(***************************************************************************)
EXTENDS Naturals, FiniteSets

CONSTANTS
    Builds,          \* KovaBuild names (idempotent or random job ids)
    Requesters,      \* authenticated users
    Owner,           \* the requester whose id a name was derived from
    Nonces,          \* random intent nonces; bounds the number of submissions
    Handlers,        \* HTTP create handlers in progress
    Workers,         \* controller reconciles in progress
    GlobalLimit,     \* Store.GlobalLimit
    RequesterLimit,  \* Store.RequesterLimit
    Genesis,         \* TRUE: ledger version 2 with receipts; FALSE: legacy
    None             \* no nonce, no build

ASSUME ConstantsAssumption ==
    /\ Owner \in [Builds -> Requesters]
    /\ GlobalLimit \in Nat \ {0} /\ RequesterLimit \in Nat \ {0}
    /\ Genesis \in BOOLEAN
    /\ None \notin Nonces \cup Builds
    /\ Handlers \cap Workers = {}
    /\ IsFiniteSet(Builds)

VARIABLES
    intents,      \* the queue ledger: an intent (or NoIntent) for every name
    receipts,     \* nonces whose immutable receipt ConfigMap exists
    crs,          \* the KovaBuild object (or NoCR) of every name
    used,         \* nonces already drawn
    pc, job, tok, \* per process: next call, build name, nonce it acts for
    current,      \* processes whose last ledger read has the ledger's version
    lateWrites,   \* ledger updates in flight that still carry that version
    lateReceipts, \* receipt Creates in flight after their caller gave up
    lateCreates   \* KovaBuild Creates in flight after their caller gave up

ledgerVars == <<intents, current, lateWrites>>
lateVars == <<lateReceipts, lateCreates>>
vars == <<intents, receipts, crs, used, pc, job, tok, current, lateWrites,
          lateReceipts, lateCreates>>

Procs == Handlers \cup Workers

Kinds == {"none", "rejected", "terminal"}

(* An intent's requester hash is Owner of its name; its request digest     *)
(* matters only to the ErrConflict answer of Reserve (see ReserveRead).    *)
Intent == [nonce : Nonces \cup {None}, pinned : BOOLEAN, kind : Kinds]

NoIntent == [nonce |-> None, pinned |-> FALSE, kind |-> "none"]

NewIntent(n) == [nonce |-> n, pinned |-> FALSE, kind |-> "none"]

(* "granted" stands for Starting, Running, Verifying and FailedVerifying.  *)
(* A KovaBuild created directly, not over HTTP, has no nonce annotation.   *)
Stages == {"absent", "queued", "granted", "terminal"}

CR == [stage : Stages, nonce : Nonces \cup {None}, deleting : BOOLEAN,
       settled : BOOLEAN]

NoCR == [stage |-> "absent", nonce |-> None, deleting |-> FALSE,
         settled |-> FALSE]

NewCR(n) == [stage |-> "queued", nonce |-> n, deleting |-> FALSE,
             settled |-> FALSE]

Charged == {b \in Builds : intents[b].nonce # None}

ChargedTo(r) == {b \in Charged : Owner[b] = r}

Exists(b) == crs[b].stage # "absent"

Init ==
    /\ intents = [b \in Builds |-> NoIntent]
    /\ receipts = {}
    /\ crs = [b \in Builds |-> NoCR]
    /\ used = {}
    /\ pc = [p \in Procs |-> "idle"]
    /\ job = [p \in Procs |-> None]
    /\ tok = [p \in Procs |-> None]
    /\ current = {}
    /\ lateWrites = {}
    /\ lateReceipts = {}
    /\ lateCreates = {}

----------------------------------------------------------------------------
(* Control of one process, and the ledger compare-and-swap.                *)

Goto(p, l) ==
    /\ pc' = [pc EXCEPT ![p] = l]
    /\ UNCHANGED <<job, tok>>

(* The call is over: the process keeps nothing for its next task.          *)
Return(p) ==
    /\ pc' = [pc EXCEPT ![p] = "idle"]
    /\ job' = [job EXCEPT ![p] = None]
    /\ tok' = [tok EXCEPT ![p] = None]

NoWrite == UNCHANGED <<intents, lateWrites>>

(* Reading leaves the reader with the ledger's present resourceVersion;    *)
(* returning drops the copy.                                               *)
Hold(p) == current' = current \cup {p} /\ NoWrite

Drop(p) == current' = current \ {p} /\ NoWrite

(* A commit moves the resourceVersion: no other read, and no update still  *)
(* in flight, can commit after it.                                         *)
Commit(b, e) ==
    /\ intents' = [intents EXCEPT ![b] = e]
    /\ current' = {}
    /\ lateWrites' = {}

(* Update accepted and the response received.                              *)
Written(p, b, e, next) ==
    /\ p \in current
    /\ Commit(b, e)
    /\ Goto(p, next)

(* Conflict: the loop starts over with another read.                       *)
Conflicted(p, retry) ==
    /\ p \notin current
    /\ Goto(p, retry)
    /\ UNCHANGED ledgerVars

(* The response is lost.  The update committed, or never arrives, or is    *)
(* still on its way; the caller can only look the entry up.                *)
ResponseLost(p, b, e, lookup) ==
    /\ Goto(p, lookup)
    /\ \/ p \in current /\ Commit(b, e)
       \/ /\ p \in current
          /\ lateWrites' = lateWrites \cup {<<b, e>>}
          /\ UNCHANGED <<intents, current>>
       \/ UNCHANGED ledgerVars

Update(p, b, e, next, retry, lookup) ==
    \/ Written(p, b, e, next)
    \/ Conflicted(p, retry)
    \/ ResponseLost(p, b, e, lookup)

(* The call is done, or a read failed, a Genesis check refused,            *)
(* maxCASAttempts ran out, the request was cancelled, the process crashed: *)
(* every one returns without another mutation; what is written stays.      *)
Abort(p) ==
    /\ pc[p] # "idle"
    /\ Return(p) /\ Drop(p)
    /\ UNCHANGED <<lateVars, receipts, crs, used>>

----------------------------------------------------------------------------
(* handleCreateBuild: from the idempotency GET to Reserve.                 *)

AfterReserve == IF Genesis THEN "receipt" ELSE "create"

(* The GET of the name found no KovaBuild (a found one is only replayed).  *)
BeginCreate(h, b) ==
    /\ pc[h] = "idle"
    /\ ~Exists(b)
    /\ pc' = [pc EXCEPT ![h] = "reserve"]
    /\ job' = [job EXCEPT ![h] = b]
    /\ UNCHANGED <<tok, ledgerVars, lateVars, receipts, crs, used>>

(* Faulty variants of a definition stand before it; they show that the     *)
(* properties below notice the fault.  Here: one intent too many.          *)
FullOffByOne(b) ==
    \/ Cardinality(Charged) > GlobalLimit
    \/ Cardinality(ChargedTo(Owner[b])) > RequesterLimit

Full(b) ==
    \/ Cardinality(Charged) >= GlobalLimit
    \/ Cardinality(ChargedTo(Owner[b])) >= RequesterLimit

(* An existing intent answers ErrConflict (different digest) or is handed  *)
(* back with fresh = FALSE; either way this caller only observes, unless   *)
(* the intent carries a rejection to be resumed.  The nonce drawn at the   *)
(* top of Reserve is first needed here and is kept over retries.           *)
ReserveRead(h) ==
    LET b == job[h] IN
    /\ pc[h] = "reserve"
    /\ \/ /\ \/ b \in Charged
             \/ b \notin Charged /\ Full(b)
          /\ Return(h) /\ Drop(h)
          /\ UNCHANGED used
       \/ /\ Genesis /\ b \in Charged /\ intents[b].kind = "rejected"
          /\ pc' = [pc EXCEPT ![h] = "dup"]
          /\ tok' = [tok EXCEPT ![h] = intents[b].nonce]
          /\ UNCHANGED <<job, used>>
          /\ Drop(h)
       \/ /\ b \notin Charged /\ ~Full(b)
          /\ \E n \in IF tok[h] = None THEN Nonces \ used ELSE {tok[h]} :
                /\ tok' = [tok EXCEPT ![h] = n]
                /\ used' = used \cup {n}
          /\ pc' = [pc EXCEPT ![h] = "reserveWrite"]
          /\ UNCHANGED job
          /\ Hold(h)
    /\ UNCHANGED <<lateVars, receipts, crs>>

ReserveWrite(h) ==
    /\ pc[h] = "reserveWrite"
    /\ Update(h, job[h], NewIntent(tok[h]), AfterReserve, "reserve", "reserveLookup")
    /\ UNCHANGED <<lateVars, receipts, crs, used>>

(* Faulty: whatever intent the name has is taken for the lost update.      *)
LookupAnyIntent(h) ==
    /\ pc[h] = "reserveLookup"
    /\ IF intents[job[h]].nonce # None
       THEN Goto(h, AfterReserve) /\ UNCHANGED ledgerVars
       ELSE Return(h) /\ Drop(h)
    /\ UNCHANGED <<lateVars, receipts, crs, used>>

(* Only the exact proposed intent proves that the lost update committed.   *)
ReserveLookup(h) ==
    /\ pc[h] = "reserveLookup"
    /\ IF intents[job[h]] = NewIntent(tok[h])
       THEN Goto(h, AfterReserve) /\ UNCHANGED ledgerVars
       ELSE Return(h) /\ Drop(h)
    /\ UNCHANGED <<lateVars, receipts, crs, used>>

----------------------------------------------------------------------------
(* handleCreateBuild, Genesis only: record the receipt, pin it.            *)

(* RecordQueueOnce: one Create and one named readback.  Without a readback *)
(* the handler answers "pending" and the Create may still arrive.          *)
RecordQueueOnce(h) ==
    /\ pc[h] = "receipt"
    /\ \/ /\ receipts' = receipts \cup {tok[h]}
          /\ Goto(h, "pin")
          /\ UNCHANGED <<lateReceipts, current>>
       \/ /\ lateReceipts' = lateReceipts \cup {tok[h]}
          /\ Return(h) /\ current' = current \ {h}
          /\ UNCHANGED receipts
    /\ NoWrite
    /\ UNCHANGED <<lateCreates, crs, used>>

PinRead(h) ==
    LET e == intents[job[h]] IN
    /\ pc[h] = "pin"
    /\ IF e.nonce = tok[h] /\ e.kind = "none" /\ ~e.pinned
       THEN Goto(h, "pinWrite") /\ Hold(h)
       ELSE IF e.nonce = tok[h] /\ e.kind = "none"
       THEN Goto(h, "create") /\ UNCHANGED ledgerVars
       ELSE Return(h) /\ Drop(h)
    /\ UNCHANGED <<lateVars, receipts, crs, used>>

(* Also a successful update is confirmed by a second read.                 *)
PinWrite(h) ==
    /\ pc[h] = "pinWrite"
    /\ Update(h, job[h], [intents[job[h]] EXCEPT !.pinned = TRUE],
              "pinLookup", "pin", "pinLookup")
    /\ UNCHANGED <<lateVars, receipts, crs, used>>

PinLookup(h) ==
    LET e == intents[job[h]] IN
    /\ pc[h] = "pinLookup"
    /\ IF e.nonce = tok[h] /\ e.pinned /\ e.kind = "none"
       THEN Goto(h, "create") /\ UNCHANGED ledgerVars
       ELSE Return(h) /\ Drop(h)
    /\ UNCHANGED <<lateVars, receipts, crs, used>>

----------------------------------------------------------------------------
(* handleCreateBuild: the one KovaBuild Create of the intent.              *)

(* Faulty: a rejected Create deletes the receipt without the durable mark. *)
AfterRejectUnmarked == IF Genesis THEN "deleteReceipt" ELSE "release"

AfterReject == IF Genesis THEN "reject" ELSE "release"

(* Faulty: an unknown outcome is treated as a definitive rejection.        *)
CreateTimeoutRejects(h) ==
    /\ pc[h] = "create"
    /\ \/ /\ ~Exists(job[h])
          /\ crs' = [crs EXCEPT ![job[h]] = NewCR(tok[h])]
          /\ UNCHANGED lateCreates
       \/ /\ lateCreates' = lateCreates \cup {<<job[h], tok[h]>>}
          /\ UNCHANGED crs
    /\ Goto(h, AfterReject)
    /\ UNCHANGED <<ledgerVars, lateReceipts, receipts, used>>

(* The Create is answered, or its answer is lost and it arrived, or it is  *)
(* still on its way (a Create that never arrives is an Abort).             *)
CreateSent(h) ==
    /\ pc[h] = "create"
    /\ \/ /\ ~Exists(job[h])
          /\ crs' = [crs EXCEPT ![job[h]] = NewCR(tok[h])]
          /\ UNCHANGED lateCreates
       \/ /\ lateCreates' = lateCreates \cup {<<job[h], tok[h]>>}
          /\ UNCHANGED crs
    /\ Return(h) /\ Drop(h)
    /\ UNCHANGED <<lateReceipts, receipts, used>>

(* Forbidden, Invalid, BadRequest, Unauthorized, or AlreadyExists with     *)
(* another nonce on the existing object: this Create made nothing.         *)
CreateRefused(h) ==
    /\ pc[h] = "create"
    /\ Exists(job[h]) => crs[job[h]].nonce # tok[h]
    /\ Goto(h, AfterReject)
    /\ UNCHANGED <<ledgerVars, lateVars, receipts, crs, used>>

(* ReleaseRejectedReceipt, before the cleanup mark.                        *)
RejectObserve(h) ==
    LET e == intents[job[h]] IN
    /\ pc[h] = "reject"
    /\ IF e.nonce = tok[h] /\ e.pinned /\ e.kind = "none" /\ tok[h] \in receipts
       THEN Goto(h, "mark") /\ UNCHANGED ledgerVars
       ELSE Return(h) /\ Drop(h)
    /\ UNCHANGED <<lateVars, receipts, crs, used>>

----------------------------------------------------------------------------
(* Cleanup shared by rejected handlers and by workers.                     *)

(* Faulty: a kind that validateState does not know.                        *)
CleanupKindUnknown(p) == IF p \in Workers THEN "done" ELSE "rejected"

CleanupKind(p) == IF p \in Workers THEN "terminal" ELSE "rejected"

AfterMark(p) == IF p \in Workers THEN "releaseBuild" ELSE "deleteReceipt"

(* Faulty: the settled annotation is forgotten.                            *)
AfterDeleteUnsettled(p) == IF p \in Workers THEN "releaseBuildWrite" ELSE "release"

AfterDelete(p) == IF p \in Workers THEN "settle" ELSE "release"

(* markReceiptCleanupReady *)
MarkRead(p) ==
    LET e == intents[job[p]] IN
    /\ pc[p] = "mark"
    /\ CASE e.nonce = tok[p] /\ e.pinned /\ e.kind = CleanupKind(p) ->
              Goto(p, AfterMark(p)) /\ UNCHANGED ledgerVars
         [] e.nonce = tok[p] /\ e.pinned /\ e.kind = "none" ->
              Goto(p, "markWrite") /\ Hold(p)
         [] OTHER -> Return(p) /\ Drop(p)
    /\ UNCHANGED <<lateVars, receipts, crs, used>>

MarkWrite(p) ==
    /\ pc[p] = "markWrite"
    /\ Update(p, job[p], [intents[job[p]] EXCEPT !.kind = CleanupKind(p)],
              AfterMark(p), "mark", "markLookup")
    /\ UNCHANGED <<lateVars, receipts, crs, used>>

MarkLookup(p) ==
    LET e == intents[job[p]] IN
    /\ pc[p] = "markLookup"
    /\ IF e.nonce = tok[p] /\ e.pinned /\ e.kind = CleanupKind(p)
       THEN Goto(p, AfterMark(p)) /\ UNCHANGED ledgerVars
       ELSE Return(p) /\ Drop(p)
    /\ UNCHANGED <<lateVars, receipts, crs, used>>

(* deletePinnedReceipt: UID-preconditioned Delete and a confirming read.   *)
(* A Delete whose own response is lost is decided by that read; one that   *)
(* lands later is the Delete of the next process to come here.             *)
DeleteReceipt(p) ==
    /\ pc[p] = "deleteReceipt"
    /\ receipts' = receipts \ {tok[p]}
    /\ Goto(p, AfterDelete(p))
    /\ UNCHANGED <<ledgerVars, lateVars, crs, used>>

(* releaseRejected *)
ReleaseRead(h) ==
    LET e == intents[job[h]] IN
    /\ pc[h] = "release"
    /\ IF e.nonce = tok[h] /\ (Genesis => e.kind = "rejected" /\ e.pinned)
       THEN Goto(h, "releaseWrite") /\ Hold(h)
       ELSE Return(h) /\ Drop(h)
    /\ UNCHANGED <<lateVars, receipts, crs, used>>

ReleaseWrite(h) ==
    /\ pc[h] = "releaseWrite"
    /\ Update(h, job[h], NoIntent, "done", "release", "done")
    /\ UNCHANGED <<lateVars, receipts, crs, used>>

(* A duplicate submission that met a rejected intent: no KovaBuild may     *)
(* exist, then ResumeRejectedCleanup looks both up again.  A rejected      *)
(* nonce never gets a KovaBuild, so its two reads are one step here.       *)
DupObserve(h) ==
    /\ pc[h] = "dup"
    /\ IF ~Exists(job[h])
       THEN Goto(h, "resume") /\ UNCHANGED ledgerVars
       ELSE Return(h) /\ Drop(h)
    /\ UNCHANGED <<lateVars, receipts, crs, used>>

ResumeRejectedCleanup(h) ==
    LET e == intents[job[h]] IN
    /\ pc[h] = "resume"
    /\ IF e.nonce = tok[h] /\ e.kind = "rejected" /\ ~Exists(job[h])
       THEN Goto(h, "deleteReceipt") /\ UNCHANGED ledgerVars
       ELSE Return(h) /\ Drop(h)
    /\ UNCHANGED <<lateVars, receipts, crs, used>>

----------------------------------------------------------------------------
(* ReleaseForBuild, called by a reconcile: after the active grant in       *)
(* legacy mode, and after terminal cleanup in both modes.                  *)

(* Faulty: the charge is given back before the build is handed over.       *)
ReleaseTooEarly(w, b) ==
    /\ pc[w] = "idle"
    /\ crs[b].nonce # None
    /\ crs[b].stage \in {IF Genesis THEN "granted" ELSE "queued", "terminal"}
    /\ pc' = [pc EXCEPT ![w] = "releaseBuild"]
    /\ job' = [job EXCEPT ![w] = b]
    /\ tok' = [tok EXCEPT ![w] = crs[b].nonce]
    /\ UNCHANGED <<ledgerVars, lateVars, receipts, crs, used>>

BeginRelease(w, b) ==
    /\ pc[w] = "idle"
    /\ crs[b].nonce # None
    /\ crs[b].stage = "terminal" \/ (~Genesis /\ crs[b].stage = "granted")
    /\ pc' = [pc EXCEPT ![w] = "releaseBuild"]
    /\ job' = [job EXCEPT ![w] = b]
    /\ tok' = [tok EXCEPT ![w] = crs[b].nonce]
    /\ UNCHANGED <<ledgerVars, lateVars, receipts, crs, used>>

(* The object this worker was started for is still the one of that name.   *)
SameCR(w) == crs[job[w]].nonce = tok[w] /\ Exists(job[w])

(* Legacy ReleaseForBuild.  An absent intent was released before.          *)
ReleaseForBuild(w) ==
    LET e == intents[job[w]] IN
    /\ ~Genesis
    /\ pc[w] = "releaseBuild"
    /\ CASE e.nonce = None -> Goto(w, "released") /\ UNCHANGED ledgerVars
         [] e.nonce = tok[w] -> Goto(w, "releaseBuildWrite") /\ Hold(w)
         [] OTHER -> Return(w) /\ Drop(w)
    /\ UNCHANGED <<lateVars, receipts, crs, used>>

(* Faulty: a cleanup interrupted after its mark is not resumed.            *)
ReleaseWithoutResume(w) ==
    LET e == intents[job[w]] IN
    /\ Genesis
    /\ pc[w] = "releaseBuild"
    /\ IF e.nonce = tok[w] /\ e.pinned /\ e.kind = "none" /\ tok[w] \in receipts
       THEN Goto(w, "mark") /\ UNCHANGED ledgerVars
       ELSE Return(w) /\ Drop(w)
    /\ UNCHANGED <<lateVars, receipts, crs, used>>

(* releaseReceiptedBuild.  An absent intent needs the settled annotation   *)
(* and the absence of the receipt; an unmarked one is observed and marked; *)
(* a marked one is deleted with the version read here.                     *)
ReleaseReceiptedBuild(w) ==
    LET e == intents[job[w]] IN
    /\ Genesis
    /\ pc[w] = "releaseBuild"
    /\ CASE e.nonce = None /\ SameCR(w) /\ crs[job[w]].settled
                /\ tok[w] \notin receipts ->
              Goto(w, "released") /\ UNCHANGED ledgerVars
         [] e.nonce = tok[w] /\ e.pinned /\ e.kind = "none" /\ tok[w] \in receipts ->
              Goto(w, "mark") /\ UNCHANGED ledgerVars
         [] e.nonce = tok[w] /\ e.pinned /\ e.kind = "terminal" ->
              Goto(w, "deleteReceipt") /\ Hold(w)
         [] OTHER -> Return(w) /\ Drop(w)
    /\ UNCHANGED <<lateVars, receipts, crs, used>>

MarkReceiptSettled(w) ==
    /\ pc[w] = "settle"
    /\ IF SameCR(w) /\ (crs[job[w]].stage = "terminal" \/ crs[job[w]].deleting)
       THEN /\ crs' = [crs EXCEPT ![job[w]].settled = TRUE]
            /\ Goto(w, "releaseBuildWrite")
            /\ UNCHANGED ledgerVars
       ELSE Return(w) /\ Drop(w) /\ UNCHANGED crs
    /\ UNCHANGED <<lateVars, receipts, used>>

ReleaseBuildWrite(w) ==
    /\ pc[w] = "releaseBuildWrite"
    /\ Update(w, job[w], NoIntent, "released", "releaseBuild", "releaseBuildLookup")
    /\ UNCHANGED <<lateVars, receipts, crs, used>>

ReleaseBuildLookup(w) ==
    /\ pc[w] = "releaseBuildLookup"
    /\ IF intents[job[w]].nonce = None
       THEN Goto(w, "released") /\ UNCHANGED ledgerVars
       ELSE Return(w) /\ Drop(w)
    /\ UNCHANGED <<lateVars, receipts, crs, used>>

(* reconcileDelete removes the finalizer once the queue intent is gone.    *)
RemoveFinalizer(w) ==
    /\ pc[w] = "released"
    /\ SameCR(w) /\ crs[job[w]].stage = "terminal" /\ crs[job[w]].deleting
    /\ crs' = [crs EXCEPT ![job[w]] = NoCR]
    /\ Return(w) /\ Drop(w)
    /\ UNCHANGED <<lateVars, receipts, used>>

----------------------------------------------------------------------------
(* The rest of a KovaBuild's life, seen from the queue.                    *)

(* VerifyForBuild: the intent this KovaBuild was created under is charged, *)
(* and in Genesis mode its receipt is pinned, present and not in cleanup.  *)
VerifyForBuild(b) ==
    LET e == intents[b] IN
    \/ crs[b].nonce = None
    \/ /\ e.nonce = crs[b].nonce
       /\ Genesis => e.pinned /\ e.kind = "none" /\ e.nonce \in receipts

SetStage(b, s) ==
    /\ crs' = [crs EXCEPT ![b].stage = s]
    /\ UNCHANGED <<pc, job, tok, ledgerVars, lateVars, receipts, used>>

(* The active grant and the Starting status (see ActiveAdmission).         *)
Grant(b) ==
    /\ crs[b].stage = "queued" /\ ~crs[b].deleting
    /\ VerifyForBuild(b)
    /\ SetStage(b, "granted")

(* finish: any terminal phase, from any earlier one.                       *)
Finish(b) ==
    /\ crs[b].stage \in {"queued", "granted"}
    /\ SetStage(b, "terminal")

(* A user's delete or the JobTTL delete: the finalizer keeps the object.   *)
Delete(b) ==
    /\ Exists(b) /\ ~crs[b].deleting
    /\ crs' = [crs EXCEPT ![b].deleting = TRUE]
    /\ UNCHANGED <<pc, job, tok, ledgerVars, lateVars, receipts, used>>

(* A KovaBuild created through the Kubernetes API, outside the HTTP quota. *)
DirectCreate(b) ==
    /\ ~Exists(b)
    /\ crs' = [crs EXCEPT ![b] = NewCR(None)]
    /\ UNCHANGED <<pc, job, tok, ledgerVars, lateVars, receipts, used>>

DirectRemove(b) ==
    /\ crs[b].stage = "terminal" /\ crs[b].deleting /\ crs[b].nonce = None
    /\ crs' = [crs EXCEPT ![b] = NoCR]
    /\ UNCHANGED <<pc, job, tok, ledgerVars, lateVars, receipts, used>>

----------------------------------------------------------------------------
(* Requests that arrive after their caller gave up.                        *)

DeliverWrite(b, e) ==
    /\ <<b, e>> \in lateWrites
    /\ Commit(b, e)
    /\ UNCHANGED <<pc, job, tok, lateVars, receipts, crs, used>>

DeliverReceipt(n) ==
    /\ n \in lateReceipts
    /\ receipts' = receipts \cup {n}
    /\ lateReceipts' = lateReceipts \ {n}
    /\ UNCHANGED <<pc, job, tok, ledgerVars, lateCreates, crs, used>>

DeliverCreate(b, n) ==
    /\ <<b, n>> \in lateCreates
    /\ lateCreates' = lateCreates \ {<<b, n>>}
    /\ crs' = IF Exists(b) THEN crs ELSE [crs EXCEPT ![b] = NewCR(n)]
    /\ UNCHANGED <<pc, job, tok, ledgerVars, lateReceipts, receipts, used>>

----------------------------------------------------------------------------

HandlerStep(h) ==
    \/ \E b \in Builds : BeginCreate(h, b)
    \/ ReserveRead(h) \/ ReserveWrite(h) \/ ReserveLookup(h)
    \/ RecordQueueOnce(h)
    \/ PinRead(h) \/ PinWrite(h) \/ PinLookup(h)
    \/ CreateSent(h) \/ CreateRefused(h)
    \/ RejectObserve(h) \/ ReleaseRead(h) \/ ReleaseWrite(h)
    \/ DupObserve(h) \/ ResumeRejectedCleanup(h)

CleanupStep(p) ==
    MarkRead(p) \/ MarkWrite(p) \/ MarkLookup(p) \/ DeleteReceipt(p)

WorkerStep(w) ==
    \/ \E b \in Builds : BeginRelease(w, b)
    \/ ReleaseForBuild(w) \/ ReleaseReceiptedBuild(w)
    \/ MarkReceiptSettled(w)
    \/ ReleaseBuildWrite(w) \/ ReleaseBuildLookup(w)
    \/ RemoveFinalizer(w)

BuildStep(b) ==
    Grant(b) \/ Finish(b) \/ Delete(b) \/ DirectCreate(b) \/ DirectRemove(b)

Deliver ==
    \/ \E u \in lateWrites : DeliverWrite(u[1], u[2])
    \/ \E n \in lateReceipts : DeliverReceipt(n)
    \/ \E u \in lateCreates : DeliverCreate(u[1], u[2])

Next ==
    \/ \E h \in Handlers : HandlerStep(h)
    \/ \E w \in Workers : WorkerStep(w)
    \/ \E p \in Procs : CleanupStep(p) \/ Abort(p)
    \/ \E b \in Builds : BuildStep(b)
    \/ Deliver

Spec == Init /\ [][Next]_vars

----------------------------------------------------------------------------
(* Fairness: a reconcile is requeued until it succeeds, and each of its    *)
(* API calls, retried for ever, is answered in the end; requests in flight *)
(* are delivered or lost, never kept; nothing is assumed of users.         *)

Retried(w) ==
    /\ \A b \in Builds : SF_vars(BeginRelease(w, b))
    /\ SF_vars(ReleaseForBuild(w)) /\ SF_vars(ReleaseReceiptedBuild(w))
    /\ SF_vars(MarkRead(w)) /\ SF_vars(MarkWrite(w) /\ w \in current /\ pc'[w] # "markLookup")
    /\ SF_vars(DeleteReceipt(w)) /\ SF_vars(MarkReceiptSettled(w))
    /\ SF_vars(ReleaseBuildWrite(w) /\ w \in current /\ pc'[w] # "releaseBuildLookup")
    /\ WF_vars(Abort(w))

FairSpec == Spec /\ \A w \in Workers : Retried(w)

----------------------------------------------------------------------------
(* Properties.                                                             *)

PCs == {"idle", "reserve", "reserveWrite", "reserveLookup", "receipt", "pin",
        "pinWrite", "pinLookup", "create", "reject", "mark", "markWrite",
        "markLookup", "deleteReceipt", "release", "releaseWrite", "done",
        "dup", "resume", "releaseBuild", "settle", "releaseBuildWrite",
        "releaseBuildLookup", "released"}

(* Every variable has its type; an update in flight is a ledger entry.     *)
TypeOK ==
    /\ intents \in [Builds -> Intent]
    /\ receipts \subseteq used
    /\ crs \in [Builds -> CR]
    /\ used \subseteq Nonces
    /\ pc \in [Procs -> PCs]
    /\ job \in [Procs -> Builds \cup {None}]
    /\ tok \in [Procs -> Nonces \cup {None}]
    /\ current \subseteq Procs
    /\ lateWrites \subseteq Builds \X Intent
    /\ lateReceipts \subseteq used
    /\ lateCreates \subseteq Builds \X used

(* A build submitted over HTTP that has not been handed over yet: to the   *)
(* active ledger in legacy mode, to terminal cleanup in Genesis mode.      *)
Waiting(b) ==
    /\ crs[b].nonce # None
    /\ crs[b].stage = "queued" \/ (Genesis /\ crs[b].stage = "granted")

CreateInFlight(b) == \E n \in Nonces : <<b, n>> \in lateCreates

Backlog == {b \in Builds : Waiting(b) \/ CreateInFlight(b)}

(* The queue limits of the configuration bound the builds that wait or can *)
(* still appear, whatever responses were lost and whoever crashed.         *)
BacklogWithinLimits ==
    /\ Cardinality(Backlog) <= GlobalLimit
    /\ \A r \in Requesters :
          Cardinality({b \in Backlog : Owner[b] = r}) <= RequesterLimit

(* While a KovaBuild Create may still arrive, its intent stays charged:    *)
(* an unknown outcome never frees a queue slot (create.go, lines 252-253). *)
InFlightCharged ==
    \A u \in lateCreates : /\ intents[u[1]].nonce = u[2]
                           /\ intents[u[1]].kind = "none"

(* A waiting build always passes VerifyForBuild: no interleaving of the    *)
(* service's own steps can make it look drifted and block its admission.   *)
WaitingVerifies == \A b \in Builds : Waiting(b) => VerifyForBuild(b)

(* Handlers that Reserve made owner of an intent not yet spent.            *)
Authorized(b) ==
    {h \in Handlers : /\ job[h] = b
                      /\ pc[h] \in {"receipt", "pin", "pinWrite", "pinLookup",
                                    "create"}}

(* For one name at most one Create is possible: at most one handler holds  *)
(* the authority, and none does while an earlier Create may still arrive.  *)
OneCreateAuthority ==
    \A b \in Builds :
       /\ \A g, h \in Authorized(b) : g = h
       /\ CreateInFlight(b) => Authorized(b) = {}
       /\ \A m, n \in Nonces :
             <<b, m>> \in lateCreates /\ <<b, n>> \in lateCreates => m = n

(* The cleanup mark tells the fate of the Create truthfully: a "rejected"  *)
(* nonce has no KovaBuild and no way to get one, and a "terminal" one      *)
(* belongs to the finished KovaBuild of that name.                         *)
CleanupKindTruthful ==
    \A b \in Builds :
       LET e == intents[b] IN
       /\ e.kind = "rejected" =>
             /\ crs[b].nonce # e.nonce
             /\ ~CreateInFlight(b) /\ Authorized(b) = {}
       /\ e.kind = "terminal" =>
             crs[b].nonce = e.nonce /\ crs[b].stage = "terminal"

(* In Genesis mode a KovaBuild whose intent is gone carries the settled    *)
(* annotation, and its receipt is gone and cannot come back: after a crash *)
(* a finished cleanup is never confused with a receipt never created.      *)
SettledBeforeReleased ==
    Genesis =>
    \A b \in Builds :
       crs[b].nonce # None /\ intents[b].nonce # crs[b].nonce =>
          /\ crs[b].settled
          /\ crs[b].nonce \notin receipts \cup lateReceipts

RemovedUnderMark ==
    \A n \in receipts \ receipts' :
       \E b \in Builds : intents[b].nonce = n /\ intents[b].pinned /\ intents[b].kind # "none"

(* A receipt is removed only under a charged intent whose cleanup mark is  *)
(* already durable, so NotFound after a mark always means "deleted".       *)
ReceiptOutlivesMark == [][RemovedUnderMark]_vars

(* The charge of a finished build is released in the end.                  *)
FinishedIsReleased ==
    \A b \in Builds : \A n \in Nonces :
       (crs[b].stage = "terminal" /\ crs[b].nonce = n /\ intents[b].nonce = n)
          ~> (intents[b].nonce # n)
=============================================================================
