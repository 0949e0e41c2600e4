# Kova in TLA+

Kova builds container images on Kubernetes. An HTTP service accepts build
requests, a controller gives each build a share of the BuildKit workers and one
runner Pod, a daemon in that Pod runs the build, and the controller verifies
what was pushed. This directory models the parts of Kova in which several
processes act on shared state, checks them with TLC on small instances and
proves the core with TLAPS for all instances.

Paths below are relative to the repository; `internal/service/` is left out of
the paths of the service's packages.

## 1. The system

| Component | State it keeps | Operations | What is hard about it | What makes it correct |
|---|---|---|---|---|
| Queue ledger (`queueadmission/ledger.go`, `httpapi/create.go`, `recoveryreceipt/queue.go`) | a ConfigMap: one intent (nonce, receipt pin, cleanup mark) per build name; receipts; KovaBuilds | Reserve, record and pin a receipt, create the KovaBuild, release a rejected or finished one | replicas race on one resourceVersion; answers to writes and Creates are lost and the requests arrive later; handlers die between any two calls | the backlog is bounded; one Create per name; an unknown outcome stays charged; a finished build is released |
| Active ledger (`buildcontroller/admission.go`, `reservation.go`, `grant_receipt.go`, `pod_receipt.go`) | a ConfigMap: one entry (slots, attempt in flight, closing, receipt stages) per granted build; receipts; runner Pods | grant, begin and complete a Pod Create, fence, release; arm, record, pin, issue, mark and delete receipts | the same, and a Pod that appears after its build was fenced | what runs is charged; the ledger stays valid; closed entries stay closed; nothing is left behind |
| Runner lifecycle (`buildcontroller/lifecycle.go`, `genesis_stop.go`, `genesis_witness.go`, `status.go`, `controller.go`, `verification.go`) | phase, witness and stop intent in the KovaBuild status | start, submit, poll, verify, cancel, expire, stop, clean up, delete | status writes conflict with users; another replica resumes half-done work | a runner is stopped before its charge goes; one submission; a terminal result is never overwritten |
| Fair scheduling (`buildcontroller/admission.go`, `queuepump.go`) | the cursor in the active ledger | order the queue, allocate virtually, select a candidate | three pieces of code must agree on who is next | free capacity is used; the least served come first; nobody starves |
| Admission pump and coordinator (`buildcontroller/queuepump.go`, `admission_coordinator.go`) | last wake, audit cursor, permit, pending bit, channels | wake one build, audit granted ones, take and release the permit | lost wakeups, full channels, stale selections | a free slot with a waiting build leads to a wake |
| Bootstrap (`admissiongenesis/*`, `httpapi/server.go`, `genesis_startup.go`) | the Genesis record with one UID pin per ledger; the two ledgers | create, pin and commit; legacy: create both | replicas start together; a crash between two Creates; a lost Create answer | at most one pair of ledgers is ever used |
| Runner daemon (`internal/daemon`) | build state, request id, cancel function, done channel, retire barrier | accept, run, cancel, retire, shut down | handlers race the build goroutine | one build per runner; joined means nothing runs and nothing can start |
| Batch build, worker pool, store (`internal/batch`, `internal/scheduler`, `internal/store`) | semaphores, counters, results, failure log | schedule targets, replace the pool, store results | cancellation while slots are held; a pool replaced under running builds | slots are given back; counters agree with results |
| Recovery drain and disposal (`recoverydrain`, `recoverydisposal`, `recoverypermit`, `recoveryinventory`, `internal/recoveryoperator`) | attempt receipts, tombstones, progress of a plan | occupy names, delete and finalize exact objects | original Creates that still arrive; objects that change between check and Delete | each effect at most once, and only on the object it was authorised for |
| Source archives, clients, command line, telemetry | files and output | parse, hash, print | sequential I/O | left to tests |

How they interact: a submission reserves an intent in the queue ledger and
creates a KovaBuild with the intent's nonce. The pump wakes the build that is
next in the fair order; its reconcile verifies the queue intent, commits a grant
and the fairness cursor to the active ledger in one write, records a Pod attempt,
creates the Pod and writes `Starting`. The controller submits to the daemon,
polls it, verifies the outputs and writes a terminal phase. Cleanup fences the
entry, deletes the Pod, releases the active charge and then the queue intent.
*Legacy* mode uses version 1 of both ledgers. *Genesis* mode (version 2) brackets
each effect with a receipt, so that a successor can tell what was never sent from
what may still arrive.

## 2. Modules

| Module | What it is |
|---|---|
| `QueueAdmission` | the queue ledger and its users |
| `QueueAdmissionInv` | its inductive invariant `IInv` |
| `QueueAdmissionOutside`, `QueueAdmissionLemmas`, `QueueAdmissionProofs` | the proof, in the order in which it is built up |
| `ActiveAdmission` | the active ledger, the runner Pods and the lifecycle around them |
| `FairQueue` | the order of grants and the candidate of the pump |
| `MCQueueAdmission`, `MCActiveAdmission`, `MCActiveLiveness`, `MCFairQueue` | instances for TLC; one `.cfg` per run |

### State and steps of the two ledger modules

Both ledgers are ConfigMaps that are read, changed and written back under their
resourceVersion. Both modules describe this the same way:

* `intents` / `active` is the content of the ledger, `receipts` the receipt
  ConfigMaps, `crs` the KovaBuilds, `pods` the runner Pods.
* A handler or reconcile is a process with a program counter `pc`. One step is
  one request to the API server together with the local code that follows it. A
  retry loop goes back to its read.
* `current` holds the processes whose copy of the ledger still has the ledger's
  version. A write succeeds for them and empties `current`; for the others it is
  a conflict. No version numbers are needed, and any number of writes may happen.
  `seen` does the same for copies of a KovaBuild.
* A request whose answer is lost goes to `lateWrites`, `lateReceipts`,
  `lateCreates` or `latePods`. It may take effect at any later time or never. A
  late ledger write is dropped as soon as another commit changes the version.
* `Abort(p)` is an error return or crash at any step: the process forgets
  everything it read. A later reconcile, on the same or another replica, starts
  from the API server's state.
* Nonces are drawn fresh; `used` holds those drawn. Their number is the bound on
  the number of attempts in a run.

`QueueAdmission`: `ReserveRead/Write/Lookup` is `Store.Reserve` with its check
after a lost answer; `RecordQueueOnce`, `PinRead/Write/Lookup` are the receipt;
`CreateSent`, `CreateRefused` the Create and its three kinds of outcome;
`RejectObserve`, `Mark*`, `DeleteReceipt`, `Release*`, `MarkReceiptSettled` the
two cleanups; `VerifyForBuild` the check before a grant. KovaBuilds created
outside the service (`DirectCreate`) share the names.

`ActiveAdmission`: `AdmitRead/Write` is `admission`; `Arm*`, `RecordGrantOnce`,
`GrantPin*`, `GrantConfirm` the receipt of a grant; `BeginPod*`, `PodArm*`,
`RecordPodCreateOnce`, `PodPin*`, `PodConfirm`, `Issue*` the way to a Pod Create;
`CreatePod`, `CompletePodCreate`, `CompleteWrite`, `CompleteLookup`, `Starting`
what follows it; `Fence*`, `RunnerCheck`, `DeletePod`, `Release`, `PodMark`,
`GrantMark`, `*ReceiptDelete`, `RemoveWrite`, `Released` the cleanup;
`BeginStop`, `StopIntent`, `ResumeStop`, `FinishStopped` the Genesis stop path.
Users (`Cancel`, `Delete`), the end of the run (`FinishRun`), a lost node
(`PodVanish`) and late requests are the environment.

Abstractions, and why they are safe:

* A build has a fixed owner (`Owner`) and request (`Want`); names stand for their
  hashes, receipts for their contents: the code compares identities only.
* `ActiveAdmission` grants any number of slots from 1 to what is asked and free,
  to any waiting build. That allows more than `decideAdmission`; the exact choice
  is in `FairQueue`.
* The numeric ledger `Fence` is left out (the code calls the resourceVersion the
  actual fence). A fence without an entry is still a commit, since it makes older
  copies conflict.
* The phases Starting, Running, Verifying and FailedVerifying are one phase
  `active`: the ledger treats them alike.
* Writes of the recovery condition are left out: they change no decision, and a
  conflict they cause in another reconcile is an `Abort`.
* A liveness check of the KovaBuild that follows a ledger read is one step with
  it: a build that is no longer eligible never becomes eligible again, so the
  model only allows more.

`FairQueue` has no processes: a state is a backlog (`queued`, oldest first), a
ledger (`active`, a bag of grants) and the cursor `last`. Like the code's
functions, the operators take the list and the ledger as an argument (`View`), so
that a property can compare the decisions before and after a grant. `Plan` is the loop of
`decideAdmission` for all builds at once, `FairOrder` is `fairQueue`, `Candidate`
is `nextAdmissionCandidate`. `Ring` sorts the requesters and cuts and joins the
slices as `fairQueue` does (`TierStart`, `TierEnd`, `Rotate`); the order that its
comment describes is a property of the result (`RingIsFair`). Build names are distinct, so
`buildLess` is a total order and the position in `queued` stands for it. A limit
of 0 means none, as in the code.

## 3. What is checked

| Run | Instance | Shows |
|---|---|---|
| `queue_legacy` (`MCQueueLegacy.cfg`) | 2 names of 2 users, 2 handlers, 1 worker, 3 nonces, global limit 1 | the backlog limits, the charge of Creates in flight, one Create authority per name and `VerifyForBuild` of waiting builds survive every race, lost answer and crash |
| `queue_genesis` (`MCQueueGenesis.cfg`) | 2 names of 1 user, requester limit 1, global limit 2, otherwise the same | the same with receipts; in addition the cleanup marks are truthful, receipts go only under a mark, and a released build is settled |
| `queue_liveness` (`MCQueueLiveness.cfg`) | 1 name, 2 handlers, 1 worker, 2 nonces | the intent of a finished build is released |
| `active_legacy` (`MCActiveLegacy.cfg`) | 1 build, 2 reconciles, 2 attempts | what runs or may still run is charged; a Create in flight is recorded and single; a closed entry stays closed; a removed KovaBuild leaves nothing |
| `active_genesis` (`MCActiveGenesis.cfg`) | 1 build that asks for more slots than exist, 2 reconciles, 3 nonces | the same; in addition the ledger passes its own validation, a runner is receipted, and no receipt is orphaned |
| `active_running` (`MCActiveRunning.cfg`) | 2 builds of 2 users, 1 job slot, 3 worker slots | Pods that exist or may still appear are within the limits |
| `active_limits` (`MCActiveLimits.cfg`) | 2 builds, 2 job slots, 3 worker slots | the ledger stays valid while both builds are granted and released |
| `active_liveness` (`MCActiveLiveness.cfg`) | 1 build; version 1 with 2 reconciles and 1 attempt, or version 2 with 1 reconcile and 2 nonces, drawn in the initial state | a settled charge is released |
| `active_genesis_stop` (`MCActiveGenesisStop.cfg`) | as version 2 in `active_liveness` | a *violation*, see section 6 |
| `fair_queue` (`MCFairQueue.cfg`) | 3 requesters, builds of 1 or 2 slots, backlog of 4, 3 jobs, 2 per requester, 4 slots | the plan fits; the pump wakes a build that is admitted whenever one could be; the early refusal is right; the rotated slices are the fair order; a build that a younger one of its requester overtakes is still admitted, with the same slots |
| `fair_queue_liveness` | 3 requesters, backlog of 3, 2 jobs, the other limits off | nobody starves |
| `fair_queue_fifo` (`MCFairQueueFifo.cfg`) | 2 requesters, builds of 1 or 2 slots, backlog of 2, 2 jobs, 4 slots | a *violation*, see section 6 |

Why the bounds are enough. Two processes on the same object are what a
resourceVersion race needs, and a third actor is always there: the late requests
of processes that gave up. Three nonces let one build be submitted (or its Pod be
attempted) again after an earlier attempt ended in any way, and leave one more
for a competitor. Limits are below what is asked for, so they are reached. The
runs with two builds leave out cancellation and deletion (`NoUser`): those act on
one build, and the runs with one build have them. In `fair_queue` three
requesters are needed for a rotation that differs from a swap, and limits are
such that each of the three binds first in some state. Processes and nonces are
symmetric in the safety runs of the ledgers, requesters in `fair_queue`; the
liveness runs use no symmetry.

Deadlock is not checked in the runs of `ActiveAdmission`: its builds and nonces
are finitely many and may all be used up. The other runs check it.

Each property has a mutant beside it, defined just before the definition it
changes: the bug the property is there to find (a conflict that is ignored, a
release before the answer is known, a fence that skips builds without an entry).

### Fairness

* `QueueAdmission`: the release of a finished build is retried by the controller's
  work queue for as long as it fails, so each step of it that is possible again
  and again is eventually taken, and a write is eventually not in conflict and
  answered. Handlers and users are not fair.
* `ActiveAdmission`: a reconcile that can take a step takes one (work queue), and
  from some time on the API server answers and processes do not crash
  (`<>[][Calm]_vars`). Faults before that time are arbitrary, so the property says
  that no state they leave behind is a dead end. Requests given up need not arrive.
* `FairQueue`: the pump runs after each change and every 30 s, and a build it keeps
  waking does not lose every race for the ledger; granted builds end, by
  `MaxBuildDuration` at the latest; users do not withdraw builds for ever. The
  last one is needed: with endless withdrawals and submissions in the right order
  the rotation can pass one requester over for ever.

## 4. What is proved

For any sets of builds, requesters, nonces, handlers and workers and any limits,
`QueueAdmissionProofs` proves `Spec => []IInv` (theorem `Safe`) and from it
`TypeOK`, `BacklogWithinLimits`, `InFlightCharged`, `WaitingVerifies`,
`OneCreateAuthority`, `CleanupKindTruthful`, `SettledBeforeReleased` and
`ReceiptOutlivesMark`. The assumptions are the named ones of `QueueAdmission`
(`ConstantsAssumption`): every build has an owner, the limits are positive,
handlers and workers are different processes, `None` is neither a nonce nor a
build, and the set of build names is finite.

The properties are not inductive: whether a release is safe depends on what
another process holds in memory and on requests that nobody waits for any more.
The invariant therefore follows a nonce. It is *unborn* while only its handler
knows it, belongs to that handler until the Create is sent, and is *spent* when
no handler, late Create or late receipt can use it. `MayCommit(b, e)` lists the
ledger writes that respect this, and the core of `IInv` is that every write that
can still succeed satisfies `MayCommit`: those of processes in `current`
(`ProposalSafe`) and the late ones (`LateWritesSafe`). The rest says what each
process relies on at its program counter (`ProcSafe`) and what the ledger, the
receipts and the KovaBuilds say of each other (`EntrySafe`, `CRSafe`,
`LaunchedSafe`, `NoncesDistinct`).

Two lemmas carry the induction: `OutsideStep`, for steps that do not write the
ledger, and `CommitMove`, for commits. Both reduce the invariant to `ProcSafe` of
the process that moved; one lemma per action then shows that. `LimitsSafe` needs
cardinalities only at the commit of a new intent.

Only model-checked: the liveness properties (fairness is beyond the prover), all
of `ActiveAdmission` so far, and `FairQueue`.

## 5. What is not modelled, and what comes next

In this order:

1. `AdmissionPump`: the coordinator's permit and pending bit, the wake and release
   channels, suppressed wakes, the audit, the handoff that looks like drift. A
   free slot with a waiting build leads to a wake, although events are lost and
   leaders change. It uses `FairQueue`'s `Candidate`.
2. `RunnerDaemon`: POST, upload, build goroutine, cancel, retire, shutdown; at
   most one build per request id, and `locally-joined` means that nothing runs or
   can start. Composed with the controller's submission step (`submitWhenReady`,
   lost answers, failover): a build is run at most once.
3. `Verification`: the phases Verifying and FailedVerifying with attempts,
   windows and cancellation; a terminal result is written once.
4. `Bootstrap`: Genesis create, pin and commit by racing replicas, and the legacy
   pair; at most one pair is ever committed; a partial legacy pair stays refused.
   The HTTP gate's token.
5. `BatchBuild`: scheduling over slots, the global semaphore, fail-fast, pool
   replacement, counters and store; every slot comes back, and the result agrees
   with the counters. The failure log's trimming as operators against a reference.
6. `RecoveryDrain` and `RecoveryDisposal`: tombstones against late Creates; exact
   Deletes and finalizer Patches under an expiring grant.
7. `Admission`: queue and active ledger composed over one set of KovaBuilds, where
   `Grant` and `Finish` of the one are steps of the other.

Abstract specifications worth stating: a one-shot effect (sent at most once, known
or unknown, settled before it is forgotten), which the queue's Create and the Pod
Create both implement; and a bounded pool of charges, which both ledgers
implement. Both by `INSTANCE ... WITH` and a refinement mapping, checked as
PROPERTY and then proved as step simulation.

Theorems worth proving next: `LedgerValid`, `InFlightRecorded`,
`RunningIsCharged` and `ClosingIsFinal` of `ActiveAdmission`, with an invariant of
the same shape as `IInv` (an update that can still commit is one of the allowed
ones, with the Pod attempt in the place of the nonce); the limits of `FairQueue`'s
allocation; the two refinements.

Left out for good: source archives, registry lookups, signatures and canonical
encodings, telemetry, the command line and HTTP reads. They are sequential code or
pure I/O with no state another component relies on.

## 6. Findings

**A deleted Genesis build can keep its runner** (`active_genesis_stop`).
`docs/service-genesis-recovery-proposal.md:92` says "Explicit CR deletion requests
discard the result and use this stop path". If the deletion, or a cancellation
followed by one, arrives after the Pod was created and before `Starting` was
written, that status write conflicts. The Pod then has no witness in the status;
`reconcileDelete` therefore does not enter the stop path, and
`deleteRunnerAndConfirm` (`buildcontroller/lifecycle.go:894`) refuses a Pod without
a witness on every retry. The Pod, its charge and the finalizer stay until an
operator acts.

**Grants are not FIFO within a requester** (`fair_queue_fifo`).
`docs/service-admission-design.md:14` says "Queued jobs remain FIFO within a
requester." `fairQueue` orders them so, but `decideAdmission` admits every build
that fits together with those before it, and each build's own reconcile commits its
grant (`buildcontroller/admission.go:97`). When two builds of a requester fit, the
younger one may be granted first. The code's comment at line 249 expects grants out
of order, and the step does no harm: `OvertakenIsStillAdmitted` shows that the older
build keeps its place and its slots in the plan.

Known limits that the code documents and the properties respect: an intent whose
handler died before its Create is kept for an operator; so is the charge of a Pod
attempt that was recorded and never sent, and a receipt that was armed and never
created; and the intent left by a crash between a second Reserve of a finished
name and its release makes the first build's release report drift
(`docs/service-admission-design.md`, which rules out an automatic scavenger).
`FinishedIsReleased` and `BothAreReleased` are stated for builds whose outcomes
are known.
