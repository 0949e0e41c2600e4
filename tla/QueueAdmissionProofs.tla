------------------------ MODULE QueueAdmissionProofs ------------------------
(***************************************************************************)
(* The theorems about QueueAdmission: every action preserves the inductive *)
(* invariant IInv, and the safety properties that the runs check follow    *)
(* from it, for any number of builds, nonces and processes.                *)
(***************************************************************************)
EXTENDS QueueAdmissionLemmas

\* The read steps of cleanup and release (observations, lookups, the checks
\* before a write) preserve the invariant.
LEMMA ReadSafe ==
    ASSUME IInv, NEW p \in Procs,
           \/ p \in Handlers /\ (RejectObserve(p) \/ ReleaseRead(p) \/ DupObserve(p)
                                   \/ ResumeRejectedCleanup(p))
           \/ MarkRead(p) \/ MarkLookup(p)
           \/ p \in Workers /\ (ReleaseForBuild(p) \/ ReleaseReceiptedBuild(p)
                                   \/ ReleaseBuildLookup(p))
    PROVE  IInv'
<1> DEFINE b == job[p]
           i == intents[b]
<1>1. /\ receipts' = receipts /\ crs' = crs /\ used' = used
      /\ lateReceipts' = lateReceipts /\ lateCreates' = lateCreates
  BY Zenon DEF RejectObserve, ReleaseRead, DupObserve, ResumeRejectedCleanup, MarkRead, MarkLookup,
     ReleaseForBuild, ReleaseReceiptedBuild, ReleaseBuildLookup, lateVars
<1>2. CASE Return(p) /\ Drop(p)
  BY Zenon, <1>1, <1>2, LeaveStep
<1>3. TypeOK /\ ProcSafe(p) /\ Acting(p)
  BY Zenon, ConstantsAssumption DEF IInv, RejectObserve, ReleaseRead, DupObserve, ResumeRejectedCleanup, MarkRead, MarkLookup,
     ReleaseForBuild, ReleaseReceiptedBuild, ReleaseBuildLookup, Acting, RejectPCs
<1>4. /\ b \in Builds /\ tok[p] \in Nonces /\ tok[p] # None /\ ActingSafe(p) /\ EntryOK(b)
      /\ Spent(tok[p]) /\ (p \in Handlers => ~HasCR(tok[p]))
      /\ p \in Workers /\ i.nonce = tok[p] =>
            /\ crs[b].nonce = tok[p]
            /\ crs[b].stage = "terminal" \/ (~Genesis /\ crs[b].stage = "granted")
  <2>1. b \in Builds /\ tok[p] \in Nonces /\ tok[p] # None /\ ActingSafe(p) /\ EntryOK(b)
    BY Zenon, <1>3, ProcFacts, ConstantsAssumption DEF ProcSafe, IInv, SharedSafe, EntrySafe
  <2>2. p \in Handlers => p \notin Workers
    BY Zenon, ConstantsAssumption
  <2> QED
    BY Zenon, <1>3, <2>1, <2>2 DEF ActingSafe, HasCR
<1>5. ASSUME p \in Handlers, RejectObserve(p), Goto(p, "mark"), UNCHANGED ledgerVars, i.pinned
      PROVE  IInv'
  <2>1. Genesis /\ p \notin Workers
    BY Zenon, <1>4, <1>5, ConstantsAssumption DEF EntryOK
  <2> QED
    BY Zenon, <1>1, <1>3, <1>5, <2>1, ActingStep DEF RejectPCs
<1>6. ASSUME p \in Handlers, ReleaseRead(p), Goto(p, "releaseWrite"), Hold(p),
             i.nonce = tok[p], Genesis => i.kind = "rejected"
      PROVE  IInv'
  <2>1. p \notin Workers /\ CleanupKind(p) = "rejected" /\ tok[p] \notin receipts
    BY Zenon, <1>3, <1>4, <1>6, ConstantsAssumption DEF CleanupKind, ActingSafe, ReleaseRead
  <2>2. MayCommit(b, NoIntent)
    BY Zenon, <1>4, <1>6, <2>1 DEF MayCommit
  <2> QED
    BY Zenon, <1>1, <1>3, <1>6, <2>1, <2>2, ActingStep DEF RejectPCs
<1>7. ASSUME p \in Handlers, Goto(p, "resume"), UNCHANGED ledgerVars
      PROVE  IInv'
  <2>1. p \notin Workers
    BY Zenon, <1>7, ConstantsAssumption
  <2> QED
    BY Zenon, <1>1, <1>3, <1>7, <2>1, ActingStep DEF RejectPCs
<1>8. ASSUME p \in Handlers, Goto(p, "deleteReceipt"), UNCHANGED ledgerVars,
             i.kind = "rejected"
      PROVE  IInv'
  <2>1. Genesis /\ p \notin Workers /\ CleanupKind(p) = "rejected"
    BY Zenon, <1>4, <1>8, ConstantsAssumption DEF EntryOK, CleanupKind
  <2> QED
    BY Zenon, <1>1, <1>3, <1>8, <2>1, ActingStep DEF RejectPCs
<1>9. ASSUME Goto(p, AfterMark(p)), UNCHANGED ledgerVars, i.pinned, i.kind = CleanupKind(p)
      PROVE  IInv'
  <2>1. Genesis
    BY Zenon, <1>4, <1>9 DEF EntryOK
  <2>2. CASE p \in Workers
    BY Zenon, <1>1, <1>3, <1>9, <2>1, <2>2, ActingStep DEF WorkerPCs, AfterMark
  <2>3. CASE p \notin Workers
    BY Zenon, <1>1, <1>3, <1>9, <2>1, <2>3, ActingStep DEF RejectPCs, AfterMark
  <2> QED
    BY Zenon, <2>2, <2>3
<1>10. ASSUME Goto(p, "markWrite"), Hold(p), i.nonce = tok[p], i.pinned, i.kind = "none"
       PROVE  IInv'
  <2>1. Genesis /\ (p \in Handlers \/ p \in Workers)
    BY Zenon, <1>4, <1>10 DEF EntryOK, Procs
  <2>2. MayCommit(b, [i EXCEPT !.kind = CleanupKind(p)])
    BY Zenon, <1>4, <1>10, <2>1 DEF MayCommit, CleanupKind
  <2> QED
    BY Zenon, <1>1, <1>3, <1>10, <2>1, <2>2, ActingStep DEF RejectPCs, WorkerPCs
<1>11. ASSUME p \in Workers, Goto(p, "released"), UNCHANGED ledgerVars, i.nonce = None
       PROVE  IInv'
  BY Zenon, <1>1, <1>3, <1>4, <1>11, ActingStep DEF WorkerPCs
<1>12. ASSUME p \in Workers, Goto(p, "releaseBuildWrite"), Hold(p), i.nonce = tok[p], ~Genesis
       PROVE  IInv'
  <2>1. MayCommit(b, NoIntent)
    BY Zenon, <1>4, <1>12 DEF MayCommit
  <2> QED
    BY Zenon, <1>1, <1>3, <1>12, <2>1, ActingStep DEF WorkerPCs
<1>13. ASSUME p \in Workers, Goto(p, "mark"), UNCHANGED ledgerVars, Genesis
       PROVE  IInv'
  BY Zenon, <1>1, <1>3, <1>13, ActingStep DEF WorkerPCs
<1>14. ASSUME p \in Workers, Goto(p, "deleteReceipt"), Hold(p), Genesis, i.nonce = tok[p],
              i.kind = "terminal"
       PROVE  IInv'
  <2>1. CleanupKind(p) = "terminal"
    BY Zenon, <1>14 DEF CleanupKind
  <2> QED
    BY Zenon, <1>1, <1>3, <1>14, <2>1, ActingStep DEF WorkerPCs
<1>15. CASE p \in Handlers /\ RejectObserve(p)
  BY Zenon, <1>2, <1>5, <1>15 DEF RejectObserve
<1>16. CASE p \in Handlers /\ ReleaseRead(p)
  BY Zenon, <1>2, <1>6, <1>16 DEF ReleaseRead
<1>17. CASE p \in Handlers /\ DupObserve(p)
  BY Zenon, <1>2, <1>7, <1>17 DEF DupObserve
<1>18. CASE p \in Handlers /\ ResumeRejectedCleanup(p)
  BY Zenon, <1>2, <1>8, <1>18 DEF ResumeRejectedCleanup
<1>19. CASE MarkRead(p)
  BY Zenon, <1>2, <1>9, <1>10, <1>19 DEF MarkRead
<1>20. CASE MarkLookup(p)
  BY Zenon, <1>2, <1>9, <1>20 DEF MarkLookup
<1>21. CASE p \in Workers /\ ReleaseForBuild(p)
  BY Zenon, <1>2, <1>11, <1>12, <1>21 DEF ReleaseForBuild
<1>22. CASE p \in Workers /\ ReleaseReceiptedBuild(p)
  BY Zenon, <1>2, <1>11, <1>13, <1>14, <1>22 DEF ReleaseReceiptedBuild
<1>23. CASE p \in Workers /\ ReleaseBuildLookup(p)
  BY Zenon, <1>2, <1>11, <1>23 DEF ReleaseBuildLookup
<1> QED
  BY Zenon, <1>15, <1>16, <1>17, <1>18, <1>19, <1>20, <1>21, <1>22, <1>23

\* The steps of a handler that holds the Create authority without using it
\* (resolving a lost Reserve, pinning, a refused Create) preserve the
\* invariant.
LEMMA AuthoritySafeStep ==
    ASSUME IInv, NEW h \in Handlers,
           \/ ReserveLookup(h) \/ PinRead(h) \/ PinLookup(h) \/ CreateRefused(h)
    PROVE  IInv'
<1> DEFINE b == job[h]
           i == intents[b]
<1>1. /\ receipts' = receipts /\ crs' = crs /\ used' = used
      /\ lateReceipts' = lateReceipts /\ lateCreates' = lateCreates
      /\ h \in Procs /\ TypeOK /\ ProcSafe(h) /\ SharedSafe
  BY Zenon DEF ReserveLookup, PinRead, PinLookup, CreateRefused, lateVars, IInv, Procs
<1>2. CASE Return(h) /\ Drop(h)
  BY Zenon, <1>1, <1>2, LeaveStep
<1>3. /\ pc[h] \in {"reserveLookup", "pin", "pinLookup", "create"}
      /\ b \in Builds /\ tok[h] \in Nonces /\ tok[h] # None /\ tok[h] \in used
      /\ i \in Intent /\ h \notin Workers
  BY Zenon, <1>1, ConstantsAssumption DEF ReserveLookup, PinRead, PinLookup, CreateRefused, ProcSafe, TaskSafe, TypeOK
<1>4. ASSUME NEW l \in AuthPCs, Goto(h, l), UNCHANGED ledgerVars \/ Hold(h),
             i.nonce = tok[h], i.kind = "none", ~HasCR(tok[h]), ~Launched(tok[h]),
             tok[h] \notin lateReceipts, l # "create" => Genesis,
             l = "receipt" => tok[h] \notin receipts,
             l \in {"pin", "pinWrite", "pinLookup"} => tok[h] \in receipts,
             l = "create" /\ Genesis => tok[h] \in receipts /\ i.pinned
      PROVE  IInv'
  <2>1. /\ intents' = intents /\ lateWrites' = lateWrites /\ current' \subseteq current \cup {h}
    BY Zenon, <1>4 DEF ledgerVars, Hold, NoWrite
  <2>2. ~Unborn(tok[h])
    BY Zenon, <1>3, <1>4 DEF Unborn, Logged
  <2>3. Quietly(h, l)
    BY Zenon, <1>1, <1>3, <1>4, <2>1, <2>2 DEF Quietly, PCs, PrePCs, AuthPCs
  <2>4. /\ \A n : HasCR(n)' <=> HasCR(n)
        /\ \A n : Launched(n)' <=> Launched(n)
        /\ \A a \in Builds, e \in Intent : MayCommit(a, e) => MayCommit(a, e)'
        /\ tok' = tok /\ job' = job /\ pc'[h] = l
    BY Zenon, <1>1, <2>3, Quiet
  <2>5. TaskSafe(h)'
    BY Zenon, <1>1, <1>3, <1>4, <2>4, ConstantsAssumption DEF TaskSafe, PrePCs, AuthPCs
  <2>6. AuthoritySafe(h)'
    BY Zenon, <1>1, <1>4, <2>1, <2>4 DEF AuthoritySafe
  <2>7. ProposalSafe(h)'
    <3>1. CASE l = "pinWrite"
      <4>1. Proposal(h)' = [i EXCEPT !.pinned = TRUE] /\ [i EXCEPT !.pinned = TRUE] \in Intent
        BY Zenon, <1>3, <2>1, <2>4, <3>1 DEF Proposal, Intent
      <4>2. MayCommit(b, [i EXCEPT !.pinned = TRUE])
        BY Zenon, <1>3, <1>4, <3>1 DEF MayCommit
      <4> QED
        BY Zenon, <1>3, <2>4, <4>1, <4>2 DEF ProposalSafe
    <3>2. CASE l # "pinWrite"
      BY Zenon, <1>4, <2>4, <3>2, Vacuous DEF AuthPCs, WritePCs
    <3> QED
      BY Zenon, <3>1, <3>2
  <2>8. ProcSafe(h)'
    BY Zenon, <1>4, <2>4, <2>5, <2>6, <2>7, Vacuous DEF ProcSafe, AuthPCs, RejectPCs
  <2> QED
    BY Zenon, <1>1, <2>1, <2>2, <2>3, <2>8, GotoStep
<1>5. CASE ReserveLookup(h)
  <2>1. ASSUME i = NewIntent(tok[h]), Goto(h, AfterReserve), UNCHANGED ledgerVars PROVE IInv'
    <3>1. pc[h] = "reserveLookup" /\ i.nonce = tok[h] /\ i.kind = "none"
      BY <1>5, <2>1 DEF ReserveLookup, NewIntent
    <3>2. /\ ~HasCR(tok[h]) /\ ~Launched(tok[h]) /\ tok[h] \notin lateReceipts
          /\ tok[h] \notin receipts
      BY Zenon, <1>1, <3>1 DEF ProcSafe, ReservingSafe
    <3>3. CASE Genesis
      BY Zenon, <1>4, <2>1, <3>1, <3>2, <3>3 DEF AfterReserve, AuthPCs
    <3>4. CASE ~Genesis
      BY Zenon, <1>4, <2>1, <3>1, <3>2, <3>4 DEF AfterReserve, AuthPCs
    <3> QED
      BY Zenon, <3>3, <3>4
  <2> QED
    BY Zenon, <1>2, <1>5, <2>1 DEF ReserveLookup
<1>6. CASE PinRead(h) \/ PinLookup(h)
  <2>1. /\ i.nonce = tok[h] /\ i.kind = "none" /\ ~HasCR(tok[h]) /\ ~Launched(tok[h])
        /\ tok[h] \notin lateReceipts /\ tok[h] \in receipts /\ Genesis
    BY Zenon, <1>1, <1>6 DEF PinRead, PinLookup, ProcSafe, AuthoritySafe, AuthPCs
  <2>2. ASSUME Goto(h, "pinWrite"), Hold(h) PROVE IInv'
    BY Zenon, <1>4, <2>1, <2>2 DEF AuthPCs
  <2>3. ASSUME Goto(h, "create"), UNCHANGED ledgerVars, i.pinned PROVE IInv'
    BY Zenon, <1>4, <2>1, <2>3 DEF AuthPCs
  <2>4. i.pinned \in BOOLEAN
    BY Zenon, <1>3 DEF Intent
  <2>5. CASE PinRead(h)
    BY Zenon, <1>2, <2>2, <2>3, <2>4, <2>5 DEF PinRead
  <2>6. CASE PinLookup(h)
    BY Zenon, <1>2, <2>3, <2>6 DEF PinLookup
  <2> QED
    BY Zenon, <1>6, <2>5, <2>6
<1>7. CASE CreateRefused(h)
  <2>1. /\ pc[h] = "create" /\ Goto(h, AfterReject) /\ UNCHANGED ledgerVars
        /\ AfterReject \in {"reject", "release"} /\ (AfterReject = "release" => ~Genesis)
    BY Zenon, <1>7 DEF CreateRefused, AfterReject
  <2>2. /\ i.nonce = tok[h] /\ i.kind = "none" /\ ~HasCR(tok[h]) /\ ~Launched(tok[h])
        /\ tok[h] \notin lateReceipts /\ ~Unborn(tok[h])
        /\ ~Genesis => tok[h] \notin receipts
    <3>1. /\ i.nonce = tok[h] /\ i.kind = "none" /\ ~HasCR(tok[h]) /\ ~Launched(tok[h])
          /\ tok[h] \notin lateReceipts
      BY Zenon, <1>1, <2>1 DEF ProcSafe, AuthoritySafe, AuthPCs
    <3>2. ~Genesis => tok[h] \notin receipts
      BY Zenon, <1>1 DEF SharedSafe, LegacySafe
    <3> QED
      BY Zenon, <1>3, <3>1, <3>2 DEF Unborn, Logged
  <2>3. Quietly(h, AfterReject)
    BY Zenon, <1>1, <2>1, <2>2 DEF Quietly, ledgerVars, PCs, PrePCs, AuthPCs
  <2>4. /\ \A n : HasCR(n)' <=> HasCR(n)
        /\ \A n : Launched(n)' <=> Launched(n)
        /\ tok' = tok /\ job' = job /\ pc'[h] = AfterReject
    BY Zenon, <1>1, <2>3, Quiet
  <2>5. ~InPre(tok[h])'
    <3>1. \A g \in Handlers : pc[g] \in PrePCs /\ tok[g] = tok[h] => g = h
      BY Zenon, <1>1, <1>3, <2>1 DEF SharedSafe, NoncesDistinct, PrePCs, AuthPCs
    <3> QED
      BY Zenon, <1>1, <2>1, <2>4, <3>1 DEF InPre, Goto, PrePCs, AuthPCs, TypeOK, Procs
  <2>6. ActingSafe(h)'
    <3>1. Spent(tok[h])'
      BY Zenon, <1>1, <2>2, <2>4, <2>5 DEF Spent
    <3>2. \A a \in Builds : intents[a].nonce = tok[h] => a = b
      BY Zenon, <1>1, <1>3, <2>2 DEF SharedSafe, NoncesDistinct
    <3>3. \A a \in Builds : crs[a].nonce # tok[h]
      BY Zenon, <2>2 DEF HasCR
    <3> QED
      BY Zenon, <1>1, <1>3, <2>1, <2>2, <2>4, <3>1, <3>2, <3>3 DEF ActingSafe, ledgerVars
  <2>7. ProcSafe(h)'
    <3>1. TaskSafe(h)'
      BY Zenon, <1>1, <1>3, <2>1, <2>4, ConstantsAssumption DEF TaskSafe, RejectPCs
    <3> QED
      BY Zenon, <2>1, <2>4, <2>6, <3>1, Vacuous DEF ProcSafe, AuthPCs, WritePCs
  <2> QED
    BY Zenon, <1>1, <2>1, <2>2, <2>3, <2>7, GotoStep DEF ledgerVars
<1> QED
  BY Zenon, <1>5, <1>6, <1>7

\* A new POST preserves the invariant.
LEMMA BeginCreateSafe ==
    ASSUME IInv, NEW h \in Handlers, NEW b \in Builds, BeginCreate(h, b) PROVE IInv'
<1>1. h \in Procs /\ TypeOK /\ ProcSafe(h) /\ tok[h] = None /\ h \notin Workers
  BY Zenon, ConstantsAssumption DEF IInv, Procs, BeginCreate, ProcSafe, TaskSafe
<1>2. /\ pc' = [pc EXCEPT ![h] = "reserve"] /\ job' = [job EXCEPT ![h] = b] /\ tok' = tok
      /\ intents' = intents /\ current' = current /\ lateWrites' = lateWrites
      /\ lateReceipts' = lateReceipts /\ lateCreates' = lateCreates
      /\ receipts' = receipts /\ crs' = crs /\ used' = used
  BY Zenon DEF BeginCreate, ledgerVars, lateVars
<1>3. pc'[h] = "reserve" /\ job'[h] = b /\ tok'[h] = None
  BY Zenon, <1>1, <1>2 DEF TypeOK
<1>4. TypeOK'
  BY Zenon, <1>1, <1>2 DEF TypeOK, PCs
<1>5. Outside({h})
  BY Zenon, <1>1, <1>2 DEF Outside, TypeOK
<1>6. CRSteps({h})
  BY Zenon, <1>2 DEF CRSteps, CRKept, IInv, SharedSafe, CRSafe, CROK
<1>7. ProcSafe(h)'
  <2>1. TaskSafe(h)'
    BY Zenon, <1>1, <1>3 DEF TaskSafe, PrePCs
  <2>2. ReservingSafe(h)'
    BY Zenon, <1>3 DEF ReservingSafe
  <2> QED
    BY Zenon, <1>3, <2>1, <2>2, Vacuous DEF ProcSafe, AuthPCs, WritePCs, RejectPCs
<1> QED
  BY Zenon, <1>1, <1>2, <1>3, <1>4, <1>5, <1>6, <1>7, OneStep

\* RecordQueueOnce, with every outcome of its one receipt Create, preserves
\* the invariant.
LEMMA RecordSafe ==
    ASSUME IInv, NEW h \in Handlers, RecordQueueOnce(h) PROVE IInv'
<1>1. /\ h \in Procs /\ TypeOK /\ ProcSafe(h) /\ SharedSafe /\ h \notin Workers
      /\ pc[h] = "receipt"
  BY Zenon, ConstantsAssumption DEF IInv, Procs, RecordQueueOnce
<1>2. /\ job[h] \in Builds /\ tok[h] \in Nonces /\ tok[h] # None /\ tok[h] \in used
      /\ intents[job[h]].nonce = tok[h] /\ intents[job[h]].kind = "none"
      /\ ~HasCR(tok[h]) /\ ~Launched(tok[h]) /\ tok[h] \notin lateReceipts /\ Genesis
  BY Zenon, <1>1, ConstantsAssumption
     DEF ProcSafe, TaskSafe, AuthoritySafe, AuthPCs, TypeOK
<1>3. /\ intents' = intents /\ lateWrites' = lateWrites /\ lateCreates' = lateCreates
      /\ crs' = crs /\ used' = used
  BY Zenon DEF RecordQueueOnce, NoWrite
<1>4. CRSteps({h})
  BY Zenon, <1>1, <1>3 DEF CRSteps, CRKept, SharedSafe, CRSafe, CROK
<1>5. CASE /\ receipts' = receipts \cup {tok[h]} /\ Goto(h, "pin")
           /\ UNCHANGED <<lateReceipts, current>>
  <2>1. pc'[h] = "pin" /\ job' = job /\ tok' = tok /\ tok[h] \in receipts'
    BY Zenon, <1>1, <1>5 DEF Goto, TypeOK
  <2>2. TypeOK'
    BY Zenon, <1>1, <1>2, <1>3, <1>5 DEF TypeOK, Goto, PCs
  <2>3. Outside({h})
    BY Zenon, <1>1, <1>3, <1>5 DEF Outside, Goto, TypeOK
  <2>4. HasCR(tok[h])' <=> HasCR(tok[h])
    BY Zenon, <2>1, <1>3 DEF HasCR
  <2>5. Launched(tok[h])' <=> Launched(tok[h])
    BY Zenon, <2>1, <1>3 DEF Launched
  <2>6. TaskSafe(h)'
    BY Zenon, <1>1, <1>2, <1>3, <2>1 DEF TaskSafe, PrePCs, AuthPCs
  <2>7. AuthoritySafe(h)'
    BY Zenon, <1>2, <1>3, <1>5, <2>1, <2>4, <2>5 DEF AuthoritySafe
  <2>8. ProcSafe(h)'
    BY Zenon, <2>1, <2>6, <2>7, Vacuous DEF ProcSafe, WritePCs, RejectPCs
  <2>9. ~Unborn(tok[h])
    BY Zenon, <1>2 DEF Unborn, Logged
  <2> QED
    BY Zenon, <1>1, <1>3, <1>4, <2>1, <2>2, <2>3, <2>8, <2>9, OneStep DEF PrePCs, AuthPCs
<1>6. CASE /\ lateReceipts' = lateReceipts \cup {tok[h]} /\ Return(h)
           /\ current' = current \ {h} /\ receipts' = receipts
  <2>1. pc'[h] = "idle" /\ job'[h] = None /\ tok'[h] = None
    BY Zenon, <1>1, <1>6 DEF Return, TypeOK
  <2>2. TypeOK'
    BY Zenon, <1>1, <1>2, <1>3, <1>6 DEF TypeOK, Return, PCs
  <2>3. Outside({h})
    BY Zenon, <1>1, <1>3, <1>6, <2>1 DEF Outside, Return, TypeOK
  <2>4. ProcSafe(h)'
    BY Zenon, <1>1, <2>1, Vacuous DEF ProcSafe, TaskSafe, AuthPCs, WritePCs
  <2> QED
    BY Zenon, <1>1, <1>3, <1>4, <2>1, <2>2, <2>3, <2>4, OneStep
<1> QED
  BY Zenon, <1>5, <1>6 DEF RecordQueueOnce

\* The one KovaBuild Create, with every outcome, preserves the invariant.
LEMMA CreateSafe ==
    ASSUME IInv, NEW h \in Handlers, CreateSent(h) PROVE IInv'
<1> DEFINE b == job[h]
<1>1. /\ h \in Procs /\ TypeOK /\ ProcSafe(h) /\ SharedSafe /\ h \notin Workers
      /\ pc[h] = "create" /\ Return(h) /\ Drop(h)
  BY Zenon, ConstantsAssumption DEF IInv, Procs, CreateSent
<1>2. b \in Builds /\ tok[h] \in Nonces /\ tok[h] # None /\ tok[h] \in used
  BY Zenon, <1>1, ConstantsAssumption DEF ProcSafe, TaskSafe, TypeOK
<1>3. /\ intents' = intents /\ lateWrites' = lateWrites /\ lateReceipts' = lateReceipts
      /\ receipts' = receipts /\ used' = used /\ current' = current \ {h}
  BY Zenon DEF CreateSent, Drop, NoWrite
<1>4. pc'[h] = "idle" /\ job'[h] = None /\ tok'[h] = None
  BY Zenon, <1>1 DEF Return, TypeOK
<1>5. ProcSafe(h)'
  BY Zenon, <1>1, <1>4, Vacuous DEF ProcSafe, TaskSafe, AuthPCs, WritePCs
<1>6. CASE ~Exists(b) /\ crs' = [crs EXCEPT ![b] = NewCR(tok[h])] /\ lateCreates' = lateCreates
  <2>1. TypeOK'
    BY Zenon, <1>1, <1>2, <1>3, <1>6 DEF TypeOK, Return, PCs, NewCR, CR, Stages
  <2>2. Outside({h})
    BY Zenon, <1>1, <1>3, <1>6 DEF Outside, Return, TypeOK
  <2>3. crs[b].nonce = None
    BY Zenon, <1>1, <1>2, <1>6 DEF Exists, SharedSafe, CRSafe, CROK
  <2>4. crs'[b] = NewCR(tok[h]) /\ crs'[b].nonce = tok[h] /\ \A a \in Builds : a # b => crs'[a] = crs[a]
    BY Zenon, <1>1, <1>2, <1>6 DEF TypeOK, NewCR
  <2>5. CRMade({h}, b)
    BY Zenon, <1>1, <1>2, <1>4, <1>6, <2>3, <2>4 DEF CRMade
  <2>6. \A a \in Builds : a # b => CRKept(a)
    BY Zenon, <1>1, <2>4 DEF CRKept, SharedSafe, CRSafe, CROK
  <2>7. CRSteps({h})
    BY Zenon, <2>5, <2>6 DEF CRSteps
  <2> QED
    BY Zenon, <1>1, <1>3, <1>4, <1>5, <2>1, <2>2, <2>7, OneStep
<1>7. CASE lateCreates' = lateCreates \cup {<<b, tok[h]>>} /\ crs' = crs
  <2>1. TypeOK'
    BY <1>1, <1>2, <1>3, <1>7 DEF TypeOK, Return, PCs
  <2>2. Outside({h})
    BY Zenon, <1>1, <1>3, <1>4, <1>7 DEF Outside, Return, TypeOK
  <2>3. CRSteps({h})
    BY Zenon, <1>1, <1>7 DEF CRSteps, CRKept, SharedSafe, CRSafe, CROK
  <2> QED
    BY Zenon, <1>1, <1>3, <1>4, <1>5, <2>1, <2>2, <2>3, OneStep
<1> QED
  BY Zenon, <1>6, <1>7 DEF CreateSent

\* The UID-preconditioned receipt deletion preserves the invariant.
LEMMA DeleteReceiptSafe ==
    ASSUME IInv, NEW p \in Procs, DeleteReceipt(p) PROVE IInv'
<1> DEFINE l == AfterDelete(p)
<1>1. /\ TypeOK /\ ProcSafe(p) /\ SharedSafe /\ pc[p] = "deleteReceipt" /\ Acting(p)
      /\ receipts' = receipts \ {tok[p]} /\ Goto(p, l)
  BY Zenon DEF IInv, DeleteReceipt, Acting, RejectPCs
<1>2. /\ intents' = intents /\ current' = current /\ lateWrites' = lateWrites
      /\ lateReceipts' = lateReceipts /\ lateCreates' = lateCreates /\ crs' = crs /\ used' = used
  BY Zenon DEF DeleteReceipt, ledgerVars, lateVars
<1>3. job[p] \in Builds /\ tok[p] \in Nonces /\ tok[p] # None /\ ActingSafe(p) /\ TaskSafe(p)
  BY Zenon, <1>1, ProcFacts, ConstantsAssumption DEF ProcSafe
<1>4. /\ l \in {"settle", "release"} /\ (l = "settle" <=> p \in Workers)
      /\ pc'[p] = l /\ job' = job /\ tok' = tok
  BY Zenon, <1>1 DEF AfterDelete, Goto, TypeOK
<1>5. TypeOK'
  BY Zenon, <1>1, <1>2, <1>4 DEF TypeOK, Goto, PCs
<1>6. Outside({p})
  BY Zenon, <1>1, <1>2 DEF Outside, Goto, TypeOK
<1>7. CRSteps({p})
  BY Zenon, <1>1, <1>2 DEF CRSteps, CRKept, SharedSafe, CRSafe, CROK
<1>8. Spent(tok[p])'
  <2>1. \A h \in Handlers : pc'[h] \in PrePCs => pc'[h] = pc[h]
    BY Zenon, <1>1, <1>4 DEF Goto, PrePCs, AuthPCs, Procs, TypeOK
  <2>2. InPre(tok[p])' => InPre(tok[p])
    BY Zenon, <1>4, <2>1 DEF InPre
  <2>3. Launched(tok[p])' => Launched(tok[p])
    BY Zenon, <1>2, <1>4 DEF Launched
  <2> QED
    BY Zenon, <1>1, <1>2, <1>3, <1>4, <2>2, <2>3 DEF Spent, ActingSafe
<1>9. ActingSafe(p)'
  <2>1. tok[p] \notin receipts'
    BY Zenon, <1>1
  <2> QED
    BY Zenon, <1>1, <1>2, <1>3, <1>4, <1>8, <2>1 DEF ActingSafe, CleanupKind
<1>10. TaskSafe(p)'
  BY Zenon, <1>1, <1>2, <1>3, <1>4, ConstantsAssumption DEF TaskSafe, RejectPCs, WorkerPCs
<1>11. ProcSafe(p)'
  BY Zenon, <1>4, <1>9, <1>10, Vacuous DEF ProcSafe, AuthPCs, WritePCs
<1>12. ~Unborn(tok[p])
  BY Zenon, <1>1 DEF Unborn, PrePCs, AuthPCs
<1> QED
  BY Zenon, <1>2, <1>4, <1>5, <1>6, <1>7, <1>11, <1>12, OneStep DEF PrePCs, AuthPCs

\* The start of a terminal (or legacy granted) build's release preserves
\* the invariant.
LEMMA BeginReleaseSafe ==
    ASSUME IInv, NEW w \in Workers, NEW b \in Builds, BeginRelease(w, b) PROVE IInv'
<1>1. /\ w \in Procs /\ TypeOK /\ SharedSafe /\ ProcSafe(w) /\ w \notin Handlers
      /\ pc[w] = "idle" /\ crs[b].nonce # None
      /\ crs[b].stage = "terminal" \/ (~Genesis /\ crs[b].stage = "granted")
  BY Zenon, ConstantsAssumption DEF IInv, Procs, BeginRelease
<1>2. /\ pc' = [pc EXCEPT ![w] = "releaseBuild"] /\ job' = [job EXCEPT ![w] = b]
      /\ tok' = [tok EXCEPT ![w] = crs[b].nonce]
      /\ intents' = intents /\ current' = current /\ lateWrites' = lateWrites
      /\ lateReceipts' = lateReceipts /\ lateCreates' = lateCreates
      /\ receipts' = receipts /\ crs' = crs /\ used' = used
  BY Zenon DEF BeginRelease, ledgerVars, lateVars
<1>3. PICK n \in Nonces : n = crs[b].nonce /\ n \in used /\ Spent(n) /\ HasCR(n)
  BY Zenon, <1>1 DEF TypeOK, SharedSafe, NoncesUsed, CRSafe, CROK, HasCR
<1>4. pc'[w] = "releaseBuild" /\ job'[w] = b /\ tok'[w] = n
  BY Zenon, <1>1, <1>2, <1>3 DEF TypeOK
<1>5. TypeOK'
  BY Zenon, <1>1, <1>2, <1>3 DEF TypeOK, PCs
<1>6. Outside({w})
  BY Zenon, <1>1, <1>2 DEF Outside, TypeOK
<1>7. CRSteps({w})
  BY Zenon, <1>1, <1>2 DEF CRSteps, CRKept, SharedSafe, CRSafe, CROK
<1>8. Spent(n)'
  <2>1. \A h \in Handlers : pc'[h] = pc[h] /\ tok'[h] = tok[h]
    BY Zenon, <1>1, <1>2 DEF Procs, TypeOK
  <2>2. InPre(n)' => InPre(n)
    BY Zenon, <2>1 DEF InPre
  <2>3. Launched(n)' => Launched(n)
    BY Zenon, <1>2 DEF Launched
  <2> QED
    BY Zenon, <1>2, <1>3, <2>2, <2>3 DEF Spent
<1>9. ActingSafe(w)'
  <2>1. /\ \A a \in Builds : intents[a].nonce = n => a = b
        /\ \A a \in Builds : crs[a].nonce = n => a = b
    BY Zenon, <1>1, <1>3 DEF SharedSafe, NoncesDistinct
  <2>2. Genesis /\ n \in receipts => intents[b].nonce = n
    BY Zenon, <1>1, <1>3 DEF SharedSafe, CRSafe, CROK
  <2> QED
    BY <1>1, <1>2, <1>3, <1>4, <1>8, <2>1, <2>2 DEF ActingSafe
<1>10. TaskSafe(w)'
  BY <1>1, <1>2, <1>3, <1>4 DEF TaskSafe, WorkerPCs
<1>11. ProcSafe(w)'
  BY Zenon, <1>4, <1>9, <1>10, Vacuous DEF ProcSafe, AuthPCs, WritePCs
<1>12. ~Unborn(n)
  BY Zenon, <1>3 DEF Unborn
<1> QED
  BY Zenon, <1>1, <1>2, <1>4, <1>5, <1>6, <1>7, <1>11, <1>12, OneStep DEF PrePCs, AuthPCs

\* markReceiptSettled preserves the invariant.
LEMMA SettleSafe ==
    ASSUME IInv, NEW w \in Workers, MarkReceiptSettled(w) PROVE IInv'
<1> DEFINE b == job[w]
<1>1. /\ w \in Procs /\ TypeOK /\ SharedSafe /\ ProcSafe(w) /\ w \notin Handlers
      /\ pc[w] = "settle" /\ Acting(w)
  BY Zenon, ConstantsAssumption DEF IInv, Procs, MarkReceiptSettled, Acting
<1>2. /\ lateReceipts' = lateReceipts /\ lateCreates' = lateCreates
      /\ receipts' = receipts /\ used' = used
  BY Zenon DEF MarkReceiptSettled, lateVars
<1>3. b \in Builds /\ tok[w] \in Nonces /\ tok[w] # None /\ ActingSafe(w) /\ TaskSafe(w)
  BY Zenon, <1>1, ProcFacts, ConstantsAssumption DEF ProcSafe
<1>4. CASE Return(w) /\ Drop(w) /\ crs' = crs
  BY Zenon, <1>1, <1>2, <1>4, LeaveStep
<1>5. CASE /\ SameCR(w) /\ crs' = [crs EXCEPT ![b].settled = TRUE]
           /\ Goto(w, "releaseBuildWrite") /\ UNCHANGED ledgerVars
  <2>1. intents' = intents /\ current' = current /\ lateWrites' = lateWrites
    BY Zenon, <1>5 DEF ledgerVars
  <2>2. pc'[w] = "releaseBuildWrite" /\ job' = job /\ tok' = tok
    BY Zenon, <1>1, <1>5 DEF Goto, TypeOK
  <2>3. /\ crs'[b].nonce = crs[b].nonce /\ crs'[b].stage = crs[b].stage /\ crs'[b].settled
        /\ \A a \in Builds : a # b => crs'[a] = crs[a]
    BY Zenon, <1>1, <1>3, <1>5 DEF TypeOK, CR
  <2>4. TypeOK'
    BY Zenon, <1>1, <1>2, <1>3, <1>5, <2>1 DEF TypeOK, Goto, PCs, CR
  <2>5. Outside({w})
    BY Zenon, <1>1, <1>2, <1>5, <2>1 DEF Outside, Goto, TypeOK
  <2>6. CRSteps({w})
    <3>1. CRKept(b)
      BY Zenon, <1>1, <1>3, <2>3 DEF CRKept, SharedSafe, CRSafe, CROK
    <3>2. \A a \in Builds : a # b => CRKept(a)
      BY Zenon, <1>1, <2>3 DEF CRKept, SharedSafe, CRSafe, CROK
    <3> QED
      BY Zenon, <3>1, <3>2 DEF CRSteps
  <2>7. Spent(tok[w])'
    <3>1. \A h \in Handlers : pc'[h] \in PrePCs => pc'[h] = pc[h]
      BY Zenon, <1>1, <1>5, <2>2 DEF Goto, PrePCs, AuthPCs, Procs, TypeOK
    <3>2. InPre(tok[w])' => InPre(tok[w])
      BY Zenon, <2>2, <3>1 DEF InPre
    <3>3. Launched(tok[w])' => Launched(tok[w])
      BY Zenon, <1>2, <2>2 DEF Launched
    <3> QED
      BY Zenon, <1>1, <1>2, <1>3, <2>2, <3>2, <3>3 DEF Spent, ActingSafe
  <2>8. \A a \in Builds : crs'[a].nonce = crs[a].nonce /\ crs'[a].stage = crs[a].stage
    BY Zenon, <1>3, <2>3
  <2>9. ActingSafe(w)'
    BY Zenon, <1>1, <1>2, <1>3, <2>1, <2>2, <2>7, <2>8 DEF ActingSafe
  <2>10. TaskSafe(w)'
    BY Zenon, <1>1, <1>2, <1>3, <2>2 DEF TaskSafe, WorkerPCs
  <2>11. ProposalSafe(w)'
    <3> SUFFICES ASSUME w \in current PROVE MayCommit(b, NoIntent)'
      BY Zenon, <2>1, <2>2 DEF ProposalSafe, Proposal
    <3>1. /\ Genesis /\ intents[b].nonce = tok[w] /\ intents[b].kind = "terminal"
          /\ tok[w] \notin receipts /\ crs[b].nonce = tok[w]
      BY Zenon, <1>1, <1>3 DEF ActingSafe, CleanupKind
    <3> QED
      BY Zenon, <1>2, <1>3, <2>1, <2>2, <2>3, <3>1 DEF MayCommit
  <2>12. ProcSafe(w)'
    BY Zenon, <2>2, <2>9, <2>10, <2>11, Vacuous DEF ProcSafe, AuthPCs
  <2>13. ~Unborn(tok[w])
    BY Zenon, <1>1 DEF Unborn, PrePCs, AuthPCs
  <2> QED
    BY Zenon, <1>1, <2>1, <2>2, <2>4, <2>5, <2>6, <2>12, <2>13, OneStep DEF PrePCs, AuthPCs
<1> QED
  BY Zenon, <1>4, <1>5 DEF MarkReceiptSettled

\* The removal of a released build preserves the invariant.
LEMMA RemoveFinalizerSafe ==
    ASSUME IInv, NEW w \in Workers, RemoveFinalizer(w) PROVE IInv'
<1> DEFINE b == job[w]
<1>1. /\ w \in Procs /\ TypeOK /\ SharedSafe /\ ProcSafe(w) /\ pc[w] = "released"
      /\ crs[b].nonce = tok[w] /\ crs' = [crs EXCEPT ![b] = NoCR] /\ Return(w) /\ Drop(w)
  BY Zenon DEF IInv, Procs, RemoveFinalizer, SameCR
<1>2. /\ lateReceipts' = lateReceipts /\ lateCreates' = lateCreates
      /\ receipts' = receipts /\ used' = used
      /\ intents' = intents /\ lateWrites' = lateWrites /\ current' = current \ {w}
  BY Zenon DEF RemoveFinalizer, lateVars, Drop, NoWrite
<1>3. b \in Builds
  BY Zenon, <1>1 DEF ProcSafe, TaskSafe
<1>4. pc'[w] = "idle" /\ tok'[w] = None /\ job'[w] = None
  BY Zenon, <1>1 DEF Return, TypeOK
<1>5. crs'[b] = NoCR /\ \A a \in Builds : a # b => crs'[a] = crs[a]
  BY Zenon, <1>1, <1>3 DEF TypeOK
<1>6. TypeOK'
  BY Zenon, <1>1, <1>2, <1>3 DEF TypeOK, Return, PCs, NoCR, CR, Stages
<1>7. Outside({w})
  BY Zenon, <1>1, <1>2 DEF Outside, Return, TypeOK
<1>8. CRSteps({w})
  <2>1. CRGone({w}, b)
    BY Zenon, <1>1, <1>5 DEF CRGone
  <2>2. \A a \in Builds : a # b => CRKept(a)
    BY Zenon, <1>1, <1>5 DEF CRKept, SharedSafe, CRSafe, CROK
  <2> QED
    BY Zenon, <2>1, <2>2 DEF CRSteps
<1>9. ProcSafe(w)'
  BY Zenon, <1>4, Vacuous DEF ProcSafe, TaskSafe, AuthPCs, WritePCs, WorkerPCs
<1> QED
  BY Zenon, <1>1, <1>2, <1>4, <1>6, <1>7, <1>8, <1>9, OneStep

(* The steps of no process: those of a KovaBuild, and the deliveries.         *)
LEMMA BuildSafe ==
    ASSUME IInv, NEW b \in Builds, BuildStep(b) PROVE IInv'
<1>1. TypeOK /\ SharedSafe /\ CROK(b)
  BY Zenon DEF IInv, SharedSafe, CRSafe
<1>2. /\ pc' = pc /\ job' = job /\ tok' = tok /\ intents' = intents /\ current' = current
      /\ lateWrites' = lateWrites /\ lateReceipts' = lateReceipts /\ lateCreates' = lateCreates
      /\ receipts' = receipts /\ used' = used
  BY Zenon DEF BuildStep, Grant, Finish, Delete, DirectCreate, DirectRemove, SetStage, ledgerVars, lateVars
<1>3. Outside({})
  BY Zenon, <1>1, <1>2 DEF Outside
<1>4. /\ crs' \in [Builds -> CR] /\ CRKept(b)
      /\ \A a \in Builds : a # b => crs'[a] = crs[a]
  <2>1. CASE Grant(b)
    BY Zenon, <1>1, <2>1 DEF Grant, SetStage, TypeOK, CR, Stages, CRKept, CROK
  <2>2. CASE Finish(b)
    BY Zenon, <1>1, <2>2 DEF Finish, SetStage, TypeOK, CR, Stages, CRKept, CROK
  <2>3. CASE Delete(b)
    BY Zenon, <1>1, <2>3 DEF Delete, Exists, TypeOK, CR, Stages, CRKept, CROK
  <2>4. CASE DirectCreate(b)
    BY Zenon, <1>1, <2>4 DEF DirectCreate, Exists, NewCR, TypeOK, CR, Stages, CRKept, CROK
  <2>5. CASE DirectRemove(b)
    BY Zenon, <1>1, <2>5 DEF DirectRemove, NoCR, TypeOK, CR, Stages, CRKept, CROK
  <2> QED
    BY Zenon, <2>1, <2>2, <2>3, <2>4, <2>5 DEF BuildStep
<1>5. TypeOK'
  BY Zenon, <1>1, <1>2, <1>4 DEF TypeOK
<1>6. CRSteps({})
  <2>1. \A a \in Builds : a # b => CRKept(a)
    BY Zenon, <1>1, <1>4 DEF CRKept, SharedSafe, CRSafe, CROK
  <2> QED
    BY Zenon, <1>4, <2>1 DEF CRSteps
<1> QED
  BY Zenon, <1>2, <1>3, <1>5, <1>6, NoProcStep

\* A late ledger write, receipt Create or KovaBuild Create taking effect
\* preserves the invariant.
LEMMA DeliverSafe ==
    ASSUME IInv, Deliver PROVE IInv'
<1>1. TypeOK /\ SharedSafe
  BY Zenon DEF IInv
<1>2. ASSUME NEW u \in lateWrites, DeliverWrite(u[1], u[2]) PROVE IInv'
  <2>1. PICK b \in Builds, e \in Intent : u = <<b, e>>
    BY <1>1, <1>2 DEF TypeOK
  <2>2. /\ Commit(b, e) /\ pc' = pc /\ job' = job /\ tok' = tok /\ receipts' = receipts
        /\ crs' = crs /\ used' = used /\ lateReceipts' = lateReceipts /\ lateCreates' = lateCreates
    BY Zenon, <1>2, <2>1 DEF DeliverWrite, lateVars
  <2>3. /\ MayCommit(b, e)
        /\ intents[b].nonce = None =>
              \A p \in Procs : tok[p] = e.nonce => pc[p] = "reserveLookup" /\ job[p] = b
    BY Zenon, <1>1, <1>2, <2>1 DEF SharedSafe, LateWritesSafe
  <2>4. Moved({})
    BY Zenon, <1>1, <2>2 DEF Moved, Commit, TypeOK
  <2> QED
    BY <2>2, <2>3, <2>4, CommitMove
<1>3. ASSUME NEW n \in lateReceipts, DeliverReceipt(n) PROVE IInv'
  <2>1. /\ pc' = pc /\ job' = job /\ tok' = tok /\ intents' = intents /\ current' = current
        /\ lateWrites' = lateWrites /\ lateCreates' = lateCreates /\ crs' = crs /\ used' = used
        /\ receipts' = receipts \cup {n} /\ lateReceipts' = lateReceipts \ {n}
    BY Zenon, <1>3 DEF DeliverReceipt, ledgerVars
  <2>2. TypeOK'
    BY Zenon, <1>1, <1>3, <2>1 DEF TypeOK
  <2>3. Outside({})
    BY Zenon, <1>1, <1>3, <2>1 DEF Outside
  <2>4. CRSteps({})
    BY Zenon, <1>1, <2>1 DEF CRSteps, CRKept, SharedSafe, CRSafe, CROK
  <2> QED
    BY Zenon, <2>1, <2>2, <2>3, <2>4, NoProcStep
<1>4. ASSUME NEW u \in lateCreates, DeliverCreate(u[1], u[2]) PROVE IInv'
  <2>1. PICK b \in Builds, n \in used : u = <<b, n>>
    BY <1>1, <1>4 DEF TypeOK
  <2>2. /\ pc' = pc /\ job' = job /\ tok' = tok /\ intents' = intents /\ current' = current
        /\ lateWrites' = lateWrites /\ lateReceipts' = lateReceipts /\ receipts' = receipts
        /\ used' = used /\ lateCreates' = lateCreates \ {<<b, n>>} /\ <<b, n>> \in lateCreates
        /\ crs' = IF Exists(b) THEN crs ELSE [crs EXCEPT ![b] = NewCR(n)]
    BY Zenon, <1>4, <2>1 DEF DeliverCreate, ledgerVars
  <2>3. n \in Nonces
    BY Zenon, <1>1 DEF TypeOK
  <2>4. TypeOK'
    BY Zenon, <1>1, <2>2, <2>3 DEF TypeOK, NewCR, CR, Stages
  <2>5. Outside({})
    BY Zenon, <1>1, <2>2 DEF Outside
  <2>6. CRSteps({})
    <3>1. CASE Exists(b)
      BY Zenon, <1>1, <2>2, <3>1 DEF CRSteps, CRKept, SharedSafe, CRSafe, CROK
    <3>2. CASE ~Exists(b)
      <4>1. crs'[b] = NewCR(n) /\ crs'[b].nonce = n /\ \A a \in Builds : a # b => crs'[a] = crs[a]
        BY Zenon, <1>1, <2>2, <3>2 DEF TypeOK, NewCR
      <4>2. crs[b].nonce = None
        BY Zenon, <1>1, <3>2 DEF Exists, SharedSafe, CRSafe, CROK
      <4>3. <<b, n>> \notin lateCreates'
        BY Zenon, <2>2
      <4>4. CRMade({}, b)
        BY Zenon, <2>2, <2>3, <4>1, <4>2, <4>3 DEF CRMade
      <4>5. \A a \in Builds : a # b => CRKept(a)
        BY Zenon, <1>1, <4>1 DEF CRKept, SharedSafe, CRSafe, CROK
      <4> QED
        BY Zenon, <4>4, <4>5 DEF CRSteps
    <3> QED
      BY Zenon, <3>1, <3>2
  <2> QED
    BY Zenon, <2>2, <2>4, <2>5, <2>6, NoProcStep
<1> QED
  BY Zenon, <1>2, <1>3, <1>4 DEF Deliver

\* A stuttering step preserves the invariant.
LEMMA StutterSafe ==
    ASSUME IInv, UNCHANGED vars PROVE IInv'
<1>1. /\ pc' = pc /\ job' = job /\ tok' = tok /\ intents' = intents /\ current' = current
      /\ lateWrites' = lateWrites /\ lateReceipts' = lateReceipts /\ lateCreates' = lateCreates
      /\ receipts' = receipts /\ used' = used /\ crs' = crs
  BY Zenon DEF vars
<1>2. TypeOK'
  BY Zenon, <1>1 DEF IInv, TypeOK
<1>3. Outside({})
  BY Zenon, <1>1 DEF Outside, IInv, TypeOK
<1>4. CRSteps({})
  BY Zenon, <1>1 DEF CRSteps, CRKept, IInv, SharedSafe, CRSafe, CROK
<1> QED
  BY Zenon, <1>1, <1>2, <1>3, <1>4, NoProcStep

(* IInv is inductive.                                                         *)
LEMMA StepSafe ==
    ASSUME IInv, [Next]_vars PROVE IInv'
<1>1. ASSUME NEW h \in Handlers, HandlerStep(h) PROVE IInv'
  <2>1. h \in Procs
    BY Zenon DEF Procs
  <2> QED
    BY Zenon, <1>1, <2>1, BeginCreateSafe, ReserveSafe, UpdateSafe, AuthoritySafeStep, RecordSafe,
       CreateSafe, ReadSafe DEF HandlerStep
<1>2. ASSUME NEW w \in Workers, WorkerStep(w) PROVE IInv'
  <2>1. w \in Procs
    BY Zenon DEF Procs
  <2> QED
    BY Zenon, <1>2, <2>1, BeginReleaseSafe, ReadSafe, SettleSafe, UpdateSafe, RemoveFinalizerSafe
       DEF WorkerStep
<1>3. ASSUME NEW p \in Procs, CleanupStep(p) PROVE IInv'
  BY Zenon, <1>3, ReadSafe, UpdateSafe, DeleteReceiptSafe DEF CleanupStep
<1>4. ASSUME NEW p \in Procs, Abort(p) PROVE IInv'
  <2>1. /\ Return(p) /\ Drop(p) /\ receipts' = receipts /\ crs' = crs /\ used' = used
        /\ lateReceipts' = lateReceipts /\ lateCreates' = lateCreates
    BY Zenon, <1>4 DEF Abort, lateVars
  <2> QED
    BY Zenon, <2>1, LeaveStep
<1> QED
  BY Zenon, <1>1, <1>2, <1>3, <1>4, BuildSafe, DeliverSafe, StutterSafe DEF Next

(* The inductive invariant holds: whatever is lost, delayed or crashes, every *)
(* process and every request in flight stays within what the ledger records.  *)
THEOREM Safe == Spec => []IInv
<1>1. Init => IInv
  BY Zenon, InitSafe
<1>2. IInv /\ [Next]_vars => IInv'
  BY Zenon, StepSafe
<1> QED
  BY <1>1, <1>2, PTL DEF Spec

(* Every variable keeps its type.                                             *)
THEOREM TypeCorrect == Spec => []TypeOK
<1>1. IInv => TypeOK
  BY Zenon DEF IInv
<1> QED
  BY <1>1, Safe, PTL

(* A build in the backlog holds a charge, so the limits checked by Reserve    *)
(* bound the backlog.                                                         *)
THEOREM BacklogBounded == Spec => []BacklogWithinLimits
<1>1. IInv => BacklogWithinLimits
  <2> SUFFICES ASSUME IInv PROVE BacklogWithinLimits
    BY Zenon
  <2>1. TypeOK /\ SharedSafe /\ LimitsSafe
    BY Zenon DEF IInv
  <2>2. Backlog \subseteq Charged
    <3> SUFFICES ASSUME NEW b \in Builds, Waiting(b) \/ CreateInFlight(b) PROVE intents[b].nonce # None
      BY Zenon DEF Backlog, Charged
    <3>1. CASE Waiting(b)
      BY Zenon, <2>1, <3>1 DEF Waiting, SharedSafe, CRSafe, CROK
    <3>2. CASE CreateInFlight(b)
      BY Zenon, <2>1, <3>2, ConstantsAssumption DEF CreateInFlight, SharedSafe, LaunchedSafe
    <3> QED
      BY Zenon, <3>1, <3>2
  <2>3. IsFiniteSet(Charged) /\ \A r \in Requesters : IsFiniteSet(ChargedTo(r))
    <3>1. Charged \subseteq Builds /\ \A r \in Requesters : ChargedTo(r) \subseteq Builds
      BY Zenon DEF Charged, ChargedTo
    <3> QED
      BY Zenon, <3>1, FS_Subset, ConstantsAssumption
  <2>4. Cardinality(Backlog) <= GlobalLimit
    <3>1. Cardinality(Backlog) <= Cardinality(Charged) /\ Cardinality(Charged) \in Nat
      BY Zenon, <2>2, <2>3, FS_Subset, FS_CardinalityType
    <3>2. Cardinality(Backlog) \in Nat
      BY Zenon, <2>2, <2>3, FS_Subset, FS_CardinalityType
    <3> QED
      BY <2>1, <3>1, <3>2, ConstantsAssumption DEF LimitsSafe
  <2>5. ASSUME NEW r \in Requesters
        PROVE  Cardinality({b \in Backlog : Owner[b] = r}) <= RequesterLimit
    <3> DEFINE S == {b \in Backlog : Owner[b] = r}
    <3>1. S \subseteq ChargedTo(r)
      BY Zenon, <2>2 DEF ChargedTo
    <3>2. Cardinality(S) <= Cardinality(ChargedTo(r)) /\ Cardinality(ChargedTo(r)) \in Nat
          /\ Cardinality(S) \in Nat
      BY Zenon, <2>3, <3>1, FS_Subset, FS_CardinalityType
    <3>3. Cardinality(ChargedTo(r)) <= RequesterLimit
      BY Zenon, <2>1 DEF LimitsSafe
    <3> QED
      BY <3>2, <3>3, ConstantsAssumption
  <2> QED
    BY Zenon, <2>4, <2>5 DEF BacklogWithinLimits
<1> QED
  BY <1>1, Safe, PTL

(* An unknown Create outcome never frees its queue slot.                      *)
THEOREM InFlightIsCharged == Spec => []InFlightCharged
<1>1. IInv => InFlightCharged
  <2> SUFFICES ASSUME IInv, NEW u \in lateCreates
               PROVE  intents[u[1]].nonce = u[2] /\ intents[u[1]].kind = "none"
    BY Zenon DEF InFlightCharged
  <2>1. PICK b \in Builds, n \in Nonces : u = <<b, n>>
    BY DEF IInv, TypeOK
  <2> QED
    BY Zenon, <2>1 DEF IInv, SharedSafe, LaunchedSafe
<1> QED
  BY <1>1, Safe, PTL

(* A waiting build is never taken for a drifted one.                          *)
THEOREM WaitingBuildVerifies == Spec => []WaitingVerifies
<1>1. IInv => WaitingVerifies
  <2> SUFFICES ASSUME IInv, NEW b \in Builds, Waiting(b) PROVE VerifyForBuild(b)
    BY Zenon DEF WaitingVerifies
  <2>1. EntryOK(b) /\ CROK(b) /\ crs[b].nonce # None
        /\ (crs[b].stage = "queued" \/ (Genesis /\ crs[b].stage = "granted"))
        /\ intents[b].kind \in Kinds
    BY Zenon DEF IInv, SharedSafe, EntrySafe, CRSafe, Waiting, TypeOK, Intent
  <2> QED
    BY Zenon, <2>1 DEF EntryOK, CROK, VerifyForBuild, Kinds
<1> QED
  BY <1>1, Safe, PTL

(* For one name at most one KovaBuild Create is possible at a time.           *)
THEOREM SingleCreateAuthority == Spec => []OneCreateAuthority
<1>1. IInv => OneCreateAuthority
  <2> SUFFICES ASSUME IInv, NEW b \in Builds
               PROVE  /\ \A g, h \in Authorized(b) : g = h
                      /\ CreateInFlight(b) => Authorized(b) = {}
                      /\ \A m, n \in Nonces :
                            <<b, m>> \in lateCreates /\ <<b, n>> \in lateCreates => m = n
    BY Zenon DEF OneCreateAuthority
  <2>1. ASSUME NEW h \in Authorized(b)
        PROVE  /\ h \in Handlers /\ pc[h] \in PrePCs /\ tok[h] # None
               /\ intents[b].nonce = tok[h] /\ ~Launched(tok[h])
    BY Zenon, <2>1 DEF Authorized, IInv, ProcSafe, AuthoritySafe, TaskSafe, Procs, PrePCs, AuthPCs
  <2>2. \A g, h \in Authorized(b) : g = h
    BY Zenon, <2>1 DEF IInv, SharedSafe, NoncesDistinct
  <2>3. \A n \in Nonces : <<b, n>> \in lateCreates => intents[b].nonce = n
    BY Zenon DEF IInv, SharedSafe, LaunchedSafe
  <2>4. CreateInFlight(b) => Authorized(b) = {}
    BY Zenon, <2>1, <2>3 DEF CreateInFlight, Launched
  <2> QED
    BY Zenon, <2>2, <2>3, <2>4
<1> QED
  BY <1>1, Safe, PTL

(* The durable cleanup mark tells the fate of the Create truthfully.          *)
THEOREM CleanupKindIsTruthful == Spec => []CleanupKindTruthful
<1>1. IInv => CleanupKindTruthful
  <2> SUFFICES ASSUME IInv, NEW b \in Builds
               PROVE  /\ intents[b].kind = "rejected" =>
                            /\ crs[b].nonce # intents[b].nonce
                            /\ ~CreateInFlight(b) /\ Authorized(b) = {}
                      /\ intents[b].kind = "terminal" =>
                            crs[b].nonce = intents[b].nonce /\ crs[b].stage = "terminal"
    BY Zenon DEF CleanupKindTruthful
  <2>1. EntryOK(b)
    BY Zenon DEF IInv, SharedSafe, EntrySafe
  <2>2. CreateInFlight(b) => intents[b].kind = "none"
    BY Zenon DEF CreateInFlight, IInv, SharedSafe, LaunchedSafe
  <2>3. \A h \in Authorized(b) : intents[b].kind = "none"
    BY Zenon DEF Authorized, IInv, ProcSafe, AuthoritySafe, Procs, AuthPCs
  <2> QED
    BY Zenon, <2>1, <2>2, <2>3 DEF EntryOK, HasCR
<1> QED
  BY <1>1, Safe, PTL

(* A released Genesis build is settled, and its receipt cannot come back.     *)
THEOREM SettledIsReleased == Spec => []SettledBeforeReleased
<1>1. IInv => SettledBeforeReleased
  BY Zenon DEF IInv, SharedSafe, CRSafe, CROK, Spent, SettledBeforeReleased
<1> QED
  BY <1>1, Safe, PTL

(* A receipt is deleted only under a durable cleanup mark.                    *)
THEOREM ReceiptRemovedUnderMark == Spec => ReceiptOutlivesMark
<1>1. IInv /\ [Next]_vars => [RemovedUnderMark]_vars
  <2> SUFFICES ASSUME IInv, Next, NEW n \in receipts, n \notin receipts'
               PROVE  \E b \in Builds : /\ intents[b].nonce = n /\ intents[b].pinned
                                        /\ intents[b].kind # "none"
    BY Zenon DEF RemovedUnderMark
  <2>1. PICK p \in Procs : DeleteReceipt(p) /\ n = tok[p]
    BY Zenon DEF Next, HandlerStep, WorkerStep, CleanupStep, BuildStep, Deliver, Abort, BeginCreate,
       ReserveRead, ReserveWrite, ReserveLookup, RecordQueueOnce, PinRead, PinWrite, PinLookup,
       CreateSent, CreateRefused, RejectObserve, ReleaseRead, ReleaseWrite, DupObserve,
       ResumeRejectedCleanup, MarkRead, MarkWrite, MarkLookup, DeleteReceipt, BeginRelease,
       ReleaseForBuild, ReleaseReceiptedBuild, MarkReceiptSettled, ReleaseBuildWrite,
       ReleaseBuildLookup, RemoveFinalizer, Grant, Finish, Delete, DirectCreate, DirectRemove,
       SetStage, DeliverWrite, DeliverReceipt, DeliverCreate
  <2>2. TypeOK /\ ProcSafe(p) /\ Acting(p) /\ pc[p] = "deleteReceipt"
    BY Zenon, <2>1 DEF IInv, DeleteReceipt, Acting, RejectPCs
  <2>3. job[p] \in Builds /\ ActingSafe(p) /\ EntryOK(job[p]) /\ CleanupKind(p) # "none"
    BY Zenon, <2>2, ProcFacts DEF ProcSafe, IInv, SharedSafe, EntrySafe, CleanupKind
  <2> QED
    BY Zenon, <2>1, <2>2, <2>3 DEF ActingSafe, EntryOK
<1> QED
  BY <1>1, Safe, PTL DEF Spec, ReceiptOutlivesMark
=============================================================================
