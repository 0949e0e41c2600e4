------------------------ MODULE QueueAdmissionLemmas ------------------------
(***************************************************************************)
(* The steps of QueueAdmission that commit a ledger entry, and the shapes  *)
(* in which its actions use the ledger: a move without a write, an update  *)
(* that is sent, and the lookup after one.                                 *)
(***************************************************************************)
EXTENDS QueueAdmissionOutside, FiniteSetTheorems

(* What a step in which only the processes of M move, and no Create, receipt  *)
(* or KovaBuild is touched, may do to them.                                   *)
Moved(M) ==
    /\ M \subseteq Procs
    /\ pc' \in [Procs -> PCs] /\ job' \in [Procs -> Builds \cup {None}]
    /\ tok' \in [Procs -> Nonces \cup {None}]
    /\ current' \subseteq current \cup M
    /\ \A q \in Procs \ M : pc'[q] = pc[q] /\ job'[q] = job[q] /\ tok'[q] = tok[q]
    /\ \A p \in M : tok'[p] # None /\ p \in Handlers /\ pc'[p] \in PrePCs =>
          pc[p] \in PrePCs /\ tok'[p] = tok[p]

\* A commit of an update that may still commit (Store.write succeeding, at
\* once or late) preserves the invariant, given that each moved process is
\* safe afterwards.
LEMMA CommitMove ==
    ASSUME IInv, NEW M, Moved(M), NEW b \in Builds, NEW e \in Intent,
           MayCommit(b, e), Commit(b, e),
           receipts' = receipts, crs' = crs, used' = used,
           lateReceipts' = lateReceipts, lateCreates' = lateCreates,
           \A p \in M : ProcSafe(p)',
           \A p \in M : tok'[p] # None /\ Unborn(tok'[p]) /\ tok'[p] # e.nonce =>
              p \in Handlers /\ pc'[p] \in PrePCs \ AuthPCs,
           intents[b].nonce = None => \A q \in Procs \ M : tok[q] = e.nonce =>
              pc[q] = "reserveLookup" /\ job[q] = b
    PROVE  IInv'
<1> DEFINE i == intents[b]
<1>1. TypeOK'
  BY Zenon DEF IInv, TypeOK, Moved, Commit
<1>2. /\ \A n : HasCR(n)' <=> HasCR(n)
      /\ \A n : Launched(n)' <=> Launched(n)
  BY Zenon DEF HasCR, Launched
<1>3. \A n \in Nonces : InPre(n)' => InPre(n)
  BY Zenon, ConstantsAssumption DEF InPre, Moved, Procs
<1>4. \A n \in Nonces : Spent(n) => Spent(n)'
  BY Zenon, <1>2, <1>3 DEF Spent
<1>5. /\ i \in Intent /\ (i.nonce = None => i = NoIntent)
      /\ intents' = [intents EXCEPT ![b] = e] /\ current' = {} /\ lateWrites' = {}
      /\ intents'[b] = e /\ \A a \in Builds : a # b => intents'[a] = intents[a]
  BY Zenon DEF IInv, TypeOK, SharedSafe, EntrySafe, EntryOK, Commit
<1>6. e = NoIntent \/ e.nonce = i.nonce \/ (i.nonce = None /\ Unborn(e.nonce))
  BY Zenon, <1>5 DEF MayCommit, Intent
<1>7. \A n \in Nonces : Unborn(n) /\ n # e.nonce => Unborn(n)'
  BY <1>2, <1>5, ConstantsAssumption DEF Unborn, Moved, Logged
<1>8. NoncesUsed'
  BY <1>5, <1>6 DEF IInv, SharedSafe, NoncesUsed, Unborn, NoIntent
<1>9. NoncesDistinct'
  <2>1. \A g, h \in Handlers : pc'[g] \in PrePCs /\ pc'[h] \in PrePCs
                                 /\ tok'[g] = tok'[h] /\ tok'[g] # None => g = h
    BY Zenon, ConstantsAssumption DEF IInv, SharedSafe, NoncesDistinct, Moved, Procs
  <2>2. ASSUME NEW a \in Builds, a # b, intents[a].nonce # None PROVE intents[a].nonce # e.nonce
    BY <1>5, <1>6, <2>2 DEF IInv, SharedSafe, NoncesDistinct, Unborn, Logged, NoIntent
  <2>3. ASSUME NEW a \in Builds, crs[a].nonce # None, e.nonce = crs[a].nonce PROVE a = b
    BY <1>5, <1>6, <2>3 DEF IInv, SharedSafe, NoncesDistinct, Unborn, HasCR, NoIntent
  <2> QED
    BY <1>5, <2>1, <2>2, <2>3 DEF IInv, SharedSafe, NoncesDistinct
<1>10. LaunchedSafe'
  <2> SUFFICES ASSUME NEW a \in Builds, NEW n \in Nonces, <<a, n>> \in lateCreates
               PROVE  /\ intents'[a].nonce = n /\ intents'[a].kind = "none"
                      /\ ~HasCR(n)' /\ ~InPre(n)' /\ n \notin lateReceipts
                      /\ Genesis => intents'[a].pinned
    BY Zenon DEF LaunchedSafe
  <2>1. /\ intents[a].nonce = n /\ intents[a].kind = "none"
        /\ ~HasCR(n) /\ ~InPre(n) /\ n \notin lateReceipts
        /\ Genesis => intents[a].pinned
    BY Zenon DEF IInv, SharedSafe, LaunchedSafe
  <2>2. Launched(n) /\ n # None
    BY Zenon, ConstantsAssumption DEF Launched
  <2>3. a = b => e.nonce = n /\ e.kind = "none" /\ (Genesis => e.pinned)
    BY ZenonT(30), <1>5, <2>1, <2>2 DEF MayCommit, Spent, HasCR, Intent
  <2> QED
    BY Zenon, <1>2, <1>3, <1>5, <2>1, <2>3
<1>11. EntrySafe'
  <2>1. ASSUME NEW a \in Builds, a # b PROVE EntryOK(a)'
    <3>1. EntryOK(a) /\ intents'[a] = intents[a] /\ intents[a].nonce \in Nonces \cup {None}
      BY Zenon, <1>5, <2>1 DEF IInv, SharedSafe, EntrySafe, TypeOK, Intent
    <3>2. intents[a].kind = "rejected" => intents[a].nonce \in Nonces
      BY <3>1 DEF EntryOK, NoIntent
    <3> QED
      BY Zenon, <1>2, <1>4, <3>1, <3>2 DEF EntryOK
  <2>2. EntryOK(b)'
    <3>1. /\ EntryOK(b) /\ i.nonce \in Nonces \cup {None}
          /\ Unborn(e.nonce) => e.nonce # None
      BY ZenonT(30), <1>5, ConstantsAssumption DEF IInv, TypeOK, Intent, SharedSafe, EntrySafe, Unborn
    <3>2. e.kind = "rejected" => Spent(e.nonce)' /\ ~HasCR(e.nonce)'
      <4> SUFFICES ASSUME e.kind = "rejected"
                   PROVE  e.nonce \in Nonces /\ Spent(e.nonce) /\ ~HasCR(e.nonce)
        BY Zenon, <1>2, <1>4
      <4> QED
        BY <1>5, <3>1 DEF EntryOK, MayCommit, NoIntent, NewIntent, Intent
    <3>3. /\ e.nonce = None => e = NoIntent
          /\ e.pinned => Genesis /\ e.nonce \notin lateReceipts
          /\ e.kind # "none" => e.pinned
          /\ e.pinned /\ e.kind = "none" => e.nonce \in receipts
      BY <1>5, <3>1 DEF EntryOK, MayCommit, NoIntent, NewIntent, Intent
    <3>4. e.kind = "terminal" => crs[b].nonce = e.nonce /\ crs[b].stage = "terminal"
      BY <1>5, <3>1 DEF EntryOK, MayCommit, NoIntent, NewIntent, Intent
    <3> QED
      BY <1>5, <3>2, <3>3, <3>4 DEF EntryOK
  <2> QED
    BY Zenon, <2>1, <2>2 DEF EntrySafe
<1>12. CRSafe'
  <2>1. ASSUME NEW a \in Builds, crs[a].nonce # None
        PROVE  /\ Spent(crs[a].nonce)'
               /\ ~Genesis /\ crs[a].stage = "queued" => intents'[a].nonce = crs[a].nonce
               /\ Genesis =>
                   \/ /\ intents'[a].nonce = crs[a].nonce /\ intents'[a].pinned
                      /\ intents'[a].kind # "rejected"
                   \/ /\ intents'[a].nonce # crs[a].nonce /\ crs[a].stage = "terminal"
                      /\ crs[a].settled /\ crs[a].nonce \notin receipts
    <3>1. crs[a].nonce \in Nonces /\ HasCR(crs[a].nonce)
      BY Zenon, <2>1 DEF IInv, TypeOK, CR, HasCR
    <3>2. CRSafe /\ EntrySafe
      BY Zenon DEF IInv, SharedSafe
    <3>3. Spent(crs[a].nonce)'
      BY Zenon, <1>4, <2>1, <3>1, <3>2 DEF CRSafe, CROK
    <3>4. CASE a # b
      BY ZenonT(30), <1>5, <2>1, <3>2, <3>3, <3>4 DEF CRSafe, CROK
    <3>5. CASE a = b
      <4>1. e.nonce = crs[a].nonce => i.nonce = crs[a].nonce
        BY <1>6, <2>1, <3>1 DEF Unborn, NoIntent
      <4>2. CASE i.nonce = crs[a].nonce
        BY <1>5, <2>1, <3>1, <3>2, <3>3, <3>5, <4>2 DEF CRSafe, CROK, EntrySafe, EntryOK, MayCommit, NoIntent, Intent
      <4>3. CASE i.nonce # crs[a].nonce
        BY Zenon, <1>5, <2>1, <3>2, <3>3, <3>5, <4>1, <4>3 DEF CRSafe, CROK
      <4> QED
        BY Zenon, <4>2, <4>3
    <3> QED
      BY Zenon, <3>4, <3>5
  <2>2. \A a \in Builds : crs[a].stage = "absent" => crs[a].nonce = None
    BY Zenon DEF IInv, SharedSafe, CRSafe, CROK
  <2> QED
    BY Zenon, <2>1, <2>2 DEF CRSafe, CROK
<1>13. LateWritesSafe' /\ LegacySafe'
  BY Zenon, <1>5 DEF LateWritesSafe, LegacySafe, IInv, SharedSafe
<1>14. LimitsSafe'
  <2>1. /\ Charged \subseteq Builds /\ IsFiniteSet(Charged) /\ IsFiniteSet(Charged')
        /\ Cardinality(Charged) \in Nat
    BY Zenon, ConstantsAssumption, FS_Subset, FS_CardinalityType DEF Charged
  <2>2. \A r \in Requesters : IsFiniteSet(ChargedTo(r)) /\ Cardinality(ChargedTo(r)) \in Nat
    BY Zenon, <2>1, FS_Subset, FS_CardinalityType DEF ChargedTo
  <2>3. LimitsSafe
    BY Zenon DEF IInv
  <2>4. CASE i.nonce = None /\ e.nonce # None
    <3>1. ~Full(b)
      BY Zenon, <1>5, <2>4 DEF MayCommit, NoIntent, Intent
    <3>2. Charged' = Charged \cup {b} /\ b \notin Charged
      BY <1>5, <2>4 DEF Charged
    <3>3. Cardinality(Charged') = Cardinality(Charged) + 1
      BY Zenon, <2>1, <3>2, FS_AddElement
    <3>4. ASSUME NEW r \in Requesters PROVE Cardinality(ChargedTo(r)') <= RequesterLimit
      <4>1. CASE Owner[b] = r
        <5>1. ChargedTo(r)' = ChargedTo(r) \cup {b} /\ b \notin ChargedTo(r)
          BY Zenon, <3>2, <4>1 DEF ChargedTo
        <5>2. Cardinality(ChargedTo(r)') = Cardinality(ChargedTo(r)) + 1
          BY Zenon, <2>2, <5>1, FS_AddElement
        <5> QED
          BY <2>2, <3>1, <4>1, <5>2, ConstantsAssumption DEF Full
      <4>2. CASE Owner[b] # r
        <5>1. ChargedTo(r)' = ChargedTo(r)
          BY Zenon, <3>2, <4>2 DEF ChargedTo
        <5> QED
          BY Zenon, <2>3, <5>1 DEF LimitsSafe
      <4> QED
        BY Zenon, <4>1, <4>2
    <3> QED
      BY <2>1, <3>1, <3>3, <3>4, ConstantsAssumption DEF Full, LimitsSafe
  <2>5. CASE ~(i.nonce = None /\ e.nonce # None)
    <3>1. Charged' \subseteq Charged
      BY Zenon, <1>5, <2>5 DEF Charged
    <3>2. Cardinality(Charged') <= Cardinality(Charged) /\ Cardinality(Charged') \in Nat
      BY Zenon, <2>1, <3>1, FS_Subset, FS_CardinalityType
    <3>3. ASSUME NEW r \in Requesters
          PROVE  Cardinality(ChargedTo(r)') <= Cardinality(ChargedTo(r))
                 /\ Cardinality(ChargedTo(r)') \in Nat
      <4>1. ChargedTo(r)' \subseteq ChargedTo(r)
        BY Zenon, <3>1 DEF ChargedTo
      <4> QED
        BY Zenon, <2>2, <4>1, FS_Subset, FS_CardinalityType
    <3> QED
      BY <2>1, <2>2, <2>3, <3>2, <3>3, ConstantsAssumption DEF LimitsSafe
  <2> QED
    BY Zenon, <2>4, <2>5
<1>15. ASSUME NEW q \in Procs, q \notin M
       PROVE  ProcSafe(q)'
  <2>1. /\ pc'[q] = pc[q] /\ job'[q] = job[q] /\ tok'[q] = tok[q]
        /\ q \notin current' /\ ProcSafe(q)
    BY Zenon, <1>5, <1>15 DEF Moved, IInv
  <2>3. TaskSafe(q)'
    BY Zenon, <2>1 DEF ProcSafe, TaskSafe
  <2>2. TypeOK /\ EntrySafe
    BY Zenon DEF IInv, SharedSafe
  <2>4. ReservingSafe(q)'
    <3>1. ASSUME pc[q] \in {"reserve", "reserveWrite"}, tok[q] # None PROVE Unborn(tok[q])'
      <4>1. Unborn(tok[q]) /\ tok[q] \in Nonces
        BY Zenon, <2>1, <2>2, <3>1 DEF ProcSafe, ReservingSafe, TypeOK
      <4>2. tok[q] # e.nonce
        BY <1>5, <1>6, <1>15, <3>1, <4>1 DEF Unborn, Logged, NoIntent
      <4> QED
        BY Zenon, <1>7, <2>1, <4>1, <4>2
    <3>2. ASSUME pc[q] = "reserveLookup", NEW a \in Builds, intents'[a].nonce = tok[q]
          PROVE  a = job[q] /\ intents'[a] = NewIntent(tok[q])
      <4>1. /\ tok[q] \in Nonces /\ ~HasCR(tok[q]) /\ tok[q] \notin receipts
            /\ intents[a].nonce = tok[q] => a = job[q] /\ intents[a] = NewIntent(tok[q])
        BY Zenon, <2>1, <2>2, <3>2, ProcFacts DEF ProcSafe, ReservingSafe
      <4>2. ~Spent(tok[q])
        BY Zenon, <2>2, <3>2, <2>1 DEF Spent, InPre, PrePCs, ProcSafe, TaskSafe, Procs, WorkerPCs
      <4>3. CASE a # b
        BY Zenon, <1>5, <3>2, <4>1, <4>3
      <4>4. CASE a = b /\ i.nonce = None
        BY Zenon, <1>5, <1>15, <3>2, <4>1, <4>4, ConstantsAssumption DEF MayCommit
      <4>5. CASE a = b /\ i.nonce # None
        <5>1. i.nonce = tok[q]
          BY <1>5, <1>6, <3>2, <4>1, <4>5, ConstantsAssumption DEF NoIntent
        <5> QED
          BY Zenon, <1>5, <3>2, <4>1, <4>2, <4>5, <5>1 DEF MayCommit, NewIntent, Intent, HasCR
      <4> QED
        BY Zenon, <4>3, <4>4, <4>5
    <3> QED
      BY Zenon, <1>2, <2>1, <3>1, <3>2 DEF ProcSafe, ReservingSafe
  <2>5. AuthoritySafe(q)'
    <3> SUFFICES ASSUME pc[q] \in AuthPCs
                 PROVE  /\ intents'[job[q]].nonce = tok[q] /\ intents'[job[q]].kind = "none"
                        /\ intents[job[q]].pinned => intents'[job[q]].pinned
      BY Zenon, <1>2, <2>1 DEF ProcSafe, AuthoritySafe
    <3>1. /\ tok[q] \in Nonces /\ job[q] \in Builds /\ tok[q] # None
          /\ intents[job[q]].nonce = tok[q] /\ intents[job[q]].kind = "none"
          /\ ~HasCR(tok[q])
      BY Zenon, <2>1, <2>2, ProcFacts, ConstantsAssumption DEF ProcSafe, AuthoritySafe
    <3>2. ~Spent(tok[q])
      BY Zenon, <2>1 DEF Spent, InPre, PrePCs, ProcSafe, TaskSafe, Procs, WorkerPCs, AuthPCs
    <3> QED
      BY <1>5, <3>1, <3>2 DEF MayCommit, Intent, HasCR
  <2>6. ActingSafe(q)'
    <3> SUFFICES ASSUME Acting(q) PROVE ActingSafe(q)'
      BY Zenon, <2>1 DEF ActingSafe, Acting
    <3>1. /\ tok[q] \in Nonces /\ job[q] \in Builds /\ tok[q] # None /\ ActingSafe(q)
      BY Zenon, <2>1, <2>2, ProcFacts, ConstantsAssumption DEF ProcSafe
    <3>2. i.nonce = None => e.nonce # tok[q]
      BY Zenon, <1>15, <2>1 DEF Acting, RejectPCs, ProcSafe, TaskSafe, WorkerPCs
    <3>3. \A a \in Builds : intents'[a].nonce = tok[q] => intents[a].nonce = tok[q]
      BY <1>5, <1>6, <3>1, <3>2 DEF NoIntent
    <3>4. Spent(tok[q])'
      BY Zenon, <1>4, <2>1, <3>1 DEF ActingSafe
    <3>5. intents[job[q]].nonce = tok[q] /\ intents[job[q]].kind # "none" =>
            intents'[job[q]].nonce # tok[q] \/ intents'[job[q]] = intents[job[q]]
      BY <1>5, <3>1 DEF MayCommit, NoIntent
    <3>6. Genesis /\ tok[q] \in receipts => intents'[job[q]].nonce = tok[q]
      BY <1>5, <3>1 DEF MayCommit, ActingSafe, Intent
    <3>7. CleanupKind(q) # "none"
      BY Zenon DEF CleanupKind
    <3> QED
      BY Zenon, <2>1, <3>1, <3>3, <3>4, <3>5, <3>6, <3>7 DEF ActingSafe, CleanupKind
  <2>7. ProposalSafe(q)'
    BY Zenon, <2>1 DEF ProposalSafe
  <2> QED
    BY Zenon, <2>3, <2>4, <2>5, <2>6, <2>7 DEF ProcSafe
<1> QED
  BY Zenon, <1>1, <1>8, <1>9, <1>10, <1>11, <1>12, <1>13, <1>14, <1>15 DEF IInv, SharedSafe

(* A process moves to l; nothing else changes.                                *)
Quietly(p, l) ==
    /\ l \in PCs /\ Goto(p, l)
    /\ intents' = intents /\ receipts' = receipts /\ crs' = crs /\ used' = used
    /\ lateReceipts' = lateReceipts /\ lateCreates' = lateCreates
    /\ current' \subseteq current \cup {p}
    /\ p \in Handlers /\ l \in PrePCs => pc[p] \in PrePCs
    /\ tok[p] # None /\ Unborn(tok[p]) => p \in Handlers /\ l \in PrePCs \ AuthPCs

\* A step that only moves one process's program counter forgets nothing
\* about any nonce: spent stays spent, unborn stays unborn, and what may
\* commit may still.
LEMMA Quiet ==
    ASSUME IInv, NEW p \in Procs, NEW l, Quietly(p, l)
    PROVE  /\ \A n : HasCR(n)' <=> HasCR(n)
           /\ \A n : Launched(n)' <=> Launched(n)
           /\ \A n \in Nonces : Spent(n) => Spent(n)'
           /\ \A n \in Nonces : Unborn(n) => Unborn(n)'
           /\ \A b \in Builds, e \in Intent : MayCommit(b, e) => MayCommit(b, e)'
           /\ tok' = tok /\ job' = job /\ pc'[p] = l
           /\ pc' \in [Procs -> PCs]
<1>1. TypeOK /\ (lateWrites' = lateWrites => TypeOK')
  BY Zenon DEF IInv, TypeOK, Quietly, Goto
<1>2. /\ \A n : HasCR(n)' <=> HasCR(n)
      /\ \A n : Launched(n)' <=> Launched(n)
      /\ \A n : Logged(n)' <=> Logged(n)
  BY Zenon DEF HasCR, Launched, Logged, Quietly
<1>3. \A n \in Nonces : InPre(n)' => InPre(n)
  BY Zenon, <1>1 DEF InPre, Quietly, Goto, Procs, TypeOK
<1>4. \A n \in Nonces : Spent(n) => Spent(n)'
  BY Zenon, <1>2, <1>3 DEF Spent, Quietly
<1>5. \A n \in Nonces : Unborn(n) => Unborn(n)'
  BY Zenon, <1>1, <1>2, ConstantsAssumption DEF Unborn, Quietly, Goto, TypeOK
<1>6. ASSUME NEW b \in Builds, NEW e \in Intent, MayCommit(b, e)
      PROVE  MayCommit(b, e)'
  <2>1. e.nonce \in Nonces \cup {None} /\ intents[b].nonce \in Nonces \cup {None}
    BY Zenon, <1>1 DEF TypeOK, Intent
  <2>2. Full(b)' <=> Full(b)
    BY Zenon DEF Full, Charged, ChargedTo, Quietly
  <2>3. Unborn(e.nonce) => Unborn(e.nonce)'
    BY Zenon, <1>1, <1>5, <2>1, ConstantsAssumption DEF Unborn, TypeOK
  <2> QED
    BY Zenon, <1>2, <1>4, <1>6, <2>1, <2>2, <2>3 DEF MayCommit, Quietly
<1> QED
  BY Zenon, <1>1, <1>2, <1>4, <1>5, <1>6 DEF Quietly, Goto, TypeOK

\* A step that only moves one process preserves the invariant, if the
\* process is safe at its new step.
LEMMA GotoStep ==
    ASSUME IInv, NEW p \in Procs, NEW l, Quietly(p, l), lateWrites' = lateWrites,
           pc[p] = "reserveLookup" => ~Unborn(tok[p]),
           ProcSafe(p)'
    PROVE  IInv'
<1>1. TypeOK'
  BY Zenon DEF IInv, TypeOK, Quietly, Goto
<1>2. Outside({p})
  BY Zenon DEF Outside, Quietly, Goto, IInv, TypeOK
<1>3. \A b \in Builds : CRKept(b)
  BY Zenon DEF CRKept, Quietly, IInv, SharedSafe, CRSafe, CROK
<1>4. \A b \in Builds, e \in Intent : <<b, e>> \in lateWrites' =>
        /\ MayCommit(b, e)
        /\ intents[b].nonce = None =>
              \A q \in Procs : tok'[q] = e.nonce => pc'[q] = "reserveLookup" /\ job'[q] = b
  <2> SUFFICES ASSUME NEW b \in Builds, NEW e \in Intent, <<b, e>> \in lateWrites
               PROVE  /\ MayCommit(b, e)
                      /\ intents[b].nonce = None =>
                            \A q \in Procs : tok'[q] = e.nonce => pc'[q] = "reserveLookup" /\ job'[q] = b
    BY Zenon
  <2>1. /\ MayCommit(b, e)
        /\ intents[b].nonce = None =>
              \A q \in Procs : tok[q] = e.nonce => pc[q] = "reserveLookup" /\ job[q] = b
    BY Zenon DEF IInv, SharedSafe, LateWritesSafe
  <2>2. intents[b].nonce = None => Unborn(e.nonce)
    BY Zenon, <2>1 DEF MayCommit
  <2> QED
    BY Zenon, <2>1, <2>2 DEF Quietly, Goto, IInv, TypeOK
<1>5. \A q \in {p} : tok'[q] # None /\ q \in Handlers /\ pc'[q] \in PrePCs =>
              tok'[q] \notin used \/ (pc[q] \in PrePCs /\ tok'[q] = tok[q])
  BY Zenon DEF Quietly, Goto, IInv, TypeOK
<1>6. \A q \in {p} : tok'[q] # None /\ Unborn(tok'[q]) =>
              q \in Handlers /\ pc'[q] \in PrePCs \ AuthPCs
  BY Zenon DEF Quietly, Goto, IInv, TypeOK
<1> QED
  BY Zenon, <1>1, <1>2, <1>3, <1>4, <1>5, <1>6, OutsideStep DEF CRSteps, PreSteps, UnbornSteps, MovedSafe, LateSteps

\* A process that returns (every error return, every success without a
\* write) preserves the invariant.
LEMMA LeaveStep ==
    ASSUME IInv, NEW p \in Procs, Return(p), Drop(p),
           receipts' = receipts, crs' = crs, used' = used,
           lateReceipts' = lateReceipts, lateCreates' = lateCreates
    PROVE  IInv'
<1>1. TypeOK'
  BY Zenon DEF IInv, TypeOK, Return, Drop, NoWrite, PCs
<1>2. pc'[p] = "idle" /\ tok'[p] = None /\ job'[p] = None /\ p \notin current'
  BY Zenon DEF Return, Drop, IInv, TypeOK
<1>3. Outside({p})
  BY Zenon DEF Outside, Return, Drop, NoWrite, IInv, TypeOK
<1>4. \A b \in Builds : CRKept(b)
  BY Zenon DEF CRKept, IInv, SharedSafe, CRSafe, CROK
<1>5. ProcSafe(p)'
  BY Zenon, <1>2 DEF ProcSafe, TaskSafe, ReservingSafe, AuthoritySafe, ActingSafe, Acting,
     ProposalSafe, AuthPCs, PrePCs, RejectPCs, WorkerPCs, Procs
<1>6. \A b \in Builds, e \in Intent : <<b, e>> \in lateWrites' =>
        /\ MayCommit(b, e)
        /\ intents[b].nonce = None =>
              \A q \in Procs : tok'[q] = e.nonce => pc'[q] = "reserveLookup" /\ job'[q] = b
  <2> SUFFICES ASSUME NEW b \in Builds, NEW e \in Intent, <<b, e>> \in lateWrites
               PROVE  /\ MayCommit(b, e)
                      /\ intents[b].nonce = None =>
                            \A q \in Procs : tok'[q] = e.nonce => pc'[q] = "reserveLookup" /\ job'[q] = b
    BY Zenon DEF Drop, NoWrite
  <2>1. /\ MayCommit(b, e)
        /\ intents[b].nonce = None =>
              \A q \in Procs : tok[q] = e.nonce => pc[q] = "reserveLookup" /\ job[q] = b
    BY Zenon DEF IInv, SharedSafe, LateWritesSafe
  <2>2. intents[b].nonce = None => e.nonce # None
    BY Zenon, <2>1, ConstantsAssumption DEF MayCommit, Unborn, IInv, TypeOK
  <2> QED
    BY Zenon, <2>1, <2>2 DEF Return, IInv, TypeOK
<1> QED
  BY Zenon, <1>1, <1>2, <1>3, <1>4, <1>5, <1>6, OutsideStep DEF CRSteps, PreSteps, UnbornSteps, MovedSafe, LateSteps

(* What holds of a process about to write with the current version.           *)
LEMMA Proposes ==
    ASSUME IInv, NEW p \in Procs, pc[p] \in WritePCs
    PROVE  /\ job[p] \in Builds /\ Proposal(p) \in Intent /\ tok[p] \in Nonces
           /\ pc[p] # "reserveWrite" => ~Unborn(tok[p])
           /\ pc[p] = "reserveWrite" => p \in Handlers /\ Unborn(tok[p])
           /\ p \in current => MayCommit(job[p], Proposal(p))
           /\ p \in current /\ intents[job[p]].nonce = None =>
                 pc[p] = "reserveWrite" /\ Proposal(p).nonce = tok[p]
           /\ pc[p] = "reserveWrite" =>
                 \A q \in Procs : tok[q] = tok[p] => q = p
<1>1. TypeOK /\ ProcSafe(p) /\ NoncesDistinct
  BY Zenon DEF IInv, SharedSafe
<1>2. job[p] \in Builds /\ Proposal(p) \in Intent
  BY Zenon, <1>1, ProcFacts DEF ProcSafe
<1>3. tok[p] \in Nonces /\ tok[p] # None
  BY Zenon, <1>1, ConstantsAssumption DEF ProcSafe, TaskSafe, WritePCs, TypeOK
<1>4. pc[p] # "reserveWrite" => ~Unborn(tok[p])
  <2>1. CASE pc[p] = "pinWrite"
    BY Zenon, <1>1, <1>2, <2>1 DEF ProcSafe, AuthoritySafe, AuthPCs, Unborn, Logged
  <2>2. CASE pc[p] \in {"markWrite", "releaseWrite", "releaseBuildWrite"}
    BY Zenon, <2>2 DEF Unborn, PrePCs, AuthPCs
  <2> QED
    BY Zenon, <2>1, <2>2 DEF WritePCs
<1>5. pc[p] = "reserveWrite" => p \in Handlers /\ Unborn(tok[p])
  BY Zenon, <1>1, <1>3 DEF ProcSafe, TaskSafe, WorkerPCs, Procs, ReservingSafe
<1>6. p \in current => MayCommit(job[p], Proposal(p))
  BY Zenon, <1>1 DEF ProcSafe, ProposalSafe
<1>7. ASSUME p \in current, intents[job[p]].nonce = None
      PROVE  pc[p] = "reserveWrite" /\ Proposal(p).nonce = tok[p]
  <2>1. Proposal(p) = NewIntent(Proposal(p).nonce) /\ Proposal(p).nonce \in used
    BY Zenon, <1>6, <1>7 DEF MayCommit, Unborn
  <2>2. /\ ~Proposal(p).pinned /\ Proposal(p).kind = "none" /\ Proposal(p).nonce # None
    BY <1>1, <2>1, ConstantsAssumption DEF NewIntent, TypeOK
  <2>3. pc[p] # "pinWrite"
    BY Zenon, <1>1, <1>2, <2>2 DEF Proposal, TypeOK, Intent
  <2>4. pc[p] # "markWrite"
    BY Zenon, <1>1, <1>2, <2>2 DEF Proposal, TypeOK, Intent, CleanupKind
  <2>5. pc[p] \notin {"releaseWrite", "releaseBuildWrite"}
    BY Zenon, <2>2 DEF Proposal, NoIntent
  <2>6. pc[p] = "reserveWrite"
    BY Zenon, <2>3, <2>4, <2>5 DEF WritePCs
  <2> QED
    BY Zenon, <2>6 DEF Proposal, NewIntent
<1>8. pc[p] = "reserveWrite" => \A q \in Procs : tok[q] = tok[p] => q = p
  BY Zenon, <1>1, <1>3, <1>5 DEF Unborn, NoncesDistinct, PrePCs
<1> QED
  BY Zenon, <1>2, <1>3, <1>4, <1>5, <1>6, <1>7, <1>8

\* A ledger write with its four outcomes (committed, conflict, response
\* lost with or without effect) preserves the invariant, whatever the
\* outcome.
LEMMA UpdateStep ==
    ASSUME IInv, NEW p \in Procs, pc[p] \in WritePCs, NEW next, NEW retry, NEW lookup,
           Update(p, job[p], Proposal(p), next, retry, lookup),
           receipts' = receipts, crs' = crs, used' = used,
           lateReceipts' = lateReceipts, lateCreates' = lateCreates,
           pc'[p] \in PCs,
           p \in Handlers /\ pc'[p] \in PrePCs => pc[p] \in PrePCs,
           pc[p] = "reserveWrite" => retry = "reserve" /\ lookup = "reserveLookup",
           ProcSafe(p)'
    PROVE  IInv'
<1> DEFINE b == job[p]
           e == Proposal(p)
<1>1. TypeOK
  BY Zenon DEF IInv
<1>2. /\ b \in Builds /\ e \in Intent /\ tok[p] \in Nonces
      /\ pc[p] # "reserveWrite" => ~Unborn(tok[p])
      /\ pc[p] = "reserveWrite" => p \in Handlers /\ Unborn(tok[p])
      /\ p \in current => MayCommit(b, e)
      /\ p \in current /\ intents[b].nonce = None => pc[p] = "reserveWrite" /\ e.nonce = tok[p]
      /\ pc[p] = "reserveWrite" => \A q \in Procs : tok[q] = tok[p] => q = p
  BY Zenon, Proposes
<1>3. PICK l : Goto(p, l)
  BY Zenon DEF Update, Written, Conflicted, ResponseLost
<1>4. l = pc'[p] /\ l \in PCs /\ job' = job /\ tok' = tok
  BY Zenon, <1>1, <1>3 DEF Goto, TypeOK
<1>5. CASE p \in current /\ Commit(b, e)
  <2>1. Moved({p})
    BY Zenon, <1>1, <1>3, <1>4, <1>5 DEF Moved, Goto, Commit, TypeOK
  <2>2. pc[p] = "reserveWrite" => e.nonce = tok[p]
    BY Zenon DEF Proposal, NewIntent
  <2> QED
    BY <1>2, <1>4, <1>5, <2>1, <2>2, CommitMove
<1>6. CASE UNCHANGED ledgerVars /\ (Conflicted(p, retry) \/ l = lookup)
  <2>1. pc[p] = "reserveWrite" => l \in PrePCs \ AuthPCs
    BY Zenon, <1>3, <1>4, <1>6, <1>1 DEF Conflicted, Goto, PrePCs, AuthPCs, TypeOK
  <2>2. Quietly(p, l)
    BY Zenon, <1>2, <1>3, <1>4, <1>6, <2>1 DEF Quietly, ledgerVars
  <2>3. pc[p] # "reserveLookup"
    BY Zenon DEF WritePCs
  <2> QED
    BY Zenon, <1>6, <2>2, <2>3, GotoStep DEF ledgerVars
<1>7. CASE /\ p \in current /\ lateWrites' = lateWrites \cup {<<b, e>>}
           /\ UNCHANGED <<intents, current>> /\ l = lookup
  <2>1. pc[p] = "reserveWrite" => l \in PrePCs \ AuthPCs
    BY Zenon, <1>7 DEF PrePCs, AuthPCs
  <2>2. TypeOK'
    BY <1>1, <1>2, <1>3, <1>4, <1>7 DEF TypeOK, Goto
  <2>3. Outside({p})
    BY Zenon, <1>1, <1>3, <1>4, <1>7 DEF Outside, Goto, TypeOK
  <2>4. \A a \in Builds : CRKept(a)
    BY Zenon DEF CRKept, IInv, SharedSafe, CRSafe, CROK
  <2>5. ASSUME NEW a \in Builds, NEW f \in Intent, <<a, f>> \in lateWrites'
        PROVE  /\ MayCommit(a, f)
               /\ intents[a].nonce = None =>
                     \A q \in Procs : tok'[q] = f.nonce => pc'[q] = "reserveLookup" /\ job'[q] = a
    <3>1. CASE <<a, f>> \in lateWrites
      <4>1. /\ MayCommit(a, f)
            /\ intents[a].nonce = None =>
                 \A q \in Procs : tok[q] = f.nonce => pc[q] = "reserveLookup" /\ job[q] = a
        BY Zenon, <3>1 DEF IInv, SharedSafe, LateWritesSafe
      <4>2. pc[p] # "reserveLookup"
        BY Zenon DEF WritePCs
      <4> QED
        BY Zenon, <1>1, <1>3, <1>4, <4>1, <4>2 DEF Goto, TypeOK
    <3>2. CASE a = b /\ f = e
      BY Zenon, <1>1, <1>2, <1>3, <1>4, <1>7, <3>2 DEF Goto, TypeOK
    <3> QED
      BY Zenon, <1>7, <2>5, <3>1, <3>2
  <2>6. tok[p] # None /\ Unborn(tok[p]) => p \in Handlers /\ l \in PrePCs \ AuthPCs
    BY Zenon, <1>2, <2>1
  <2> QED
    BY Zenon, <1>4, <2>2, <2>3, <2>4, <2>5, <2>6, OutsideStep DEF CRSteps, PreSteps, UnbornSteps, MovedSafe, LateSteps
<1> QED
  BY Zenon, <1>1, <1>3, <1>4, <1>5, <1>6, <1>7
     DEF Update, Written, Conflicted, ResponseLost, Goto, TypeOK

\* A step of one process that does not write the ledger but may touch
\* receipts, builds or late requests preserves the invariant.
LEMMA OneStep ==
    ASSUME IInv, TypeOK', NEW p \in Procs, Outside({p}), lateWrites' = lateWrites,
           CRSteps({p}),
           tok'[p] # None /\ p \in Handlers /\ pc'[p] \in PrePCs =>
              tok'[p] \notin used \/ (pc[p] \in PrePCs /\ tok'[p] = tok[p]),
           tok'[p] # None /\ Unborn(tok'[p]) =>
              /\ p \in Handlers /\ pc'[p] \in PrePCs \ AuthPCs
              /\ tok'[p] = tok[p] /\ pc[p] # "reserveLookup",
           ProcSafe(p)'
    PROVE  IInv'
<1>1. ASSUME NEW b \in Builds, NEW e \in Intent, <<b, e>> \in lateWrites'
      PROVE  /\ MayCommit(b, e)
             /\ intents[b].nonce = None =>
                   \A q \in Procs : tok'[q] = e.nonce => pc'[q] = "reserveLookup" /\ job'[q] = b
  <2>1. /\ MayCommit(b, e)
        /\ intents[b].nonce = None =>
              \A q \in Procs : tok[q] = e.nonce => pc[q] = "reserveLookup" /\ job[q] = b
    BY Zenon, <1>1 DEF IInv, SharedSafe, LateWritesSafe
  <2>2. intents[b].nonce = None => Unborn(e.nonce) /\ e.nonce # None
    BY Zenon, <2>1, ConstantsAssumption DEF MayCommit, Unborn, IInv, TypeOK
  <2> QED
    BY <2>1, <2>2 DEF Outside
<1> QED
  BY Zenon, <1>1, OutsideStep DEF CRSteps, PreSteps, UnbornSteps, MovedSafe, LateSteps

\* A step of no process (a build changing stage, a late request arriving
\* outside the ledger) preserves the invariant.
LEMMA NoProcStep ==
    ASSUME IInv, TypeOK', Outside({}), lateWrites' = lateWrites,
           CRSteps({})
    PROVE  IInv'
<1>1. ASSUME NEW b \in Builds, NEW e \in Intent, <<b, e>> \in lateWrites'
      PROVE  /\ MayCommit(b, e)
             /\ intents[b].nonce = None =>
                   \A q \in Procs : tok'[q] = e.nonce => pc'[q] = "reserveLookup" /\ job'[q] = b
  BY ZenonT(30), <1>1 DEF IInv, SharedSafe, LateWritesSafe, Outside
<1> QED
  BY Zenon, <1>1, OutsideStep DEF CRSteps, PreSteps, UnbornSteps, MovedSafe, LateSteps

\* The empty ledgers of EnsureInitialized satisfy the invariant.
LEMMA InitSafe == Init => IInv
<1> SUFFICES ASSUME Init PROVE IInv
  BY Zenon
<1>1. TypeOK
  BY Zenon DEF Init, TypeOK, Intent, NoIntent, Kinds, CR, NoCR, Stages, PCs
<1>2. Charged = {} /\ \A r \in Requesters : ChargedTo(r) = {}
  BY Zenon DEF Init, Charged, ChargedTo, NoIntent
<1>3. LimitsSafe
  BY <1>2, FS_EmptySet, ConstantsAssumption DEF LimitsSafe
<1>4. SharedSafe
  BY Zenon, ConstantsAssumption DEF Init, SharedSafe, NoncesUsed, NoncesDistinct, LaunchedSafe, EntrySafe, EntryOK,
     CRSafe, CROK, LateWritesSafe, LegacySafe, NoIntent, NoCR, PrePCs, AuthPCs, Procs
<1>5. \A p \in Procs : ProcSafe(p)
  BY Zenon DEF Init, ProcSafe, TaskSafe, ReservingSafe, AuthoritySafe, ActingSafe, Acting,
     ProposalSafe, AuthPCs, PrePCs, RejectPCs, WorkerPCs, Procs
<1> QED
  BY Zenon, <1>1, <1>3, <1>4, <1>5 DEF IInv

\* Reserve's read-and-check step preserves the invariant: a fresh nonce is
\* drawn only when the ledger it read has room.
LEMMA ReserveSafe ==
    ASSUME IInv, NEW h \in Handlers, ReserveRead(h) PROVE IInv'
<1> DEFINE b == job[h]
<1>1. TypeOK /\ SharedSafe /\ ProcSafe(h) /\ h \in Procs /\ pc[h] = "reserve" /\ b \in Builds
  BY Zenon DEF IInv, Procs, ReserveRead, ProcSafe, TaskSafe
<1>2. receipts' = receipts /\ crs' = crs /\ lateReceipts' = lateReceipts /\ lateCreates' = lateCreates
  BY Zenon DEF ReserveRead, lateVars
<1>3. \A a \in Builds : CRKept(a)
  BY Zenon, <1>1, <1>2 DEF CRKept, SharedSafe, CRSafe, CROK
<1>4. CASE Return(h) /\ Drop(h) /\ used' = used
  BY Zenon, <1>1, <1>2, <1>4, LeaveStep
<1>5. CASE /\ Genesis /\ b \in Charged /\ intents[b].kind = "rejected"
           /\ pc' = [pc EXCEPT ![h] = "dup"]
           /\ tok' = [tok EXCEPT ![h] = intents[b].nonce]
           /\ UNCHANGED <<job, used>> /\ Drop(h)
  <2>1. PICK n \in Nonces : n = intents[b].nonce /\ n \in used /\ n # None
    BY Zenon, <1>1, <1>5, ConstantsAssumption DEF Charged, SharedSafe, NoncesUsed, TypeOK
  <2>2. Spent(n) /\ ~HasCR(n)
    BY Zenon, <1>1, <1>5, <2>1 DEF SharedSafe, EntrySafe, EntryOK
  <2>3. pc'[h] = "dup" /\ tok'[h] = n /\ job' = job /\ intents' = intents /\ used' = used
    BY Zenon, <1>1, <1>5, <2>1 DEF TypeOK, Drop, NoWrite
  <2>4. TypeOK'
    BY Zenon, <1>1, <1>2, <1>5, <2>1 DEF TypeOK, PCs, Drop, NoWrite
  <2>5. Outside({h})
    BY Zenon, <1>1, <1>2, <1>5 DEF Outside, TypeOK, Drop, NoWrite
  <2>6. Spent(n)'
    <3>1. InPre(n)' => InPre(n)
      BY Zenon, <2>3, <2>5 DEF InPre, Outside, Procs, PrePCs, AuthPCs
    <3>2. Launched(n)' <=> Launched(n)
      BY Zenon, <1>2 DEF Launched
    <3> QED
      BY Zenon, <1>2, <2>2, <3>1, <3>2 DEF Spent
  <2>7. ProcSafe(h)'
    <3>1. TaskSafe(h)'
      BY Zenon, <1>1, <2>1, <2>3, ConstantsAssumption DEF TaskSafe, RejectPCs
    <3>2. \A a \in Builds : intents[a].nonce = n => a = b
      BY Zenon, <1>1, <2>1 DEF SharedSafe, NoncesDistinct
    <3>3. ActingSafe(h)'
      BY Zenon, <1>1, <1>2, <2>1, <2>2, <2>3, <2>6, <3>2, ConstantsAssumption DEF ActingSafe, HasCR
    <3> QED
      BY Zenon, <2>3, <3>1, <3>3 DEF ProcSafe, ReservingSafe, AuthoritySafe, ProposalSafe, WritePCs, AuthPCs
  <2>8. ~Unborn(n)
    BY Zenon, <1>1, <2>1 DEF Unborn, Logged
  <2> QED
    BY <1>1, <1>3, <1>5, <2>3, <2>4, <2>5, <2>7, <2>8, OneStep DEF CRSteps, PrePCs, AuthPCs, Drop, NoWrite
<1>6. CASE /\ b \notin Charged /\ ~Full(b)
           /\ \E n \in IF tok[h] = None THEN Nonces \ used ELSE {tok[h]} :
                /\ tok' = [tok EXCEPT ![h] = n]
                /\ used' = used \cup {n}
           /\ pc' = [pc EXCEPT ![h] = "reserveWrite"]
           /\ UNCHANGED job /\ Hold(h)
  <2>1. PICK n : /\ n \in IF tok[h] = None THEN Nonces \ used ELSE {tok[h]}
                 /\ tok' = [tok EXCEPT ![h] = n]
                 /\ used' = used \cup {n}
    BY Zenon, <1>6
  <2>2. n \in Nonces /\ n # None /\ (n \notin used \/ (n = tok[h] /\ Unborn(n)))
    BY Zenon, <1>1, <2>1, ConstantsAssumption DEF TypeOK, ProcSafe, ReservingSafe
  <2>3. pc'[h] = "reserveWrite" /\ tok'[h] = n /\ job' = job /\ intents' = intents
    BY Zenon, <1>1, <1>6, <2>1 DEF TypeOK, Hold, NoWrite
  <2>4. TypeOK'
    BY Zenon, <1>1, <1>2, <1>6, <2>1, <2>2 DEF TypeOK, PCs, Hold, NoWrite
  <2>5. Outside({h})
    BY Zenon, <1>1, <1>2, <1>6, <2>1 DEF Outside, TypeOK, Hold, NoWrite
  <2>6. Unborn(n)'
    <3>1. n \notin used => ~HasCR(n) /\ ~Launched(n) /\ ~Logged(n) /\ n \notin receipts
             /\ n \notin lateReceipts /\ \A q \in Procs : tok[q] # n
      BY Zenon, <1>1, <2>2 DEF TypeOK, HasCR, Launched, Logged, SharedSafe, NoncesUsed, IInv, ProcSafe, TaskSafe
    <3>2. ~HasCR(n) /\ ~Launched(n) /\ ~Logged(n) /\ n \notin receipts /\ n \notin lateReceipts
          /\ \A q \in Procs : tok[q] = n => q \in Handlers /\ pc[q] \in PrePCs \ AuthPCs
      BY Zenon, <2>2, <3>1 DEF Unborn
    <3>3. ~HasCR(n)' /\ ~Launched(n)' /\ ~Logged(n)'
      BY Zenon, <1>2, <2>3, <3>2 DEF HasCR, Launched, Logged
    <3> QED
      BY Zenon, <1>1, <1>2, <1>6, <2>1, <2>3, <3>2, <3>3 DEF Unborn, PrePCs, AuthPCs, TypeOK
  <2>7. ProcSafe(h)'
    <3>1. TaskSafe(h)'
      BY <1>1, <2>1, <2>2, <2>3, ConstantsAssumption DEF TaskSafe, PrePCs
    <3>2. MayCommit(b, NewIntent(n))'
      <4>1. intents[b].nonce = None /\ ~Full(b)'
        BY Zenon, <1>1, <1>6, <2>3 DEF Charged, Full, ChargedTo
      <4>2. NewIntent(n).nonce = n
        BY Zenon DEF NewIntent
      <4> QED
        BY Zenon, <2>3, <2>6, <4>1, <4>2 DEF MayCommit
    <3>3. ProposalSafe(h)'
      BY Zenon, <2>3, <3>2 DEF ProposalSafe, Proposal
    <3>4. ReservingSafe(h)'
      BY Zenon, <2>3, <2>6 DEF ReservingSafe
    <3> QED
      BY Zenon, <1>1, <2>3, <3>1, <3>3, <3>4, ConstantsAssumption DEF ProcSafe, AuthoritySafe, ActingSafe, Acting, AuthPCs, RejectPCs
  <2>8. Unborn(n) => n = tok[h]
    BY Zenon, <2>2 DEF Unborn
  <2> QED
    BY <1>1, <1>3, <1>6, <2>2, <2>3, <2>4, <2>5, <2>7, <2>8, OneStep DEF CRSteps, PrePCs, AuthPCs, Hold, NoWrite
<1> QED
  BY Zenon, <1>4, <1>5, <1>6 DEF ReserveRead

(* The parts of ProcSafe that do not concern where a process goes.            *)
LEMMA Vacuous ==
    ASSUME NEW p
    PROVE  /\ pc'[p] \notin AuthPCs => AuthoritySafe(p)'
           /\ pc'[p] \notin {"reserve", "reserveWrite", "reserveLookup"} => ReservingSafe(p)'
           /\ pc'[p] \notin WritePCs => ProposalSafe(p)'
           /\ p \in Handlers /\ pc'[p] \notin RejectPCs => ActingSafe(p)'
           /\ pc'[p] = "idle" => ActingSafe(p)'
<1>1. pc'[p] \notin AuthPCs => AuthoritySafe(p)'
  BY Zenon DEF AuthoritySafe
<1>2. pc'[p] \notin {"reserve", "reserveWrite", "reserveLookup"} => ReservingSafe(p)'
  BY Zenon DEF ReservingSafe
<1>3. pc'[p] \notin WritePCs => ProposalSafe(p)'
  BY Zenon DEF ProposalSafe
<1>4. p \in Handlers /\ pc'[p] \notin RejectPCs => ActingSafe(p)'
  BY Zenon, ConstantsAssumption DEF ActingSafe, Acting
<1>5. pc'[p] = "idle" => ActingSafe(p)'
  BY Zenon, ConstantsAssumption DEF ActingSafe, Acting, RejectPCs
<1> QED
  BY Zenon, <1>1, <1>2, <1>3, <1>4, <1>5

(* The updates.  Each needs only what its process relies on afterwards.       *)
LEMMA UpdateSafe ==
    ASSUME IInv, NEW p \in Procs,
           \/ p \in Handlers /\ (ReserveWrite(p) \/ PinWrite(p) \/ ReleaseWrite(p))
           \/ MarkWrite(p)
           \/ p \in Workers /\ ReleaseBuildWrite(p)
    PROVE  IInv'
<1> DEFINE b == job[p]
           i == intents[b]
<1>1. /\ TypeOK /\ ProcSafe(p) /\ pc[p] \in WritePCs
      /\ receipts' = receipts /\ crs' = crs /\ used' = used
      /\ lateReceipts' = lateReceipts /\ lateCreates' = lateCreates
  BY Zenon DEF IInv, ReserveWrite, PinWrite, ReleaseWrite, MarkWrite, ReleaseBuildWrite, WritePCs, lateVars
<1>2. b \in Builds /\ tok[p] \in Nonces /\ tok[p] # None /\ tok[p] \in used /\ i \in Intent
  BY Zenon, <1>1, Proposes, ConstantsAssumption DEF ProcSafe, TaskSafe, TypeOK
<1>3. /\ \A n : HasCR(n)' <=> HasCR(n)
      /\ \A n : Launched(n)' <=> Launched(n)
  BY Zenon, <1>1 DEF HasCR, Launched
<1>4. ASSUME NEW next, NEW retry, NEW lookup, Update(p, b, Proposal(p), next, retry, lookup)
      PROVE  /\ job' = job /\ tok' = tok /\ pc'[p] \in {next, retry, lookup}
             /\ \A q \in Procs \ {p} : pc'[q] = pc[q]
             /\ intents' = intents \/ (p \in current /\ intents' = [intents EXCEPT ![b] = Proposal(p)])
             /\ pc'[p] = next \/ pc'[p] = retry \/ pc'[p] = lookup
             /\ pc'[p] = next /\ next # lookup /\ next # retry =>
                   intents' = [intents EXCEPT ![b] = Proposal(p)] /\ current' = {} /\ p \in current
             /\ pc'[p] = retry /\ retry # lookup /\ retry # next => UNCHANGED ledgerVars /\ Goto(p, retry)
  BY Zenon, <1>1, <1>2, <1>4 DEF Update, Written, Conflicted, ResponseLost, Goto, Commit, ledgerVars, TypeOK
<1>5. ASSUME NEW n \in Nonces, p \notin Handlers \/ pc'[p] \notin PrePCs,
             \A q \in Procs \ {p} : pc'[q] = pc[q], tok' = tok, Spent(n)
      PROVE  Spent(n)'
  BY Zenon, <1>1, <1>3, <1>5 DEF Spent, InPre, Procs
<1>6. CASE p \in Handlers /\ ReserveWrite(p)
  <2>1. pc[p] = "reserveWrite" /\ Update(p, b, Proposal(p), AfterReserve, "reserve", "reserveLookup")
    BY Zenon, <1>6 DEF ReserveWrite, Proposal
  <2>2. Unborn(tok[p]) /\ Proposal(p) = NewIntent(tok[p])
    BY Zenon, <1>1, <2>1, Proposes DEF Proposal
  <2>3. AfterReserve \notin {"reserve", "reserveLookup"} /\ AfterReserve \in AuthPCs
        /\ (AfterReserve = "receipt" => Genesis) /\ (AfterReserve = "create" => ~Genesis)
        /\ AfterReserve \in {"receipt", "create"}
    BY Zenon DEF AfterReserve, AuthPCs
  <2>4. pc'[p] \in PrePCs /\ pc'[p] \in PCs /\ tok'[p] = tok[p] /\ job'[p] = job[p]
    BY <1>4, <2>1, <2>3 DEF PrePCs, PCs, AuthPCs
  <2>5. TaskSafe(p)'
    BY Zenon, <1>1, <1>2, <1>6, <2>4, ConstantsAssumption DEF TaskSafe, PrePCs, AuthPCs
  <2>6. ASSUME pc'[p] = AfterReserve PROVE ProcSafe(p)'
    <3>1. intents'[b] = NewIntent(tok[p])
      BY <1>1, <1>2, <1>4, <2>1, <2>2, <2>3, <2>6 DEF TypeOK
    <3>2. AuthoritySafe(p)'
      BY <1>1, <1>3, <2>2, <2>3, <2>4, <2>6, <3>1 DEF AuthoritySafe, Unborn, NewIntent
    <3> QED
      BY Zenon, <1>6, <2>3, <2>5, <2>6, <3>2, Vacuous DEF ProcSafe, WritePCs, RejectPCs
  <2>7. ASSUME pc'[p] = "reserve" PROVE ProcSafe(p)'
    <3>1. UNCHANGED ledgerVars /\ Goto(p, "reserve")
      BY ZenonT(30), <1>4, <2>1, <2>3, <2>7
    <3>2. Quietly(p, "reserve")
      BY Zenon, <1>1, <1>6, <2>1, <3>1 DEF Quietly, ledgerVars, PCs, PrePCs, AuthPCs
    <3>3. Unborn(tok[p])'
      BY Zenon, <1>2, <2>2, <2>4, <3>2, Quiet
    <3> QED
      <4>1. ReservingSafe(p)'
        BY Zenon, <2>4, <2>7, <3>3 DEF ReservingSafe
      <4> QED
        BY Zenon, <1>6, <2>5, <2>7, <4>1, Vacuous DEF ProcSafe, WritePCs, RejectPCs, AuthPCs
  <2>8. ASSUME pc'[p] = "reserveLookup" PROVE ProcSafe(p)'
    <3>1. ASSUME NEW a \in Builds, intents'[a].nonce = tok[p]
          PROVE  a = b /\ intents'[a] = NewIntent(tok[p])
      BY Zenon, <1>1, <1>2, <1>4, <2>1, <2>2, <3>1 DEF Unborn, Logged, TypeOK
    <3>2. ReservingSafe(p)'
      BY Zenon, <1>1, <1>3, <2>2, <2>4, <2>8, <3>1 DEF ReservingSafe, Unborn
    <3> QED
      BY Zenon, <1>6, <2>5, <2>8, <3>2, Vacuous DEF ProcSafe, WritePCs, RejectPCs, AuthPCs
  <2>9. ProcSafe(p)'
    <3>1. pc'[p] = AfterReserve \/ pc'[p] = "reserve" \/ pc'[p] = "reserveLookup"
      BY <1>4, <2>1
    <3> QED
      BY Zenon, <2>6, <2>7, <2>8, <3>1
  <2> QED
    BY Zenon, <1>1, <2>1, <2>4, <2>9, UpdateStep DEF PrePCs
<1>7. CASE p \in Handlers /\ PinWrite(p)
  <2>1. pc[p] = "pinWrite" /\ Update(p, b, Proposal(p), "pinLookup", "pin", "pinLookup")
    BY Zenon, <1>7 DEF PinWrite, Proposal
  <2>2. Proposal(p) = [i EXCEPT !.pinned = TRUE] /\ AuthoritySafe(p)
    BY Zenon, <1>1, <2>1 DEF Proposal, ProcSafe
  <2>3. pc'[p] \in {"pin", "pinLookup"} /\ tok'[p] = tok[p] /\ job'[p] = job[p]
    BY <1>4, <2>1
  <2>4. TaskSafe(p)'
    BY Zenon, <1>1, <1>2, <1>7, <2>3, ConstantsAssumption DEF TaskSafe, PrePCs, AuthPCs
  <2>5. intents'[b].nonce = i.nonce /\ intents'[b].kind = i.kind
    BY ZenonT(30), <1>1, <1>2, <1>4, <2>1, <2>2 DEF TypeOK, Intent
  <2>6. AuthoritySafe(p)'
    BY Zenon, <1>1, <1>3, <2>1, <2>2, <2>3, <2>5 DEF AuthoritySafe, AuthPCs
  <2>7. ProcSafe(p)'
    BY Zenon, <1>7, <2>3, <2>4, <2>6, ConstantsAssumption
         DEF ProcSafe, ReservingSafe, ActingSafe, Acting, ProposalSafe, WritePCs, RejectPCs
  <2> QED
    BY Zenon, <1>1, <2>1, <2>3, <2>7, UpdateStep DEF PrePCs, AuthPCs, PCs
<1>8. CASE MarkWrite(p)
  <2>1. pc[p] = "markWrite" /\ Update(p, b, Proposal(p), AfterMark(p), "mark", "markLookup")
    BY Zenon, <1>8 DEF MarkWrite, Proposal
  <2>2. Proposal(p) = [i EXCEPT !.kind = CleanupKind(p)] /\ ActingSafe(p) /\ Acting(p)
    BY Zenon, <1>1, <2>1 DEF Proposal, ProcSafe, Acting, RejectPCs
  <2>3. /\ pc'[p] \in {"mark", "markLookup", "releaseBuild", "deleteReceipt"}
        /\ pc'[p] \in {"mark", "markLookup"} \/ pc'[p] = AfterMark(p)
        /\ tok'[p] = tok[p] /\ job'[p] = job[p]
    BY <1>4, <2>1 DEF AfterMark
  <2>4. TaskSafe(p)'
    BY Zenon, <1>1, <1>2, <2>3, ConstantsAssumption DEF TaskSafe, RejectPCs, WorkerPCs, AfterMark, Procs
  <2>5. \A a \in Builds : intents'[a].nonce = intents[a].nonce
    BY Zenon, <1>1, <1>2, <1>4, <2>1, <2>2 DEF TypeOK, Intent
  <2>6. Spent(tok[p])'
    BY Zenon, <1>2, <1>4, <1>5, <2>1, <2>2, <2>3 DEF ActingSafe, PrePCs, AuthPCs
  <2>7. pc'[p] = "deleteReceipt" => intents'[b].kind = CleanupKind(p) /\ p \notin current'
    BY <1>1, <1>2, <1>4, <2>1, <2>2 DEF AfterMark, TypeOK, Intent
  <2>8. ActingSafe(p)'
    BY Zenon, <1>1, <1>2, <2>1, <2>2, <2>3, <2>5, <2>6, <2>7 DEF ActingSafe, CleanupKind
  <2>9. ProcSafe(p)'
    BY Zenon, <2>3, <2>4, <2>8 DEF ProcSafe, ReservingSafe, AuthoritySafe, ProposalSafe, WritePCs, AuthPCs
  <2> QED
    BY Zenon, <1>1, <2>1, <2>3, <2>9, UpdateStep DEF PrePCs, AuthPCs, PCs
<1>9. CASE p \in Handlers /\ ReleaseWrite(p)
  <2>1. pc[p] = "releaseWrite" /\ Update(p, b, Proposal(p), "done", "release", "done")
    BY Zenon, <1>9 DEF ReleaseWrite, Proposal
  <2>2. ActingSafe(p) /\ Acting(p)
    BY Zenon, <1>1, <1>9, <2>1, ConstantsAssumption DEF ProcSafe, Acting, RejectPCs
  <2>3. pc'[p] \in {"done", "release"} /\ tok'[p] = tok[p] /\ job'[p] = job[p]
    BY <1>4, <2>1
  <2>4. TaskSafe(p)'
    BY Zenon, <1>1, <1>2, <1>9, <2>3, ConstantsAssumption DEF TaskSafe, RejectPCs, WorkerPCs
  <2>5. Spent(tok[p])'
    BY Zenon, <1>2, <1>4, <1>5, <2>1, <2>2, <2>3 DEF ActingSafe, PrePCs, AuthPCs
  <2>6. pc'[p] = "release" => intents' = intents
    BY <1>4, <2>1 DEF ledgerVars
  <2>7. ActingSafe(p)'
    BY Zenon, <1>1, <1>9, <2>1, <2>2, <2>3, <2>5, <2>6, ConstantsAssumption DEF ActingSafe, CleanupKind, Acting, RejectPCs
  <2>8. ProcSafe(p)'
    BY Zenon, <2>3, <2>4, <2>7 DEF ProcSafe, ReservingSafe, AuthoritySafe, ProposalSafe, WritePCs, AuthPCs
  <2> QED
    BY Zenon, <1>1, <2>1, <2>3, <2>8, UpdateStep DEF PrePCs, AuthPCs, PCs
<1>10. CASE p \in Workers /\ ReleaseBuildWrite(p)
  <2>1. pc[p] = "releaseBuildWrite" /\ Update(p, b, Proposal(p), "released", "releaseBuild", "releaseBuildLookup")
    BY Zenon, <1>10 DEF ReleaseBuildWrite, Proposal
  <2>2. ActingSafe(p) /\ Acting(p) /\ Proposal(p) = NoIntent
    BY Zenon, <1>1, <1>10, <2>1 DEF ProcSafe, Acting, Proposal
  <2>3. pc'[p] \in {"released", "releaseBuild", "releaseBuildLookup"} /\ tok'[p] = tok[p] /\ job'[p] = job[p]
    BY Zenon, <1>4, <2>1
  <2>4. TaskSafe(p)'
    BY Zenon, <1>1, <1>2, <1>10, <2>3, ConstantsAssumption DEF TaskSafe, WorkerPCs
  <2>5. Spent(tok[p])'
    BY Zenon, <1>2, <1>4, <1>5, <2>1, <2>2, <2>3 DEF ActingSafe, PrePCs, AuthPCs
  <2>6. \A a \in Builds : intents'[a].nonce = tok[p] => intents[a].nonce = tok[p]
    BY <1>1, <1>2, <1>4, <2>1, <2>2 DEF NoIntent, TypeOK
  <2>7. pc'[p] = "released" => intents'[b].nonce # tok[p]
    BY <1>1, <1>2, <1>4, <2>1, <2>2 DEF NoIntent, TypeOK
  <2>8. Genesis /\ tok[p] \in receipts => intents'[b].nonce = tok[p]
    <3>1. Genesis /\ p \in current => i.nonce \notin receipts
      BY <1>2, <2>1, <2>2, Proposes DEF MayCommit, WritePCs, NoIntent, Intent
    <3> QED
      BY Zenon, <1>4, <2>1, <2>2, <3>1 DEF ActingSafe
  <2>9. ActingSafe(p)'
    <3>1. /\ \A a \in Builds : crs[a].nonce = tok[p] =>
                /\ p \in Workers /\ a = job[p]
                /\ crs[a].stage = "terminal" \/ (~Genesis /\ crs[a].stage = "granted")
          /\ \A a \in Builds : intents'[a].nonce = tok[p] => a = b
          /\ intents'[b].nonce = tok[p] => crs[b].nonce = tok[p]
      BY Zenon, <1>2, <1>10, <2>2, <2>6 DEF ActingSafe
    <3> QED
      BY Zenon, <1>1, <2>3, <2>5, <2>7, <2>8, <3>1 DEF ActingSafe
  <2>10. ProcSafe(p)'
    BY Zenon, <2>3, <2>4, <2>9 DEF ProcSafe, ReservingSafe, AuthoritySafe, ProposalSafe, WritePCs, AuthPCs
  <2> QED
    BY Zenon, <1>1, <2>1, <2>3, <2>10, UpdateStep DEF PrePCs, AuthPCs, PCs
<1> QED
  BY Zenon, <1>6, <1>7, <1>8, <1>9, <1>10

(* A process that acts for a spent nonce goes on, without a write.            *)
LEMMA ActingStep ==
    ASSUME IInv, NEW p \in Procs, Acting(p), NEW l, Goto(p, l),
           UNCHANGED ledgerVars \/ Hold(p),
           receipts' = receipts, crs' = crs, used' = used,
           lateReceipts' = lateReceipts, lateCreates' = lateCreates,
           IF p \in Workers THEN l \in WorkerPCs \ {"idle"} ELSE l \in RejectPCs,
           l \in {"mark", "markWrite", "markLookup", "deleteReceipt", "settle"} => Genesis,
           l \in {"deleteReceipt", "settle", "release", "releaseWrite"} /\ Genesis
              /\ intents[job[p]].nonce = tok[p] => intents[job[p]].kind = CleanupKind(p),
           l \in {"release", "releaseWrite", "settle"} => tok[p] \notin receipts,
           p \in Workers /\ l \in {"deleteReceipt", "settle"} => intents[job[p]].nonce = tok[p],
           l = "released" => intents[job[p]].nonce # tok[p],
           l = "markWrite" => MayCommit(job[p], [intents[job[p]] EXCEPT !.kind = CleanupKind(p)]),
           l \in {"releaseWrite", "releaseBuildWrite"} => MayCommit(job[p], NoIntent)
    PROVE  IInv'
<1>1. TypeOK /\ ProcSafe(p) /\ tok[p] \in Nonces /\ job[p] \in Builds
  BY Zenon, ProcFacts DEF IInv, ProcSafe
<1>2. l \in PCs /\ l \notin PrePCs /\ l \notin AuthPCs
      /\ intents' = intents /\ lateWrites' = lateWrites /\ current' \subseteq current \cup {p}
  BY Zenon, <1>1 DEF PCs, RejectPCs, WorkerPCs, PrePCs, AuthPCs, ledgerVars, Hold, NoWrite
<1>3. ~Unborn(tok[p]) /\ pc[p] # "reserveLookup"
  BY Zenon, <1>1, ConstantsAssumption
     DEF Unborn, Acting, RejectPCs, PrePCs, AuthPCs, ProcSafe, TaskSafe, WorkerPCs
<1>4. Quietly(p, l)
  BY Zenon, <1>2, <1>3 DEF Quietly
<1>5. /\ \A n : HasCR(n)' <=> HasCR(n)
      /\ \A n \in Nonces : Spent(n) => Spent(n)'
      /\ \A b \in Builds, e \in Intent : MayCommit(b, e) => MayCommit(b, e)'
      /\ tok' = tok /\ job' = job /\ pc'[p] = l
  BY Zenon, <1>4, Quiet
<1>6. ActingSafe(p)'
  BY Zenon, <1>1, <1>2, <1>5 DEF ProcSafe, ActingSafe, CleanupKind
<1>7. TaskSafe(p)'
  BY Zenon, <1>1, <1>2, <1>5, ConstantsAssumption DEF ProcSafe, TaskSafe, RejectPCs, WorkerPCs, Procs
<1>8. ProposalSafe(p)'
  <2>1. /\ [intents[job[p]] EXCEPT !.kind = CleanupKind(p)] \in Intent
        /\ NoIntent \in Intent
    BY ZenonT(30), <1>1 DEF TypeOK, Intent, NoIntent, Kinds, CleanupKind
  <2>2. l = "markWrite" => Proposal(p)' = [intents[job[p]] EXCEPT !.kind = CleanupKind(p)]
    BY Zenon, <1>2, <1>5 DEF Proposal, CleanupKind
  <2>3. l \in {"releaseWrite", "releaseBuildWrite"} => Proposal(p)' = NoIntent
    BY Zenon, <1>5 DEF Proposal
  <2>4. l \in WritePCs => l \in {"markWrite", "releaseWrite", "releaseBuildWrite"}
    BY Zenon, <1>2 DEF WritePCs, PrePCs, AuthPCs
  <2>5. l \in WritePCs => MayCommit(job[p], Proposal(p))'
    BY Zenon, <1>1, <1>5, <2>1, <2>2, <2>3, <2>4
  <2> QED
    BY Zenon, <1>5, <2>5 DEF ProposalSafe
<1>9. ProcSafe(p)'
  BY Zenon, <1>2, <1>5, <1>6, <1>7, <1>8, Vacuous DEF ProcSafe, PrePCs
<1> QED
  BY Zenon, <1>2, <1>3, <1>4, <1>9, GotoStep
=============================================================================
