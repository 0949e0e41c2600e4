----------------------- MODULE QueueAdmissionOutside -----------------------
(***************************************************************************)
(* The steps of QueueAdmission that write no ledger entry: every request   *)
(* to the Kubernetes API for a receipt or a KovaBuild, and every move of a *)
(* process.  OutsideStep shows that such a step keeps the inductive        *)
(* invariant IInv when the processes that move end it safe.                *)
(***************************************************************************)
EXTENDS QueueAdmissionInv, TLAPS

\* A process that holds a token (a nonce it read or drew) and a job has
\* both in range, and what it is about to write is an Intent.
LEMMA ProcFacts ==
    ASSUME TypeOK, NEW p \in Procs, TaskSafe(p)
    PROVE  /\ Acting(p) => tok[p] \in Nonces /\ job[p] \in Builds
           /\ pc[p] \in AuthPCs \cup {"reserveWrite", "reserveLookup"} =>
                 tok[p] \in Nonces /\ job[p] \in Builds
           /\ pc[p] \in WritePCs => job[p] \in Builds /\ Proposal(p) \in Intent
<1>1. tok[p] # None => tok[p] \in Nonces
  BY Zenon DEF TypeOK
<1>2. Acting(p) => tok[p] \in Nonces /\ job[p] \in Builds
  BY Zenon, <1>1 DEF TaskSafe, Acting, RejectPCs, TypeOK, WorkerPCs
<1>3. pc[p] \in AuthPCs \cup {"reserveWrite", "reserveLookup"} =>
                 tok[p] \in Nonces /\ job[p] \in Builds
  BY Zenon, <1>1 DEF TaskSafe, AuthPCs
<1>4. pc[p] \in WritePCs => job[p] \in Builds /\ tok[p] \in Nonces
  BY Zenon, <1>1 DEF TaskSafe, WritePCs
<1>5. ASSUME pc[p] \in WritePCs PROVE Proposal(p) \in Intent
  <2>1. intents[job[p]] \in Intent
    BY Zenon, <1>4, <1>5 DEF TypeOK
  <2>2. /\ NewIntent(tok[p]) \in Intent
        /\ [intents[job[p]] EXCEPT !.pinned = TRUE] \in Intent
        /\ [intents[job[p]] EXCEPT !.kind = CleanupKind(p)] \in Intent
        /\ NoIntent \in Intent
    BY Zenon, <1>4, <1>5, <2>1 DEF Intent, NewIntent, CleanupKind, NoIntent, Kinds
  <2> QED
    BY Zenon, <2>2 DEF Proposal
<1> QED
  BY Zenon, <1>2, <1>3, <1>4, <1>5

(* A step that commits nothing to the ledger: what it may do outside the      *)
(* processes of M, which are at most one.                                     *)
Outside(M) ==
    /\ M \subseteq Procs /\ (\A p, q \in M : p = q)
    /\ intents' = intents /\ used \subseteq used'
    /\ current' \subseteq current \cup M
    /\ \A q \in Procs \ M : pc'[q] = pc[q] /\ job'[q] = job[q] /\ tok'[q] = tok[q]
    /\ \A n \in lateReceipts' : n \in lateReceipts
          \/ \E h \in M : pc[h] = "receipt" /\ tok[h] = n /\ pc'[h] = "idle"
    /\ \A n \in receipts' : n \in receipts
          \/ (n \in lateReceipts /\ n \notin lateReceipts')
          \/ \E h \in M : pc[h] = "receipt" /\ tok[h] = n
    /\ \A n \in receipts : n \in receipts'
          \/ \E p \in M : pc[p] = "deleteReceipt" /\ tok[p] = n
    /\ \A b \in Builds, n \in Nonces : <<b, n>> \in lateCreates' =>
          <<b, n>> \in lateCreates
             \/ \E h \in M : pc[h] = "create" /\ job[h] = b /\ tok[h] = n /\ pc'[h] = "idle"

(* How the KovaBuild of one name may change in such a step.                   *)
CRKept(b) ==
    /\ crs'[b].nonce = crs[b].nonce
    /\ crs[b].nonce # None =>
          /\ crs'[b].stage # "absent"
          /\ crs[b].stage \in {"granted", "terminal"} =>
                crs'[b].stage \in {crs[b].stage, "terminal"}
          /\ crs[b].settled => crs'[b].settled
          /\ crs'[b].stage = "queued" => crs[b].stage = "queued"
    /\ crs'[b].stage = "absent" => crs'[b].nonce = None

CRMade(M, b) ==
    /\ crs[b].nonce = None
    /\ crs'[b] = NewCR(crs'[b].nonce)
    /\ crs'[b].nonce \in Nonces
    /\ \A a \in Builds : a # b => crs'[a] = crs[a]
    /\ \/ <<b, crs'[b].nonce>> \in lateCreates /\ <<b, crs'[b].nonce>> \notin lateCreates'
       \/ /\ lateCreates' = lateCreates
          /\ \E h \in M : pc[h] = "create" /\ job[h] = b /\ tok[h] = crs'[b].nonce
                           /\ pc'[h] = "idle"

CRGone(M, b) ==
    /\ crs'[b] = NoCR
    /\ \E w \in M : w \in Workers /\ pc[w] = "released" /\ job[w] = b /\ tok[w] = crs[b].nonce

\* Every CR is kept, made or removed.
CRSteps(M) ==
    \A b \in Builds : CRKept(b) \/ CRMade(M, b) \/ CRGone(M, b)

\* A process of M that holds a nonce before its Create drew it in this step or held it before.
PreSteps(M) ==
    \A p \in M : tok'[p] # None /\ p \in Handlers /\ pc'[p] \in PrePCs =>
       tok'[p] \notin used \/ (pc[p] \in PrePCs /\ tok'[p] = tok[p])

\* A nonce no ledger write has carried yet is held only by handlers still reserving.
UnbornSteps(M) ==
    \A p \in M : tok'[p] # None /\ Unborn(tok'[p]) =>
       p \in Handlers /\ pc'[p] \in PrePCs \ AuthPCs

\* The processes of M end the step safe.
MovedSafe(M) ==
    \A p \in M : ProcSafe(p)'

\* Every ledger write left outstanding may still commit.
LateSteps ==
    \A b \in Builds, e \in Intent : <<b, e>> \in lateWrites' =>
       /\ MayCommit(b, e)
       /\ intents[b].nonce = None =>
             \A p \in Procs : tok'[p] = e.nonce => pc'[p] = "reserveLookup" /\ job'[p] = b

\* What the step of a handler about to record its receipt or to send its Create rests on.
LaunchActs(M) ==
    \A h \in M : pc[h] \in {"receipt", "create"} =>
       /\ h \in Handlers /\ tok[h] \in used /\ InPre(tok[h])
       /\ tok[h] \in Nonces /\ tok[h] # None
       /\ job[h] \in Builds /\ intents[job[h]].nonce = tok[h]
       /\ intents[job[h]].kind = "none"
       /\ ~HasCR(tok[h]) /\ ~Launched(tok[h]) /\ tok[h] \notin lateReceipts
       /\ pc[h] = "receipt" => tok[h] \notin receipts
       /\ Genesis /\ pc[h] = "create" => intents[job[h]].pinned

\* What the deletion of a receipt rests on.
DeleteActs(M) ==
    \A p \in M : pc[p] = "deleteReceipt" /\ tok[p] \in receipts =>
       /\ Spent(tok[p]) /\ intents[job[p]].nonce = tok[p] /\ job[p] \in Builds
       /\ intents[job[p]].kind # "none" /\ tok[p] \in Nonces

\* What the removal of a finalizer rests on.
ReleasedActs(M) ==
    \A w \in M : w \in Workers /\ pc[w] = "released" =>
       Spent(tok[w]) /\ intents[job[w]].nonce # tok[w] /\ tok[w] \in Nonces

\* No used nonce returns to a handler.
PreKept == \A n \in used : InPre(n)' => InPre(n)

\* A Create is in flight because it was, or because its handler has just lost the response.
LaunchedFrom(M) ==
    \A n \in Nonces : Launched(n)' =>
       Launched(n) \/ \E h \in M : pc[h] = "create" /\ tok[h] = n /\ pc'[h] = "idle"

\* A CR exists because it did, or because its one Create takes effect.
CRsFrom(M) ==
    \A n \in Nonces : HasCR(n)' =>
       \/ HasCR(n)
       \/ Launched(n) /\ ~InPre(n)
       \/ \E h \in M : pc[h] = "create" /\ tok[h] = n /\ pc'[h] = "idle"

\* A spent nonce stays spent, and gains neither receipt nor CR.
SpentKept == \A n \in used : Spent(n) => Spent(n)'
ReceiptsFrom == \A n \in used : n \in receipts' => n \in receipts \/ n \in lateReceipts \/ InPre(n)
SpentCRs == \A n \in used : Spent(n) /\ HasCR(n)' => HasCR(n)

\* A nonce no ledger write has carried yet stays so.
UnbornKept == \A n \in Nonces : Unborn(n) => Unborn(n)'

\* What an intent of the ledger holds on to.
EntriesKept ==
    \A b \in Builds : intents[b].nonce # None =>
       /\ intents[b].nonce \in Nonces /\ intents[b].nonce \in used
       /\ intents[b].kind = "none" /\ intents[b].nonce \in receipts =>
             intents[b].nonce \in receipts'
       /\ (intents[b].pinned \/ intents[b].nonce \in receipts)
             /\ intents[b].nonce \notin lateReceipts => intents[b].nonce \notin lateReceipts'
       /\ crs[b].nonce = intents[b].nonce => CRKept(b)

\* An update that could commit still can.
MayCommitKept ==
    \A b \in Builds : \A e \in Intent : MayCommit(b, e) => MayCommit(b, e)'

\* The processes that act in the step hold what their program counters promise.
LEMMA OutsideActs ==
    ASSUME IInv, NEW M, Outside(M)
    PROVE  LaunchActs(M) /\ DeleteActs(M) /\ ReleasedActs(M)
<1>1. ASSUME NEW h \in M, pc[h] \in {"receipt", "create"}
      PROVE  /\ h \in Handlers /\ tok[h] \in used /\ InPre(tok[h])
             /\ tok[h] \in Nonces /\ tok[h] # None
             /\ job[h] \in Builds /\ intents[job[h]].nonce = tok[h]
             /\ intents[job[h]].kind = "none"
             /\ ~HasCR(tok[h]) /\ ~Launched(tok[h]) /\ tok[h] \notin lateReceipts
             /\ pc[h] = "receipt" => tok[h] \notin receipts
             /\ Genesis /\ pc[h] = "create" => intents[job[h]].pinned
  <2>1. h \in Procs /\ ProcSafe(h) /\ TypeOK
    BY Zenon, <1>1 DEF Outside, IInv
  <2>2. h \in Handlers /\ tok[h] # None /\ tok[h] \in used
    BY Zenon, <1>1, <2>1 DEF ProcSafe, TaskSafe, WorkerPCs, Procs
  <2>3. InPre(tok[h])
    BY Zenon, <1>1, <2>2 DEF InPre, PrePCs, AuthPCs
  <2> QED
    BY Zenon, <1>1, <2>1, <2>2, <2>3, ProcFacts DEF ProcSafe, AuthoritySafe, AuthPCs
<1>2. ASSUME NEW p \in M, pc[p] = "deleteReceipt", tok[p] \in receipts
      PROVE  /\ Spent(tok[p]) /\ intents[job[p]].nonce = tok[p] /\ job[p] \in Builds
             /\ intents[job[p]].kind # "none" /\ tok[p] \in Nonces
  <2>1. p \in Procs /\ ProcSafe(p) /\ TypeOK /\ Acting(p)
    BY Zenon, <1>2 DEF Outside, IInv, Acting, RejectPCs
  <2>2. CleanupKind(p) # "none"
    BY Zenon DEF CleanupKind
  <2> QED
    BY Zenon, <1>2, <2>1, <2>2, ProcFacts DEF ProcSafe, ActingSafe
<1>3. ASSUME NEW w \in M, w \in Workers, pc[w] = "released"
      PROVE  Spent(tok[w]) /\ intents[job[w]].nonce # tok[w] /\ tok[w] \in Nonces
  <2>1. w \in Procs /\ ProcSafe(w) /\ TypeOK /\ Acting(w)
    BY Zenon, <1>3 DEF Outside, IInv, Acting
  <2> QED
    BY Zenon, <1>3, <2>1, ProcFacts DEF ProcSafe, ActingSafe
<1> QED
  BY Zenon, <1>1, <1>2, <1>3 DEF LaunchActs, DeleteActs, ReleasedActs

\* What a step outside the ledger keeps of every nonce.
LEMMA OutsideNonces ==
    ASSUME IInv, TypeOK', NEW M, Outside(M), CRSteps(M), PreSteps(M), UnbornSteps(M)
    PROVE  /\ PreKept /\ LaunchedFrom(M) /\ CRsFrom(M)
           /\ SpentKept /\ ReceiptsFrom /\ SpentCRs /\ UnbornKept
<1>1. LaunchActs(M)
  BY Zenon, OutsideActs
<1>2. DeleteActs(M)
  BY Zenon, OutsideActs
<1>3. ReleasedActs(M)
  BY Zenon, OutsideActs
<1>4. TypeOK /\ NoncesUsed /\ NoncesDistinct /\ LaunchedSafe /\ EntrySafe /\ CRSafe /\ LateWritesSafe
  BY Zenon DEF IInv, SharedSafe
<1>5. PreKept
  BY ConstantsAssumption, <1>4 DEF InPre, Outside, Procs, TypeOK, PreSteps, PreKept
<1>16. LaunchedFrom(M)
  BY DEF Launched, Outside, LaunchedFrom
<1>6. SpentKept
  <2>1. ASSUME NEW n \in used, Spent(n), Launched(n)' PROVE FALSE
    BY <1>1, <1>4, <1>16, <2>1 DEF Spent, TypeOK, LaunchActs, LaunchedFrom
  <2>2. ASSUME NEW n \in used, Spent(n), n \in lateReceipts' PROVE FALSE
    BY <1>1, <2>2 DEF Spent, Outside, LaunchActs
  <2> QED
    BY Zenon, <1>5, <2>1, <2>2 DEF Spent, PreKept, SpentKept
<1>7. ReceiptsFrom
  BY <1>1 DEF Outside, LaunchActs, ReceiptsFrom
<1>8. CRsFrom(M)
  <2> SUFFICES ASSUME NEW n \in Nonces, NEW b \in Builds, crs'[b].nonce = n, ~HasCR(n)
               PROVE  \/ Launched(n) /\ ~InPre(n)
                      \/ \E h \in M : pc[h] = "create" /\ tok[h] = n /\ pc'[h] = "idle"
    BY Zenon DEF CRsFrom, HasCR
  <2>1. CRMade(M, b)
    BY ConstantsAssumption DEF CRSteps, CRKept, CRGone, NoCR, HasCR
  <2> QED
    BY Zenon, <2>1, <1>4 DEF CRMade, Launched, LaunchedSafe
<1>9. SpentCRs
  BY <1>1, <1>4, <1>8 DEF Spent, TypeOK, LaunchActs, CRsFrom, SpentCRs
<1>10. UnbornKept
  <2> SUFFICES ASSUME NEW n \in Nonces, Unborn(n) PROVE Unborn(n)'
    BY Zenon DEF UnbornKept
  <2>1. n \in used' /\ ~Logged(n)'
    BY Zenon DEF Unborn, Outside, Logged
  <2>2. \A h \in M : pc[h] \in {"receipt", "create"} => tok[h] # n
    BY Zenon, <1>1 DEF Unborn, Logged, LaunchActs
  <2>3. ~HasCR(n)' /\ ~Launched(n)'
    BY Zenon, <1>8, <1>16, <2>2 DEF Unborn, CRsFrom, LaunchedFrom
  <2>4. n \notin receipts' /\ n \notin lateReceipts'
    BY <2>2 DEF Unborn, Outside
  <2>5. ASSUME NEW p \in Procs, tok'[p] = n PROVE p \in Handlers /\ pc'[p] \in PrePCs \ AuthPCs
    BY <2>5, ConstantsAssumption DEF Unborn, Outside, UnbornSteps
  <2> QED
    BY Zenon, <2>1, <2>3, <2>4, <2>5 DEF Unborn
<1> QED
  BY Zenon, <1>5, <1>6, <1>7, <1>8, <1>9, <1>10, <1>16

\* What a step outside the ledger keeps of every intent.
LEMMA OutsideEntries ==
    ASSUME IInv, TypeOK', NEW M, Outside(M), CRSteps(M), PreSteps(M), UnbornSteps(M)
    PROVE  EntriesKept
<1>1. LaunchActs(M)
  BY Zenon, OutsideActs
<1>2. DeleteActs(M)
  BY Zenon, OutsideActs
<1>3. ReleasedActs(M)
  BY Zenon, OutsideActs
<1>4. TypeOK /\ NoncesUsed /\ NoncesDistinct /\ LaunchedSafe /\ EntrySafe /\ CRSafe /\ LateWritesSafe
  BY Zenon DEF IInv, SharedSafe
<1>21. EntriesKept
  <2> SUFFICES ASSUME NEW b \in Builds, intents[b].nonce # None
               PROVE  /\ intents[b].nonce \in Nonces /\ intents[b].nonce \in used
                      /\ intents[b].kind = "none" /\ intents[b].nonce \in receipts =>
                            intents[b].nonce \in receipts'
                      /\ (intents[b].pinned \/ intents[b].nonce \in receipts)
                            /\ intents[b].nonce \notin lateReceipts => intents[b].nonce \notin lateReceipts'
                      /\ crs[b].nonce = intents[b].nonce => CRKept(b)
    BY Zenon DEF EntriesKept
  <2>1. intents[b].nonce \in Nonces /\ intents[b].nonce \in used
    BY Zenon, <1>4 DEF TypeOK, Intent, NoncesUsed
  <2>2. intents[b].kind = "none" /\ intents[b].nonce \in receipts => intents[b].nonce \in receipts'
    BY <1>2, <1>4 DEF Outside, NoncesDistinct, DeleteActs
  <2>3. \A h \in M : pc[h] = "receipt" /\ tok[h] = intents[b].nonce => b = job[h] /\ ~intents[b].pinned
    BY <1>1, <1>4 DEF NoncesDistinct, EntrySafe, EntryOK, LaunchActs
  <2>4. \A h \in M : pc[h] = "receipt" /\ tok[h] = intents[b].nonce => intents[b].nonce \notin receipts
    BY Zenon, <1>1 DEF LaunchActs
  <2>5. crs[b].nonce = intents[b].nonce => CRKept(b)
    <3>1. ~CRMade(M, b) \/ crs[b].nonce # intents[b].nonce
      BY Zenon DEF CRMade
    <3>2. ~CRGone(M, b) \/ crs[b].nonce # intents[b].nonce
      BY Zenon, <1>3 DEF CRGone, ReleasedActs
    <3> QED
      BY Zenon, <3>1, <3>2 DEF CRSteps
  <2> QED
    BY <2>1, <2>2, <2>3, <2>4, <2>5 DEF Outside
<1> QED
  BY Zenon, <1>21

\* A step outside the ledger disables no update that could commit.
LEMMA OutsideCommits ==
    ASSUME IInv, TypeOK', NEW M, Outside(M), CRSteps(M), PreSteps(M), UnbornSteps(M)
    PROVE  MayCommitKept
<1>4. TypeOK /\ NoncesUsed /\ NoncesDistinct /\ LaunchedSafe /\ EntrySafe /\ CRSafe /\ LateWritesSafe
  BY Zenon DEF IInv, SharedSafe
<1>5. PreKept
  BY Zenon, OutsideNonces
<1>6. SpentKept
  BY Zenon, OutsideNonces
<1>7. ReceiptsFrom
  BY Zenon, OutsideNonces
<1>8. CRsFrom(M)
  BY Zenon, OutsideNonces
<1>9. SpentCRs
  BY Zenon, OutsideNonces
<1>10. UnbornKept
  BY Zenon, OutsideNonces
<1>16. LaunchedFrom(M)
  BY Zenon, OutsideNonces
<1>21. EntriesKept
  BY Zenon, OutsideEntries
<1>17. MayCommitKept
  <2> SUFFICES ASSUME NEW b \in Builds, NEW e \in Intent, MayCommit(b, e)
               PROVE  MayCommit(b, e)'
    BY Zenon DEF MayCommitKept
  <2>1. intents'[b] = intents[b] /\ e.nonce \in Nonces \cup {None}
    BY Zenon DEF Outside, Intent
  <2>2. Full(b)' <=> Full(b)
    BY DEF Full, Charged, ChargedTo, Outside
  <2>3. Unborn(e.nonce) => Unborn(e.nonce)'
    BY Zenon, <1>4, <1>10, <2>1, ConstantsAssumption DEF Unborn, TypeOK, UnbornKept
  <2>4. CASE intents[b].nonce = None
    BY Zenon, <2>1, <2>2, <2>3, <2>4 DEF MayCommit
  <2>5. CASE intents[b].nonce # None
    <3>1. Spent(intents[b].nonce) =>
            /\ Spent(intents[b].nonce)'
            /\ intents[b].nonce \in receipts' => intents[b].nonce \in receipts
            /\ ~HasCR(intents[b].nonce) => ~HasCR(intents[b].nonce)'
      BY Zenon, <1>6, <1>7, <1>9, <1>21, <2>1, <2>5 DEF Spent, SpentKept, ReceiptsFrom, SpentCRs, EntriesKept
    <3>2. crs[b].nonce = intents[b].nonce =>
            CRKept(b) /\ Spent(intents[b].nonce)
      BY Zenon, <1>4, <1>21, <2>5 DEF CRSafe, CROK, EntriesKept
    <3> QED
      BY Zenon, <1>21, <2>1, <2>5, <3>1, <3>2 DEF MayCommit, CRKept, EntriesKept
  <2> QED
    BY Zenon, <2>4, <2>5
<1> QED
  BY Zenon, <1>17

\* A step outside the ledger keeps the shared part of the invariant.
LEMMA OutsideShared ==
    ASSUME IInv, TypeOK', NEW M, Outside(M), CRSteps(M), PreSteps(M), UnbornSteps(M), LateSteps
    PROVE  SharedSafe' /\ LimitsSafe'
<1>1. LaunchActs(M)
  BY Zenon, OutsideActs
<1>2. DeleteActs(M)
  BY Zenon, OutsideActs
<1>3. ReleasedActs(M)
  BY Zenon, OutsideActs
<1>4. TypeOK /\ NoncesUsed /\ NoncesDistinct /\ LaunchedSafe /\ EntrySafe /\ CRSafe /\ LateWritesSafe
  BY Zenon DEF IInv, SharedSafe
<1>5. PreKept
  BY Zenon, OutsideNonces
<1>6. SpentKept
  BY Zenon, OutsideNonces
<1>7. ReceiptsFrom
  BY Zenon, OutsideNonces
<1>8. CRsFrom(M)
  BY Zenon, OutsideNonces
<1>9. SpentCRs
  BY Zenon, OutsideNonces
<1>10. UnbornKept
  BY Zenon, OutsideNonces
<1>16. LaunchedFrom(M)
  BY Zenon, OutsideNonces
<1>21. EntriesKept
  BY Zenon, OutsideEntries
<1>17. MayCommitKept
  BY Zenon, OutsideCommits
<1>11. NoncesUsed'
  <2>1. ASSUME NEW b \in Builds, crs'[b].nonce # None PROVE crs'[b].nonce \in used
    <3>1. \A n : <<b, n>> \in lateCreates => n \in used
      BY Zenon, <1>4 DEF TypeOK
    <3> QED
      <4>1. CASE CRKept(b)
        BY Zenon, <1>4, <2>1, <4>1 DEF CRKept, NoncesUsed
      <4>2. CASE CRMade(M, b)
        BY Zenon, <1>1, <3>1, <4>2 DEF CRMade, LaunchActs
      <4>3. CASE CRGone(M, b)
        BY <2>1, <4>3 DEF CRGone, NoCR
      <4> QED
        BY Zenon, <4>1, <4>2, <4>3 DEF CRSteps
  <2> QED
    BY Zenon, <1>4, <2>1 DEF NoncesUsed, Outside
<1>12. NoncesDistinct'
  <2>1. \A g, h \in Handlers : pc'[g] \in PrePCs /\ pc'[h] \in PrePCs
                                 /\ tok'[g] = tok'[h] /\ tok'[g] # None => g = h
    <3> SUFFICES ASSUME NEW g \in Handlers, NEW h \in Handlers, g # h,
                        pc'[g] \in PrePCs, pc'[h] \in PrePCs, tok'[g] = tok'[h], tok'[g] # None
                 PROVE  FALSE
      BY Zenon
    <3>1. \A q \in Procs : q \notin M /\ tok[q] # None => tok[q] \in used
      BY Zenon DEF IInv, ProcSafe, TaskSafe
    <3> QED
      BY <1>4, <3>1 DEF NoncesDistinct, Outside, Procs, PreSteps
  <2>2. \A a, b \in Builds :
          crs'[a].nonce = crs'[b].nonce /\ crs'[a].nonce # None => a = b
    <3> SUFFICES ASSUME NEW a \in Builds, NEW b \in Builds, a # b,
                        crs'[a].nonce = crs'[b].nonce, crs'[a].nonce # None
                 PROVE  FALSE
      BY Zenon
    <3>1. ~CRMade(M, a)
      BY <1>1, <1>4 DEF CRMade, LaunchedSafe, HasCR, LaunchActs
    <3>2. ~CRMade(M, b)
      BY <1>1, <1>4 DEF CRMade, LaunchedSafe, HasCR, LaunchActs
    <3> QED
      BY <1>4, <3>1, <3>2 DEF CRSteps, CRKept, CRGone, NoCR, NoncesDistinct
  <2>3. ASSUME NEW a \in Builds, NEW b \in Builds, intents[a].nonce = crs'[b].nonce, crs'[b].nonce # None
        PROVE  a = b
    <3>1. CASE CRKept(b)
      BY Zenon, <1>4, <2>3, <3>1 DEF CRKept, NoncesDistinct
    <3>2. CASE CRMade(M, b)
      <4>1. intents[b].nonce = crs'[b].nonce
        BY <1>1, <1>4, <3>2 DEF CRMade, LaunchedSafe, LaunchActs
      <4> QED
        BY Zenon, <1>4, <2>3, <4>1 DEF NoncesDistinct
    <3>3. CASE CRGone(M, b)
      BY <2>3, <3>3 DEF CRGone, NoCR
    <3> QED
      BY Zenon, <3>1, <3>2, <3>3 DEF CRSteps
  <2> QED
    BY <1>4, <2>1, <2>2, <2>3 DEF NoncesDistinct, Outside
<1>13. LaunchedSafe'
  <2> SUFFICES ASSUME NEW b \in Builds, NEW n \in Nonces, <<b, n>> \in lateCreates'
               PROVE  /\ intents[b].nonce = n /\ intents[b].kind = "none"
                      /\ ~HasCR(n)' /\ ~InPre(n)' /\ n \notin lateReceipts'
                      /\ Genesis => intents[b].pinned
    BY Zenon DEF LaunchedSafe, Outside
  <2>1. CASE <<b, n>> \in lateCreates
    <3>1. /\ intents[b].nonce = n /\ intents[b].kind = "none" /\ Launched(n)
          /\ ~HasCR(n) /\ ~InPre(n) /\ n \notin lateReceipts
          /\ Genesis => intents[b].pinned
      BY Zenon, <1>4, <2>1 DEF LaunchedSafe, Launched
    <3>2. n \in used
      BY Zenon, <1>4, <2>1 DEF TypeOK
    <3>3. n \notin lateReceipts' /\ ~InPre(n)'
      BY <1>1, <1>5, <3>1, <3>2 DEF Outside, LaunchActs, PreKept
    <3>4. ~HasCR(n)'
      <4> SUFFICES ASSUME NEW a \in Builds, crs'[a].nonce = n PROVE FALSE
        BY Zenon DEF HasCR
      <4>1. CRMade(M, a)
        BY <3>1, ConstantsAssumption DEF CRSteps, CRKept, CRGone, NoCR, HasCR
      <4>2. \A h \in M : pc[h] = "create" => tok[h] # n
        BY Zenon, <1>1, <3>1 DEF LaunchActs
      <4>3. <<a, n>> \in lateCreates /\ <<a, n>> \notin lateCreates'
        BY Zenon, <4>1, <4>2 DEF CRMade
      <4>4. intents[a].nonce = n
        BY Zenon, <1>4, <4>3 DEF LaunchedSafe
      <4>5. a = b
        BY <1>4, <3>1, <4>4, ConstantsAssumption DEF NoncesDistinct
      <4> QED
        BY Zenon, <4>3, <4>5
    <3> QED
      BY Zenon, <3>1, <3>3, <3>4
  <2>2. CASE <<b, n>> \notin lateCreates
    <3>1. PICK h \in M : pc[h] = "create" /\ job[h] = b /\ tok[h] = n /\ pc'[h] = "idle"
      BY <2>2 DEF Outside
    <3>2. n \notin lateReceipts'
      BY <1>1, <3>1 DEF Outside, LaunchActs
    <3>3. ~InPre(n)'
      <4>1. \A g \in Handlers : pc[g] \in PrePCs /\ tok[g] = n => g = h
        BY Zenon, <1>1, <1>4, <3>1 DEF NoncesDistinct, PrePCs, AuthPCs, LaunchActs
      <4> QED
        BY <1>1, <3>1, <4>1 DEF InPre, Outside, Procs, PrePCs, AuthPCs, LaunchActs
    <3>4. ~HasCR(n)'
      BY <1>1, <3>1, <2>2 DEF CRSteps, HasCR, CRKept, CRMade, CRGone, NoCR, Launched, LaunchActs
    <3> QED
      BY Zenon, <1>1, <3>1, <3>2, <3>3, <3>4 DEF LaunchActs
  <2> QED
    BY Zenon, <2>1, <2>2
<1>14. EntrySafe'
  <2> SUFFICES ASSUME NEW b \in Builds PROVE EntryOK(b)'
    BY Zenon DEF EntrySafe
  <2>1. EntryOK(b) /\ intents'[b] = intents[b]
    BY Zenon, <1>4 DEF EntrySafe, Outside
  <2>2. CASE intents[b].nonce = None
    BY <2>1, <2>2 DEF EntryOK, NoIntent
  <2>3. CASE intents[b].nonce # None
    <3>1. intents[b].kind = "rejected" => Spent(intents[b].nonce)' /\ ~HasCR(intents[b].nonce)'
      BY Zenon, <1>6, <1>9, <1>21, <2>1, <2>3 DEF EntryOK, SpentKept, SpentCRs, EntriesKept
    <3> QED
      BY Zenon, <1>21, <2>1, <2>3, <3>1 DEF EntryOK, CRKept, EntriesKept
  <2> QED
    BY Zenon, <2>2, <2>3
<1>15. CRSafe'
  <2> SUFFICES ASSUME NEW b \in Builds PROVE CROK(b)'
    BY Zenon DEF CRSafe
  <2>0. CROK(b) /\ intents'[b] = intents[b]
    BY Zenon, <1>4 DEF CRSafe, Outside
  <2>1. CASE CRKept(b)
    <3>1. CASE crs[b].nonce = None
      BY Zenon, <2>1, <3>1 DEF CRKept, CROK
    <3>2. CASE crs[b].nonce # None
      <4>1. crs[b].nonce \in used /\ Spent(crs[b].nonce)
        BY Zenon, <1>4, <2>0, <3>2 DEF NoncesUsed, CROK
      <4>2. Spent(crs[b].nonce)' /\ (crs[b].nonce \in receipts' => crs[b].nonce \in receipts)
        BY Zenon, <1>6, <1>7, <2>1, <4>1 DEF Spent, CRKept, SpentKept, ReceiptsFrom
      <4>3. crs[b].stage = "terminal" => crs'[b].stage = "terminal"
        BY Zenon, <2>1, <3>2 DEF CRKept
      <4> QED
        BY Zenon, <2>0, <2>1, <3>2, <4>2, <4>3 DEF CRKept, CROK
    <3> QED
      BY Zenon, <3>1, <3>2
  <2>2. CASE CRMade(M, b)
    <3>1. PICK n \in Nonces : n = crs'[b].nonce /\ crs'[b].stage = "queued"
      BY <2>2 DEF CRMade, NewCR
    <3>2. CASE <<b, n>> \in lateCreates /\ <<b, n>> \notin lateCreates'
      <4>1. /\ intents[b].nonce = n /\ intents[b].kind = "none"
            /\ Genesis => intents[b].pinned
            /\ ~InPre(n) /\ n \notin lateReceipts
        BY Zenon, <1>4, <3>2 DEF LaunchedSafe
      <4>2. n \in used /\ n # None
        BY Zenon, <1>4, <3>2, ConstantsAssumption DEF TypeOK
      <4>3. ~InPre(n)' /\ n \notin lateReceipts' /\ \A h \in M : pc[h] = "create" => tok[h] # n
        BY <1>1, <1>5, <4>1, <4>2 DEF Outside, LaunchActs, PreKept
      <4>4. \A a \in Builds : <<a, n>> \in lateCreates => a = b
        BY <1>4, <4>1, <4>2 DEF LaunchedSafe, NoncesDistinct
      <4>5. ~Launched(n)'
        <5> SUFFICES ASSUME NEW a \in Builds, <<a, n>> \in lateCreates' PROVE FALSE
          BY Zenon DEF Launched
        <5>1. <<a, n>> \in lateCreates
          BY <4>3 DEF Outside
        <5> QED
          BY Zenon, <3>2, <4>4, <5>1
      <4> QED
        BY Zenon, <2>0, <3>1, <4>1, <4>3, <4>5 DEF CROK, Spent
    <3>3. CASE lateCreates' = lateCreates /\ \E h \in M : pc[h] = "create" /\ job[h] = b
                                                   /\ tok[h] = n /\ pc'[h] = "idle"
      <4>1. PICK h \in M : pc[h] = "create" /\ job[h] = b /\ tok[h] = n /\ pc'[h] = "idle"
        BY Zenon, <3>3
      <4>2. \A g \in Handlers : pc[g] \in PrePCs /\ tok[g] = n => g = h
        BY Zenon, <1>1, <1>4, <4>1 DEF NoncesDistinct, PrePCs, AuthPCs, LaunchActs
      <4>3. ~InPre(n)'
        BY <1>1, <4>1, <4>2 DEF InPre, Outside, Procs, PrePCs, AuthPCs, LaunchActs
      <4>4. ~Launched(n)' /\ n \notin lateReceipts'
        BY <1>1, <3>3, <4>1 DEF Launched, Outside, LaunchActs
      <4> QED
        BY Zenon, <1>1, <2>0, <3>1, <4>1, <4>3, <4>4 DEF CROK, Spent, LaunchActs
    <3> QED
      BY Zenon, <2>2, <3>1, <3>2, <3>3 DEF CRMade
  <2>3. CASE CRGone(M, b)
    BY <2>3 DEF CRGone, NoCR, CROK
  <2> QED
    BY Zenon, <2>1, <2>2, <2>3 DEF CRSteps
<1>18. LateWritesSafe' /\ LegacySafe'
  <2>1. LateWritesSafe'
    BY Zenon, <1>17 DEF LateWritesSafe, Outside, LateSteps, MayCommitKept
  <2>2. \A h \in M : pc[h] = "receipt" => Genesis
    BY Zenon DEF IInv, ProcSafe, AuthoritySafe, AuthPCs, Outside
  <2>3. LegacySafe'
    BY <2>2 DEF LegacySafe, IInv, SharedSafe, Outside
  <2> QED
    BY Zenon, <2>1, <2>3
<1>19. LimitsSafe'
  BY DEF IInv, LimitsSafe, Charged, ChargedTo, Outside
<1> QED
  BY Zenon, <1>11, <1>12, <1>13, <1>14, <1>15, <1>18, <1>19 DEF SharedSafe

\* A step outside the ledger keeps every process that does not move safe.
LEMMA OutsideProc ==
    ASSUME IInv, TypeOK', NEW M, Outside(M), CRSteps(M), PreSteps(M), UnbornSteps(M),
           NEW q \in Procs, q \notin M
    PROVE  ProcSafe(q)'
<1>1. LaunchActs(M)
  BY Zenon, OutsideActs
<1>2. DeleteActs(M)
  BY Zenon, OutsideActs
<1>3. ReleasedActs(M)
  BY Zenon, OutsideActs
<1>4. TypeOK /\ NoncesUsed /\ NoncesDistinct /\ LaunchedSafe /\ EntrySafe /\ CRSafe /\ LateWritesSafe
  BY Zenon DEF IInv, SharedSafe
<1>5. PreKept
  BY Zenon, OutsideNonces
<1>6. SpentKept
  BY Zenon, OutsideNonces
<1>7. ReceiptsFrom
  BY Zenon, OutsideNonces
<1>8. CRsFrom(M)
  BY Zenon, OutsideNonces
<1>9. SpentCRs
  BY Zenon, OutsideNonces
<1>10. UnbornKept
  BY Zenon, OutsideNonces
<1>16. LaunchedFrom(M)
  BY Zenon, OutsideNonces
<1>21. EntriesKept
  BY Zenon, OutsideEntries
<1>17. MayCommitKept
  BY Zenon, OutsideCommits
<1>20. ProcSafe(q)'
  <2>1. /\ pc'[q] = pc[q] /\ job'[q] = job[q] /\ tok'[q] = tok[q] /\ (q \in current' => q \in current)
        /\ \A b \in Builds : intents'[b] = intents[b]
    BY DEF Outside
  <2>2. ProcSafe(q)
    BY Zenon DEF IInv
  <2>3. TaskSafe(q)'
    BY Zenon, <2>1, <2>2 DEF ProcSafe, TaskSafe, Outside
  <2>4. ASSUME pc[q] \in PrePCs, tok[q] # None, q \in Handlers, ~HasCR(tok[q]), ~Launched(tok[q]),
               tok[q] \notin lateReceipts
        PROVE  /\ ~HasCR(tok[q])' /\ ~Launched(tok[q])' /\ tok[q] \notin lateReceipts'
               /\ tok[q] \in receipts <=> tok[q] \in receipts'
    <3>1. tok[q] \in Nonces /\ InPre(tok[q])
      BY Zenon, <1>4, <2>4 DEF TypeOK, InPre
    <3>2. \A h \in M : pc[h] \in {"receipt", "create"} => tok[h] # tok[q]
      BY Zenon, <1>1, <1>4, <2>4 DEF NoncesDistinct, PrePCs, AuthPCs, LaunchActs
    <3>3. \A p \in M : pc[p] = "deleteReceipt" => tok[p] # tok[q] \/ tok[p] \notin receipts
      BY Zenon, <1>2, <3>1 DEF Spent, DeleteActs
    <3>4. ~HasCR(tok[q])' /\ ~Launched(tok[q])'
      BY Zenon, <1>8, <1>16, <2>1, <2>4, <3>1, <3>2 DEF CRsFrom, LaunchedFrom
    <3> QED
      BY <2>4, <3>2, <3>3, <3>4 DEF Outside
  <2>5. pc[q] \in PrePCs => q \in Handlers
    BY Zenon, <2>2 DEF ProcSafe, TaskSafe, PrePCs, AuthPCs, WorkerPCs, Procs
  <2>6. ReservingSafe(q)'
    <3>1. pc[q] \in {"reserve", "reserveWrite"} /\ tok[q] # None => Unborn(tok[q])'
      BY Zenon, <1>4, <1>10, <2>1, <2>2 DEF ProcSafe, ReservingSafe, TypeOK, UnbornKept
    <3>2. pc[q] = "reserveLookup" => q \in Handlers /\ pc[q] \in PrePCs /\ tok[q] # None
      BY Zenon, <2>2, <2>5 DEF PrePCs, ProcSafe, TaskSafe
    <3> QED
      BY Zenon, <2>1, <2>2, <2>4, <3>1, <3>2 DEF ProcSafe, ReservingSafe
  <2>7. AuthoritySafe(q)'
    <3>1. pc[q] \in AuthPCs => q \in Handlers /\ pc[q] \in PrePCs /\ tok[q] # None
      BY Zenon, <2>2, <2>5 DEF PrePCs, ProcSafe, TaskSafe, AuthPCs
    <3> QED
      BY Zenon, <2>1, <2>2, <2>4, <3>1 DEF ProcSafe, AuthoritySafe, Outside
  <2>8. ActingSafe(q)'
    <3> SUFFICES ASSUME Acting(q) PROVE ActingSafe(q)'
      BY Zenon, <2>1 DEF ActingSafe, Acting
    <3>1. /\ tok[q] \in Nonces /\ job[q] \in Builds /\ tok[q] # None /\ ActingSafe(q)
          /\ tok[q] \in used /\ Spent(tok[q])
      <4>1. tok[q] \in Nonces /\ job[q] \in Builds /\ tok[q] # None
        BY Zenon, <1>4, <2>2, ProcFacts, ConstantsAssumption DEF ProcSafe
      <4> QED
        BY Zenon, <2>2, <4>1 DEF ProcSafe, TaskSafe, ActingSafe
    <3>2. Spent(tok[q])' /\ (tok[q] \in receipts' => tok[q] \in receipts)
      BY Zenon, <1>6, <1>7, <2>1, <3>1 DEF Spent, SpentKept, ReceiptsFrom
    <3>3. ASSUME NEW b \in Builds, crs'[b].nonce = tok[q]
          PROVE  /\ q \in Workers /\ b = job[q]
                 /\ crs'[b].stage = "terminal" \/ (~Genesis /\ crs'[b].stage = "granted")
      <4>1. \A n : <<b, n>> \in lateCreates => Launched(n)
        BY Zenon DEF Launched
      <4>2. ~CRMade(M, b)
        BY Zenon, <1>1, <3>1, <3>3, <4>1 DEF CRMade, Spent, LaunchActs
      <4>3. ~CRGone(M, b)
        BY <3>1, <3>3 DEF CRGone, NoCR
      <4> QED
        <5>1. CRKept(b)
          BY Zenon, <4>2, <4>3 DEF CRSteps
        <5>2. crs[b].nonce = tok[q]
          BY Zenon, <3>3, <5>1 DEF CRKept
        <5>3. /\ q \in Workers /\ b = job[q]
              /\ crs[b].stage = "terminal" \/ (~Genesis /\ crs[b].stage = "granted")
          BY Zenon, <3>1, <5>2 DEF ActingSafe
        <5>4. crs'[b].stage \in {crs[b].stage, "terminal"}
          BY Zenon, <3>1, <5>1, <5>2, <5>3 DEF CRKept
        <5> QED
          BY Zenon, <5>3, <5>4
    <3>4. q \in Workers /\ intents[job[q]].nonce = tok[q] => crs'[job[q]].nonce = tok[q]
      BY Zenon, <1>21, <3>1 DEF ActingSafe, CRKept, EntriesKept
    <3> QED
      BY Zenon, <2>1, <3>1, <3>2, <3>3, <3>4 DEF ActingSafe, CleanupKind
  <2>9. ProposalSafe(q)'
    <3>1. Proposal(q)' = Proposal(q)
      BY Zenon, <2>1 DEF Proposal, CleanupKind, Outside
    <3> QED
      BY Zenon, <1>4, <1>17, <2>1, <2>2, <3>1, ProcFacts DEF ProcSafe, ProposalSafe, MayCommitKept
  <2> QED
    BY Zenon, <2>3, <2>6, <2>7, <2>8, <2>9 DEF ProcSafe
<1> QED
  BY Zenon, <1>20

\* A step that writes no ledger entry keeps the invariant if the processes that move end it safe.
LEMMA OutsideStep ==
    ASSUME IInv, TypeOK', NEW M, Outside(M), CRSteps(M), PreSteps(M), UnbornSteps(M),
           MovedSafe(M), LateSteps
    PROVE  IInv'
<1>1. SharedSafe' /\ LimitsSafe'
  BY Zenon, OutsideShared
<1>2. ASSUME NEW p \in Procs PROVE ProcSafe(p)'
  <2>1. CASE p \in M
    BY Zenon, <2>1 DEF MovedSafe
  <2>2. CASE p \notin M
    BY Zenon, <2>2, OutsideProc
  <2> QED
    BY Zenon, <2>1, <2>2
<1> QED
  BY <1>1, <1>2 DEF IInv
=============================================================================
