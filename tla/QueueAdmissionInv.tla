------------------------- MODULE QueueAdmissionInv -------------------------
(***************************************************************************)
(* The inductive invariant behind the safety properties of QueueAdmission. *)
(* A nonce moves one way: it is drawn by a handler (Pre), its one Create   *)
(* leaves the handler, and from then on it is Spent: no handler can use it *)
(* again and no Create of it is on its way.  The ledger may drop a nonce   *)
(* only when it is Spent, and every update that can still commit (one in   *)
(* flight, or one a process with the current version is about to send) is  *)
(* one that respects this.                                                 *)
(***************************************************************************)
EXTENDS QueueAdmission

AuthPCs == {"receipt", "pin", "pinWrite", "pinLookup", "create"}

PrePCs == {"reserve", "reserveWrite", "reserveLookup"} \cup AuthPCs

RejectPCs == {"reject", "mark", "markWrite", "markLookup", "deleteReceipt",
              "release", "releaseWrite", "dup", "resume"}

WorkerPCs == {"idle", "releaseBuild", "mark", "markWrite", "markLookup",
              "deleteReceipt", "settle", "releaseBuildWrite",
              "releaseBuildLookup", "released"}

(* Processes acting for a nonce whose Create is behind it.                 *)
Acting(p) == IF p \in Workers THEN pc[p] # "idle" ELSE pc[p] \in RejectPCs

InPre(n) == \E h \in Handlers : pc[h] \in PrePCs /\ tok[h] = n

Launched(n) == \E b \in Builds : <<b, n>> \in lateCreates

Spent(n) == ~InPre(n) /\ ~Launched(n) /\ n \notin lateReceipts

HasCR(n) == \E b \in Builds : crs[b].nonce = n

Logged(n) == \E b \in Builds : intents[b].nonce = n

(* A drawn nonce of which nothing is known outside its handler.            *)
Unborn(n) ==
    /\ n \in used
    /\ ~HasCR(n) /\ ~Launched(n) /\ ~Logged(n)
    /\ n \notin receipts /\ n \notin lateReceipts
    /\ \A p \in Procs : tok[p] = n => p \in Handlers /\ pc[p] \in PrePCs \ AuthPCs

(* The entry e may be committed at b now.                                  *)
MayCommit(b, e) ==
    LET i == intents[b] IN
    \/ /\ i.nonce = None /\ e = NewIntent(e.nonce) /\ Unborn(e.nonce)
       /\ ~Full(b)
    \/ /\ Genesis /\ i.nonce # None /\ i.kind = "none" /\ i.nonce \in receipts
       /\ i.nonce \notin lateReceipts
       /\ e = [i EXCEPT !.pinned = TRUE]
    \/ /\ Genesis /\ i.nonce # None /\ i.kind = "none" /\ i.pinned
       /\ Spent(i.nonce) /\ ~HasCR(i.nonce)
       /\ e = [i EXCEPT !.kind = "rejected"]
    \/ /\ Genesis /\ i.nonce # None /\ i.kind = "none" /\ i.pinned
       /\ crs[b].nonce = i.nonce /\ crs[b].stage = "terminal"
       /\ e = [i EXCEPT !.kind = "terminal"]
    \/ /\ i.nonce # None /\ e = NoIntent
       /\ Spent(i.nonce) /\ ~HasCR(i.nonce)
       /\ Genesis => i.kind = "rejected" /\ i.nonce \notin receipts
    \/ /\ i.nonce # None /\ e = NoIntent
       /\ crs[b].nonce = i.nonce
       /\ IF Genesis
          THEN i.kind = "terminal" /\ crs[b].settled /\ i.nonce \notin receipts
          ELSE crs[b].stage \in {"granted", "terminal"}

(* What a process about to write would write.                              *)
Proposal(p) ==
    CASE pc[p] = "reserveWrite" -> NewIntent(tok[p])
      [] pc[p] = "pinWrite" -> [intents[job[p]] EXCEPT !.pinned = TRUE]
      [] pc[p] = "markWrite" -> [intents[job[p]] EXCEPT !.kind = CleanupKind(p)]
      [] OTHER -> NoIntent

WritePCs == {"reserveWrite", "pinWrite", "markWrite", "releaseWrite",
             "releaseBuildWrite"}

(* ----- what each process relies on ----- *)

TaskSafe(p) ==
    /\ p \in Handlers => pc[p] \in PrePCs \cup RejectPCs \cup {"idle", "done"}
    /\ p \in Workers => pc[p] \in WorkerPCs
    /\ pc[p] # "idle" => job[p] \in Builds
    /\ pc[p] \notin {"idle", "reserve", "done"} => tok[p] # None
    /\ pc[p] = "idle" => tok[p] = None
    /\ tok[p] # None => tok[p] \in used

ReservingSafe(h) ==
    /\ pc[h] \in {"reserve", "reserveWrite"} /\ tok[h] # None => Unborn(tok[h])
    /\ pc[h] = "reserveLookup" =>
          /\ ~HasCR(tok[h]) /\ ~Launched(tok[h])
          /\ tok[h] \notin receipts /\ tok[h] \notin lateReceipts
          /\ \A b \in Builds : intents[b].nonce = tok[h] =>
                b = job[h] /\ intents[b] = NewIntent(tok[h])

AuthoritySafe(h) ==
    pc[h] \in AuthPCs =>
       /\ intents[job[h]].nonce = tok[h] /\ intents[job[h]].kind = "none"
       /\ ~HasCR(tok[h]) /\ ~Launched(tok[h]) /\ tok[h] \notin lateReceipts
       /\ pc[h] # "create" => Genesis
       /\ pc[h] = "receipt" => tok[h] \notin receipts
       /\ pc[h] \in {"pin", "pinWrite", "pinLookup"} => tok[h] \in receipts
       /\ pc[h] = "create" /\ Genesis =>
             tok[h] \in receipts /\ intents[job[h]].pinned

ActingSafe(p) ==
    Acting(p) =>
       /\ Spent(tok[p])
       /\ \A b \in Builds : intents[b].nonce = tok[p] => b = job[p]
       /\ \A b \in Builds : crs[b].nonce = tok[p] =>
             /\ p \in Workers /\ b = job[p]
             /\ crs[b].stage = "terminal" \/ (~Genesis /\ crs[b].stage = "granted")
       /\ p \in Workers /\ intents[job[p]].nonce = tok[p] => crs[job[p]].nonce = tok[p]
       /\ Genesis /\ tok[p] \in receipts => intents[job[p]].nonce = tok[p]
       /\ pc[p] \in {"mark", "markWrite", "markLookup", "deleteReceipt", "settle"} => Genesis
       /\ pc[p] \in {"deleteReceipt", "settle", "release", "releaseWrite"}
             /\ Genesis /\ intents[job[p]].nonce = tok[p] =>
                intents[job[p]].kind = CleanupKind(p)
       /\ pc[p] \in {"release", "releaseWrite", "settle"} => tok[p] \notin receipts
       /\ p \in Workers /\ pc[p] \in {"deleteReceipt", "settle"} /\ p \in current =>
             intents[job[p]].nonce = tok[p]
       /\ pc[p] = "released" => intents[job[p]].nonce # tok[p]

ProposalSafe(p) ==
    p \in current /\ pc[p] \in WritePCs => MayCommit(job[p], Proposal(p))

ProcSafe(p) ==
    /\ TaskSafe(p) /\ ReservingSafe(p) /\ AuthoritySafe(p)
    /\ ActingSafe(p) /\ ProposalSafe(p)

(* ----- what the shared state keeps ----- *)

NoncesUsed ==
    /\ \A b \in Builds : intents[b].nonce # None => intents[b].nonce \in used
    /\ \A b \in Builds : crs[b].nonce # None => crs[b].nonce \in used

NoncesDistinct ==
    /\ \A g, h \in Handlers : pc[g] \in PrePCs /\ pc[h] \in PrePCs
                                 /\ tok[g] = tok[h] /\ tok[g] # None => g = h
    /\ \A a, b \in Builds :
          intents[a].nonce = intents[b].nonce /\ intents[a].nonce # None => a = b
    /\ \A a, b \in Builds :
          crs[a].nonce = crs[b].nonce /\ crs[a].nonce # None => a = b
    /\ \A a, b \in Builds :
          intents[a].nonce = crs[b].nonce /\ crs[b].nonce # None => a = b

LaunchedSafe ==
    \A b \in Builds, n \in Nonces : <<b, n>> \in lateCreates =>
       /\ intents[b].nonce = n /\ intents[b].kind = "none"
       /\ ~HasCR(n) /\ ~InPre(n) /\ n \notin lateReceipts
       /\ Genesis => intents[b].pinned

EntryOK(b) ==
    LET i == intents[b] IN
    /\ i.nonce = None => i = NoIntent
    /\ i.pinned => Genesis /\ i.nonce \notin lateReceipts
    /\ i.kind # "none" => i.pinned
    /\ i.pinned /\ i.kind = "none" => i.nonce \in receipts
    /\ i.kind = "rejected" => Spent(i.nonce) /\ ~HasCR(i.nonce)
    /\ i.kind = "terminal" =>
          crs[b].nonce = i.nonce /\ crs[b].stage = "terminal"

EntrySafe == \A b \in Builds : EntryOK(b)

CROK(b) ==
    LET c == crs[b] IN
    /\ c.stage = "absent" => c.nonce = None
    /\ c.nonce # None =>
          /\ Spent(c.nonce)
          /\ ~Genesis /\ c.stage = "queued" => intents[b].nonce = c.nonce
          /\ Genesis =>
                \/ /\ intents[b].nonce = c.nonce /\ intents[b].pinned
                   /\ intents[b].kind # "rejected"
                \/ /\ intents[b].nonce # c.nonce /\ c.stage = "terminal"
                   /\ c.settled /\ c.nonce \notin receipts

CRSafe == \A b \in Builds : CROK(b)

LateWritesSafe ==
    \A b \in Builds, e \in Intent : <<b, e>> \in lateWrites =>
       /\ MayCommit(b, e)
       /\ intents[b].nonce = None =>
             \A p \in Procs : tok[p] = e.nonce => pc[p] = "reserveLookup" /\ job[p] = b

LimitsSafe ==
    /\ Cardinality(Charged) <= GlobalLimit
    /\ \A r \in Requesters : Cardinality(ChargedTo(r)) <= RequesterLimit

(* Receipts are a Genesis matter.                                          *)
LegacySafe == ~Genesis => receipts = {} /\ lateReceipts = {}

SharedSafe ==
    /\ LegacySafe
    /\ NoncesUsed /\ NoncesDistinct /\ LaunchedSafe /\ EntrySafe /\ CRSafe
    /\ LateWritesSafe

IInv ==
    /\ TypeOK /\ SharedSafe /\ LimitsSafe
    /\ \A p \in Procs : ProcSafe(p)
=============================================================================
