------------------------------ MODULE Repairs ------------------------------
(***************************************************************************)
(* The operator's verbs on the ledger, running against live migrators:     *)
(* repair adopt, adopt --all-unmatched, accept-content, resolve and        *)
(* baseline. None of them runs DDL. The repair verbs read a row and write  *)
(* it in a later transaction without the advisory lock; baseline reads and *)
(* writes under it. Every verb first creates the tracking tables, and so   *)
(* waits once for the lock.                                                *)
(*                                                                         *)
(* A process either boots (Migrator) or serves an operator, who runs       *)
(* outside CI and gave a reason; a dry run is a repair given up.           *)
(***************************************************************************)
EXTENDS Migrator

CONSTANT MaxRepairs     \* no repair begins once the audit trail is this long

VARIABLE desk           \* what a process repairs, and how far it is

repairVars == <<ledger, landed, namespace, tracker, repairs, lock, pc, call, todo, stmt, outcome, desk>>

NoRows == [q \in Seqs |-> NoRow]
AtRest == [step |-> "rest", verb |-> "none", scope |-> NoCall.scope,
           files |-> {}, retire |-> {}, read |-> NoRows]

AdoptVerbs   == {"repair adopt", "repair adopt --all-unmatched"}
ResolveVerbs == {"repair resolve --applied", "repair resolve --rerun"}
RowVerbs     == {"repair adopt", "repair accept-content"} \cup ResolveVerbs   \* about one file
TreeVerbs    == {"repair adopt --all-unmatched", "baseline"}                  \* about a chain

DeskOK ==
  /\ TypeOK
  /\ desk \in [Procs -> [step : {"rest", "setup", "read", "write", "lock", "plan", "commit", "unlock"},
                         verb : Verbs \cup {"none"}, scope : Scopes, files : SUBSET Migrations,
                         retire : SUBSET Seqs, read : Records]]

RepairInit == Init /\ desk = [p \in Procs |-> AtRest]

-----------------------------------------------------------------------------
(* Helpers *)


Bind(row, m) == [row EXCEPT !.filename = m.name, !.digest = ContentDigest(m),
                            !.semantic = SemanticContentDigest(m)]

(* What each verb finds to repair in a row it just read.                    *)
Repairable(verb, m, row) ==
  \/ verb \in AdoptVerbs /\ Recorded(row) /\ IdentityOf(row) # FileIdentity(m)
  \/ verb = "repair accept-content" /\ Recorded(row) /\ row.filename \in {NoName, m.name}
                                    /\ row.digest # ContentDigest(m)
  \/ verb \in ResolveVerbs /\ IsDirty(row)

Rest(p) == desk' = [desk EXCEPT ![p] = AtRest]
MoveTo(p, step) == desk' = [desk EXCEPT ![p].step = step]

-----------------------------------------------------------------------------
(* The repair verbs *)

(* A verb and the file, or the files of the chain, it is about.             *)
Jobs == (RowVerbs \X {{m} : m \in {n \in Migrations : n.seq # NoSequence}})
        \cup (TreeVerbs \X {Files(t) : t \in {u \in Trees : ValidateSequences(u)}})

RepairBegin(p) ==
  /\ pc[p] = "idle" /\ desk[p] = AtRest
  /\ Len(repairs) < MaxRepairs
  /\ \E s \in Scopes, job \in Jobs :
       desk' = [desk EXCEPT ![p] = [AtRest EXCEPT !.step = "setup", !.verb = job[1],
                                                  !.scope = s, !.files = job[2]]]
  /\ call' = [call EXCEPT ![p] = NoCall]
  /\ outcome' = [outcome EXCEPT ![p] = "none"]
  /\ UNCHANGED <<dbVars, lock, pc, todo, stmt>>

RepairSetup(p) ==
  /\ desk[p].step = "setup" /\ lock = Nobody
  /\ tracker' = TRUE
  /\ MoveTo(p, IF desk[p].verb = "baseline" THEN "lock" ELSE "read")
  /\ UNCHANGED <<ledger, landed, namespace, repairs, lock, pc, call, todo, stmt, outcome>>

(* AppliedRecords, without the lock: nothing to repair ends the call.       *)
RepairRead(p) ==
  /\ desk[p].step = "read"
  /\ LET rows  == ledger[desk[p].scope]
         files == {m \in desk[p].files : Repairable(desk[p].verb, m, rows[m.seq])}
     IN  IF files = {} THEN Rest(p)
         ELSE desk' = [desk EXCEPT ![p].step = "write", ![p].files = files,
                                   ![p].read = [q \in Seqs |-> IF \E m \in files : m.seq = q
                                                                 THEN rows[q] ELSE NoRow]]
  /\ UNCHANGED <<dbVars, lock, pc, call, todo, stmt, outcome>>

(* writeRepair: one transaction for the row and its audit. A row that is    *)
(* gone ends the call. The identity audited as old is the one read before.  *)
WriteRepair(p, m) ==
  LET s == desk[p].scope  q == m.seq IN
  IF Recorded(ledger[s][q])
    THEN /\ ledger' = [ledger EXCEPT ![s][q] = Bind(@, m)]
         /\ InsertAudit(desk[p].verb, s, q, IdentityOf(desk[p].read[q]), FileIdentity(m))
         /\ IF desk[p].files = {m} THEN Rest(p)
                                   ELSE desk' = [desk EXCEPT ![p].files = @ \ {m}]
    ELSE Rest(p) /\ UNCHANGED <<ledger, repairs>>

(* RepairResolve's transaction asks neither for the status it read nor for  *)
(* a row to be there.                                                      *)
WriteResolve(p, m) ==
  LET s == desk[p].scope  q == m.seq  row == ledger[s][q] IN
  /\ IF desk[p].verb = "repair resolve --rerun"
       THEN /\ ledger' = [ledger EXCEPT ![s][q] = NoRow]
            /\ InsertAudit(desk[p].verb, s, q, IdentityOf(desk[p].read[q]), NoIdentity)
       ELSE /\ ledger' = IF Recorded(row)
                           THEN [ledger EXCEPT ![s][q] = [Bind(row, m) EXCEPT !.status = StatusApplied]]
                           ELSE ledger
            /\ InsertAudit(desk[p].verb, s, q, IdentityOf(desk[p].read[q]), FileIdentity(m))
  /\ Rest(p)

RepairWrite(p) ==
  /\ desk[p].step = "write"
  /\ \E m \in desk[p].files :
       /\ \A n \in desk[p].files : m.seq <= n.seq
       /\ IF desk[p].verb \in ResolveVerbs THEN WriteResolve(p, m) ELSE WriteRepair(p, m)
  /\ UNCHANGED <<landed, namespace, tracker, lock, pc, call, todo, stmt, outcome>>

-----------------------------------------------------------------------------
(* Baseline *)

(* Mutant: the plan is made and written without the migration lock.         *)
BaselineUnlocked(p) ==
  /\ desk[p].step = "lock"
  /\ MoveTo(p, "plan")
  /\ UNCHANGED <<dbVars, lock, pc, call, todo, stmt, outcome>>

BaselineLock(p) ==
  /\ desk[p].step = "lock" /\ lock = Nobody
  /\ lock' = p
  /\ MoveTo(p, "plan")
  /\ UNCHANGED <<dbVars, pc, call, todo, stmt, outcome>>

(* A row of the tree must be exactly the file's, digests included.          *)
Agrees(m, row) == IdentityOf(row) = FileIdentity(m) /\ row.semantic = SemanticContentDigest(m)

(* Mutant: unfinished rows are not looked for.                              *)
UnsafeIfNewer(files, rows) ==
  \E q \in Seqs : Recorded(rows[q]) /\ \A m \in files : m.seq < q

(* What PlanBaseline refuses to decide: an unfinished row, a row above the  *)
(* whole tree, a row of the tree that is not the file's.                    *)
Unsafe(files, rows) ==
  \E q \in Seqs : /\ Recorded(rows[q])
                  /\ \/ IsDirty(rows[q])
                     \/ \A m \in files : m.seq < q
                     \/ \E m \in files : m.seq = q /\ ~Agrees(m, rows[q])

Retired(files, rows) == {q \in Seqs : Recorded(rows[q]) /\ \A m \in files : m.seq # q}
NotRecorded(files, rows) == {m \in files : ~Recorded(rows[m.seq])}

BaselinePlan(p) ==
  /\ desk[p].step = "plan"
  /\ LET rows  == ledger[desk[p].scope]
         files == desk[p].files
     IN  IF Unsafe(files, rows) \/ (Retired(files, rows) = {} /\ NotRecorded(files, rows) = {})
         THEN MoveTo(p, "unlock")
         ELSE desk' = [desk EXCEPT ![p].step = "commit",
                                   ![p].retire = Retired(files, rows), ![p].read = rows]
  /\ UNCHANGED <<dbVars, lock, pc, call, todo, stmt, outcome>>

RetireAudits(d) ==
  LET keys == InOrder(d.retire) IN
  [i \in DOMAIN keys |-> [verb |-> "baseline", scope |-> d.scope, key |-> keys[i],
                          old |-> IdentityOf(d.read[keys[i]]), new |-> NoIdentity]]
RecordAudits(d) ==
  LET files == NotRecorded(d.files, d.read)
      keys  == InOrder({m.seq : m \in files})
  IN  [i \in DOMAIN keys |-> [verb |-> "baseline", scope |-> d.scope, key |-> keys[i],
                              old |-> NoIdentity, new |-> FileIdentity(FileOf(keys[i], files))]]

(* The rows after the transaction: retired keys gone, the tree recorded.    *)
Baselined(d, rows) ==
  [q \in Seqs |-> IF q \in d.retire THEN NoRow
                  ELSE IF \E m \in NotRecorded(d.files, d.read) : m.seq = q
                         THEN RowOf(FileOf(q, d.files), StatusApplied)
                         ELSE rows[q]]

(* Mutant: rows are retired without a trace.                                *)
BaselineRecordsOnly(p) ==
  /\ desk[p].step = "commit"
  /\ LET d == desk[p] IN
     IF \E m \in NotRecorded(d.files, d.read) : Recorded(ledger[d.scope][m.seq])
       THEN UNCHANGED <<ledger, repairs>>
       ELSE /\ ledger' = [ledger EXCEPT ![d.scope] = Baselined(d, @)]
            /\ repairs' = repairs \o RecordAudits(d)
  /\ MoveTo(p, "unlock")
  /\ UNCHANGED <<landed, namespace, tracker, lock, pc, call, todo, stmt, outcome>>

(* One transaction. An INSERT over a row that appeared since fails it.      *)
BaselineCommit(p) ==
  /\ desk[p].step = "commit"
  /\ LET d == desk[p] IN
     IF \E m \in NotRecorded(d.files, d.read) : Recorded(ledger[d.scope][m.seq])
       THEN UNCHANGED <<ledger, repairs>>
       ELSE /\ ledger' = [ledger EXCEPT ![d.scope] = Baselined(d, @)]
            /\ repairs' = repairs \o RetireAudits(d) \o RecordAudits(d)
  /\ MoveTo(p, "unlock")
  /\ UNCHANGED <<landed, namespace, tracker, lock, pc, call, todo, stmt, outcome>>

BaselineUnlock(p) ==
  /\ desk[p].step = "unlock"
  /\ ReleaseHeld(p)
  /\ Rest(p)
  /\ UNCHANGED <<dbVars, pc, call, todo, stmt, outcome>>

(* A failed statement, a lost connection, a process that dies: whatever was *)
(* not committed is not there, and the session's lock is given up.          *)
GiveUp(p) ==
  /\ desk[p] # AtRest
  /\ ReleaseHeld(p)
  /\ Rest(p)
  /\ UNCHANGED <<dbVars, pc, call, todo, stmt, outcome>>

-----------------------------------------------------------------------------
Repair(p) ==
  \/ RepairBegin(p) \/ RepairSetup(p) \/ RepairRead(p) \/ RepairWrite(p)
  \/ BaselineLock(p) \/ BaselinePlan(p) \/ BaselineCommit(p) \/ BaselineUnlock(p) \/ GiveUp(p)

Migrate(p) ==
  /\ desk[p] = AtRest
  /\ Begin(p) \/ Validate(p) \/ Waits(p) \/ Works(p) \/ Faults(p)
  /\ UNCHANGED desk

RepairNext == \E p \in Procs : Repair(p) \/ Migrate(p)

RepairSpec == RepairInit /\ [][RepairNext]_repairVars

-----------------------------------------------------------------------------
(* Safety *)

(* The audit rows this step added for number q of scope s.                  *)
Added(s, q) ==
  {repairs'[i] : i \in {j \in (Len(repairs) + 1)..Len(repairs') :
                          repairs'[j].scope = s /\ repairs'[j].key = q}}

(* The two digests of a row always come from one file (postgres.go:476-500, *)
(* repair.go:279-319): a semantic digest stamped without the lock never     *)
(* ends up beside the content digest an operator's repair wrote meanwhile,  *)
(* which would silence a drift warning for good.                            *)
DigestsAgree ==
  \A s \in Scopes, q \in Seqs :
    LET row == ledger[s][q] IN
    Recorded(row) /\ row.semantic # NoDigest =>
      \E m \in Migrations : row.digest = ContentDigest(m) /\ row.semantic = SemanticContentDigest(m)

(* An unfinished row stops being one only when its own run succeeds or an   *)
(* operator resolves it on the record (notx.go:40-43, baseline.go:103-107): *)
(* no other verb, boot or race clears it.                                   *)
DirtyEndsOnRecord ==
  [][\A s \in Scopes, q \in Seqs :
       IsDirty(ledger[s][q]) /\ ~IsDirty(ledger'[s][q]) =>
         \/ \E p \in Procs : lock = p /\ Scope(p) = s /\ pc[p] = "finish"
         \/ \E a \in Added(s, q) : a.verb \in ResolveVerbs]_repairVars

(* A number is never rebound to another file, nor forgotten, without an     *)
(* audit row in the same transaction that says what it is bound to now      *)
(* (repair.go:276-278, baseline.go:139-143).                                *)
RebindingIsAudited ==
  [][\A s \in Scopes, q \in Seqs :
       LET new == ledger'[s][q] IN
       /\ Recorded(ledger[s][q])
       /\ ~Recorded(new) \/ new.filename # ledger[s][q].filename
       => \E a \in Added(s, q) : a.new = IdentityOf(new)]_repairVars

(* Number q of scope s was last recorded by a baseline.                     *)
ByBaseline(s, q) ==
  /\ IsApplied(ledger[s][q])
  /\ \E i \in DOMAIN repairs :
       /\ repairs[i].scope = s /\ repairs[i].key = q
       /\ repairs[i].verb = "baseline" /\ repairs[i].new # NoIdentity
       /\ \A j \in (i + 1)..Len(repairs) : repairs[j].scope # s \/ repairs[j].key # q

(* A migration a baseline recorded is never run (baseline.go:139-171): no   *)
(* applier that decided before the baseline lands it after.                 *)
BaselineStopsApply ==
  [][\A s \in Scopes, q \in Seqs : ByBaseline(s, q) => landed'[s][q] = landed[s][q]]_repairVars

-----------------------------------------------------------------------------
(* What the documentation says of a run and the code does not do.           *)

(* notx.go:36 says of a no-transaction file: on success, status='applied',  *)
(* digest recorded. The UPDATE of notx.go:140-145 may find no row.          *)
SuccessIsRecorded ==
  [][\A p \in Procs :
       pc[p] = "finish" /\ (pc'[p] = "apply" \/ outcome'[p] = "ok") =>
         \A m \in todo[p] : IsNext(p, m) => IsApplied(ledger'[Scope(p)][m.seq])]_repairVars
=============================================================================
