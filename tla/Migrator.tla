------------------------------ MODULE Migrator ------------------------------
(***************************************************************************)
(* ApplyMigrations and ValidateAllApplied of the Postgres migrator, called *)
(* by several processes (replicas of a service booting together, rollouts  *)
(* that ship different trees, CLI runs) on one database.                   *)
(*                                                                         *)
(* A scope is one (app, schema) identity of the ledger. All scopes share   *)
(* one advisory lock. A process that applies reads the ledger without the  *)
(* lock, takes the lock only when it has work, reads again under it, then  *)
(* lands its files one by one. Any statement may fail, any connection may  *)
(* drop (with or without the effect of the statement in flight), and any   *)
(* process may die at any point and boot again. Conversions and strict     *)
(* integrity are opt-in and off here: reconcile() then returns at once.    *)
(*                                                                         *)
(* lock names the process whose session holds the advisory lock. A process *)
(* past AcquireLock that is no longer named there has lost the session its *)
(* work is pinned to: none of its statements can reach the database.       *)
(***************************************************************************)
EXTENDS Ledger

CONSTANTS Procs,          \* processes that call the library
          Nobody,         \* holder of a free lock
          Scopes,         \* (app, schema) identities
          Trees,          \* migration trees a process may ship
          Exemptions,     \* allowBelow sets a caller may pass
          Histories,      \* sets of files an earlier release may have applied
          StrictOrdering  \* WithStrictOrdering()

CallerAssumption ==
  /\ Nobody \notin Procs
  /\ Scopes # {}
  /\ \A t \in Trees : t \in Seq(Migrations)
  /\ \A e \in Exemptions : e \subseteq Seqs
  /\ StrictOrdering \in BOOLEAN
ASSUME CallerAssumption
HistoryAssumption ==
  \A h \in Histories : /\ h \subseteq {m \in Migrations : m.seq # NoSequence}
                       /\ \A m, n \in h : m.seq = n.seq => m = n
ASSUME HistoryAssumption

VARIABLES
  ledger,     \* public.migrations: a row, or NoRow, per scope and sequence
  landed,     \* the pieces of DDL each sequence left in the scope's schema
  namespace,  \* the scopes whose schema exists
  tracker,    \* whether the tracking tables exist
  repairs,    \* public.migration_repairs, oldest first
  lock,       \* whose session holds the advisory lock
  pc,         \* where a process is in applyMigrations
  call,       \* the arguments of its current (or last successful) call
  todo,       \* its files still to stamp, then its toApply: the remaining ones
  stmt,       \* next statement of a no-transaction file
  outcome     \* what its call returned, or is about to

dbVars == <<ledger, landed, namespace, tracker, repairs>>
vars == <<ledger, landed, namespace, tracker, repairs, lock, pc, call, todo, stmt, outcome>>

NoCall == [verb |-> "none", scope |-> CHOOSE s \in Scopes : TRUE, tree |-> <<>>, exempt |-> {}]
Calls == [verb : {"none", "apply", "validate"}, scope : Scopes,
          tree : Trees \cup {<<>>}, exempt : Exemptions \cup {{}}]

(* Program counters: before the lock, waiting for it, and on its session.   *)
Unlocked == {"setup", "readStamps", "stamp", "check", "lock"}
Pinned   == {"recheck", "createSchema", "apply", "exec", "markFailed", "finish", "unlock"}

NoPieces == [q \in Seqs |-> <<>>]

(* A row of public.migration_repairs; who, when and why are left out.       *)
AuditRows == [verb : Verbs, scope : Scopes, key : Seqs, old : Identities, new : Identities]

TypeOK ==
  /\ ledger \in [Scopes -> Records]
  /\ landed \in [Scopes -> [Seqs -> Seq(Pieces)]]
  /\ namespace \subseteq Scopes
  /\ tracker \in BOOLEAN
  /\ repairs \in Seq(AuditRows)
  /\ lock \in Procs \cup {Nobody}
  /\ pc \in [Procs -> {"idle"} \cup Unlocked \cup Pinned]
  /\ call \in [Procs -> Calls]
  /\ todo \in [Procs -> SUBSET Migrations]
  /\ stmt \in [Procs -> Nat]
  /\ outcome \in [Procs -> {"none", "ok", "error", "crashed"}]

-----------------------------------------------------------------------------
(* Rows earlier releases left: no semantic digest, and no identity at all   *)
(* where they predate the identity columns.                                *)
LegacyRow(m, identified) ==
  [filename |-> IF identified THEN m.name ELSE NoName,
   digest |-> IF identified THEN ContentDigest(m) ELSE NoDigest,
   semantic |-> NoDigest, status |-> StatusApplied]

HistoryRows(h, identified) ==
  [q \in Seqs |-> IF \E m \in h : m.seq = q
                    THEN LegacyRow(CHOOSE m \in h : m.seq = q, identified) ELSE NoRow]
HistoryPieces(h) ==
  [q \in Seqs |-> IF \E m \in h : m.seq = q
                    THEN Units(CHOOSE m \in h : m.seq = q) ELSE <<>>]

(* A schema may also have been there before its first migration.            *)
Init ==
  /\ \E past \in [Scopes -> Histories], identified \in BOOLEAN, made \in SUBSET Scopes :
       /\ ledger = [s \in Scopes |-> HistoryRows(past[s], identified)]
       /\ landed = [s \in Scopes |-> HistoryPieces(past[s])]
       /\ namespace = {s \in Scopes : past[s] # {}} \cup made
       /\ tracker = (\E s \in Scopes : past[s] # {})
  /\ repairs = <<>>
  /\ lock = Nobody
  /\ pc = [p \in Procs |-> "idle"]
  /\ call = [p \in Procs |-> NoCall]
  /\ todo = [p \in Procs |-> {}]
  /\ stmt = [p \in Procs |-> 0]
  /\ outcome = [p \in Procs |-> "none"]

-----------------------------------------------------------------------------
(* Helpers *)

Scope(p) == call[p].scope
Row(p, m) == ledger[Scope(p)][m.seq]

(* The files of todo are taken in tree order, which is sequence order.      *)
IsNext(p, m) == m \in todo[p] /\ \A n \in todo[p] : m.seq <= n.seq

Goto(p, where) == pc' = [pc EXCEPT ![p] = where]

Blocked(p) == FirstError(Analyze(call[p].tree, ledger[Scope(p)], StrictOrdering, call[p].exempt))

(* The call returns: only a success keeps its arguments, for the properties. *)
Return(p, result) ==
  /\ Goto(p, "idle")
  /\ outcome' = [outcome EXCEPT ![p] = result]
  /\ call' = IF result = "ok" THEN call ELSE [call EXCEPT ![p] = NoCall]
  /\ todo' = [todo EXCEPT ![p] = {}]
  /\ stmt' = [stmt EXCEPT ![p] = 0]

(* The deferred unlock still has to run before the call returns result.     *)
Unwind(p, result) ==
  /\ Goto(p, "unlock")
  /\ outcome' = [outcome EXCEPT ![p] = result]
  /\ todo' = [todo EXCEPT ![p] = {}]
  /\ stmt' = [stmt EXCEPT ![p] = 0]
  /\ UNCHANGED call

InsertAudit(verb, s, q, old, new) ==
  repairs' = Append(repairs, [verb |-> verb, scope |-> s, key |-> q, old |-> old, new |-> new])

(* An ordering exception leaves its audit row in the migration's own        *)
(* transaction.                                                            *)
AuditWhenExempt(p, m) ==
  IF m.seq \in call[p].exempt
    THEN InsertAudit("apply --allow-below-applied", Scope(p), m.seq,
                     NoIdentity, Identity(m.name, ContentDigest(m)))
    ELSE UNCHANGED repairs

SetRow(p, m, row) == ledger' = [ledger EXCEPT ![Scope(p)][m.seq] = row]
Land(p, m, pieces) == landed' = [landed EXCEPT ![Scope(p)][m.seq] = @ \o pieces]

-----------------------------------------------------------------------------
(* What one statement of a process changes in the database. Statements that *)
(* need the lock session reach the database only while it lives.            *)

CreateTracker(p) ==       \* under the same advisory key, for one transaction
  /\ pc[p] = "setup" /\ lock = Nobody
  /\ tracker' = TRUE
  /\ UNCHANGED <<ledger, landed, namespace, repairs>>

(* Mutant: the UPDATE trusts the digests that were read.                    *)
StampAnyRow(p, m) ==
  /\ pc[p] = "stamp" /\ IsNext(p, m)
  /\ IF Recorded(Row(p, m))
       THEN SetRow(p, m, [Row(p, m) EXCEPT !.semantic = SemanticContentDigest(m)])
       ELSE UNCHANGED ledger
  /\ UNCHANGED <<landed, namespace, tracker, repairs>>

StampRow(p, m) ==         \* the row may have changed since it was read
  /\ pc[p] = "stamp" /\ IsNext(p, m)
  /\ IF /\ Recorded(Row(p, m))
        /\ Row(p, m).digest = ContentDigest(m)
        /\ Row(p, m).semantic = NoDigest
       THEN SetRow(p, m, [Row(p, m) EXCEPT !.semantic = SemanticContentDigest(m)])
       ELSE UNCHANGED ledger
  /\ UNCHANGED <<landed, namespace, tracker, repairs>>

(* Mutant: the schema is left to whoever created the database.              *)
AssumeSchema(p) ==
  /\ pc[p] = "createSchema" /\ lock = p
  /\ UNCHANGED dbVars

CreateSchema(p) ==
  /\ pc[p] = "createSchema" /\ lock = p
  /\ namespace' = namespace \cup {Scope(p)}
  /\ UNCHANGED <<ledger, landed, tracker, repairs>>

(* One transaction: the DDL, the row (ON CONFLICT DO NOTHING), the audit.   *)
CommitMigration(p, m) ==
  /\ pc[p] = "apply" /\ lock = p /\ IsNext(p, m) /\ ~m.notx
  /\ Land(p, m, Units(m))
  /\ IF Recorded(Row(p, m)) THEN UNCHANGED ledger
                            ELSE SetRow(p, m, RowOf(m, StatusApplied))
  /\ AuditWhenExempt(p, m)
  /\ UNCHANGED <<namespace, tracker>>

(* A no-transaction file claims its row before it runs anything; a row that *)
(* exists keeps its digests (ON CONFLICT DO UPDATE status, filename, error). *)
ClaimRow(p, m) ==
  /\ pc[p] = "apply" /\ lock = p /\ IsNext(p, m) /\ m.notx
  /\ SetRow(p, m, IF Recorded(Row(p, m))
                    THEN [Row(p, m) EXCEPT !.status = StatusRunning, !.filename = m.name]
                    ELSE RowOf(m, StatusRunning))
  /\ UNCHANGED <<landed, namespace, tracker, repairs>>

RunStatement(p, m) ==
  /\ pc[p] = "exec" /\ lock = p /\ IsNext(p, m)
  /\ Land(p, m, <<<<m, stmt[p]>>>>)
  /\ UNCHANGED <<ledger, namespace, tracker, repairs>>

RecordFailure(p, m) ==
  /\ pc[p] = "markFailed" /\ lock = p /\ IsNext(p, m)
  /\ IF Recorded(Row(p, m)) THEN SetRow(p, m, [Row(p, m) EXCEPT !.status = StatusFailed])
                            ELSE UNCHANGED ledger
  /\ UNCHANGED <<landed, namespace, tracker, repairs>>

(* Mutant: the no-transaction path forgets the exception's audit row.       *)
RecordSuccessUnaudited(p, m) ==
  /\ pc[p] = "finish" /\ lock = p /\ IsNext(p, m)
  /\ SetRow(p, m, [Row(p, m) EXCEPT !.status = StatusApplied])
  /\ UNCHANGED <<landed, namespace, tracker, repairs>>

(* One transaction: the row becomes applied, the audit is written. The      *)
(* UPDATE does not check that there was a row.                             *)
RecordSuccess(p, m) ==
  /\ pc[p] = "finish" /\ lock = p /\ IsNext(p, m)
  /\ IF Recorded(Row(p, m))
       THEN SetRow(p, m, [Row(p, m) EXCEPT !.status = StatusApplied,
                                           !.digest = ContentDigest(m),
                                           !.semantic = SemanticContentDigest(m)])
       ELSE UNCHANGED ledger
  /\ AuditWhenExempt(p, m)
  /\ UNCHANGED <<landed, namespace, tracker>>

Writes(p) ==
  \/ CreateTracker(p)
  \/ CreateSchema(p)
  \/ \E m \in todo[p] : \/ StampRow(p, m)
                        \/ CommitMigration(p, m)
                        \/ ClaimRow(p, m)
                        \/ RunStatement(p, m)
                        \/ RecordFailure(p, m)
                        \/ RecordSuccess(p, m)

-----------------------------------------------------------------------------
(* The steps of applyMigrations *)

Begin(p) ==
  /\ pc[p] = "idle"
  /\ \E s \in Scopes, t \in Trees, e \in Exemptions :
       IF ValidateSequences(t)
         THEN /\ call' = [call EXCEPT ![p] = [verb |-> "apply", scope |-> s, tree |-> t, exempt |-> e]]
              /\ outcome' = [outcome EXCEPT ![p] = "none"]
              /\ Goto(p, "setup")
         ELSE /\ call' = [call EXCEPT ![p] = NoCall]
              /\ outcome' = [outcome EXCEPT ![p] = "error"]
              /\ UNCHANGED pc
  /\ UNCHANGED <<dbVars, lock, todo, stmt>>

EnsureSetup(p) ==
  /\ CreateTracker(p)
  /\ Goto(p, "readStamps")
  /\ UNCHANGED <<lock, call, todo, stmt, outcome>>

(* stampSemanticDigests reads the rows once and then writes row by row.     *)
ReadForStamps(p) ==
  /\ pc[p] = "readStamps"
  /\ todo' = [todo EXCEPT ![p] = ToStamp(call[p].tree, ledger[Scope(p)])]
  /\ Goto(p, IF todo'[p] = {} THEN "check" ELSE "stamp")
  /\ UNCHANGED <<dbVars, lock, call, stmt, outcome>>

Stamp(p) ==
  /\ \E m \in todo[p] : StampRow(p, m) /\ todo' = [todo EXCEPT ![p] = @ \ {m}]
  /\ Goto(p, IF todo'[p] = {} THEN "check" ELSE "stamp")
  /\ UNCHANGED <<lock, call, stmt, outcome>>

ToApply(p) == Pending(call[p].tree, ledger[Scope(p)])

(* The check before the lock: a bad chain fails fast, and a chain with      *)
(* nothing pending never takes the lock.                                   *)
CheckUnlocked(p) ==
  /\ pc[p] = "check"
  /\ \/ Blocked(p) /\ Return(p, "error")
     \/ ~Blocked(p) /\ ToApply(p) = {} /\ Return(p, "ok")
     \/ /\ ~Blocked(p) /\ ToApply(p) # {}
        /\ todo' = [todo EXCEPT ![p] = ToApply(p)]
        /\ Goto(p, "lock")
        /\ UNCHANGED <<call, stmt, outcome>>
  /\ UNCHANGED <<dbVars, lock>>

AcquireLock(p) ==
  /\ pc[p] = "lock" /\ lock = Nobody
  /\ lock' = p
  /\ Goto(p, "recheck")
  /\ UNCHANGED <<dbVars, call, todo, stmt, outcome>>

(* Mutant: what the unlocked check decided is acted on under the lock.      *)
CheckLockedOnce(p) ==
  /\ pc[p] = "recheck" /\ lock = p
  /\ Goto(p, "createSchema")
  /\ UNCHANGED <<dbVars, lock, call, todo, stmt, outcome>>

(* The check that decides: same reads, now on the lock session.             *)
CheckLocked(p) ==
  /\ pc[p] = "recheck" /\ lock = p
  /\ \/ Blocked(p) /\ Unwind(p, "error")
     \/ ~Blocked(p) /\ ToApply(p) = {} /\ Unwind(p, "ok")
     \/ /\ ~Blocked(p) /\ ToApply(p) # {}
        /\ todo' = [todo EXCEPT ![p] = ToApply(p)]
        /\ Goto(p, "createSchema")
        /\ UNCHANGED <<call, stmt, outcome>>
  /\ UNCHANGED <<dbVars, lock>>

EnsureSchema(p) ==
  /\ CreateSchema(p)
  /\ Goto(p, "apply")
  /\ UNCHANGED <<lock, call, todo, stmt, outcome>>

(* A file is done: the next one, or the end of the apply.                   *)
Advance(p, m) ==
  IF todo[p] = {m}
    THEN Unwind(p, "ok")
    ELSE /\ todo' = [todo EXCEPT ![p] = @ \ {m}]
         /\ stmt' = [stmt EXCEPT ![p] = 0]
         /\ Goto(p, "apply")
         /\ UNCHANGED <<call, outcome>>

ApplyOne(p) ==
  /\ \E m \in todo[p] : CommitMigration(p, m) /\ Advance(p, m)
  /\ UNCHANGED lock

ClaimNoTx(p) ==
  /\ \E m \in todo[p] : ClaimRow(p, m)
  /\ Goto(p, "exec")
  /\ stmt' = [stmt EXCEPT ![p] = 1]
  /\ UNCHANGED <<lock, call, todo, outcome>>

(* Mutant: the last statement is left out.                                  *)
ExecAllButOne(p) ==
  /\ \E m \in todo[p] :
       /\ RunStatement(p, m)
       /\ stmt' = [stmt EXCEPT ![p] = @ + 1]
       /\ Goto(p, IF stmt[p] + 1 >= m.stmts THEN "finish" ELSE "exec")
  /\ UNCHANGED <<lock, call, todo, outcome>>

ExecNoTx(p) ==
  /\ \E m \in todo[p] :
       /\ RunStatement(p, m)
       /\ stmt' = [stmt EXCEPT ![p] = @ + 1]
       /\ Goto(p, IF stmt[p] = m.stmts THEN "finish" ELSE "exec")
  /\ UNCHANGED <<lock, call, todo, outcome>>

FinishNoTx(p) ==
  /\ \E m \in todo[p] : RecordSuccess(p, m) /\ Advance(p, m)
  /\ UNCHANGED lock

(* The attempt to mark a failed file fails too when its session is gone;    *)
(* the call returns an error either way.                                   *)
MarkFailed(p) ==
  /\ pc[p] = "markFailed"
  /\ IF lock = p THEN \E m \in todo[p] : RecordFailure(p, m) ELSE UNCHANGED dbVars
  /\ Unwind(p, "error")
  /\ UNCHANGED lock

Unlock(p) ==
  /\ pc[p] = "unlock"
  /\ lock' = IF lock = p THEN Nobody ELSE lock
  /\ Return(p, IF lock = p THEN outcome[p] ELSE "error")
  /\ UNCHANGED dbVars

-----------------------------------------------------------------------------
(* Failures. The statement in flight may or may not have taken effect when  *)
(* a connection drops or a process dies; a session that ends gives up the   *)
(* lock.                                                                    *)

ReleaseHeld(p) == lock' = IF lock = p THEN Nobody ELSE lock

ErrorPath(p) ==
  \/ pc[p] \in Unlocked /\ Return(p, "error")
  \/ pc[p] = "exec" /\ Goto(p, "markFailed") /\ UNCHANGED <<call, todo, stmt, outcome>>
  \/ pc[p] \in Pinned \ {"exec"} /\ Unwind(p, "error")

StatementFails(p) ==
  /\ pc[p] # "unlock"
  /\ ErrorPath(p)
  /\ UNCHANGED <<dbVars, lock>>

ConnectionLost(p) ==
  /\ Writes(p) \/ UNCHANGED dbVars
  /\ ErrorPath(p)
  /\ ReleaseHeld(p)

Crash(p) ==
  /\ pc[p] # "idle"
  /\ Writes(p) \/ UNCHANGED dbVars
  /\ ReleaseHeld(p)
  /\ Return(p, "crashed")

-----------------------------------------------------------------------------
(* ValidateAllApplied: one read, no lock, nothing created. A missing table  *)
(* means nothing is applied.                                               *)
Validated(s, t) ==
  /\ ValidateSequences(t)
  /\ IF tracker THEN InTree(t) \subseteq AppliedKeys(ledger[s]) ELSE t = <<>>

Validate(p) ==
  /\ pc[p] = "idle"
  /\ \E s \in Scopes, t \in Trees :
       IF Validated(s, t)
         THEN /\ call' = [call EXCEPT ![p] = [verb |-> "validate", scope |-> s, tree |-> t, exempt |-> {}]]
              /\ outcome' = [outcome EXCEPT ![p] = "ok"]
         ELSE /\ call' = [call EXCEPT ![p] = NoCall]
              /\ outcome' = [outcome EXCEPT ![p] = "error"]
  /\ UNCHANGED <<dbVars, lock, pc, todo, stmt>>

-----------------------------------------------------------------------------
Waits(p) == EnsureSetup(p) \/ AcquireLock(p)

Works(p) ==
  \/ ReadForStamps(p) \/ Stamp(p) \/ CheckUnlocked(p) \/ CheckLocked(p) \/ EnsureSchema(p)
  \/ ApplyOne(p) \/ ClaimNoTx(p) \/ ExecNoTx(p) \/ FinishNoTx(p) \/ MarkFailed(p) \/ Unlock(p)

Faults(p) == StatementFails(p) \/ ConnectionLost(p) \/ Crash(p)

Next == \E p \in Procs : Begin(p) \/ Validate(p) \/ Waits(p) \/ Works(p) \/ Faults(p)

Spec == Init /\ [][Next]_vars

(* A process keeps executing its own code. Postgres queues lock waiters, so *)
(* a waiter is served although others come back for the lock.              *)
Fairness == \A p \in Procs : /\ WF_vars(Works(p))
                             /\ SF_vars(EnsureSetup(p))
                             /\ SF_vars(AcquireLock(p))
FairSpec == Spec /\ Fairness

-----------------------------------------------------------------------------
(* Safety *)

(* Does this row name file m as what its number is?                         *)
Identifies(row, m) == row.filename \in {NoName, m.name} /\ row.digest \in {NoDigest, m.bytes}

IsPrefixOf(u, v) == Len(u) <= Len(v) /\ \A i \in 1..Len(u) : u[i] = v[i]

(* A row (or none) for number q and the pieces in the schema agree.         *)
Truthful(row, pieces, q) ==
  \/ ~Recorded(row) /\ pieces = <<>>
  \/ \E m \in Migrations :
       /\ Recorded(row) /\ m.seq = q /\ Identifies(row, m)
       /\ IF IsApplied(row) THEN pieces = Units(m) ELSE IsPrefixOf(pieces, Units(m))

(* The ledger never lies about the schema (postgres.go:275-329, notx.go:    *)
(* 87-152): a row that reads applied stands for exactly one complete run of *)
(* the file it names, an absent row for a file that never touched the       *)
(* schema, and a dirty row for a run of the file it names that got some     *)
(* way; through crashes, lost connections and competing appliers.           *)
LedgerTellsTheTruth ==
  \A s \in Scopes, q \in Seqs : Truthful(ledger[s][q], landed[s][q], q)

(* ApplyMigrations that returns nil (postgres.go:334-433) means every file  *)
(* of the tree the caller shipped is complete in the schema, and was landed *)
(* under that file name unless its row predates recorded names.             *)
SuccessMeansApplied ==
  \A p \in Procs : call[p].verb = "apply" /\ outcome[p] = "ok" =>
    \A m \in Files(call[p].tree) : \E n \in Migrations :
      /\ n.seq = m.seq
      /\ landed[Scope(p)][m.seq] = Units(n)
      /\ Row(p, m).filename # NoName => n.name = m.name

(* ValidateAllApplied that returns nil (postgres.go:439-474) means no       *)
(* number of the tree is absent, half-run or run twice.                    *)
ValidatedMeansComplete ==
  \A p \in Procs : call[p].verb = "validate" =>
    \A q \in InTree(call[p].tree) : \E n \in Migrations :
      n.seq = q /\ landed[Scope(p)][q] = Units(n)

(* No DDL before CREATE SCHEMA IF NOT EXISTS (postgres.go:410-421):         *)
(* unqualified DDL would land in public.                                    *)
SchemaBeforeDDL ==
  \A s \in Scopes : (\E q \in Seqs : landed[s][q] # <<>>) => s \in namespace

(* A running or failed row that no live session is working on.              *)
Abandoned(s, q) ==
  /\ IsDirty(ledger[s][q])
  /\ ~\E p \in Procs : lock = p /\ Scope(p) = s /\ pc[p] \in {"exec", "markFailed", "finish"}

(* An unfinished no-transaction file blocks its whole scope (notx.go:31-43, *)
(* strict.go:252-258): no process, whatever tree it ships and whatever it   *)
(* read before, lands anything there or touches the row.                    *)
DirtyRowBlocks ==
  [][\A s \in Scopes, q \in Seqs :
       Abandoned(s, q) => landed'[s] = landed[s] /\ ledger'[s][q] = ledger[s][q]]_vars

Above(s, q, t) == {m \in Files(t) : m.seq > q /\ Recorded(ledger[s][m.seq])}

(* Strict ordering (strict.go:285-317) judged at the moment DDL lands, not  *)
(* when it was checked: nothing starts landing below a file of the tree     *)
(* that has a row, unless the caller exempted it.                           *)
LandsInOrder ==
  [][StrictOrdering => \A s \in Scopes, q \in Seqs :
       landed[s][q] = <<>> /\ landed'[s][q] # <<>> =>
         \E p \in Procs : /\ lock = p /\ Scope(p) = s
                          /\ Above(s, q, call[p].tree) = {} \/ q \in call[p].exempt]_vars

(* What Status reports and what an apply refuses are two readings of the    *)
(* same rows (status.go:274-340, strict.go:166-328). An apply that has got  *)
(* past its check is at no time, not even after a file of its own, about    *)
(* to start another while Status would report an error for its tree, unless *)
(* it asked for an ordering exception.                                      *)
StatusErrorsBlock ==
  \A p \in Procs :
    lock = p /\ pc[p] = "apply" /\ call[p].exempt = {} =>
      ~HasErrors(StatusDiscrepancies(call[p].tree, ledger[Scope(p)], StrictOrdering))

(* The audit rows a step adds for number q of scope s.                      *)
NewAudits(s, q) ==
  {i \in (Len(repairs) + 1)..Len(repairs') : repairs'[i].scope = s /\ repairs'[i].key = q}

(* Number q of scope s comes to be applied while the lock holder asked for  *)
(* an exception for it.                                                     *)
Exempted(s, q) ==
  /\ ~IsApplied(ledger[s][q]) /\ IsApplied(ledger'[s][q])
  /\ \E p \in Procs : lock = p /\ q \in call[p].exempt

(* A migration that comes to be applied under an ordering exception leaves  *)
(* exactly one audit row in that same transaction, of the identity its row  *)
(* has then; no other step writes one, and none takes one back              *)
(* (postgres.go:321-326, notx.go:147-151, README.md:243).                   *)
ExceptionsAreAudited ==
  [][/\ IsPrefixOf(repairs, repairs')
     /\ \A s \in Scopes, q \in Seqs :
          IF Exempted(s, q)
            THEN \E i \in NewAudits(s, q) : /\ NewAudits(s, q) = {i}
                                            /\ repairs'[i].new = IdentityOf(ledger'[s][q])
            ELSE NewAudits(s, q) = {}]_vars

-----------------------------------------------------------------------------
(* Refinement *)

(* The status a row stands for: the old empty one is "applied".             *)
Phase(row) == IF ~Recorded(row) THEN "absent" ELSE IF IsDirty(row) THEN row.status ELSE StatusApplied

(* The number whose no-transaction file process p is running.               *)
Runs(p, s, q) ==
  /\ lock = p /\ Scope(p) = s
  /\ pc[p] \in {"exec", "finish", "markFailed"}
  /\ \E m \in todo[p] : IsNext(p, m) /\ m.seq = q

Statuses == [s \in Scopes |-> [q \in Seqs |-> Phase(ledger[s][q])]]
Running  == {k \in Scopes \X Seqs : \E p \in Procs : Runs(p, k[1], k[2])}

Abstract == INSTANCE Rollout WITH status <- Statuses, effects <- landed, active <- Running

(* The apply path implements Rollout (postgres.go:275-433, notx.go:87-152): *)
(* whatever processes interleave, die or retry, each number of a scope is   *)
(* seen to go from absent to applied once, at once or statement by          *)
(* statement by the one runner that claimed it, and nothing lands in a      *)
(* scope with an unfinished number.                                         *)
ImplementsRollout == Abstract!RolloutSpec

-----------------------------------------------------------------------------
(* Liveness *)

(* Every call returns, with a verdict or because its process died: no       *)
(* waiter for the lock is stranded and no holder keeps it (postgres.go:     *)
(* 205-249, 384-392).                                                       *)
EveryCallReturns == \A p \in Procs : pc[p] # "idle" ~> pc[p] = "idle"
=============================================================================
