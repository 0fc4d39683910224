--------------------------- MODULE MigratorProofs ---------------------------
(* Machine-checked proofs about Migrator, for every value of its constants. *)
EXTENDS Migrator, LedgerProofs

-----------------------------------------------------------------------------
(* Types *)

(* What a running call keeps about its arguments: it passed                 *)
(* ValidateSequences, and what it works through are files of its tree.      *)
CallInv ==
  \A p \in Procs :
    /\ pc[p] = "idle" => todo[p] = {}
    /\ pc[p] # "idle" => call[p].verb = "apply" /\ ValidateSequences(call[p].tree)
    /\ todo[p] \subseteq Files(call[p].tree)

TypeInv == TypeOK /\ CallInv

(* Every call's tree is a sequence of migrations.                           *)
LEMMA TreesAreChains ==
  ASSUME TypeOK, NEW p \in Procs
  PROVE  /\ call[p].tree \in Seq(Migrations)
         /\ call[p].scope \in Scopes
         /\ call[p].exempt \subseteq Seqs
         /\ todo[p] \subseteq Migrations
<1>1. call[p] \in Calls
  BY DEF TypeOK
<1>2. call[p].tree \in Trees \cup {<<>>} /\ call[p].exempt \in Exemptions \cup {{}}
  BY <1>1 DEF Calls
<1>3. call[p].tree \in Seq(Migrations)
  <2>1. \A t \in Trees : t \in Seq(Migrations)
    BY CallerAssumption DEF CallerAssumption
  <2>2. <<>> \in Seq(Migrations)
    OBVIOUS
  <2> QED BY <1>2, <2>1, <2>2
<1>4. call[p].exempt \subseteq Seqs
  BY <1>2, CallerAssumption DEF CallerAssumption
<1>5. call[p].scope \in Scopes
  BY <1>1 DEF Calls
<1>6. todo[p] \subseteq Migrations
  BY DEF TypeOK
<1> QED BY <1>3, <1>4, <1>5, <1>6

(* A file a running call still has to do has a number of the ledger.        *)
LEMMA TodoKeys ==
  ASSUME TypeInv, NEW p \in Procs, pc[p] # "idle", NEW m \in todo[p]
  PROVE  m \in Migrations /\ m.seq \in Seqs
BY TreesAreChains, ValidChain, FilesAreMigrations DEF TypeInv, CallInv

LEMMA NoCallType == NoCall \in Calls /\ NoCall.verb = "none"
BY CallerAssumption DEF NoCall, Calls, CallerAssumption

(* What the database writes of one statement keep typed.                    *)
DbTypes ==
  /\ ledger \in [Scopes -> Records]
  /\ landed \in [Scopes -> [Seqs -> Seq(Pieces)]]
  /\ namespace \subseteq Scopes
  /\ tracker \in BOOLEAN
  /\ repairs \in Seq(AuditRows)

LEMMA SetRowType ==
  ASSUME TypeOK, NEW p \in Procs, NEW m, m.seq \in Seqs, NEW row \in Rows, SetRow(p, m, row)
  PROVE  ledger' \in [Scopes -> Records]
BY TreesAreChains DEF SetRow, TypeOK, Records, Scope

LEMMA LandType ==
  ASSUME TypeOK, NEW p \in Procs, NEW m, m.seq \in Seqs, NEW ps \in Seq(Pieces), Land(p, m, ps)
  PROVE  landed' \in [Scopes -> [Seqs -> Seq(Pieces)]]
<1>1. Scope(p) \in Scopes
  BY TreesAreChains DEF Scope
<1>2. landed[Scope(p)][m.seq] \o ps \in Seq(Pieces)
  <2>1. landed[Scope(p)][m.seq] \in Seq(Pieces)
    BY <1>1 DEF TypeOK
  <2> QED BY <2>1
<1> QED BY <1>1, <1>2 DEF Land, TypeOK

LEMMA AuditType ==
  ASSUME TypeOK, NEW p \in Procs, NEW m \in Migrations, m.seq \in Seqs, AuditWhenExempt(p, m)
  PROVE  repairs' \in Seq(AuditRows)
<1> DEFINE new == [verb |-> "apply --allow-below-applied", scope |-> Scope(p), key |-> m.seq,
                   old |-> NoIdentity, new |-> Identity(m.name, ContentDigest(m))]
<1>1. repairs \in Seq(AuditRows)
  BY DEF TypeOK
<1>2. new \in AuditRows
  <2>1. Scope(p) \in Scopes
    BY TreesAreChains DEF Scope
  <2>2. NoIdentity \in Identities /\ Identity(m.name, ContentDigest(m)) \in Identities
    BY DEF NoIdentity, Identity, Identities, Names, Digests, ContentDigest
  <2> QED BY <2>1, <2>2 DEF AuditRows, Verbs
<1>3. repairs' = Append(repairs, new) \/ repairs' = repairs
  BY DEF AuditWhenExempt, InsertAudit
<1> HIDE DEF new
<1> QED BY <1>1, <1>2, <1>3

(* A row of the ledger.                                                     *)
LEMMA RowType ==
  ASSUME TypeOK, NEW p \in Procs, NEW m, m.seq \in Seqs
  PROVE  Row(p, m) \in Rows \cup {NoRow}
<1>1. Scope(p) \in Scopes
  BY TreesAreChains DEF Scope
<1>2. ledger \in [Scopes -> Records]
  BY DEF TypeOK
<1>3. ledger[Scope(p)] \in Records
  BY <1>1, <1>2
<1> QED BY <1>3 DEF Row, Records

LEMMA WritesType ==
  ASSUME TypeInv, NEW p \in Procs, pc[p] # "idle", Writes(p)
  PROVE  DbTypes'
<1> USE DEF TypeInv
<1>1. CASE CreateTracker(p)
  BY <1>1 DEF CreateTracker, DbTypes, TypeOK
<1>2. CASE CreateSchema(p)
  BY <1>2, TreesAreChains DEF CreateSchema, DbTypes, TypeOK, Scope
<1>3. ASSUME NEW m \in todo[p], StampRow(p, m) PROVE DbTypes'
  <2>1. m \in Migrations /\ m.seq \in Seqs
    BY TodoKeys
  <2>2. CASE UNCHANGED ledger
    BY <1>3, <2>2 DEF StampRow, DbTypes, TypeOK
  <2>3. CASE /\ Recorded(Row(p, m))
             /\ SetRow(p, m, [Row(p, m) EXCEPT !.semantic = SemanticContentDigest(m)])
    <3>1. [Row(p, m) EXCEPT !.semantic = SemanticContentDigest(m)] \in Rows
      BY <2>1, <2>3, RowType DEF Recorded, Rows, Tokens, SemanticContentDigest
    <3> QED BY <1>3, <2>1, <2>3, <3>1, SetRowType DEF StampRow, DbTypes, TypeOK
  <2> QED BY <1>3, <2>2, <2>3 DEF StampRow
<1>4. ASSUME NEW m \in todo[p], CommitMigration(p, m) PROVE DbTypes'
  <2>1. m \in Migrations /\ m.seq \in Seqs
    BY TodoKeys
  <2>2. ledger' \in [Scopes -> Records]
    BY <1>4, <2>1, RowOfType, SetRowType DEF CommitMigration, TypeOK
  <2>3. landed' \in [Scopes -> [Seqs -> Seq(Pieces)]]
    BY <1>4, <2>1, UnitsType, LandType DEF CommitMigration
  <2> QED BY <1>4, <2>1, <2>2, <2>3, AuditType DEF CommitMigration, DbTypes, TypeOK
<1>5. ASSUME NEW m \in todo[p], ClaimRow(p, m) PROVE DbTypes'
  <2>1. m \in Migrations /\ m.seq \in Seqs
    BY TodoKeys
  <2>2. CASE Recorded(Row(p, m))
    <3>1. [Row(p, m) EXCEPT !.status = StatusRunning, !.filename = m.name] \in Rows
      BY <2>1, <2>2, RowType DEF Recorded, Rows, Names
    <3> QED BY <1>5, <2>1, <2>2, <3>1, SetRowType DEF ClaimRow, DbTypes, TypeOK
  <2>3. CASE ~Recorded(Row(p, m))
    BY <1>5, <2>1, <2>3, RowOfType, SetRowType DEF ClaimRow, DbTypes, TypeOK
  <2> QED BY <2>2, <2>3
<1>6. ASSUME NEW m \in todo[p], RunStatement(p, m) PROVE DbTypes'
  <2>1. m \in Migrations /\ m.seq \in Seqs
    BY TodoKeys
  <2>2. <<<<m, stmt[p]>>>> \in Seq(Pieces)
    <3>1. stmt[p] \in Nat
      BY DEF TypeOK
    <3>2. <<m, stmt[p]>> \in Pieces
      BY <2>1, <3>1 DEF Pieces
    <3> QED BY <3>2
  <2> QED BY <1>6, <2>1, <2>2, LandType DEF RunStatement, DbTypes, TypeOK
<1>7. ASSUME NEW m \in todo[p], RecordFailure(p, m) PROVE DbTypes'
  <2>1. m \in Migrations /\ m.seq \in Seqs
    BY TodoKeys
  <2>2. CASE Recorded(Row(p, m))
    <3>1. [Row(p, m) EXCEPT !.status = StatusFailed] \in Rows
      BY <2>1, <2>2, RowType DEF Recorded, Rows
    <3> QED BY <1>7, <2>1, <2>2, <3>1, SetRowType DEF RecordFailure, DbTypes, TypeOK
  <2>3. CASE ~Recorded(Row(p, m))
    BY <1>7, <2>3 DEF RecordFailure, DbTypes, TypeOK
  <2> QED BY <2>2, <2>3
<1>8. ASSUME NEW m \in todo[p], RecordSuccess(p, m) PROVE DbTypes'
  <2>1. m \in Migrations /\ m.seq \in Seqs
    BY TodoKeys
  <2>2. ledger' \in [Scopes -> Records]
    <3>1. CASE Recorded(Row(p, m))
      <4>1. [Row(p, m) EXCEPT !.status = StatusApplied, !.digest = ContentDigest(m),
                              !.semantic = SemanticContentDigest(m)] \in Rows
        BY <2>1, <3>1, RowType
        DEF Recorded, Rows, Digests, Tokens, ContentDigest, SemanticContentDigest
      <4> QED BY <1>8, <2>1, <3>1, <4>1, SetRowType DEF RecordSuccess
    <3>2. CASE ~Recorded(Row(p, m))
      BY <1>8, <3>2 DEF RecordSuccess, TypeOK
    <3> QED BY <3>1, <3>2
  <2> QED BY <1>8, <2>1, <2>2, AuditType DEF RecordSuccess, DbTypes, TypeOK
<1> QED BY <1>1, <1>2, <1>3, <1>4, <1>5, <1>6, <1>7, <1>8 DEF Writes

(* What the control part of a step keeps.                                   *)
ProcTypes ==
  /\ pc \in [Procs -> {"idle"} \cup Unlocked \cup Pinned]
  /\ call \in [Procs -> Calls]
  /\ todo \in [Procs -> SUBSET Migrations]
  /\ stmt \in [Procs -> Nat]
  /\ outcome \in [Procs -> {"none", "ok", "error", "crashed"}]

ProcInv == ProcTypes /\ CallInv

LEMMA ReturnKeeps ==
  ASSUME TypeInv, NEW p \in Procs, NEW result \in {"none", "ok", "error", "crashed"},
         Return(p, result)
  PROVE  ProcInv'
<1>1. ProcTypes'
  BY NoCallType DEF Return, Goto, ProcTypes, TypeInv, TypeOK
<1>2. CallInv'
  BY DEF Return, Goto, CallInv, TypeInv, TypeOK
<1> QED BY <1>1, <1>2 DEF ProcInv

LEMMA UnwindKeeps ==
  ASSUME TypeInv, NEW p \in Procs, NEW result \in {"none", "ok", "error", "crashed"},
         pc[p] # "idle", Unwind(p, result)
  PROVE  ProcInv'
<1>1. ProcTypes'
  BY DEF Unwind, Goto, ProcTypes, TypeInv, TypeOK, Pinned
<1>2. CallInv'
  BY DEF Unwind, Goto, CallInv, TypeInv, TypeOK
<1> QED BY <1>1, <1>2 DEF ProcInv

LEMMA GotoKeeps ==
  ASSUME TypeInv, NEW p \in Procs, pc[p] # "idle", NEW where \in Unlocked \cup Pinned,
         Goto(p, where), UNCHANGED <<call, outcome>>,
         NEW files \in SUBSET Files(call[p].tree), todo' = [todo EXCEPT ![p] = files],
         NEW k \in Nat, stmt' = [stmt EXCEPT ![p] = k]
  PROVE  ProcInv'
<1>1. files \subseteq Migrations
  BY TreesAreChains, FilesAreMigrations DEF TypeInv
<1>2. ProcTypes'
  BY <1>1 DEF Goto, ProcTypes, TypeInv, TypeOK
<1>3. CallInv'
  BY DEF Goto, CallInv, TypeInv, TypeOK, Unlocked, Pinned
<1> QED BY <1>2, <1>3 DEF ProcInv

LEMMA AdvanceKeeps ==
  ASSUME TypeInv, NEW p \in Procs, pc[p] # "idle", NEW m \in todo[p], Advance(p, m)
  PROVE  ProcInv'
<1>1. CASE todo[p] = {m}
  BY <1>1, UnwindKeeps DEF Advance
<1>2. CASE todo[p] # {m}
  <2>1. todo[p] \ {m} \in SUBSET Files(call[p].tree)
    BY DEF TypeInv, CallInv
  <2> QED BY <1>2, <2>1, GotoKeeps DEF Advance, Pinned
<1> QED BY <1>1, <1>2

LEMMA ErrorPathKeeps ==
  ASSUME TypeInv, NEW p \in Procs, ErrorPath(p)
  PROVE  ProcInv'
<1>1. CASE pc[p] \in Unlocked /\ Return(p, "error")
  BY <1>1, ReturnKeeps
<1>2. CASE pc[p] = "exec" /\ Goto(p, "markFailed") /\ UNCHANGED <<call, todo, stmt, outcome>>
  BY <1>2 DEF Goto, ProcInv, ProcTypes, CallInv, TypeInv, TypeOK, Pinned
<1>3. CASE pc[p] \in Pinned \ {"exec"} /\ Unwind(p, "error")
  BY <1>3, UnwindKeeps DEF Pinned
<1> QED BY <1>1, <1>2, <1>3 DEF ErrorPath

LEMMA TypeParts ==
  /\ TypeInv <=> DbTypes /\ ProcInv /\ lock \in Procs \cup {Nobody}
  /\ TypeInv' <=> DbTypes' /\ ProcInv' /\ lock' \in Procs \cup {Nobody}
BY DEF TypeInv, TypeOK, DbTypes, ProcInv, ProcTypes, CallInv, Records, Rows

LEMMA DbUnchanged == ASSUME TypeInv, UNCHANGED dbVars PROVE DbTypes'
BY DEF TypeInv, TypeOK, dbVars, DbTypes

LEMMA PendingAreFiles ==
  ASSUME NEW t, NEW records
  PROVE  Pending(t, records) \subseteq Files(t) /\ ToStamp(t, records) \subseteq Files(t)
BY DEF Pending, ToStamp

(* A step whose control part does not touch a running call.                 *)
LEMMA ControlUnchanged ==
  ASSUME TypeInv, UNCHANGED <<pc, call, todo, stmt, outcome>> PROVE ProcInv'
BY DEF TypeInv, TypeOK, ProcInv, ProcTypes, CallInv

LEMMA StartKeeps ==
  ASSUME TypeInv, NEW p \in Procs, Begin(p) \/ Validate(p)
  PROVE  ProcInv'
<1>1. \E c \in Calls, o \in {"none", "ok", "error"} :
        /\ call' = [call EXCEPT ![p] = c]
        /\ outcome' = [outcome EXCEPT ![p] = o]
        /\ \/ pc' = pc
           \/ pc' = [pc EXCEPT ![p] = "setup"] /\ c.verb = "apply" /\ ValidateSequences(c.tree)
  <2>1. ASSUME NEW s \in Scopes, NEW t \in Trees, NEW e \in Exemptions, NEW v \in {"apply", "validate"}
        PROVE  [verb |-> v, scope |-> s, tree |-> t, exempt |-> e] \in Calls
    BY DEF Calls
  <2>2. ASSUME NEW s \in Scopes, NEW t \in Trees
        PROVE  [verb |-> "validate", scope |-> s, tree |-> t, exempt |-> {}] \in Calls
    BY DEF Calls
  <2>3. CASE Begin(p)
    <3>1. PICK s \in Scopes, t \in Trees, e \in Exemptions :
            \/ /\ ValidateSequences(t)
               /\ call' = [call EXCEPT ![p] = [verb |-> "apply", scope |-> s, tree |-> t, exempt |-> e]]
               /\ outcome' = [outcome EXCEPT ![p] = "none"]
               /\ pc' = [pc EXCEPT ![p] = "setup"]
            \/ /\ call' = [call EXCEPT ![p] = NoCall]
               /\ outcome' = [outcome EXCEPT ![p] = "error"]
               /\ pc' = pc
      BY <2>3 DEF Begin, Goto
    <3>2. [verb |-> "apply", scope |-> s, tree |-> t, exempt |-> e] \in Calls
      BY <2>1
    <3>3. CASE pc' = pc
      <4>1. CASE call' = [call EXCEPT ![p] = NoCall] /\ outcome' = [outcome EXCEPT ![p] = "error"]
        BY <3>3, <4>1, NoCallType
      <4>2. CASE /\ call' = [call EXCEPT ![p] = [verb |-> "apply", scope |-> s, tree |-> t, exempt |-> e]]
                 /\ outcome' = [outcome EXCEPT ![p] = "none"]
        BY <3>2, <3>3, <4>2
      <4> QED BY <3>1, <4>1, <4>2
    <3>4. CASE /\ ValidateSequences(t)
               /\ call' = [call EXCEPT ![p] = [verb |-> "apply", scope |-> s, tree |-> t, exempt |-> e]]
               /\ outcome' = [outcome EXCEPT ![p] = "none"]
               /\ pc' = [pc EXCEPT ![p] = "setup"]
      BY <3>2, <3>4
    <3> QED BY <3>1, <3>3, <3>4
  <2>4. CASE Validate(p)
    <3>1. PICK s \in Scopes, t \in Trees :
            \/ /\ call' = [call EXCEPT ![p] = [verb |-> "validate", scope |-> s, tree |-> t, exempt |-> {}]]
               /\ outcome' = [outcome EXCEPT ![p] = "ok"]
            \/ /\ call' = [call EXCEPT ![p] = NoCall]
               /\ outcome' = [outcome EXCEPT ![p] = "error"]
      BY <2>4 DEF Validate
    <3>2. pc' = pc
      BY <2>4 DEF Validate
    <3> QED BY <2>2, <3>1, <3>2, NoCallType
  <2> QED BY <2>3, <2>4
<1>2. UNCHANGED <<todo, stmt>> /\ pc[p] = "idle" /\ todo[p] = {}
  BY DEF Begin, Validate, TypeInv, CallInv
<1>3. PICK c \in Calls, o \in {"none", "ok", "error"} :
        /\ call' = [call EXCEPT ![p] = c]
        /\ outcome' = [outcome EXCEPT ![p] = o]
        /\ \/ pc' = pc
           \/ pc' = [pc EXCEPT ![p] = "setup"] /\ c.verb = "apply" /\ ValidateSequences(c.tree)
  BY <1>1
<1>4. ProcTypes'
  BY <1>2, <1>3 DEF TypeInv, TypeOK, ProcTypes, Unlocked
<1>5. CallInv'
  BY <1>2, <1>3 DEF TypeInv, TypeOK, CallInv
<1> QED BY <1>4, <1>5 DEF ProcInv

LEMMA WorksKeeps ==
  ASSUME TypeInv, NEW p \in Procs, Waits(p) \/ Works(p)
  PROVE  ProcInv'
<1>1. pc[p] # "idle"
  BY DEF Waits, EnsureSetup, CreateTracker, AcquireLock, Works, ReadForStamps, Stamp, StampRow,
         CheckUnlocked, CheckLocked, EnsureSchema, CreateSchema, ApplyOne, CommitMigration,
         ClaimNoTx, ClaimRow, ExecNoTx, RunStatement, FinishNoTx, RecordSuccess, MarkFailed, Unlock
<1>2. CASE EnsureSetup(p) \/ AcquireLock(p) \/ EnsureSchema(p)
  BY <1>1, <1>2 DEF EnsureSetup, AcquireLock, EnsureSchema, Goto, Unlocked, Pinned,
                    TypeInv, TypeOK, ProcInv, ProcTypes, CallInv
<1>3. CASE ReadForStamps(p)
  <2>1. ToStamp(call[p].tree, ledger[Scope(p)]) \in SUBSET Files(call[p].tree)
    BY PendingAreFiles
  <2>2. PICK where \in {"check", "stamp"} : Goto(p, where)
    BY <1>3 DEF ReadForStamps
  <2>3. stmt' = [stmt EXCEPT ![p] = stmt[p]] /\ stmt[p] \in Nat
    BY <1>3 DEF ReadForStamps, TypeInv, TypeOK
  <2> QED BY <1>1, <1>3, <2>1, <2>2, <2>3, GotoKeeps DEF ReadForStamps, Unlocked
<1>4. CASE Stamp(p)
  <2>1. PICK m \in todo[p] : todo' = [todo EXCEPT ![p] = todo[p] \ {m}]
    BY <1>4 DEF Stamp
  <2>2. todo[p] \ {m} \in SUBSET Files(call[p].tree)
    BY DEF TypeInv, CallInv
  <2>3. PICK where \in {"check", "stamp"} : Goto(p, where)
    BY <1>4 DEF Stamp
  <2>4. stmt' = [stmt EXCEPT ![p] = stmt[p]] /\ stmt[p] \in Nat
    BY <1>4 DEF Stamp, TypeInv, TypeOK
  <2> QED BY <1>1, <1>4, <2>1, <2>2, <2>3, <2>4, GotoKeeps DEF Stamp, Unlocked
<1>5. CASE CheckUnlocked(p) \/ CheckLocked(p)
  <2>1. ToApply(p) \in SUBSET Files(call[p].tree)
    BY PendingAreFiles DEF ToApply
  <2>2. CASE \E r \in {"ok", "error"} : Return(p, r) \/ Unwind(p, r)
    BY <1>1, <2>2, ReturnKeeps, UnwindKeeps
  <2>3. CASE /\ todo' = [todo EXCEPT ![p] = ToApply(p)]
             /\ Goto(p, "lock") \/ Goto(p, "createSchema")
             /\ UNCHANGED <<call, stmt, outcome>>
    <3>1. stmt' = [stmt EXCEPT ![p] = stmt[p]] /\ stmt[p] \in Nat
      BY <2>3 DEF TypeInv, TypeOK
    <3> QED BY <1>1, <2>1, <2>3, <3>1, GotoKeeps DEF Unlocked, Pinned
  <2> QED BY <1>5, <2>2, <2>3 DEF CheckUnlocked, CheckLocked
<1>6. CASE ApplyOne(p) \/ FinishNoTx(p)
  BY <1>1, <1>6, AdvanceKeeps DEF ApplyOne, FinishNoTx
<1>7. CASE ClaimNoTx(p) \/ ExecNoTx(p)
  <2>1. PICK k \in Nat : stmt' = [stmt EXCEPT ![p] = k]
    <3>1. stmt[p] \in Nat
      BY DEF TypeInv, TypeOK
    <3>2. stmt[p] + 1 \in Nat
      BY <3>1
    <3>3. CASE stmt' = [stmt EXCEPT ![p] = 1]
      BY <3>3
    <3>4. CASE stmt' = [stmt EXCEPT ![p] = stmt[p] + 1]
      BY <3>2, <3>4
    <3> QED BY <1>7, <3>3, <3>4 DEF ClaimNoTx, ExecNoTx
  <2>2. PICK where \in {"exec", "finish"} : Goto(p, where)
    BY <1>7 DEF ClaimNoTx, ExecNoTx
  <2>3. todo' = [todo EXCEPT ![p] = todo[p]] /\ todo[p] \in SUBSET Files(call[p].tree)
    BY <1>7 DEF ClaimNoTx, ExecNoTx, TypeInv, TypeOK, CallInv
  <2>4. UNCHANGED <<call, outcome>>
    BY <1>7 DEF ClaimNoTx, ExecNoTx
  <2> QED BY <1>1, <2>1, <2>2, <2>3, <2>4, GotoKeeps DEF Pinned
<1>8. CASE MarkFailed(p)
  BY <1>1, <1>8, UnwindKeeps DEF MarkFailed
<1>9. CASE Unlock(p)
  BY <1>9, ReturnKeeps DEF Unlock, TypeInv, TypeOK
<1> QED BY <1>2, <1>3, <1>4, <1>5, <1>6, <1>7, <1>8, <1>9 DEF Waits, Works

LEMMA FaultsKeep ==
  ASSUME TypeInv, NEW p \in Procs, Faults(p)
  PROVE  ProcInv'
BY ErrorPathKeeps, ReturnKeeps DEF Faults, StatementFails, ConnectionLost, Crash

(* Every step is one process's, and it writes one statement's worth.        *)
LEMMA StepWrites ==
  ASSUME NEW p \in Procs,
         Begin(p) \/ Validate(p) \/ Waits(p) \/ Works(p) \/ Faults(p)
  PROVE  /\ UNCHANGED dbVars \/ Writes(p)
         /\ lock' \in {lock, p, Nobody}
<1>1. CASE Begin(p) \/ Validate(p)
  BY <1>1 DEF Begin, Validate
<1>2. CASE Waits(p)
  BY <1>2 DEF Waits, EnsureSetup, AcquireLock, Writes
<1>3. CASE Works(p)
  BY <1>3 DEF Works, ReadForStamps, Stamp, CheckUnlocked, CheckLocked, EnsureSchema, ApplyOne,
              ClaimNoTx, ExecNoTx, FinishNoTx, MarkFailed, Unlock, Writes
<1>4. CASE Faults(p)
  BY <1>4 DEF Faults, StatementFails, ConnectionLost, Crash, ReleaseHeld
<1> QED BY <1>1, <1>2, <1>3, <1>4

-----------------------------------------------------------------------------
(* Type correctness *)

(* The rows and the pieces an earlier release left, number by number.       *)
LEMMA HistoryOf ==
  ASSUME NEW h \in Histories, NEW q \in Seqs, NEW identified \in BOOLEAN
  PROVE  \/ /\ HistoryRows(h, identified)[q] = NoRow
            /\ HistoryPieces(h)[q] = <<>>
         \/ \E m \in h : /\ m \in Migrations /\ m.seq = q
                         /\ HistoryRows(h, identified)[q] = LegacyRow(m, identified)
                         /\ HistoryPieces(h)[q] = Units(m)
<1>1. CASE \E m \in h : m.seq = q
  <2>1. PICK m \in h : m = CHOOSE n \in h : n.seq = q
    BY <1>1
  <2>2. m \in Migrations /\ m.seq = q
    BY <1>1, <2>1, HistoryAssumption DEF HistoryAssumption
  <2> QED BY <1>1, <2>1, <2>2 DEF HistoryRows, HistoryPieces
<1>2. CASE ~\E m \in h : m.seq = q
  BY <1>2 DEF HistoryRows, HistoryPieces
<1> QED BY <1>1, <1>2

LEMMA LegacyRowType ==
  ASSUME NEW m \in Migrations, NEW identified \in BOOLEAN
  PROVE  LegacyRow(m, identified) \in Rows
BY DEF LegacyRow, Rows, Names, Digests, ContentDigest

LEMMA InitTypes == ASSUME Init PROVE TypeInv
<1>1. PICK past \in [Scopes -> Histories], identified \in BOOLEAN, made \in SUBSET Scopes :
        /\ ledger = [s \in Scopes |-> HistoryRows(past[s], identified)]
        /\ landed = [s \in Scopes |-> HistoryPieces(past[s])]
        /\ namespace = {s \in Scopes : past[s] # {}} \cup made
        /\ tracker = (\E s \in Scopes : past[s] # {})
  BY DEF Init
<1>2. ledger \in [Scopes -> Records]
  <2>1. ASSUME NEW s \in Scopes PROVE HistoryRows(past[s], identified) \in Records
    <3>1. \A q \in Seqs : HistoryRows(past[s], identified)[q] \in Rows \cup {NoRow}
      BY HistoryOf, LegacyRowType
    <3> QED BY <3>1 DEF HistoryRows, Records
  <2> QED BY <1>1, <2>1
<1>3. landed \in [Scopes -> [Seqs -> Seq(Pieces)]]
  <2>1. ASSUME NEW s \in Scopes PROVE HistoryPieces(past[s]) \in [Seqs -> Seq(Pieces)]
    <3>1. <<>> \in Seq(Pieces)
      OBVIOUS
    <3>2. ASSUME NEW q \in Seqs PROVE HistoryPieces(past[s])[q] \in Seq(Pieces)
      <4>1. \/ HistoryPieces(past[s])[q] = <<>>
            \/ \E m \in Migrations : HistoryPieces(past[s])[q] = Units(m)
        BY HistoryOf
      <4> QED BY <3>1, <4>1, UnitsType
    <3> QED BY <3>2 DEF HistoryPieces
  <2> QED BY <1>1, <2>1
<1>4. repairs \in Seq(AuditRows)
  BY DEF Init
<1>5. DbTypes
  BY <1>1, <1>2, <1>3, <1>4 DEF DbTypes
<1>6. ProcInv
  BY NoCallType DEF Init, ProcInv, ProcTypes, CallInv
<1> QED BY <1>5, <1>6, TypeParts DEF Init

LEMMA StepTypes == ASSUME TypeInv, [Next]_vars PROVE TypeInv'
<1>1. CASE UNCHANGED vars
  BY <1>1 DEF vars, TypeInv, TypeOK, CallInv
<1>2. ASSUME NEW p \in Procs, Begin(p) \/ Validate(p) \/ Waits(p) \/ Works(p) \/ Faults(p)
      PROVE  TypeInv'
  <2>1. ProcInv'
    BY <1>2, StartKeeps, WorksKeeps, FaultsKeep
  <2>2. DbTypes'
    <3>1. CASE UNCHANGED dbVars
      BY <3>1, DbUnchanged
    <3>2. CASE Writes(p)
      <4>1. pc[p] # "idle"
        BY <3>2 DEF Writes, CreateTracker, CreateSchema, StampRow, CommitMigration, ClaimRow,
                    RunStatement, RecordFailure, RecordSuccess
      <4> QED BY <3>2, <4>1, WritesType
    <3> QED BY <1>2, <3>1, <3>2, StepWrites
  <2>3. lock' \in Procs \cup {Nobody}
    BY <1>2, StepWrites DEF TypeInv, TypeOK
  <2> QED BY <2>1, <2>2, <2>3, TypeParts
<1> QED BY <1>1, <1>2 DEF Next

(* Every reachable state is well typed, and a running call has passed       *)
(* ValidateSequences and works on files of its own tree only.               *)
THEOREM TypeCorrect == Spec => []TypeInv
<1>1. Init => TypeInv
  BY InitTypes
<1>2. TypeInv /\ [Next]_vars => TypeInv'
  BY StepTypes
<1> QED BY <1>1, <1>2, PTL DEF Spec

THEOREM TypeOKAlways == Spec => []TypeOK
<1>1. TypeInv => TypeOK
  BY DEF TypeInv
<1> QED BY <1>1, TypeCorrect, PTL

-----------------------------------------------------------------------------
(* The inductive invariant behind the safety properties. LedgerTellsTheTruth *)
(* alone is not inductive: a commit appends to whatever is there and a claim *)
(* overwrites whatever is there, so what the lock holder knows about the     *)
(* rows of its scope has to be carried along (WorkInv), and so has who may   *)
(* hold the lock (LockInv) and what a verdict was based on (VerdictInv).     *)

LockInv ==
  \A p \in Procs :
    /\ lock = p => pc[p] \in Pinned
    /\ pc[p] \in Pinned \ {"unlock", "markFailed"} => lock = p

Working == {"createSchema", "apply", "exec", "finish", "markFailed"}
OnNoTx  == {"exec", "finish", "markFailed"}

(* The row of m reads applied, for m as far as it tells.                    *)
Settled(p, m) == IsApplied(Row(p, m)) /\ Row(p, m).filename \in {NoName, m.name}

(* m is the file the lock holder is running outside a transaction: its row  *)
(* says so, and its pieces are exactly the statements run so far.           *)
Underway(p, m) ==
  /\ IsNext(p, m)
  /\ IsDirty(Row(p, m)) /\ Row(p, m).filename = m.name /\ Row(p, m).digest = m.bytes
  /\ Row(p, m).status = StatusRunning
  /\ \A q \in Seqs \ {m.seq} : ~IsDirty(ledger[Scope(p)][q])
  /\ \A n \in todo[p] \ {m} : ~Recorded(Row(p, n))
  /\ pc[p] = "exec" => /\ stmt[p] \in 1..m.stmts
                       /\ landed[Scope(p)][m.seq] = [k \in 1..(stmt[p] - 1) |-> <<m, k>>]
  /\ pc[p] = "finish" => landed[Scope(p)][m.seq] = Units(m)

(* What the lock holder p knows of its scope.                               *)
WorkOf(p) ==
  /\ pc[p] \in {"createSchema", "apply"} =>
       /\ \A q \in Seqs : ~IsDirty(ledger[Scope(p)][q])
       /\ \A m \in todo[p] : ~Recorded(Row(p, m))
  /\ pc[p] \in OnNoTx => \E m \in todo[p] : Underway(p, m)
  /\ pc[p] \in Working \ {"markFailed"} =>
       \A m \in Files(call[p].tree) \ todo[p] : Settled(p, m)
  /\ pc[p] \in Working \ {"createSchema"} => Scope(p) \in namespace
WorkInv == \A p \in Procs : lock = p => WorkOf(p)

(* What a verdict of p rests on.                                            *)
VerdictOf(p) ==
  /\ pc[p] \notin {"idle", "unlock"} => outcome[p] = "none"
  /\ call[p].verb = "validate" => pc[p] = "idle" /\ outcome[p] = "ok"
  /\ outcome[p] = "ok" =>
       /\ ValidateSequences(call[p].tree)
       /\ call[p].verb = "apply" => \A m \in Files(call[p].tree) : Settled(p, m)
       /\ call[p].verb = "validate" => \A m \in Files(call[p].tree) : IsApplied(Row(p, m))
VerdictInv == \A p \in Procs : VerdictOf(p)

IInv ==
  /\ TypeInv /\ LockInv /\ WorkInv /\ VerdictInv
  /\ LedgerTellsTheTruth /\ SchemaBeforeDDL

-----------------------------------------------------------------------------
(* Sequences of pieces *)

LEMMA EmptyThenUnits ==
  ASSUME NEW m \in Migrations PROVE <<>> \o Units(m) = Units(m)
<1>1. Units(m) \in Seq(Pieces)
  BY UnitsType
<1> QED BY <1>1

LEMMA OneMorePiece ==
  ASSUME NEW m \in Migrations, NEW k \in Nat \ {0}
  PROVE  [i \in 1..(k - 1) |-> <<m, i>>] \o <<<<m, k>>>> = [i \in 1..k |-> <<m, i>>]
<1> DEFINE f == [i \in 1..(k - 1) |-> <<m, i>>]
<1>1. f \in Seq(Pieces) /\ Len(f) = k - 1
  BY DEF Pieces
<1>2. <<<<m, k>>>> \in Seq(Pieces) /\ Len(<<<<m, k>>>>) = 1
  BY DEF Pieces
<1>3. Len(f \o <<<<m, k>>>>) = k /\ f \o <<<<m, k>>>> \in Seq(Pieces)
  BY <1>1, <1>2
<1>4. ASSUME NEW i \in 1..k PROVE (f \o <<<<m, k>>>>)[i] = <<m, i>>
  <2>1. CASE i <= k - 1
    BY <1>1, <1>2, <2>1
  <2>2. CASE i = k
    BY <1>1, <1>2, <2>2
  <2> QED BY <2>1, <2>2
<1> DEFINE g == f \o <<<<m, k>>>>
<1>5. g = [i \in 1..k |-> g[i]]
  BY <1>3
<1>6. [i \in 1..k |-> g[i]] = [i \in 1..k |-> <<m, i>>]
  BY <1>4
<1> QED BY <1>5, <1>6

-----------------------------------------------------------------------------
(* How each kind of write keeps a row and its pieces in agreement *)

LEMMA CommittedIsTruthful ==
  ASSUME NEW m \in Migrations PROVE Truthful(RowOf(m, StatusApplied), Units(m), m.seq)
<1>1. Recorded(RowOf(m, StatusApplied)) /\ IsApplied(RowOf(m, StatusApplied))
  BY RowOfType, NoRowAssumption DEF Recorded, IsApplied, IsDirty, RowOf, StatusApplied, NoRowAssumption
<1>2. Identifies(RowOf(m, StatusApplied), m)
  BY DEF Identifies, RowOf, ContentDigest
<1> QED BY <1>1, <1>2 DEF Truthful

LEMMA ClaimedIsTruthful ==
  ASSUME NEW m \in Migrations PROVE Truthful(RowOf(m, StatusRunning), <<>>, m.seq)
<1>1. Recorded(RowOf(m, StatusRunning)) /\ ~IsApplied(RowOf(m, StatusRunning))
  BY RowOfType, NoRowAssumption
  DEF Recorded, IsApplied, IsDirty, RowOf, StatusRunning, StatusApplied, NoRowAssumption
<1>2. Identifies(RowOf(m, StatusRunning), m)
  BY DEF Identifies, RowOf, ContentDigest
<1>3. IsPrefixOf(<<>>, Units(m))
  BY UnitsType DEF IsPrefixOf
<1> QED BY <1>1, <1>2, <1>3 DEF Truthful

(* Rows that differ in nothing but the semantic digest, or in dirt.         *)
LEMMA SameIdentityIsTruthful ==
  ASSUME NEW row \in Rows, NEW new \in Rows, NEW pieces, NEW q, Truthful(row, pieces, q),
         new.filename = row.filename, new.digest = row.digest, IsDirty(new) <=> IsDirty(row)
  PROVE  Truthful(new, pieces, q)
BY NoRowAssumption DEF Truthful, Recorded, IsApplied, Identifies, NoRowAssumption

LEMMA PrefixIsTruthful ==
  ASSUME NEW m \in Migrations, NEW row \in Rows, IsDirty(row),
         row.filename = m.name, row.digest = m.bytes, NEW k \in 0..m.stmts
  PROVE  Truthful(row, [i \in 1..k |-> <<m, i>>], m.seq)
<1>1. Recorded(row) /\ ~IsApplied(row) /\ Identifies(row, m)
  BY DEF IsDirty, IsApplied, Identifies
<1>2. IsPrefixOf([i \in 1..k |-> <<m, i>>], Units(m))
  <2>1. Len([i \in 1..k |-> <<m, i>>]) = k /\ k <= m.stmts
    BY UnitsType
  <2>2. ASSUME NEW i \in 1..k PROVE [j \in 1..k |-> <<m, j>>][i] = Units(m)[i]
    BY UnitsType DEF Units
  <2>3. Len([i \in 1..k |-> <<m, i>>]) <= Len(Units(m))
    BY <2>1, UnitsType
  <2> QED BY <2>1, <2>2, <2>3 DEF IsPrefixOf
<1> QED BY <1>1, <1>2 DEF Truthful

LEMMA FinishedIsTruthful ==
  ASSUME NEW m \in Migrations, NEW row \in Rows, IsApplied(row),
         row.filename = m.name, row.digest = m.bytes
  PROVE  Truthful(row, Units(m), m.seq)
BY DEF Truthful, Identifies, IsApplied

-----------------------------------------------------------------------------
(* What a write does, key by key, and what its author knew                  *)

LEMMA SetRowAt ==
  ASSUME TypeOK, NEW p \in Procs, NEW m, m.seq \in Seqs, NEW row, SetRow(p, m, row)
  PROVE  \A s \in Scopes, q \in Seqs :
           ledger'[s][q] = IF s = Scope(p) /\ q = m.seq THEN row ELSE ledger[s][q]
<1>1. ledger \in [Scopes -> Records] /\ Scope(p) \in Scopes
  BY TreesAreChains DEF TypeOK, Scope
<1>2. \A s \in Scopes : ledger[s] \in [Seqs -> Rows \cup {NoRow}]
  BY <1>1 DEF Records
<1> QED BY <1>1, <1>2 DEF SetRow

LEMMA LandAt ==
  ASSUME TypeOK, NEW p \in Procs, NEW m, m.seq \in Seqs, NEW ps, Land(p, m, ps)
  PROVE  \A s \in Scopes, q \in Seqs :
           landed'[s][q] = IF s = Scope(p) /\ q = m.seq THEN landed[s][q] \o ps ELSE landed[s][q]
<1>1. Scope(p) \in Scopes
  BY TreesAreChains DEF Scope
<1>2. landed \in [Scopes -> [Seqs -> Seq(Pieces)]]
  BY DEF TypeOK
<1>3. \A s \in Scopes : landed[s] \in [Seqs -> Seq(Pieces)]
  BY <1>2
<1> QED BY <1>1, <1>2, <1>3 DEF Land

(* The lock holder about to start a file finds neither row nor pieces.      *)
LEMMA StartsClean ==
  ASSUME IInv, NEW p \in Procs, NEW m \in todo[p], lock = p, pc[p] = "apply"
  PROVE  ~Recorded(Row(p, m)) /\ landed[Scope(p)][m.seq] = <<>>
<1>1. ~Recorded(Row(p, m))
  BY DEF IInv, WorkInv, WorkOf
<1>2. m.seq \in Seqs /\ Scope(p) \in Scopes
  BY TodoKeys, TreesAreChains DEF IInv, TypeInv, Scope
<1> QED BY <1>1, <1>2 DEF IInv, LedgerTellsTheTruth, Truthful, Row

(* The lock holder inside a no-transaction file finds its own claim.        *)
LEMMA OwnsClaim ==
  ASSUME IInv, NEW p \in Procs, NEW m \in todo[p], lock = p, pc[p] \in OnNoTx, IsNext(p, m)
  PROVE  Underway(p, m)
<1>1. PICK n \in todo[p] : Underway(p, n)
  BY DEF IInv, WorkInv, WorkOf
<1>2. m.seq \in Nat /\ n.seq \in Nat
  BY TodoKeys, SeqsAreNat DEF IInv, OnNoTx
<1>3. m.seq = n.seq
  BY <1>1, <1>2 DEF IsNext, Underway
<1>4. call[p].tree \in Seq(Migrations) /\ ValidateSequences(call[p].tree)
  BY TreesAreChains DEF IInv, TypeInv, CallInv, OnNoTx
<1>5. m \in Files(call[p].tree) /\ n \in Files(call[p].tree)
  BY DEF IInv, TypeInv, CallInv
<1>6. m = n
  BY <1>3, <1>4, <1>5, ValidChain
<1> QED BY <1>1, <1>6

(* A dirty row is a row.                                                    *)
LEMMA OwnRow ==
  ASSUME TypeInv, NEW p \in Procs, pc[p] # "idle", NEW m \in todo[p]
  PROVE  /\ m \in Migrations /\ m.seq \in Seqs /\ Scope(p) \in Scopes
         /\ Recorded(Row(p, m)) => Row(p, m) \in Rows
<1>1. m \in Migrations /\ m.seq \in Seqs
  BY TodoKeys
<1>2. Row(p, m) \in Rows \cup {NoRow} /\ Scope(p) \in Scopes
  BY <1>1, RowType, TreesAreChains DEF TypeInv, Scope
<1> QED BY <1>1, <1>2 DEF Recorded

(* The effect of one write on the rows and pieces of the database: nothing, *)
(* or one key of the writer's scope goes from what it was to something that *)
(* is still truthful; an applied row only ever gains a semantic digest.     *)
Touches(p, q, new, pieces) ==
  \A s \in Scopes, k \in Seqs :
    /\ ledger'[s][k] = IF s = Scope(p) /\ k = q THEN new ELSE ledger[s][k]
    /\ landed'[s][k] = IF s = Scope(p) /\ k = q THEN pieces ELSE landed[s][k]

KeepsApplied(old, new) ==
  IsApplied(old) => IsApplied(new) /\ new.filename = old.filename

LEMMA StampEffect ==
  ASSUME TypeInv, NEW p \in Procs, NEW m \in todo[p], StampRow(p, m)
  PROVE  \/ UNCHANGED <<ledger, landed, namespace>>
         \/ \E new \in Rows :
              /\ Touches(p, m.seq, new, landed[Scope(p)][m.seq])
              /\ Recorded(Row(p, m)) /\ Recorded(new)
              /\ new.filename = Row(p, m).filename /\ new.digest = Row(p, m).digest
              /\ new.status = Row(p, m).status
              /\ new.semantic = Row(p, m).semantic \/ Row(p, m).semantic = NoDigest
              /\ UNCHANGED <<landed, namespace>>
<1>1. CASE UNCHANGED ledger
  BY <1>1 DEF StampRow
<1>2. CASE /\ Recorded(Row(p, m)) /\ Row(p, m).semantic = NoDigest
           /\ SetRow(p, m, [Row(p, m) EXCEPT !.semantic = SemanticContentDigest(m)])
  <2> DEFINE new == [Row(p, m) EXCEPT !.semantic = SemanticContentDigest(m)]
  <2>1. m \in Migrations /\ m.seq \in Seqs /\ Scope(p) \in Scopes /\ Row(p, m) \in Rows
    BY <1>2, OwnRow DEF StampRow
  <2>2. new \in Rows /\ new.filename = Row(p, m).filename /\ new.digest = Row(p, m).digest
        /\ new.status = Row(p, m).status
    BY <2>1 DEF Rows, Tokens, SemanticContentDigest
  <2>3. Recorded(new)
    BY <2>2, NoRowAssumption DEF Recorded, NoRowAssumption
  <2>4. UNCHANGED <<landed, namespace>>
    BY DEF StampRow
  <2>5. Touches(p, m.seq, new, landed[Scope(p)][m.seq])
    BY <1>2, <2>1, <2>4, SetRowAt DEF TypeInv, Touches
  <2> HIDE DEF new
  <2> QED BY <1>2, <2>2, <2>3, <2>4, <2>5
<1> QED BY <1>1, <1>2 DEF StampRow

LEMMA CommitEffect ==
  ASSUME IInv, NEW p \in Procs, NEW m \in todo[p], CommitMigration(p, m)
  PROVE  /\ Touches(p, m.seq, RowOf(m, StatusApplied), Units(m))
         /\ ~Recorded(Row(p, m)) /\ m \in Migrations /\ m.seq \in Seqs
         /\ Scope(p) \in namespace /\ UNCHANGED namespace
<1>1. m \in Migrations /\ m.seq \in Seqs
  BY OwnRow DEF IInv, CommitMigration
<1>2. ~Recorded(Row(p, m)) /\ landed[Scope(p)][m.seq] = <<>>
  BY StartsClean DEF CommitMigration
<1>3. SetRow(p, m, RowOf(m, StatusApplied)) /\ Land(p, m, Units(m))
  BY <1>2 DEF CommitMigration
<1>4. Touches(p, m.seq, RowOf(m, StatusApplied), Units(m))
  <2>1. TypeOK
    BY DEF IInv, TypeInv
  <2>2. \A s \in Scopes, q \in Seqs :
          ledger'[s][q] = IF s = Scope(p) /\ q = m.seq THEN RowOf(m, StatusApplied) ELSE ledger[s][q]
    BY <1>1, <1>3, <2>1, SetRowAt
  <2>3. \A s \in Scopes, q \in Seqs :
          landed'[s][q] = IF s = Scope(p) /\ q = m.seq THEN landed[s][q] \o Units(m) ELSE landed[s][q]
    BY <1>1, <1>3, <2>1, LandAt
  <2>4. landed[Scope(p)][m.seq] \o Units(m) = Units(m)
    BY <1>1, <1>2, EmptyThenUnits
  <2> QED BY <2>2, <2>3, <2>4 DEF Touches
<1>5. Scope(p) \in namespace /\ UNCHANGED namespace
  BY DEF CommitMigration, IInv, WorkInv, WorkOf, Working
<1> QED BY <1>1, <1>2, <1>4, <1>5

LEMMA ClaimEffect ==
  ASSUME IInv, NEW p \in Procs, NEW m \in todo[p], ClaimRow(p, m)
  PROVE  /\ Touches(p, m.seq, RowOf(m, StatusRunning), <<>>)
         /\ ~Recorded(Row(p, m)) /\ landed[Scope(p)][m.seq] = <<>>
         /\ m \in Migrations /\ m.seq \in Seqs
         /\ UNCHANGED <<landed, namespace>>
<1>1. m \in Migrations /\ m.seq \in Seqs /\ Scope(p) \in Scopes
  BY OwnRow DEF IInv, ClaimRow
<1>2. ~Recorded(Row(p, m)) /\ landed[Scope(p)][m.seq] = <<>>
  BY StartsClean DEF ClaimRow
<1>3. SetRow(p, m, RowOf(m, StatusRunning)) /\ UNCHANGED <<landed, namespace>>
  BY <1>2 DEF ClaimRow
<1>4. Touches(p, m.seq, RowOf(m, StatusRunning), <<>>)
  BY <1>1, <1>2, <1>3, SetRowAt DEF IInv, TypeInv, Touches
<1> QED BY <1>1, <1>2, <1>3, <1>4

LEMMA RunEffect ==
  ASSUME IInv, NEW p \in Procs, NEW m \in todo[p], RunStatement(p, m)
  PROVE  /\ Touches(p, m.seq, Row(p, m), [i \in 1..stmt[p] |-> <<m, i>>])
         /\ Underway(p, m) /\ m \in Migrations /\ m.seq \in Seqs /\ Row(p, m) \in Rows
         /\ UNCHANGED <<ledger, namespace>> /\ Scope(p) \in namespace
<1>1. Underway(p, m)
  BY OwnsClaim DEF RunStatement, OnNoTx
<1>2. m \in Migrations /\ m.seq \in Seqs /\ Scope(p) \in Scopes /\ Row(p, m) \in Rows
  BY <1>1, OwnRow DEF IInv, RunStatement, Underway, IsDirty
<1>3. stmt[p] \in Nat \ {0} /\ landed[Scope(p)][m.seq] = [i \in 1..(stmt[p] - 1) |-> <<m, i>>]
  BY <1>1 DEF RunStatement, Underway
<1>4. Land(p, m, <<<<m, stmt[p]>>>>) /\ UNCHANGED <<ledger, namespace>>
  BY DEF RunStatement
<1>5. landed[Scope(p)][m.seq] \o <<<<m, stmt[p]>>>> = [i \in 1..stmt[p] |-> <<m, i>>]
  BY <1>2, <1>3, OneMorePiece
<1>6. Touches(p, m.seq, Row(p, m), [i \in 1..stmt[p] |-> <<m, i>>])
  <2>1. TypeOK
    BY DEF IInv, TypeInv
  <2>2. \A s \in Scopes, q \in Seqs :
          landed'[s][q] = IF s = Scope(p) /\ q = m.seq THEN landed[s][q] \o <<<<m, stmt[p]>>>>
                                                      ELSE landed[s][q]
    BY <1>2, <1>4, <2>1, LandAt
  <2> QED BY <1>4, <1>5, <2>2 DEF Touches, Row
<1>7. Scope(p) \in namespace
  BY DEF RunStatement, IInv, WorkInv, WorkOf, Working
<1> QED BY <1>1, <1>2, <1>4, <1>6, <1>7

LEMMA FailureEffect ==
  ASSUME IInv, NEW p \in Procs, NEW m \in todo[p], RecordFailure(p, m)
  PROVE  /\ Underway(p, m) /\ m.seq \in Seqs /\ Row(p, m) \in Rows
         /\ \E new \in Rows : /\ Touches(p, m.seq, new, landed[Scope(p)][m.seq])
                              /\ new.filename = Row(p, m).filename
                              /\ new.digest = Row(p, m).digest
                              /\ new.status = StatusFailed /\ IsDirty(new)
         /\ UNCHANGED <<landed, namespace>>
<1> DEFINE new == [Row(p, m) EXCEPT !.status = StatusFailed]
<1>1. Underway(p, m)
  BY OwnsClaim DEF RecordFailure, OnNoTx
<1>2. m.seq \in Seqs /\ Scope(p) \in Scopes /\ Row(p, m) \in Rows /\ Recorded(Row(p, m))
  BY <1>1, OwnRow DEF IInv, RecordFailure, Underway, IsDirty
<1>3. /\ new \in Rows /\ new.filename = Row(p, m).filename /\ new.digest = Row(p, m).digest
      /\ new.status = StatusFailed
  BY <1>2 DEF Rows
<1>4. IsDirty(new)
  BY <1>3, NoRowAssumption DEF IsDirty, Recorded, NoRowAssumption, StatusFailed, StatusApplied
<1>5. SetRow(p, m, new) /\ UNCHANGED <<landed, namespace>>
  BY <1>2 DEF RecordFailure
<1> HIDE DEF new
<1>6. Touches(p, m.seq, new, landed[Scope(p)][m.seq])
  BY <1>2, <1>5, SetRowAt DEF IInv, TypeInv, Touches
<1> QED BY <1>1, <1>2, <1>3, <1>4, <1>5, <1>6

LEMMA SuccessEffect ==
  ASSUME IInv, NEW p \in Procs, NEW m \in todo[p], RecordSuccess(p, m)
  PROVE  /\ Underway(p, m) /\ m \in Migrations /\ m.seq \in Seqs
         /\ \E new \in Rows : /\ Touches(p, m.seq, new, Units(m))
                              /\ new.filename = m.name /\ new.digest = m.bytes
                              /\ IsApplied(new)
         /\ UNCHANGED <<landed, namespace>>
<1> DEFINE new == [Row(p, m) EXCEPT !.status = StatusApplied, !.digest = ContentDigest(m),
                                    !.semantic = SemanticContentDigest(m)]
<1>1. Underway(p, m) /\ landed[Scope(p)][m.seq] = Units(m)
  BY OwnsClaim DEF RecordSuccess, OnNoTx, Underway
<1>2. m \in Migrations /\ m.seq \in Seqs /\ Scope(p) \in Scopes /\ Row(p, m) \in Rows /\ Recorded(Row(p, m))
  BY <1>1, OwnRow DEF IInv, RecordSuccess, Underway, IsDirty
<1>3. Row(p, m).filename = m.name
  BY <1>1 DEF Underway
<1>4. /\ new \in Rows /\ new.filename = m.name /\ new.digest = m.bytes
      /\ new.status = StatusApplied
  BY <1>2, <1>3 DEF Rows, Digests, Tokens, ContentDigest, SemanticContentDigest
<1>5. IsApplied(new)
  BY <1>4, NoRowAssumption DEF IsDirty, IsApplied, Recorded, NoRowAssumption
<1>6. SetRow(p, m, new) /\ UNCHANGED <<landed, namespace>>
  BY <1>2 DEF RecordSuccess
<1> HIDE DEF new
<1>7. Touches(p, m.seq, new, Units(m))
  BY <1>1, <1>2, <1>6, SetRowAt DEF IInv, TypeInv, Touches
<1> QED BY <1>1, <1>2, <1>4, <1>5, <1>6, <1>7

LEMMA WriteEffect ==
  ASSUME IInv, NEW p \in Procs, Writes(p) \/ UNCHANGED dbVars
  PROVE  \/ UNCHANGED <<ledger, landed>> /\ namespace \subseteq namespace'
         \/ /\ UNCHANGED namespace
            /\ \E q \in Seqs : \E new, pieces :
                 /\ Touches(p, q, new, pieces)
                 /\ Truthful(new, pieces, q)
                 /\ KeepsApplied(ledger[Scope(p)][q], new)
                 /\ Scope(p) \in namespace \/ pieces = landed[Scope(p)][q] \/ pieces = <<>>
<1>0. Scope(p) \in Scopes /\ \A s \in Scopes, q \in Seqs : Truthful(ledger[s][q], landed[s][q], q)
  BY TreesAreChains DEF IInv, TypeInv, Scope, LedgerTellsTheTruth
<1>1. CASE UNCHANGED dbVars
  BY <1>1 DEF dbVars
<1>2. CASE CreateTracker(p)
  BY <1>2 DEF CreateTracker
<1>3. CASE CreateSchema(p)
  BY <1>3 DEF CreateSchema
<1>4. ASSUME NEW m \in todo[p], StampRow(p, m)
      PROVE  \/ UNCHANGED <<ledger, landed, namespace>>
             \/ /\ UNCHANGED namespace
                /\ \E q \in Seqs : \E new, pieces :
                     /\ Touches(p, q, new, pieces)
                     /\ Truthful(new, pieces, q)
                     /\ KeepsApplied(ledger[Scope(p)][q], new)
                     /\ pieces = landed[Scope(p)][q]
  <2>1. CASE UNCHANGED <<ledger, landed, namespace>>
    BY <2>1
  <2>2. ASSUME NEW new \in Rows,
               Touches(p, m.seq, new, landed[Scope(p)][m.seq]),
               Recorded(Row(p, m)), Recorded(new), new.filename = Row(p, m).filename,
               new.digest = Row(p, m).digest, new.status = Row(p, m).status
        PROVE  /\ Truthful(new, landed[Scope(p)][m.seq], m.seq)
               /\ KeepsApplied(ledger[Scope(p)][m.seq], new)
    <3>1. m.seq \in Seqs /\ Row(p, m) \in Rows
      BY <2>2, <1>4, OwnRow DEF IInv, StampRow
    <3>2. IsDirty(new) <=> IsDirty(Row(p, m))
      BY <2>2 DEF IsDirty
    <3>3. Truthful(Row(p, m), landed[Scope(p)][m.seq], m.seq)
      BY <1>0, <3>1 DEF Row
    <3> QED BY <2>2, <3>1, <3>2, <3>3, SameIdentityIsTruthful DEF KeepsApplied, IsApplied, Row
  <2>3. m.seq \in Seqs
    BY <1>4, OwnRow DEF IInv, StampRow
  <2> QED BY <1>4, <2>1, <2>2, <2>3, StampEffect DEF IInv
<1>5. ASSUME NEW m \in todo[p], CommitMigration(p, m)
      PROVE  /\ Touches(p, m.seq, RowOf(m, StatusApplied), Units(m)) /\ m.seq \in Seqs
             /\ Truthful(RowOf(m, StatusApplied), Units(m), m.seq)
             /\ KeepsApplied(ledger[Scope(p)][m.seq], RowOf(m, StatusApplied))
             /\ Scope(p) \in namespace /\ UNCHANGED namespace
  BY <1>5, CommitEffect, CommittedIsTruthful DEF KeepsApplied, IsApplied, Row
<1>6. ASSUME NEW m \in todo[p], ClaimRow(p, m)
      PROVE  /\ Touches(p, m.seq, RowOf(m, StatusRunning), <<>>) /\ m.seq \in Seqs
             /\ Truthful(RowOf(m, StatusRunning), <<>>, m.seq)
             /\ KeepsApplied(ledger[Scope(p)][m.seq], RowOf(m, StatusRunning))
             /\ UNCHANGED namespace
  BY <1>6, ClaimEffect, ClaimedIsTruthful DEF KeepsApplied, IsApplied, Row
<1>7. ASSUME NEW m \in todo[p], RunStatement(p, m)
      PROVE  /\ Touches(p, m.seq, Row(p, m), [i \in 1..stmt[p] |-> <<m, i>>]) /\ m.seq \in Seqs
             /\ Truthful(Row(p, m), [i \in 1..stmt[p] |-> <<m, i>>], m.seq)
             /\ KeepsApplied(ledger[Scope(p)][m.seq], Row(p, m))
             /\ Scope(p) \in namespace /\ UNCHANGED namespace
  <2>1. Underway(p, m) /\ m \in Migrations /\ m.seq \in Seqs /\ Row(p, m) \in Rows
    BY <1>7, RunEffect
  <2>2. stmt[p] \in 1..m.stmts
    BY <1>7, <2>1 DEF RunStatement, Underway
  <2>3. stmt[p] \in 0..m.stmts
    BY <2>1, <2>2, UnitsType
  <2>4. Truthful(Row(p, m), [i \in 1..stmt[p] |-> <<m, i>>], m.seq)
    BY <2>1, <2>3, PrefixIsTruthful DEF Underway
  <2> QED BY <1>7, <2>1, <2>4, RunEffect DEF KeepsApplied, Row
<1>8. ASSUME NEW m \in todo[p], RecordFailure(p, m)
      PROVE  \E new : /\ Touches(p, m.seq, new, landed[Scope(p)][m.seq]) /\ m.seq \in Seqs
                      /\ Truthful(new, landed[Scope(p)][m.seq], m.seq)
                      /\ KeepsApplied(ledger[Scope(p)][m.seq], new)
                      /\ UNCHANGED namespace
  <2>1. Underway(p, m) /\ m.seq \in Seqs /\ Row(p, m) \in Rows /\ UNCHANGED namespace
    BY <1>8, FailureEffect
  <2>2. PICK new \in Rows : /\ Touches(p, m.seq, new, landed[Scope(p)][m.seq])
                            /\ new.filename = Row(p, m).filename
                            /\ new.digest = Row(p, m).digest
                            /\ IsDirty(new)
    BY <1>8, FailureEffect
  <2>3. Truthful(Row(p, m), landed[Scope(p)][m.seq], m.seq) /\ IsDirty(Row(p, m))
    BY <1>0, <2>1 DEF Row, Underway
  <2>4. Truthful(new, landed[Scope(p)][m.seq], m.seq)
    BY <2>1, <2>2, <2>3, SameIdentityIsTruthful
  <2> QED BY <2>1, <2>2, <2>3, <2>4 DEF KeepsApplied, IsApplied, Row
<1>9. ASSUME NEW m \in todo[p], RecordSuccess(p, m)
      PROVE  \E new : /\ Touches(p, m.seq, new, Units(m)) /\ m.seq \in Seqs
                      /\ Truthful(new, Units(m), m.seq)
                      /\ KeepsApplied(ledger[Scope(p)][m.seq], new)
                      /\ Scope(p) \in namespace /\ UNCHANGED namespace
  <2>1. Underway(p, m) /\ m \in Migrations /\ m.seq \in Seqs /\ UNCHANGED namespace
    BY <1>9, SuccessEffect
  <2>2. PICK new \in Rows : /\ Touches(p, m.seq, new, Units(m))
                            /\ new.filename = m.name /\ new.digest = m.bytes
                            /\ IsApplied(new)
    BY <1>9, SuccessEffect
  <2>3. Scope(p) \in namespace
    BY <1>9 DEF RecordSuccess, IInv, WorkInv, WorkOf, Working
  <2>4. ~IsApplied(Row(p, m))
    BY <2>1 DEF Underway, IsApplied
  <2> QED BY <2>1, <2>2, <2>3, <2>4, FinishedIsTruthful DEF KeepsApplied, Row
<1> QED BY <1>1, <1>2, <1>3, <1>4, <1>5, <1>6, <1>7, <1>8, <1>9 DEF Writes

(* Hence every write keeps the ledger truthful, no DDL in a missing schema, *)
(* and every applied row applied to the same file.                          *)
LEMMA WritesKeepTruth ==
  ASSUME IInv, NEW p \in Procs, Writes(p) \/ UNCHANGED dbVars
  PROVE  /\ LedgerTellsTheTruth'
         /\ SchemaBeforeDDL'
         /\ \A s \in Scopes, q \in Seqs : KeepsApplied(ledger[s][q], ledger'[s][q])
         /\ namespace \subseteq namespace'
<1>1. CASE UNCHANGED <<ledger, landed>> /\ namespace \subseteq namespace'
  BY <1>1 DEF IInv, LedgerTellsTheTruth, SchemaBeforeDDL, KeepsApplied
<1>2. ASSUME UNCHANGED namespace, NEW q \in Seqs, NEW new, NEW pieces,
             Touches(p, q, new, pieces), Truthful(new, pieces, q),
             KeepsApplied(ledger[Scope(p)][q], new),
             Scope(p) \in namespace \/ pieces = landed[Scope(p)][q] \/ pieces = <<>>
      PROVE  /\ LedgerTellsTheTruth'
             /\ SchemaBeforeDDL'
             /\ \A s \in Scopes, k \in Seqs : KeepsApplied(ledger[s][k], ledger'[s][k])
  <2>1. LedgerTellsTheTruth'
    BY <1>2 DEF IInv, LedgerTellsTheTruth, Touches
  <2>2. SchemaBeforeDDL'
    BY <1>2 DEF IInv, SchemaBeforeDDL, Touches
  <2>3. \A s \in Scopes, k \in Seqs : KeepsApplied(ledger[s][k], ledger'[s][k])
    BY <1>2 DEF Touches, KeepsApplied
  <2> QED BY <2>1, <2>2, <2>3
<1> QED BY <1>1, <1>2, WriteEffect

-----------------------------------------------------------------------------
(* Control *)

(* A clean check vouches for every row of the scope and for the names of    *)
(* the tree's rows.                                                         *)
LEMMA CleanCheck ==
  ASSUME TypeInv, NEW p \in Procs, pc[p] # "idle", ~Blocked(p)
  PROVE  /\ \A q \in Seqs : ~IsDirty(ledger[Scope(p)][q])
         /\ \A m \in Files(call[p].tree) : Recorded(Row(p, m)) => Settled(p, m)
<1> DEFINE t == call[p].tree
           records == ledger[Scope(p)]
<1>1. t \in Seq(Migrations) /\ ValidateSequences(t) /\ Scope(p) \in Scopes
  BY TreesAreChains DEF TypeInv, CallInv, Scope
<1>2. DOMAIN records = Seqs
  BY <1>1 DEF TypeInv, TypeOK, Records
<1>3. \A d \in Analyze(t, records, StrictOrdering, call[p].exempt) : d.severity # "error"
  BY DEF Blocked, FirstError
<1>4. \A m \in Files(t) : ~IsDirty(records[m.seq])
  <2>1. ASSUME NEW m \in Files(t), IsDirty(records[m.seq]) PROVE FALSE
    <3>1. Finding("dirty_migration", "error", m) \in Analyze(t, records, StrictOrdering, call[p].exempt)
      BY <2>1 DEF Analyze, DirtyInTree
    <3> QED BY <1>3, <3>1 DEF Finding
  <2> QED BY <2>1
<1>5. \A q \in Seqs \ InTree(t) : ~IsDirty(records[q])
  <2>1. ASSUME NEW q \in Seqs \ InTree(t), IsDirty(records[q]) PROVE FALSE
    <3>1. [kind |-> "dirty_migration", severity |-> "error", key |-> q, file |-> records[q].filename]
            \in Analyze(t, records, StrictOrdering, call[p].exempt)
      BY <1>2, <2>1 DEF Analyze, DirtyOrphans
    <3> QED BY <1>3, <3>1
  <2> QED BY <2>1
<1>6. \A q \in Seqs : ~IsDirty(records[q])
  BY <1>4, <1>5 DEF InTree
<1>7. ASSUME NEW m \in Files(t), Recorded(Row(p, m)) PROVE Settled(p, m)
  <2>1. ~IsMismatch(m, records[m.seq])
    <3>1. SUFFICES ASSUME IsMismatch(m, records[m.seq]) PROVE FALSE
      OBVIOUS
    <3>2. Finding("number_mismatch", "error", m) \in Analyze(t, records, StrictOrdering, call[p].exempt)
      BY <3>1 DEF Analyze
    <3> QED BY <1>3, <3>2 DEF Finding
  <2>2. IsApplied(Row(p, m))
    BY <1>4, <1>7 DEF IsApplied, Row
  <2> QED BY <2>1, <2>2 DEF IsMismatch, Settled, Row
<1> QED BY <1>6, <1>7

(* A step of one process leaves the control state of the others alone.      *)
LEMMA OthersUntouched ==
  ASSUME TypeInv, NEW p \in Procs, NEW r \in Procs, r # p,
         Begin(p) \/ Validate(p) \/ Waits(p) \/ Works(p) \/ Faults(p)
  PROVE  /\ pc'[r] = pc[r] /\ call'[r] = call[r] /\ todo'[r] = todo[r]
         /\ stmt'[r] = stmt[r] /\ outcome'[r] = outcome[r]
<1> USE DEF Goto, Return, Unwind, TypeInv, TypeOK
<1>1. CASE Begin(p) \/ Validate(p)
  BY <1>1 DEF Begin, Validate
<1>2. CASE EnsureSetup(p) \/ AcquireLock(p) \/ ReadForStamps(p) \/ Stamp(p)
  BY <1>2 DEF EnsureSetup, AcquireLock, ReadForStamps, Stamp
<1>3. CASE CheckUnlocked(p) \/ CheckLocked(p) \/ EnsureSchema(p)
  BY <1>3 DEF CheckUnlocked, CheckLocked, EnsureSchema
<1>4. CASE ApplyOne(p) \/ FinishNoTx(p)
  BY <1>4 DEF ApplyOne, FinishNoTx, Advance
<1>5. CASE ClaimNoTx(p) \/ ExecNoTx(p) \/ MarkFailed(p) \/ Unlock(p)
  BY <1>5 DEF ClaimNoTx, ExecNoTx, MarkFailed, Unlock
<1>6. CASE Faults(p)
  BY <1>6 DEF Faults, StatementFails, ConnectionLost, Crash, ErrorPath
<1> QED BY <1>1, <1>2, <1>3, <1>4, <1>5, <1>6 DEF Waits, Works

(* While another session holds the lock, a process can at most stamp rows.  *)
LEMMA QuietForOthers ==
  ASSUME TypeInv, NEW p \in Procs, NEW r \in Procs, r # p, lock = r, Writes(p) \/ UNCHANGED dbVars
  PROVE  /\ UNCHANGED <<landed, namespace>>
         /\ \A s \in Scopes, q \in Seqs :
              /\ Recorded(ledger'[s][q]) <=> Recorded(ledger[s][q])
              /\ IsDirty(ledger'[s][q]) <=> IsDirty(ledger[s][q])
              /\ Recorded(ledger[s][q]) => /\ ledger'[s][q].filename = ledger[s][q].filename
                                           /\ ledger'[s][q].digest = ledger[s][q].digest
                                           /\ ledger'[s][q].status = ledger[s][q].status
                                           /\ \/ ledger'[s][q].semantic = ledger[s][q].semantic
                                              \/ ledger[s][q].semantic = NoDigest
<1>0. lock # p /\ lock # Nobody
  BY CallerAssumption DEF CallerAssumption
<1>1. CASE UNCHANGED dbVars
  BY <1>1 DEF dbVars
<1>2. ASSUME NEW m \in todo[p], StampRow(p, m)
      PROVE  \/ UNCHANGED <<ledger, landed, namespace>>
             \/ \E new : /\ Touches(p, m.seq, new, landed[Scope(p)][m.seq])
                         /\ Recorded(Row(p, m)) /\ Recorded(new)
                         /\ new.filename = Row(p, m).filename /\ new.digest = Row(p, m).digest
                         /\ new.status = Row(p, m).status
                         /\ new.semantic = Row(p, m).semantic \/ Row(p, m).semantic = NoDigest
                         /\ UNCHANGED <<landed, namespace>>
  BY <1>2, StampEffect
<1>3. CASE \E m \in todo[p] : StampRow(p, m)
  <2>1. PICK m \in todo[p] : StampRow(p, m)
    BY <1>3
  <2>2. CASE UNCHANGED <<ledger, landed, namespace>>
    BY <2>2
  <2>3. ASSUME NEW new, Touches(p, m.seq, new, landed[Scope(p)][m.seq]),
               Recorded(Row(p, m)), Recorded(new),
               new.filename = Row(p, m).filename, new.digest = Row(p, m).digest,
               new.status = Row(p, m).status,
               new.semantic = Row(p, m).semantic \/ Row(p, m).semantic = NoDigest, NEW s \in Scopes, NEW q \in Seqs
        PROVE  /\ Recorded(ledger'[s][q]) <=> Recorded(ledger[s][q])
               /\ IsDirty(ledger'[s][q]) <=> IsDirty(ledger[s][q])
               /\ ledger'[s][q].filename = ledger[s][q].filename
               /\ ledger'[s][q].digest = ledger[s][q].digest
               /\ ledger'[s][q].status = ledger[s][q].status
               /\ ledger'[s][q].semantic = ledger[s][q].semantic \/ ledger[s][q].semantic = NoDigest
    <3>1. CASE s = Scope(p) /\ q = m.seq
      <4>1. ledger'[s][q] = new /\ ledger[s][q] = Row(p, m)
        BY <2>3, <3>1 DEF Touches, Row
      <4> QED BY <2>3, <4>1 DEF IsDirty
    <3>2. CASE ~(s = Scope(p) /\ q = m.seq)
      <4>1. ledger'[s][q] = ledger[s][q]
        BY <2>3, <3>2 DEF Touches
      <4> QED BY <4>1
    <3> QED BY <3>1, <3>2
  <2> QED BY <1>2, <2>1, <2>2, <2>3
<1> QED BY <1>0, <1>1, <1>3
    DEF Writes, CreateTracker, CreateSchema, CommitMigration, ClaimRow, RunStatement,
        RecordFailure, RecordSuccess

(* Nobody takes the lock from another session.                              *)
LEMMA LockStaysWithOthers ==
  ASSUME NEW p \in Procs, NEW r \in Procs, r # p, lock = r,
         Begin(p) \/ Validate(p) \/ Waits(p) \/ Works(p) \/ Faults(p)
  PROVE  lock' = lock
<1>1. lock # p /\ lock # Nobody
  BY CallerAssumption DEF CallerAssumption
<1>2. CASE Begin(p) \/ Validate(p)
  BY <1>2 DEF Begin, Validate
<1>3. CASE Waits(p)
  BY <1>1, <1>3 DEF Waits, EnsureSetup, AcquireLock
<1>4. CASE Works(p)
  BY <1>1, <1>4 DEF Works, ReadForStamps, Stamp, CheckUnlocked, CheckLocked, EnsureSchema,
                    ApplyOne, ClaimNoTx, ExecNoTx, FinishNoTx, MarkFailed, Unlock
<1>5. CASE Faults(p)
  BY <1>1, <1>5 DEF Faults, StatementFails, ConnectionLost, Crash, ReleaseHeld
<1> QED BY <1>2, <1>3, <1>4, <1>5

(* The stepping process is on the session's side of the code exactly when   *)
(* its session holds the lock, but for its way out after losing it.         *)
LEMMA OwnLock ==
  ASSUME IInv, NEW p \in Procs,
         Begin(p) \/ Validate(p) \/ Waits(p) \/ Works(p) \/ Faults(p)
  PROVE  /\ lock' = p => pc'[p] \in Pinned
         /\ pc'[p] \in Pinned \ {"unlock", "markFailed"} => lock' = p
<1> USE DEF Goto, Return, Unwind
<1>1. /\ pc \in [Procs -> {"idle"} \cup Unlocked \cup Pinned] /\ p # Nobody
      /\ lock = p => pc[p] \in Pinned
      /\ pc[p] \in Pinned \ {"unlock", "markFailed"} => lock = p
  BY CallerAssumption DEF IInv, TypeInv, TypeOK, LockInv, CallerAssumption
<1>2. CASE Begin(p) \/ Validate(p)
  BY <1>1, <1>2 DEF Begin, Validate, Pinned
<1>3. CASE EnsureSetup(p) \/ AcquireLock(p) \/ ReadForStamps(p) \/ Stamp(p) \/ CheckUnlocked(p)
  BY <1>1, <1>3 DEF EnsureSetup, CreateTracker, AcquireLock, ReadForStamps, Stamp, StampRow,
                    CheckUnlocked, Pinned
<1>4. CASE CheckLocked(p) \/ EnsureSchema(p)
  BY <1>1, <1>4 DEF CheckLocked, EnsureSchema, CreateSchema, Pinned
<1>5. CASE ApplyOne(p) \/ FinishNoTx(p)
  BY <1>1, <1>5 DEF ApplyOne, CommitMigration, FinishNoTx, RecordSuccess, Advance, Pinned
<1>6. CASE ClaimNoTx(p) \/ ExecNoTx(p)
  BY <1>1, <1>6 DEF ClaimNoTx, ClaimRow, ExecNoTx, RunStatement, Pinned
<1>7. CASE MarkFailed(p) \/ Unlock(p)
  BY <1>1, <1>7 DEF MarkFailed, Unlock, Pinned
<1>8. CASE StatementFails(p)
  BY <1>1, <1>8 DEF StatementFails, ErrorPath, Pinned, Unlocked
<1>9. CASE ConnectionLost(p) \/ Crash(p)
  BY <1>1, <1>9 DEF ConnectionLost, Crash, ErrorPath, ReleaseHeld, Pinned, Unlocked
<1> QED BY <1>2, <1>3, <1>4, <1>5, <1>6, <1>7, <1>8, <1>9 DEF Waits, Works, Faults

LEMMA LockInvKept ==
  ASSUME IInv, NEW p \in Procs,
         Begin(p) \/ Validate(p) \/ Waits(p) \/ Works(p) \/ Faults(p)
  PROVE  LockInv'
<1>1. ASSUME NEW r \in Procs, r # p
      PROVE  /\ lock' = r => pc'[r] \in Pinned
             /\ pc'[r] \in Pinned \ {"unlock", "markFailed"} => lock' = r
  <2>1. pc'[r] = pc[r]
    BY <1>1, OthersUntouched DEF IInv
  <2>2. lock' = r => lock = r
    BY <1>1, StepWrites, CallerAssumption DEF CallerAssumption
  <2>3. lock = r => lock' = r
    BY <1>1, LockStaysWithOthers
  <2> QED BY <1>1, <2>1, <2>2, <2>3 DEF IInv, LockInv
<1> QED BY <1>1, OwnLock DEF LockInv

-----------------------------------------------------------------------------
(* What a process concluded stays true                                      *)

LEMMA SettledStays ==
  ASSUME IInv, NEW p \in Procs, Writes(p) \/ UNCHANGED dbVars,
         NEW r \in Procs, call'[r] = call[r], NEW m, m.seq \in Seqs
  PROVE  /\ Settled(r, m) => Settled(r, m)'
         /\ IsApplied(Row(r, m)) => IsApplied(Row(r, m))'
<1>1. Scope(r) \in Scopes /\ Scope(r)' = Scope(r)
  BY TreesAreChains DEF IInv, TypeInv, Scope
<1>2. KeepsApplied(Row(r, m), Row(r, m)')
  BY <1>1, WritesKeepTruth DEF Row
<1> QED BY <1>2 DEF KeepsApplied, Settled

(* A verdict is not touched by the steps of other processes.                *)
LEMMA VerdictStays ==
  ASSUME IInv, NEW p \in Procs, Writes(p) \/ UNCHANGED dbVars,
         NEW r \in Procs, VerdictOf(r),
         pc'[r] = pc[r], call'[r] = call[r], outcome'[r] = outcome[r]
  PROVE  VerdictOf(r)'
<1>1. call[r].tree \in Seq(Migrations)
  BY TreesAreChains DEF IInv, TypeInv
<1>2. outcome[r] = "ok" => \A m \in Files(call[r].tree) : m.seq \in Seqs
  BY <1>1, ValidChain DEF VerdictOf
<1> QED BY <1>2, SettledStays DEF VerdictOf

(* A tree's files have numbers, and no two the same.                        *)
LEMMA TreeKeys ==
  ASSUME TypeInv, NEW p \in Procs, pc[p] # "idle"
  PROVE  /\ \A m \in Files(call[p].tree) : m \in Migrations /\ m.seq \in Seqs
         /\ \A m, n \in Files(call[p].tree) : m.seq = n.seq => m = n
         /\ todo[p] \subseteq Files(call[p].tree)
         /\ Scope(p) \in Scopes
BY TreesAreChains, ValidChain, FilesAreMigrations DEF TypeInv, CallInv, Scope

(* When a file is done, every file of the tree but the remaining ones is    *)
(* settled, and nothing else of the scope changed.                          *)
LEMMA DoneIsSettled ==
  ASSUME IInv, NEW p \in Procs, NEW m \in todo[p],
         CommitMigration(p, m) \/ RecordSuccess(p, m), call' = call
  PROVE  /\ \A n \in Files(call[p].tree) \ (todo[p] \ {m}) : Settled(p, n)'
         /\ \A q \in Seqs : ~IsDirty(ledger'[Scope(p)][q])
         /\ \A n \in todo[p] \ {m} : ~Recorded(ledger'[Scope(p)][n.seq])
         /\ Scope(p) \in namespace'
<1>1. pc[p] \in {"apply", "finish"} /\ lock = p
  BY DEF CommitMigration, RecordSuccess
<1>2. /\ m \in Migrations /\ m.seq \in Seqs /\ Scope(p) \in Scopes
      /\ \A n \in Files(call[p].tree) : n.seq \in Seqs
      /\ \A n \in Files(call[p].tree) : n.seq = m.seq => n = m
      /\ todo[p] \subseteq Files(call[p].tree)
  BY <1>1, TreeKeys DEF IInv
<1>3. \E new, pieces : /\ Touches(p, m.seq, new, pieces)
                       /\ IsApplied(new) /\ new.filename = m.name
  <2>1. CASE CommitMigration(p, m)
    <3>1. IsApplied(RowOf(m, StatusApplied)) /\ RowOf(m, StatusApplied).filename = m.name
      BY <1>2, RowOfType, NoRowAssumption
      DEF IsApplied, IsDirty, Recorded, RowOf, NoRowAssumption, StatusApplied
    <3> QED BY <2>1, <3>1, CommitEffect
  <2>2. CASE RecordSuccess(p, m)
    BY <2>2, SuccessEffect
  <2> QED BY <2>1, <2>2
<1>4. PICK new, pieces : /\ Touches(p, m.seq, new, pieces)
                         /\ IsApplied(new) /\ new.filename = m.name
  BY <1>3
<1>5. \A q \in Seqs \ {m.seq} : ledger'[Scope(p)][q] = ledger[Scope(p)][q]
  BY <1>2, <1>4 DEF Touches
<1>6. ledger'[Scope(p)][m.seq] = new
  BY <1>2, <1>4 DEF Touches
<1>7. /\ \A q \in Seqs \ {m.seq} : ~IsDirty(ledger[Scope(p)][q])
      /\ \A n \in todo[p] \ {m} : ~Recorded(Row(p, n))
      /\ \A n \in Files(call[p].tree) \ todo[p] : Settled(p, n)
      /\ Scope(p) \in namespace
  <2>1. CASE CommitMigration(p, m)
    BY <2>1 DEF CommitMigration, IInv, WorkInv, WorkOf, Working
  <2>2. CASE RecordSuccess(p, m)
    <3>1. Underway(p, m)
      BY <2>2, SuccessEffect
    <3> QED BY <2>2, <3>1 DEF RecordSuccess, Underway, IInv, WorkInv, WorkOf, Working
  <2> QED BY <2>1, <2>2
<1>8. \A q \in Seqs : ~IsDirty(ledger'[Scope(p)][q])
  BY <1>4, <1>5, <1>6, <1>7 DEF IsApplied
<1>9. \A n \in todo[p] \ {m} : ~Recorded(ledger'[Scope(p)][n.seq])
  BY <1>2, <1>5, <1>7 DEF Row
<1>10. ASSUME NEW n \in Files(call[p].tree) \ (todo[p] \ {m}) PROVE Settled(p, n)'
  <2>1. Row(p, n)' = ledger'[Scope(p)][n.seq]
    BY DEF Row, Scope
  <2>2. CASE n = m
    BY <1>4, <1>6, <2>1, <2>2 DEF Settled
  <2>3. CASE n # m
    <3>1. ledger'[Scope(p)][n.seq] = Row(p, n) /\ Settled(p, n)
      BY <1>2, <1>5, <1>7, <2>3 DEF Row
    <3> QED BY <2>1, <3>1 DEF Settled
  <2> QED BY <2>2, <2>3
<1>11. namespace' = namespace
  BY DEF CommitMigration, RecordSuccess
<1> QED BY <1>7, <1>8, <1>9, <1>10, <1>11

(* A call that ends without a success leaves no claim behind.               *)
LEMMA NoClaimAfterReturn ==
  ASSUME TypeInv, NEW p \in Procs, NEW result \in {"none", "error", "crashed"}, Return(p, result)
  PROVE  VerdictOf(p)'
BY NoCallType DEF Return, Goto, VerdictOf, TypeInv, TypeOK

LEMMA NoClaimWhileUnwinding ==
  ASSUME TypeInv, NEW p \in Procs, pc[p] # "idle", Unwind(p, "error")
  PROVE  VerdictOf(p)'
BY DEF Unwind, Goto, VerdictOf, TypeInv, TypeOK, CallInv

(* A call in the middle of its work has no verdict yet.                     *)
LEMMA NoVerdictYet ==
  ASSUME IInv, NEW p \in Procs, pc[p] \notin {"idle", "unlock"},
         UNCHANGED <<call, outcome>>, NEW where \in Unlocked \cup Pinned, Goto(p, where)
  PROVE  VerdictOf(p)'
BY DEF IInv, TypeInv, TypeOK, CallInv, VerdictInv, VerdictOf, Goto, Unlocked, Pinned

LEMMA VerdictOfAdvance ==
  ASSUME IInv, NEW p \in Procs, NEW m \in todo[p],
         CommitMigration(p, m) \/ RecordSuccess(p, m), Advance(p, m)
  PROVE  VerdictOf(p)'
<1>1. pc[p] \in {"apply", "finish"} /\ call' = call
  BY DEF CommitMigration, RecordSuccess, Advance, Unwind
<1>2. CASE todo[p] = {m}
  <2>1. pc'[p] = "unlock" /\ outcome'[p] = "ok"
    BY <1>2 DEF Advance, Unwind, Goto, IInv, TypeInv, TypeOK
  <2>2. \A n \in Files(call[p].tree) : Settled(p, n)'
    BY <1>1, <1>2, DoneIsSettled
  <2>3. ValidateSequences(call[p].tree) /\ call[p].verb = "apply"
    BY <1>1 DEF IInv, TypeInv, CallInv
  <2> QED BY <1>1, <2>1, <2>2, <2>3 DEF VerdictOf
<1>3. CASE todo[p] # {m}
  BY <1>1, <1>3, NoVerdictYet DEF Advance, Pinned
<1> QED BY <1>2, <1>3

LEMMA VerdictOfCheck ==
  ASSUME IInv, NEW p \in Procs, UNCHANGED dbVars, pc[p] # "idle",
         ~Blocked(p), ToApply(p) = {}, Return(p, "ok") \/ Unwind(p, "ok")
  PROVE  VerdictOf(p)'
<1>1. call' = call /\ ledger' = ledger
  BY DEF Return, Unwind, dbVars
<1>2. pc'[p] \in {"idle", "unlock"} /\ outcome'[p] = "ok"
  BY DEF Return, Unwind, Goto, IInv, TypeInv, TypeOK
<1>3. \A m \in Files(call[p].tree) : Settled(p, m)
  BY CleanCheck DEF ToApply, Pending, IInv, Row
<1>4. ValidateSequences(call[p].tree) /\ call[p].verb = "apply"
  BY DEF IInv, TypeInv, CallInv
<1> QED BY <1>1, <1>2, <1>3, <1>4 DEF VerdictOf, Settled, Row, Scope

LEMMA VerdictOfStart ==
  ASSUME IInv, NEW p \in Procs, Begin(p) \/ Validate(p)
  PROVE  VerdictOf(p)'
<1>1. p \in DOMAIN call /\ p \in DOMAIN outcome /\ p \in DOMAIN pc
  BY DEF IInv, TypeInv, TypeOK
<1>2. CASE Begin(p)
  <2>1. PICK s \in Scopes, t \in Trees, e \in Exemptions :
          \/ /\ call' = [call EXCEPT ![p] = [verb |-> "apply", scope |-> s, tree |-> t, exempt |-> e]]
             /\ outcome' = [outcome EXCEPT ![p] = "none"]
          \/ /\ call' = [call EXCEPT ![p] = NoCall]
             /\ outcome' = [outcome EXCEPT ![p] = "error"]
             /\ pc' = pc
    BY <1>2 DEF Begin
  <2>2. pc[p] = "idle"
    BY <1>2 DEF Begin
  <2> QED BY <1>1, <2>1, <2>2, NoCallType DEF VerdictOf
<1>3. CASE Validate(p)
  <2>1. PICK s \in Scopes, t \in Trees :
          \/ /\ Validated(s, t)
             /\ call' = [call EXCEPT ![p] = [verb |-> "validate", scope |-> s, tree |-> t, exempt |-> {}]]
             /\ outcome' = [outcome EXCEPT ![p] = "ok"]
          \/ /\ call' = [call EXCEPT ![p] = NoCall]
             /\ outcome' = [outcome EXCEPT ![p] = "error"]
    BY <1>3 DEF Validate
  <2>2. pc[p] = "idle" /\ pc' = pc /\ ledger' = ledger
    BY <1>3 DEF Validate, dbVars
  <2>3. CASE /\ Validated(s, t)
             /\ call' = [call EXCEPT ![p] = [verb |-> "validate", scope |-> s, tree |-> t, exempt |-> {}]]
             /\ outcome' = [outcome EXCEPT ![p] = "ok"]
    <3>1. call'[p].scope = s /\ call'[p].tree = t /\ call'[p].verb = "validate"
      BY <1>1, <2>3
    <3>2. \A m \in Files(t) : IsApplied(ledger[s][m.seq])
      <4>1. \A q \in AppliedKeys(ledger[s]) : IsApplied(ledger[s][q])
        BY DEF AppliedKeys, IsApplied, IsDirty
      <4>2. InTree(t) \subseteq AppliedKeys(ledger[s]) \/ Files(t) = {}
        BY <2>3 DEF Validated, Files
      <4> QED BY <4>1, <4>2 DEF InTree
    <3> QED BY <1>1, <2>2, <2>3, <3>1, <3>2 DEF VerdictOf, Validated, Row, Scope
  <2>4. CASE /\ call' = [call EXCEPT ![p] = NoCall]
             /\ outcome' = [outcome EXCEPT ![p] = "error"]
    BY <1>1, <2>2, <2>4, NoCallType DEF VerdictOf
  <2> QED BY <2>1, <2>3, <2>4
<1> QED BY <1>2, <1>3

LEMMA OwnVerdict ==
  ASSUME IInv, NEW p \in Procs,
         Begin(p) \/ Validate(p) \/ Waits(p) \/ Works(p) \/ Faults(p)
  PROVE  VerdictOf(p)'
<1>0. TypeInv /\ VerdictOf(p)
  BY DEF IInv, VerdictInv
<1>1. CASE Begin(p) \/ Validate(p)
  BY <1>1, VerdictOfStart
<1>2. CASE EnsureSetup(p) \/ AcquireLock(p) \/ EnsureSchema(p)
  BY <1>2, NoVerdictYet DEF EnsureSetup, CreateTracker, AcquireLock, EnsureSchema, CreateSchema,
                            Unlocked, Pinned
<1>3. CASE ReadForStamps(p) \/ Stamp(p)
  <2>1. PICK where \in {"check", "stamp"} : Goto(p, where)
    BY <1>3 DEF ReadForStamps, Stamp
  <2> QED BY <1>3, <2>1, NoVerdictYet DEF ReadForStamps, Stamp, StampRow, Unlocked
<1>4. CASE CheckUnlocked(p) \/ CheckLocked(p)
  <2>1. pc[p] \in {"check", "recheck"} /\ UNCHANGED dbVars
    BY <1>4 DEF CheckUnlocked, CheckLocked
  <2>2. CASE Return(p, "error") \/ Unwind(p, "error")
    BY <1>0, <2>1, <2>2, NoClaimAfterReturn, NoClaimWhileUnwinding
  <2>3. CASE ~Blocked(p) /\ ToApply(p) = {} /\ (Return(p, "ok") \/ Unwind(p, "ok"))
    BY <2>1, <2>3, VerdictOfCheck
  <2>4. CASE UNCHANGED <<call, outcome>> /\ (Goto(p, "lock") \/ Goto(p, "createSchema"))
    BY <2>1, <2>4, NoVerdictYet DEF Unlocked, Pinned
  <2> QED BY <1>4, <2>2, <2>3, <2>4 DEF CheckUnlocked, CheckLocked
<1>5. CASE ApplyOne(p) \/ FinishNoTx(p)
  BY <1>5, VerdictOfAdvance DEF ApplyOne, FinishNoTx
<1>6. CASE ClaimNoTx(p) \/ ExecNoTx(p)
  <2>1. PICK where \in {"exec", "finish"} : Goto(p, where)
    BY <1>6 DEF ClaimNoTx, ExecNoTx
  <2> QED BY <1>6, <2>1, NoVerdictYet DEF ClaimNoTx, ClaimRow, ExecNoTx, RunStatement, Pinned
<1>7. CASE MarkFailed(p)
  BY <1>0, <1>7, NoClaimWhileUnwinding DEF MarkFailed
<1>8. CASE Unlock(p)
  <2>1. CASE lock = p /\ outcome[p] = "ok"
    <3>1. UNCHANGED <<call, ledger>> /\ pc'[p] = "idle" /\ outcome'[p] = "ok"
      BY <1>8, <2>1 DEF Unlock, Return, Goto, dbVars, IInv, TypeInv, TypeOK
    <3>2. call[p].verb = "apply"
      BY <1>8 DEF Unlock, IInv, TypeInv, CallInv
    <3> QED BY <1>0, <2>1, <3>1, <3>2 DEF VerdictOf, Settled, Row, Scope
  <2>2. CASE ~(lock = p /\ outcome[p] = "ok")
    <3>1. PICK result \in {"none", "error", "crashed"} : Return(p, result)
      BY <1>8, <2>2 DEF Unlock, IInv, TypeInv, TypeOK
    <3> QED BY <1>0, <3>1, NoClaimAfterReturn
  <2> QED BY <2>1, <2>2
<1>9. CASE Faults(p)
  <2>1. CASE Return(p, "error") \/ Return(p, "crashed")
    BY <1>0, <2>1, NoClaimAfterReturn
  <2>2. CASE pc[p] \in Pinned \ {"exec"} /\ Unwind(p, "error")
    BY <1>0, <2>2, NoClaimWhileUnwinding DEF Pinned
  <2>3. CASE pc[p] = "exec" /\ Goto(p, "markFailed") /\ UNCHANGED <<call, outcome>>
    BY <2>3, NoVerdictYet DEF Pinned
  <2> QED BY <1>9, <2>1, <2>2, <2>3 DEF Faults, StatementFails, ConnectionLost, Crash, ErrorPath
<1> QED BY <1>1, <1>2, <1>3, <1>4, <1>5, <1>6, <1>7, <1>8, <1>9 DEF Waits, Works

LEMMA VerdictInvKept ==
  ASSUME IInv, NEW p \in Procs,
         Begin(p) \/ Validate(p) \/ Waits(p) \/ Works(p) \/ Faults(p)
  PROVE  VerdictInv'
<1>1. ASSUME NEW r \in Procs, r # p PROVE VerdictOf(r)'
  <2>1. Writes(p) \/ UNCHANGED dbVars
    BY StepWrites
  <2>2. pc'[r] = pc[r] /\ call'[r] = call[r] /\ outcome'[r] = outcome[r]
    BY <1>1, OthersUntouched DEF IInv
  <2>3. VerdictOf(r)
    BY DEF IInv, VerdictInv
  <2> QED BY <2>1, <2>2, <2>3, VerdictStays
<1> QED BY <1>1, OwnVerdict DEF VerdictInv

(* What a lock holder knows survives the steps of the others.               *)
LEMMA WorkStays ==
  ASSUME IInv, NEW p \in Procs, NEW r \in Procs, r # p, lock = r, WorkOf(r),
         Writes(p) \/ UNCHANGED dbVars,
         pc'[r] = pc[r], call'[r] = call[r], todo'[r] = todo[r], stmt'[r] = stmt[r]
  PROVE  WorkOf(r)'
<1>1. /\ UNCHANGED <<landed, namespace>>
      /\ \A s \in Scopes, q \in Seqs :
           /\ Recorded(ledger'[s][q]) <=> Recorded(ledger[s][q])
           /\ IsDirty(ledger'[s][q]) <=> IsDirty(ledger[s][q])
           /\ Recorded(ledger[s][q]) => /\ ledger'[s][q].filename = ledger[s][q].filename
                                        /\ ledger'[s][q].digest = ledger[s][q].digest
                                        /\ ledger'[s][q].status = ledger[s][q].status
  BY QuietForOthers DEF IInv
<1>2. pc[r] # "idle"
  BY DEF IInv, LockInv, Pinned
<1>3. /\ \A m \in Files(call[r].tree) : m \in Migrations /\ m.seq \in Seqs
      /\ todo[r] \subseteq Files(call[r].tree)
      /\ Scope(r) \in Scopes /\ Scope(r)' = Scope(r)
  BY <1>2, TreeKeys DEF IInv, Scope
<1>4. ASSUME NEW m \in Files(call[r].tree)
      PROVE  /\ Recorded(Row(r, m))' <=> Recorded(Row(r, m))
             /\ IsDirty(Row(r, m))' <=> IsDirty(Row(r, m))
             /\ Recorded(Row(r, m)) => /\ Row(r, m)'.filename = Row(r, m).filename
                                       /\ Row(r, m)'.digest = Row(r, m).digest
                                       /\ Row(r, m)'.status = Row(r, m).status
  <2>1. m.seq \in Seqs /\ Row(r, m)' = ledger'[Scope(r)][m.seq]
    BY <1>3 DEF Row
  <2>2. Recorded(Row(r, m))' <=> Recorded(ledger'[Scope(r)][m.seq])
    BY <2>1 DEF Recorded
  <2>3. IsDirty(Row(r, m))' <=> IsDirty(ledger'[Scope(r)][m.seq])
    BY <2>1 DEF IsDirty, Recorded
  <2> QED BY <1>1, <1>3, <2>1, <2>2, <2>3 DEF Row
<1>5. ASSUME NEW m \in Files(call[r].tree), Settled(r, m) PROVE Settled(r, m)'
  <2>1. IsApplied(Row(r, m))'
    BY <1>4, <1>5 DEF Settled, IsApplied
  <2> QED BY <1>4, <1>5, <2>1 DEF Settled, IsApplied
<1>6. \A q \in Seqs : IsDirty(ledger[Scope(r)][q])' <=> IsDirty(ledger[Scope(r)][q])
  <2> TAKE q \in Seqs
  <2>1. IsDirty(ledger'[Scope(r)][q]) <=> IsDirty(ledger[Scope(r)][q])
    BY <1>1, <1>3
  <2>2. IsDirty(ledger[Scope(r)][q])' <=> IsDirty(ledger'[Scope(r)][q])
    BY <1>3 DEF IsDirty, Recorded
  <2> QED BY <2>1, <2>2
<1>7. ASSUME NEW m \in todo[r], Underway(r, m) PROVE Underway(r, m)'
  <2>1. m \in Files(call[r].tree) /\ IsDirty(Row(r, m))
    BY <1>3, <1>7 DEF Underway
  <2>2. IsNext(r, m)'
    BY <1>7 DEF Underway, IsNext
  <2>3. (/\ IsDirty(Row(r, m)) /\ Row(r, m).filename = m.name /\ Row(r, m).digest = m.bytes
         /\ Row(r, m).status = StatusRunning)'
    BY <1>4, <1>7, <2>1 DEF Underway, IsDirty
  <2>4. (\A q \in Seqs \ {m.seq} : ~IsDirty(ledger[Scope(r)][q]))'
    BY <1>6, <1>7 DEF Underway
  <2>5. (\A n \in todo[r] \ {m} : ~Recorded(Row(r, n)))'
    BY <1>3, <1>4, <1>7 DEF Underway
  <2>6. (/\ pc[r] = "exec" => /\ stmt[r] \in 1..m.stmts
                              /\ landed[Scope(r)][m.seq] = [k \in 1..(stmt[r] - 1) |-> <<m, k>>]
         /\ pc[r] = "finish" => landed[Scope(r)][m.seq] = Units(m))'
    BY <1>1, <1>3, <1>7 DEF Underway
  <2> QED BY <2>2, <2>3, <2>4, <2>5, <2>6 DEF Underway
<1>8. (pc[r] \in {"createSchema", "apply"} =>
         /\ \A q \in Seqs : ~IsDirty(ledger[Scope(r)][q])
         /\ \A m \in todo[r] : ~Recorded(Row(r, m)))'
  BY <1>3, <1>4, <1>6 DEF WorkOf
<1>9. (pc[r] \in OnNoTx => \E m \in todo[r] : Underway(r, m))'
  BY <1>7 DEF WorkOf
<1>10. (pc[r] \in Working \ {"markFailed"} =>
          \A m \in Files(call[r].tree) \ todo[r] : Settled(r, m))'
  BY <1>5 DEF WorkOf
<1>11. (pc[r] \in Working \ {"createSchema"} => Scope(r) \in namespace)'
  BY <1>1, <1>3 DEF WorkOf
<1> QED BY <1>8, <1>9, <1>10, <1>11 DEF WorkOf

(* Steps that write nothing or outside the ledger, seen by the lock holder. *)
LEMMA WorkOfCheck ==
  ASSUME IInv, NEW p \in Procs, CheckLocked(p)
  PROVE  WorkOf(p)'
<1>1. pc[p] = "recheck" /\ p \in DOMAIN pc /\ p \in DOMAIN todo /\ TypeInv
  BY DEF CheckLocked, IInv, TypeInv, TypeOK
<1>2. CASE pc'[p] = "unlock"
  BY <1>2 DEF WorkOf, OnNoTx, Working
<1>3. CASE /\ ~Blocked(p)
           /\ todo' = [todo EXCEPT ![p] = ToApply(p)]
           /\ Goto(p, "createSchema")
           /\ UNCHANGED <<call, stmt, outcome>>
  <2>1. ledger' = ledger /\ pc'[p] = "createSchema" /\ todo'[p] = ToApply(p) /\ call' = call
    BY <1>1, <1>3 DEF CheckLocked, dbVars, Goto
  <2>2. \A q \in Seqs : ~IsDirty(ledger[Scope(p)][q])
    BY <1>1, <1>3, CleanCheck
  <2>3. \A m \in ToApply(p) : ~Recorded(Row(p, m))
    BY DEF ToApply, Pending, Row
  <2>4. \A m \in Files(call[p].tree) \ ToApply(p) : Settled(p, m)
    BY <1>1, <1>3, CleanCheck DEF ToApply, Pending, Row
  <2> QED BY <2>1, <2>2, <2>3, <2>4 DEF WorkOf, OnNoTx, Working, Row, Scope, Settled
<1> QED BY <1>1, <1>2, <1>3 DEF CheckLocked, Unwind, Goto

LEMMA WorkOfSchema ==
  ASSUME IInv, NEW p \in Procs, EnsureSchema(p)
  PROVE  WorkOf(p)'
<1>1. /\ pc[p] = "createSchema" /\ pc'[p] = "apply" /\ lock = p
      /\ UNCHANGED <<ledger, landed, call, todo>> /\ namespace' = namespace \cup {Scope(p)}
  BY DEF EnsureSchema, CreateSchema, Goto, IInv, TypeInv, TypeOK
<1>2. WorkOf(p)
  BY <1>1 DEF IInv, WorkInv
<1> QED BY <1>1, <1>2 DEF WorkOf, OnNoTx, Working, Row, Scope, Settled

LEMMA WorkOfAdvance ==
  ASSUME IInv, NEW p \in Procs, NEW m \in todo[p],
         CommitMigration(p, m) \/ RecordSuccess(p, m), Advance(p, m)
  PROVE  WorkOf(p)'
<1>1. p \in DOMAIN pc /\ p \in DOMAIN todo
  BY DEF IInv, TypeInv, TypeOK
<1>2. CASE todo[p] = {m}
  <2>1. pc'[p] = "unlock"
    BY <1>1, <1>2 DEF Advance, Unwind, Goto
  <2> QED BY <2>1 DEF WorkOf, OnNoTx, Working
<1>3. CASE todo[p] # {m}
  <2>1. pc'[p] = "apply" /\ todo'[p] = todo[p] \ {m} /\ call' = call
    BY <1>1, <1>3 DEF Advance, Goto
  <2>2. /\ \A n \in Files(call[p].tree) \ (todo[p] \ {m}) : Settled(p, n)'
        /\ \A q \in Seqs : ~IsDirty(ledger'[Scope(p)][q])
        /\ \A n \in todo[p] \ {m} : ~Recorded(ledger'[Scope(p)][n.seq])
        /\ Scope(p) \in namespace'
    BY <2>1, DoneIsSettled
  <2>3. Scope(p)' = Scope(p)
    BY <2>1 DEF Scope
  <2>4. (\A q \in Seqs : ~IsDirty(ledger[Scope(p)][q]))'
    BY <2>2, <2>3 DEF IsDirty, Recorded
  <2>5. (\A n \in todo[p] : ~Recorded(Row(p, n)))'
    BY <2>1, <2>2, <2>3 DEF Row, Recorded
  <2> QED BY <2>1, <2>2, <2>3, <2>4, <2>5 DEF WorkOf, OnNoTx, Working
<1> QED BY <1>2, <1>3

LEMMA WorkOfClaim ==
  ASSUME IInv, NEW p \in Procs, ClaimNoTx(p)
  PROVE  WorkOf(p)'
<1>1. PICK m \in todo[p] : ClaimRow(p, m)
  BY DEF ClaimNoTx
<1>2. /\ pc[p] = "apply" /\ pc'[p] = "exec" /\ stmt'[p] = 1 /\ UNCHANGED <<call, todo>> /\ lock = p
  BY <1>1 DEF ClaimNoTx, ClaimRow, Goto, IInv, TypeInv, TypeOK
<1>3. /\ Touches(p, m.seq, RowOf(m, StatusRunning), <<>>)
      /\ landed[Scope(p)][m.seq] = <<>> /\ m \in Migrations /\ m.seq \in Seqs
      /\ UNCHANGED <<landed, namespace>>
  BY <1>1, ClaimEffect
<1>4. /\ \A n \in Files(call[p].tree) : n.seq \in Seqs
      /\ \A n \in Files(call[p].tree) : n.seq = m.seq => n = m
      /\ todo[p] \subseteq Files(call[p].tree)
      /\ Scope(p) \in Scopes
  BY <1>1, <1>2, TreeKeys DEF IInv
<1>5. /\ \A q \in Seqs : ~IsDirty(ledger[Scope(p)][q])
      /\ \A n \in todo[p] : ~Recorded(Row(p, n))
      /\ \A n \in Files(call[p].tree) \ todo[p] : Settled(p, n)
      /\ Scope(p) \in namespace
  BY <1>2 DEF IInv, WorkInv, WorkOf, Working
<1>6. /\ ledger'[Scope(p)][m.seq] = RowOf(m, StatusRunning)
      /\ \A q \in Seqs \ {m.seq} : ledger'[Scope(p)][q] = ledger[Scope(p)][q]
  BY <1>3, <1>4 DEF Touches
<1>7. Scope(p)' = Scope(p) /\ IsNext(p, m)' /\ Row(p, m)' = RowOf(m, StatusRunning)
  BY <1>1, <1>2, <1>6 DEF Scope, ClaimRow, IsNext, Row
<1>8. ASSUME NEW n \in Files(call[p].tree), n # m PROVE Row(p, n)' = Row(p, n)
  BY <1>4, <1>6, <1>7, <1>8 DEF Row
<1>9. /\ IsDirty(RowOf(m, StatusRunning)) /\ RowOf(m, StatusRunning).filename = m.name
      /\ RowOf(m, StatusRunning).digest = m.bytes /\ RowOf(m, StatusRunning).status = StatusRunning
  BY <1>3, RowOfType, NoRowAssumption
  DEF IsDirty, Recorded, RowOf, ContentDigest, NoRowAssumption, StatusRunning, StatusApplied
<1>10. Underway(p, m)'
  <2>1. (/\ IsDirty(Row(p, m)) /\ Row(p, m).filename = m.name /\ Row(p, m).digest = m.bytes
         /\ Row(p, m).status = StatusRunning)'
    BY <1>7, <1>9 DEF IsDirty, Recorded
  <2>2. (\A q \in Seqs \ {m.seq} : ~IsDirty(ledger[Scope(p)][q]))'
    BY <1>5, <1>6, <1>7 DEF IsDirty, Recorded
  <2>3. (\A n \in todo[p] \ {m} : ~Recorded(Row(p, n)))'
    BY <1>2, <1>4, <1>5, <1>8 DEF Recorded
  <2>4. stmt'[p] \in 1..m.stmts
    BY <1>2, <1>3, UnitsType
  <2>5. landed'[Scope(p)'][m.seq] = [k \in 1..(stmt'[p] - 1) |-> <<m, k>>]
    <3>1. [k \in 1..(1 - 1) |-> <<m, k>>] = <<>>
      OBVIOUS
    <3> QED BY <1>2, <1>3, <1>7, <3>1
  <2>6. pc'[p] # "finish"
    BY <1>2
  <2> QED BY <1>7, <2>1, <2>2, <2>3, <2>4, <2>5, <2>6 DEF Underway
<1>11. ASSUME NEW n \in Files(call[p].tree) \ todo[p] PROVE Settled(p, n)'
  BY <1>1, <1>5, <1>8 DEF Settled, IsApplied, IsDirty, Recorded
<1> QED BY <1>1, <1>2, <1>3, <1>5, <1>7, <1>10, <1>11 DEF WorkOf, OnNoTx, Working

LEMMA WorkOfExec ==
  ASSUME IInv, NEW p \in Procs, ExecNoTx(p)
  PROVE  WorkOf(p)'
<1>1. PICK m \in todo[p] : /\ RunStatement(p, m)
                           /\ stmt' = [stmt EXCEPT ![p] = stmt[p] + 1]
                           /\ Goto(p, IF stmt[p] = m.stmts THEN "finish" ELSE "exec")
  BY DEF ExecNoTx
<1>2. /\ Touches(p, m.seq, Row(p, m), [i \in 1..stmt[p] |-> <<m, i>>])
      /\ Underway(p, m) /\ m \in Migrations /\ m.seq \in Seqs
      /\ UNCHANGED <<ledger, namespace>> /\ Scope(p) \in namespace
  BY <1>1, RunEffect
<1>3. /\ pc[p] = "exec" /\ lock = p /\ UNCHANGED <<call, todo>>
      /\ stmt[p] \in Nat /\ stmt'[p] = stmt[p] + 1
      /\ pc'[p] = IF stmt[p] = m.stmts THEN "finish" ELSE "exec"
  BY <1>1 DEF ExecNoTx, RunStatement, Goto, IInv, TypeInv, TypeOK
<1>4. Scope(p)' = Scope(p) /\ Scope(p) \in Scopes
  BY <1>3, TreesAreChains DEF IInv, TypeInv, Scope
<1>5. landed'[Scope(p)][m.seq] = [i \in 1..stmt[p] |-> <<m, i>>]
  BY <1>2, <1>4 DEF Touches
<1>6. stmt[p] \in 1..m.stmts /\ m.stmts \in Nat
  BY <1>2, <1>3, UnitsType DEF Underway
<1>7. Underway(p, m)'
  <2>1. (/\ IsNext(p, m)
         /\ IsDirty(Row(p, m)) /\ Row(p, m).filename = m.name /\ Row(p, m).digest = m.bytes
         /\ Row(p, m).status = StatusRunning
         /\ \A q \in Seqs \ {m.seq} : ~IsDirty(ledger[Scope(p)][q])
         /\ \A n \in todo[p] \ {m} : ~Recorded(Row(p, n)))'
    BY <1>2, <1>3 DEF Underway, IsNext, Row, Scope
  <2>2. CASE stmt[p] = m.stmts
    <3>1. pc'[p] = "finish"
      BY <1>3, <2>2
    <3>2. landed'[Scope(p)'][m.seq] = Units(m)
      BY <1>4, <1>5, <2>2 DEF Units
    <3> QED BY <2>1, <3>1, <3>2 DEF Underway
  <2>3. CASE stmt[p] # m.stmts
    <3>1. pc'[p] = "exec" /\ stmt'[p] \in 1..m.stmts /\ stmt'[p] - 1 = stmt[p]
      BY <1>3, <1>6, <2>3
    <3>2. landed'[Scope(p)'][m.seq] = [k \in 1..(stmt'[p] - 1) |-> <<m, k>>]
      BY <1>4, <1>5, <3>1
    <3> QED BY <2>1, <3>1, <3>2 DEF Underway
  <2> QED BY <2>2, <2>3
<1>8. WorkOf(p)
  BY <1>3 DEF IInv, WorkInv
<1>9. \A n \in Files(call[p].tree) \ todo[p] : Settled(p, n)'
  BY <1>2, <1>3, <1>8 DEF WorkOf, Working, Settled, Row, Scope
<1> QED BY <1>1, <1>2, <1>3, <1>4, <1>7, <1>9 DEF WorkOf, OnNoTx, Working

LEMMA WorkOfFailure ==
  ASSUME IInv, NEW p \in Procs, StatementFails(p), lock = p
  PROVE  WorkOf(p)'
<1>1. pc[p] \in Pinned /\ p \in DOMAIN pc
  BY DEF IInv, LockInv, TypeInv, TypeOK
<1>2. CASE pc[p] = "exec" /\ Goto(p, "markFailed") /\ UNCHANGED <<call, todo, stmt, outcome>>
  <2>1. pc'[p] = "markFailed" /\ UNCHANGED <<ledger, landed, namespace, call, todo, stmt>>
    BY <1>1, <1>2 DEF Goto, StatementFails, dbVars
  <2>2. PICK m \in todo[p] : Underway(p, m)
    BY <1>2 DEF IInv, WorkInv, WorkOf, OnNoTx
  <2>3. Underway(p, m)'
    BY <2>1, <2>2 DEF Underway, IsNext, Row, Scope
  <2>4. Scope(p) \in namespace
    BY <1>2 DEF IInv, WorkInv, WorkOf, Working
  <2> QED BY <2>1, <2>2, <2>3, <2>4 DEF WorkOf, OnNoTx, Working, Scope
<1>3. CASE pc'[p] = "unlock"
  BY <1>3 DEF WorkOf, OnNoTx, Working
<1> QED BY <1>1, <1>2, <1>3 DEF StatementFails, ErrorPath, Unwind, Goto, Pinned, Unlocked

LEMMA OwnWork ==
  ASSUME IInv, NEW p \in Procs, lock' = p,
         Begin(p) \/ Validate(p) \/ Waits(p) \/ Works(p) \/ Faults(p)
  PROVE  WorkOf(p)'
<1>1. /\ lock = p => pc[p] \in Pinned
      /\ p # Nobody /\ p \in DOMAIN pc
  BY CallerAssumption DEF IInv, LockInv, TypeInv, TypeOK, CallerAssumption
<1>2. CASE AcquireLock(p)
  <2>1. pc'[p] = "recheck"
    BY <1>1, <1>2 DEF AcquireLock, Goto
  <2> QED BY <2>1 DEF WorkOf, OnNoTx, Working
<1>3. CASE MarkFailed(p)
  <2>1. pc'[p] = "unlock"
    BY <1>1, <1>3 DEF MarkFailed, Unwind, Goto
  <2> QED BY <2>1 DEF WorkOf, OnNoTx, Working
<1>4. CASE ApplyOne(p) \/ FinishNoTx(p)
  BY <1>4, WorkOfAdvance DEF ApplyOne, FinishNoTx
<1>5. CASE CheckLocked(p) \/ EnsureSchema(p) \/ ClaimNoTx(p) \/ ExecNoTx(p)
  BY <1>5, WorkOfCheck, WorkOfSchema, WorkOfClaim, WorkOfExec
<1>6. CASE StatementFails(p)
  BY <1>6, WorkOfFailure DEF StatementFails
<1>7. CASE \/ Begin(p) \/ Validate(p) \/ EnsureSetup(p) \/ ReadForStamps(p) \/ Stamp(p)
           \/ CheckUnlocked(p)
  <2>1. lock' = lock /\ pc[p] \notin Pinned
    BY <1>7 DEF Begin, Validate, EnsureSetup, CreateTracker, ReadForStamps, Stamp, StampRow,
                CheckUnlocked, Pinned
  <2> QED BY <1>1, <2>1
<1>8. CASE Unlock(p) \/ ConnectionLost(p) \/ Crash(p)
  BY <1>1, <1>8 DEF Unlock, ConnectionLost, Crash, ReleaseHeld
<1> QED BY <1>2, <1>3, <1>4, <1>5, <1>6, <1>7, <1>8 DEF Waits, Works, Faults

LEMMA WorkInvKept ==
  ASSUME IInv, NEW p \in Procs,
         Begin(p) \/ Validate(p) \/ Waits(p) \/ Works(p) \/ Faults(p)
  PROVE  WorkInv'
<1>1. ASSUME NEW r \in Procs, r # p, lock' = r PROVE WorkOf(r)'
  <2>1. lock = r
    BY <1>1, StepWrites, CallerAssumption DEF CallerAssumption
  <2>2. Writes(p) \/ UNCHANGED dbVars
    BY StepWrites
  <2>3. pc'[r] = pc[r] /\ call'[r] = call[r] /\ todo'[r] = todo[r] /\ stmt'[r] = stmt[r]
    BY <1>1, OthersUntouched DEF IInv
  <2>4. WorkOf(r)
    BY <2>1 DEF IInv, WorkInv
  <2> QED BY <1>1, <2>1, <2>2, <2>3, <2>4, WorkStays
<1> QED BY <1>1, OwnWork DEF WorkInv

-----------------------------------------------------------------------------
(* The safety theorems *)

LEMMA InitIInv == ASSUME Init PROVE IInv
<1>1. TypeInv
  BY InitTypes
<1>2. LockInv /\ WorkInv
  BY CallerAssumption DEF Init, LockInv, WorkInv, Pinned, CallerAssumption
<1>3. VerdictInv
  BY NoCallType DEF Init, VerdictInv, VerdictOf
<1>4. PICK past \in [Scopes -> Histories], identified \in BOOLEAN, made \in SUBSET Scopes :
        /\ ledger = [s \in Scopes |-> HistoryRows(past[s], identified)]
        /\ landed = [s \in Scopes |-> HistoryPieces(past[s])]
        /\ namespace = {s \in Scopes : past[s] # {}} \cup made
  BY DEF Init
<1>5. LedgerTellsTheTruth
  <2>1. ASSUME NEW s \in Scopes, NEW q \in Seqs
        PROVE  Truthful(HistoryRows(past[s], identified)[q], HistoryPieces(past[s])[q], q)
    <3>1. CASE HistoryRows(past[s], identified)[q] = NoRow /\ HistoryPieces(past[s])[q] = <<>>
      BY <3>1 DEF Truthful, Recorded
    <3>2. ASSUME NEW m \in Migrations, m.seq = q,
                 HistoryRows(past[s], identified)[q] = LegacyRow(m, identified),
                 HistoryPieces(past[s])[q] = Units(m)
          PROVE  Truthful(HistoryRows(past[s], identified)[q], HistoryPieces(past[s])[q], q)
      <4>1. IsApplied(LegacyRow(m, identified)) /\ Recorded(LegacyRow(m, identified))
        BY LegacyRowType, NoRowAssumption
        DEF IsApplied, IsDirty, Recorded, LegacyRow, NoRowAssumption, StatusApplied
      <4>2. Identifies(LegacyRow(m, identified), m)
        BY DEF Identifies, LegacyRow, ContentDigest
      <4> QED BY <3>2, <4>1, <4>2 DEF Truthful
    <3> QED BY <3>1, <3>2, HistoryOf
  <2> QED BY <1>4, <2>1 DEF LedgerTellsTheTruth
<1>6. SchemaBeforeDDL
  <2>1. ASSUME NEW s \in Scopes, past[s] = {}, NEW q \in Seqs PROVE HistoryPieces(past[s])[q] = <<>>
    BY <2>1 DEF HistoryPieces
  <2> QED BY <1>4, <2>1 DEF SchemaBeforeDDL
<1> QED BY <1>1, <1>2, <1>3, <1>5, <1>6 DEF IInv

LEMMA StepIInv == ASSUME IInv, [Next]_vars PROVE IInv'
<1>0. TypeInv'
  BY StepTypes DEF IInv
<1>1. CASE UNCHANGED vars
  <2>1. LockInv'
    BY <1>1 DEF vars, IInv, LockInv
  <2>2. ASSUME NEW p \in Procs PROVE WorkOf(p)' <=> WorkOf(p)
    <3>1. \A m : /\ Row(p, m)' = Row(p, m) /\ IsNext(p, m)' = IsNext(p, m)
                 /\ Settled(p, m)' = Settled(p, m)
      BY <1>1 DEF vars, Row, Scope, IsNext, Settled
    <3>2. \A m : Underway(p, m)' <=> Underway(p, m)
      BY <1>1, <3>1 DEF vars, Underway, Scope
    <3> QED BY <1>1, <3>1, <3>2 DEF vars, WorkOf, Scope
  <2>3. WorkInv'
    BY <1>1, <2>2 DEF vars, IInv, WorkInv
  <2>4. VerdictInv'
    BY <1>1 DEF vars, IInv, VerdictInv, VerdictOf, Settled, Row, Scope
  <2>5. LedgerTellsTheTruth' /\ SchemaBeforeDDL'
    BY <1>1 DEF vars, IInv, LedgerTellsTheTruth, SchemaBeforeDDL
  <2> QED BY <1>0, <2>1, <2>3, <2>4, <2>5 DEF IInv
<1>2. ASSUME NEW p \in Procs, Begin(p) \/ Validate(p) \/ Waits(p) \/ Works(p) \/ Faults(p)
      PROVE  IInv'
  <2>1. Writes(p) \/ UNCHANGED dbVars
    BY <1>2, StepWrites
  <2>2. LedgerTellsTheTruth' /\ SchemaBeforeDDL'
    BY <2>1, WritesKeepTruth
  <2>3. LockInv' /\ WorkInv' /\ VerdictInv'
    BY <1>2, LockInvKept, WorkInvKept, VerdictInvKept
  <2> QED BY <1>0, <2>2, <2>3 DEF IInv
<1> QED BY <1>1, <1>2 DEF Next

(* The inductive invariant holds in every reachable state.                  *)
THEOREM Invariance == Spec => []IInv
<1>1. Init => IInv
  BY InitIInv
<1>2. IInv /\ [Next]_vars => IInv'
  BY StepIInv
<1> QED BY <1>1, <1>2, PTL DEF Spec

(* The ledger never lies about the schema: whatever crashes, drops or       *)
(* competes, an applied row stands for exactly one complete run of its file. *)
THEOREM LedgerTruthAlways == Spec => []LedgerTellsTheTruth
<1>1. IInv => LedgerTellsTheTruth
  BY DEF IInv
<1> QED BY <1>1, Invariance, PTL

(* No DDL lands in a scope whose schema was not created first.              *)
THEOREM SchemaFirstAlways == Spec => []SchemaBeforeDDL
<1>1. IInv => SchemaBeforeDDL
  BY DEF IInv
<1> QED BY <1>1, Invariance, PTL

(* A nil from ApplyMigrations means every file of the tree is complete in   *)
(* the schema, under that name: the verdict rests on rows that read applied *)
(* for those names (VerdictInv), and such rows do not lie.                  *)
THEOREM SuccessMeansAppliedAlways == Spec => []SuccessMeansApplied
<1>1. IInv => SuccessMeansApplied
  <2> SUFFICES ASSUME IInv, NEW p \in Procs, call[p].verb = "apply", outcome[p] = "ok",
                      NEW m \in Files(call[p].tree)
               PROVE  \E n \in Migrations : /\ n.seq = m.seq
                                            /\ landed[Scope(p)][m.seq] = Units(n)
                                            /\ Row(p, m).filename # NoName => n.name = m.name
    BY DEF SuccessMeansApplied
  <2>1. ValidateSequences(call[p].tree) /\ Settled(p, m)
    BY DEF IInv, VerdictInv, VerdictOf
  <2>2. m.seq \in Seqs /\ Scope(p) \in Scopes
    BY <2>1, TreesAreChains, ValidChain DEF IInv, TypeInv, Scope
  <2>3. Truthful(Row(p, m), landed[Scope(p)][m.seq], m.seq)
    BY <2>2 DEF IInv, LedgerTellsTheTruth, Row
  <2> QED BY <2>1, <2>3 DEF Truthful, Settled, IsApplied, Identifies
<1> QED BY <1>1, Invariance, PTL

(* A nil from ValidateAllApplied means no number of the tree is absent,     *)
(* half-run or run twice.                                                  *)
THEOREM ValidatedMeansCompleteAlways == Spec => []ValidatedMeansComplete
<1>1. IInv => ValidatedMeansComplete
  <2> SUFFICES ASSUME IInv, NEW p \in Procs, call[p].verb = "validate",
                      NEW m \in Files(call[p].tree)
               PROVE  \E n \in Migrations : n.seq = m.seq /\ landed[Scope(p)][m.seq] = Units(n)
    BY DEF ValidatedMeansComplete, InTree
  <2>1. ValidateSequences(call[p].tree) /\ IsApplied(Row(p, m))
    BY DEF IInv, VerdictInv, VerdictOf
  <2>2. m.seq \in Seqs /\ Scope(p) \in Scopes
    BY <2>1, TreesAreChains, ValidChain DEF IInv, TypeInv, Scope
  <2>3. Truthful(Row(p, m), landed[Scope(p)][m.seq], m.seq)
    BY <2>2 DEF IInv, LedgerTellsTheTruth, Row
  <2> QED BY <2>1, <2>3 DEF Truthful, IsApplied
<1> QED BY <1>1, Invariance, PTL

-----------------------------------------------------------------------------
(* Dirty rows                                                               *)

(* A stamp looks for rows without a semantic digest and does not ask for    *)
(* their status; it misses dirty rows because a claim always writes one.    *)
DirtyStamped ==
  \A s \in Scopes, q \in Seqs : IsDirty(ledger[s][q]) => ledger[s][q].semantic # NoDigest

LEMMA TokensAreDigests == ASSUME NEW m \in Migrations PROVE SemanticContentDigest(m) # NoDigest
BY NullsAssumption DEF NullsAssumption, Tokens, SemanticContentDigest

LEMMA WritesKeepStamps ==
  ASSUME IInv, DirtyStamped, NEW p \in Procs, Writes(p) \/ UNCHANGED dbVars
  PROVE  DirtyStamped'
<1> USE DEF IInv, TypeInv
<1>1. CASE UNCHANGED ledger
  BY <1>1 DEF DirtyStamped
<1>2. ASSUME NEW m \in todo[p], m.seq \in Seqs, NEW new, SetRow(p, m, new),
             IsDirty(new) => new.semantic # NoDigest
      PROVE  DirtyStamped'
  BY <1>2, SetRowAt DEF DirtyStamped
<1>3. ASSUME NEW m \in todo[p], StampRow(p, m) PROVE DirtyStamped'
  <2>1. m \in Migrations /\ m.seq \in Seqs /\ (Recorded(Row(p, m)) => Row(p, m) \in Rows)
    BY <1>3, OwnRow DEF StampRow
  <2>2. Recorded(Row(p, m)) =>
          [Row(p, m) EXCEPT !.semantic = SemanticContentDigest(m)].semantic # NoDigest
    BY <2>1, TokensAreDigests DEF Rows
  <2> QED BY <1>1, <1>2, <1>3, <2>1, <2>2 DEF StampRow
<1>4. ASSUME NEW m \in todo[p], CommitMigration(p, m) \/ ClaimRow(p, m) PROVE DirtyStamped'
  <2>1. m \in Migrations /\ m.seq \in Seqs
    BY <1>4, OwnRow DEF CommitMigration, ClaimRow
  <2>2. ~Recorded(Row(p, m))
    BY <1>4, StartsClean DEF CommitMigration, ClaimRow
  <2>3. PICK status \in {StatusApplied, StatusRunning} : SetRow(p, m, RowOf(m, status))
    BY <1>4, <2>2 DEF CommitMigration, ClaimRow
  <2>4. RowOf(m, status).semantic # NoDigest
    BY <2>1, TokensAreDigests DEF RowOf
  <2> QED BY <1>2, <2>1, <2>3, <2>4
<1>5. ASSUME NEW m \in todo[p], RecordFailure(p, m) PROVE DirtyStamped'
  <2>1. Underway(p, m) /\ m.seq \in Seqs /\ Scope(p) \in Scopes /\ Row(p, m) \in Rows
    BY <1>5, FailureEffect, TreesAreChains DEF Scope
  <2>2. [Row(p, m) EXCEPT !.status = StatusFailed].semantic # NoDigest
    BY <2>1 DEF Underway, DirtyStamped, Row, Rows
  <2> QED BY <1>1, <1>2, <1>5, <2>1, <2>2 DEF RecordFailure
<1>6. ASSUME NEW m \in todo[p], RecordSuccess(p, m) PROVE DirtyStamped'
  <2>1. m \in Migrations /\ m.seq \in Seqs /\ (Recorded(Row(p, m)) => Row(p, m) \in Rows)
    BY <1>6, OwnRow DEF RecordSuccess
  <2>2. Recorded(Row(p, m)) =>
          [Row(p, m) EXCEPT !.status = StatusApplied, !.digest = ContentDigest(m),
                            !.semantic = SemanticContentDigest(m)].semantic # NoDigest
    BY <2>1, TokensAreDigests DEF Rows
  <2> QED BY <1>1, <1>2, <1>6, <2>1, <2>2 DEF RecordSuccess
<1>7. CASE CreateTracker(p) \/ CreateSchema(p) \/ (\E m \in todo[p] : RunStatement(p, m))
  BY <1>1, <1>7 DEF CreateTracker, CreateSchema, RunStatement
<1>8. CASE UNCHANGED dbVars
  BY <1>1, <1>8 DEF dbVars
<1> QED BY <1>3, <1>4, <1>5, <1>6, <1>7, <1>8 DEF Writes

THEOREM DirtyStampedAlways == Spec => []DirtyStamped
<1>1. Init => DirtyStamped
  <2>1. ASSUME Init PROVE DirtyStamped
    <3>1. PICK past \in [Scopes -> Histories], identified \in BOOLEAN :
            ledger = [s \in Scopes |-> HistoryRows(past[s], identified)]
      BY <2>1 DEF Init
    <3>2. ASSUME NEW s \in Scopes, NEW q \in Seqs PROVE ~IsDirty(ledger[s][q])
      <4>1. ledger[s][q] = HistoryRows(past[s], identified)[q]
        BY <3>1
      <4>2. ~IsDirty(NoRow) /\ \A m : ~IsDirty(LegacyRow(m, identified))
        BY DEF IsDirty, Recorded, LegacyRow, StatusApplied
      <4>3. past[s] \in Histories
        OBVIOUS
      <4> QED BY <4>1, <4>2, <4>3, HistoryOf
    <3> QED BY <3>2 DEF DirtyStamped
  <2> QED BY <2>1
<1>2. IInv /\ DirtyStamped /\ [Next]_vars => DirtyStamped'
  <2>1. ASSUME IInv, DirtyStamped, UNCHANGED vars PROVE DirtyStamped'
    BY <2>1 DEF vars, DirtyStamped
  <2>2. ASSUME IInv, DirtyStamped, NEW p \in Procs,
               Begin(p) \/ Validate(p) \/ Waits(p) \/ Works(p) \/ Faults(p)
        PROVE  DirtyStamped'
    BY <2>2, StepWrites, WritesKeepStamps
  <2> QED BY <2>1, <2>2 DEF Next
<1> QED BY <1>1, <1>2, Invariance, PTL DEF Spec

(* The lock holder at work either has no dirty row in its scope or is the   *)
(* one working on it.                                                       *)
LEMMA NothingAbandonedAtWork ==
  ASSUME IInv, NEW p \in Procs, lock = p, pc[p] \in Working, NEW q \in Seqs
  PROVE  ~Abandoned(Scope(p), q)
<1>1. CASE pc[p] \in {"createSchema", "apply"}
  BY <1>1 DEF IInv, WorkInv, WorkOf, Abandoned
<1>2. CASE pc[p] \in {"exec", "markFailed", "finish"}
  BY <1>2 DEF Abandoned
<1> QED BY <1>1, <1>2 DEF Working

LEMMA WritesLeaveAbandoned ==
  ASSUME IInv, DirtyStamped, NEW p \in Procs, Writes(p) \/ UNCHANGED dbVars,
         NEW s \in Scopes, NEW q \in Seqs, Abandoned(s, q)
  PROVE  landed'[s] = landed[s] /\ ledger'[s][q] = ledger[s][q]
<1> USE DEF IInv, TypeInv
<1>0. /\ ledger \in [Scopes -> Records] /\ landed \in [Scopes -> [Seqs -> Seq(Pieces)]]
      /\ Scope(p) \in Scopes
  BY TreesAreChains DEF TypeOK, Scope
<1>1. CASE UNCHANGED dbVars \/ CreateTracker(p) \/ CreateSchema(p)
  BY <1>1 DEF dbVars, CreateTracker, CreateSchema
<1>2. ASSUME NEW m \in todo[p], StampRow(p, m)
      PROVE  landed'[s] = landed[s] /\ ledger'[s][q] = ledger[s][q]
  <2>1. UNCHANGED landed
    BY <1>2 DEF StampRow
  <2>2. CASE UNCHANGED ledger
    BY <2>1, <2>2
  <2>3. CASE /\ Row(p, m).semantic = NoDigest
             /\ SetRow(p, m, [Row(p, m) EXCEPT !.semantic = SemanticContentDigest(m)])
    <3>1. ~(s = Scope(p) /\ q = m.seq)
      BY <2>3 DEF Abandoned, DirtyStamped, Row
    <3>2. m.seq \in Seqs
      BY <1>2, OwnRow DEF StampRow
    <3> QED BY <2>1, <2>3, <3>1, <3>2, SetRowAt
  <2> QED BY <1>2, <2>2, <2>3 DEF StampRow
<1>3. ASSUME NEW m \in todo[p],
             \/ CommitMigration(p, m) \/ ClaimRow(p, m) \/ RunStatement(p, m)
             \/ RecordFailure(p, m) \/ RecordSuccess(p, m)
      PROVE  landed'[s] = landed[s] /\ ledger'[s][q] = ledger[s][q]
  <2>1. lock = p /\ pc[p] \in Working
    BY <1>3 DEF CommitMigration, ClaimRow, RunStatement, RecordFailure, RecordSuccess, Working
  <2>2. s # Scope(p)
    BY <2>1, NothingAbandonedAtWork
  <2>3. UNCHANGED ledger \/ \E row : SetRow(p, m, row)
    BY <1>3 DEF CommitMigration, ClaimRow, RunStatement, RecordFailure, RecordSuccess
  <2>4. UNCHANGED landed \/ \E pieces : Land(p, m, pieces)
    BY <1>3 DEF CommitMigration, ClaimRow, RunStatement, RecordFailure, RecordSuccess
  <2>5. ledger'[s] = ledger[s]
    BY <1>0, <2>2, <2>3 DEF SetRow
  <2>6. landed'[s] = landed[s]
    BY <1>0, <2>2, <2>4 DEF Land
  <2> QED BY <2>5, <2>6
<1> QED BY <1>1, <1>2, <1>3 DEF Writes

(* An unfinished no-transaction file blocks its whole scope: while no live  *)
(* session works on it, no step of anyone lands anything there or touches   *)
(* its row.                                                                 *)
THEOREM DirtyRowBlocksAlways == Spec => DirtyRowBlocks
<1> DEFINE Frozen == \A s \in Scopes, q \in Seqs :
                       Abandoned(s, q) => landed'[s] = landed[s] /\ ledger'[s][q] = ledger[s][q]
<1>1. IInv /\ DirtyStamped /\ [Next]_vars => [Frozen]_vars
  <2>1. ASSUME IInv, DirtyStamped, NEW p \in Procs,
               Begin(p) \/ Validate(p) \/ Waits(p) \/ Works(p) \/ Faults(p)
        PROVE  Frozen
    BY <2>1, StepWrites, WritesLeaveAbandoned
  <2> QED BY <2>1 DEF Next
<1>2. Spec => [][Frozen]_vars
  BY <1>1, Invariance, DirtyStampedAlways, PTL DEF Spec
<1> QED BY <1>2 DEF DirtyRowBlocks

-----------------------------------------------------------------------------
(* Strict ordering and the exceptions to it                                 *)

(* A chain with a recorded file has a highest one, and it lies as high as   *)
(* any: this is what makes the one comparison of the check enough.          *)
LEMMA HighestRecorded ==
  ASSUME NEW t \in Seq(Migrations), ValidateSequences(t), NEW records,
         NEW f \in Files(t), Recorded(records[f.seq])
  PROVE  \E i \in DOMAIN t : IsHighestRecorded(i, t, records) /\ f.seq <= t[i].seq
<1> DEFINE K == {k \in DOMAIN t : Recorded(records[t[k].seq])}
           S == {Len(t) - j : j \in K}
<1>1. Len(t) \in Nat /\ DOMAIN t = 1..Len(t)
  OBVIOUS
<1>2. PICK k \in K : f = t[k]
  BY DEF Files
<1>3. K \subseteq 1..Len(t)
  BY <1>1
<1> HIDE DEF K
<1>4. S \in SUBSET Nat /\ S # {}
  BY <1>1, <1>2, <1>3
<1>5. PICK n \in S : \A j \in S : n <= j
  BY <1>4, LeastNumber
<1>6. PICK i \in K : n = Len(t) - i
  BY <1>5
<1>7. ASSUME NEW j \in K PROVE j <= i
  <2>1. n <= Len(t) - j
    BY <1>5
  <2> QED BY <1>1, <1>3, <1>6, <2>1
<1>8. f.seq <= t[i].seq
  <2>1. k <= i /\ k \in 1..Len(t) /\ i \in 1..Len(t)
    BY <1>2, <1>3, <1>7
  <2>2. \A m \in Files(t) : m.seq \in Nat
    BY ValidChain, SeqsAreNat
  <2>3. CASE k = i
    BY <1>2, <2>2, <2>3
  <2>4. CASE k # i
    <3>1. k < i
      BY <2>1, <2>4
    <3>2. t[k].seq < t[i].seq
      BY <1>1, <2>1, <3>1 DEF ValidateSequences
    <3>3. t[i].seq \in Nat
      BY <1>1, <2>1, <2>2 DEF Files
    <3> QED BY <1>2, <2>2, <3>2, <3>3
  <2> QED BY <2>3, <2>4
<1>9. IsHighestRecorded(i, t, records)
  BY <1>7 DEF IsHighestRecorded, K
<1> QED BY <1>1, <1>3, <1>8, <1>9

(* A file at whose number strict ordering lets its caller land something.   *)
InOrderFor(p, m) == m.seq \in call[p].exempt \/ Above(Scope(p), m.seq, call[p].tree) = {}

(* What the check under the lock found of the order stays so while files    *)
(* land: they land in order, so none is above one that is left.             *)
OrderInv ==
  StrictOrdering =>
    \A p \in Procs : lock = p /\ pc[p] \in Working \ {"markFailed"} =>
      \A m \in todo[p] : InOrderFor(p, m)

LEMMA OrderOfCheck ==
  ASSUME TypeInv, StrictOrdering, NEW p \in Procs, pc[p] # "idle", ~Blocked(p), NEW m \in ToApply(p)
  PROVE  InOrderFor(p, m)
<1> DEFINE t == call[p].tree
           records == ledger[Scope(p)]
<1>1. t \in Seq(Migrations) /\ ValidateSequences(t)
  BY TreesAreChains DEF TypeInv, CallInv
<1>2. m \in Files(t) /\ ~Recorded(records[m.seq])
  BY DEF ToApply, Pending
<1>3. \A n \in Files(t) : n.seq \in Nat
  BY <1>1, ValidChain, SeqsAreNat
<1>4. SUFFICES ASSUME m.seq \notin call[p].exempt, NEW f \in Files(t), f.seq > m.seq, Recorded(records[f.seq])
               PROVE  FALSE
  BY DEF InOrderFor, Above
<1>5. PICK i \in DOMAIN t : IsHighestRecorded(i, t, records) /\ f.seq <= t[i].seq
  BY <1>1, <1>4, HighestRecorded
<1>6. m.seq < t[i].seq
  BY <1>2, <1>3, <1>4, <1>5 DEF Files
<1>7. IsBelowApplied(m, t, records)
  BY <1>2, <1>5, <1>6 DEF IsBelowApplied
<1>8. Finding("order_violation", "error", m) \in Analyze(t, records, StrictOrdering, call[p].exempt)
  BY <1>2, <1>4, <1>7 DEF Analyze
<1> QED BY <1>8 DEF Blocked, FirstError, Finding

(* Only the row of the lowest file is new.                                  *)
LEMMA OrderOfAdvance ==
  ASSUME IInv, NEW p \in Procs, pc[p] # "idle", \A n \in todo[p] : InOrderFor(p, n),
         NEW m \in todo[p], IsNext(p, m), call' = call, todo'[p] \subseteq todo[p],
         \A q \in Seqs \ {m.seq} : Recorded(ledger'[Scope(p)][q]) => Recorded(ledger[Scope(p)][q])
  PROVE  \A n \in todo'[p] : InOrderFor(p, n)'
<1>1. /\ \A f \in Files(call[p].tree) : f.seq \in Seqs /\ f.seq \in Nat
      /\ todo[p] \subseteq Files(call[p].tree)
  BY TreeKeys, SeqsAreNat DEF IInv
<1>2. SUFFICES ASSUME NEW n \in todo'[p], n.seq \notin call[p].exempt,
                      NEW f \in Files(call[p].tree), f.seq > n.seq, Recorded(ledger'[Scope(p)][f.seq])
               PROVE  FALSE
  BY DEF InOrderFor, Above, Scope, Recorded
<1>3. n \in todo[p] /\ m.seq <= n.seq
  BY <1>2 DEF IsNext
<1>4. f.seq # m.seq
  BY <1>1, <1>2, <1>3
<1>5. Recorded(ledger[Scope(p)][f.seq])
  BY <1>1, <1>2, <1>4
<1>6. f \in Above(Scope(p), n.seq, call[p].tree)
  BY <1>2, <1>5 DEF Above
<1> QED BY <1>2, <1>3, <1>6 DEF InOrderFor

LEMMA OwnOrder ==
  ASSUME IInv, OrderInv, StrictOrdering, NEW p \in Procs, lock' = p, pc'[p] \in Working \ {"markFailed"},
         Begin(p) \/ Validate(p) \/ Waits(p) \/ Works(p) \/ Faults(p)
  PROVE  \A m \in todo'[p] : InOrderFor(p, m)'
<1>1. p \in DOMAIN pc /\ p \in DOMAIN todo /\ p # Nobody /\ (lock = p => pc[p] \in Pinned)
  BY CallerAssumption DEF IInv, TypeInv, TypeOK, LockInv, CallerAssumption
<1>2. CASE CheckLocked(p)
  <2>1. /\ ~Blocked(p) /\ todo'[p] = ToApply(p) /\ UNCHANGED <<call, ledger>> /\ pc[p] = "recheck"
    BY <1>1, <1>2 DEF CheckLocked, Unwind, Goto, Working, dbVars
  <2>2. \A m \in ToApply(p) : InOrderFor(p, m)
    BY <2>1, OrderOfCheck DEF IInv
  <2> QED BY <2>1, <2>2 DEF InOrderFor, Above, Scope, Recorded
<1>3. CASE EnsureSchema(p)
  <2>1. UNCHANGED <<ledger, call, todo>> /\ pc[p] = "createSchema" /\ lock = p
    BY <1>3 DEF EnsureSchema, CreateSchema
  <2> QED BY <2>1 DEF OrderInv, InOrderFor, Above, Scope, Recorded, Working
<1>4. ASSUME NEW m \in todo[p], CommitMigration(p, m) \/ RecordSuccess(p, m), Advance(p, m)
      PROVE  \A n \in todo'[p] : InOrderFor(p, n)'
  <2>1. /\ pc[p] \in {"apply", "finish"} /\ lock = p /\ IsNext(p, m)
        /\ call' = call /\ todo'[p] \subseteq todo[p]
    BY <1>1, <1>4 DEF CommitMigration, RecordSuccess, Advance, Unwind
  <2>2. \A q \in Seqs \ {m.seq} : Recorded(ledger'[Scope(p)][q]) => Recorded(ledger[Scope(p)][q])
    <3>1. m.seq \in Seqs /\ Scope(p) \in Scopes /\ \E new, pieces : Touches(p, m.seq, new, pieces)
      BY <1>4, <2>1, OwnRow, CommitEffect, SuccessEffect DEF IInv
    <3> QED BY <3>1 DEF Touches
  <2>3. \A n \in todo[p] : InOrderFor(p, n)
    BY <2>1 DEF OrderInv, Working
  <2> QED BY <2>1, <2>2, <2>3, OrderOfAdvance
<1>5. CASE ClaimNoTx(p)
  <2>1. PICK m \in todo[p] : ClaimRow(p, m)
    BY <1>5 DEF ClaimNoTx
  <2>2. pc[p] = "apply" /\ lock = p /\ IsNext(p, m) /\ UNCHANGED <<call, todo>>
    BY <1>5, <2>1 DEF ClaimNoTx, ClaimRow
  <2>3. \A q \in Seqs \ {m.seq} : Recorded(ledger'[Scope(p)][q]) => Recorded(ledger[Scope(p)][q])
    BY <2>1, <2>2, ClaimEffect, OwnRow DEF Touches, IInv
  <2>4. \A n \in todo[p] : InOrderFor(p, n)
    BY <2>2 DEF OrderInv, Working
  <2> QED BY <2>2, <2>3, <2>4, OrderOfAdvance
<1>6. CASE ExecNoTx(p)
  <2>1. UNCHANGED <<ledger, call, todo>> /\ pc[p] = "exec" /\ lock = p
    BY <1>6 DEF ExecNoTx, RunStatement
  <2> QED BY <2>1 DEF OrderInv, InOrderFor, Above, Scope, Recorded, Working
<1>7. CASE \/ MarkFailed(p) \/ StatementFails(p) \/ AcquireLock(p)
  <2>1. CASE StatementFails(p)
    <3>1. pc[p] \in Pinned
      BY <1>1, <2>1 DEF StatementFails
    <3> QED BY <1>1, <2>1, <3>1 DEF StatementFails, ErrorPath, Unwind, Return, Goto, Working, Pinned
  <2> QED BY <1>1, <1>7, <2>1 DEF MarkFailed, AcquireLock, Unwind, Goto, Working
<1>8. CASE \/ Begin(p) \/ Validate(p) \/ EnsureSetup(p) \/ ReadForStamps(p) \/ Stamp(p)
           \/ CheckUnlocked(p)
  <2>1. lock' = lock /\ pc[p] \notin Pinned
    BY <1>8 DEF Begin, Validate, EnsureSetup, CreateTracker, ReadForStamps, Stamp, StampRow,
                CheckUnlocked, Pinned
  <2> QED BY <1>1, <2>1
<1>9. CASE Unlock(p) \/ ConnectionLost(p) \/ Crash(p)
  BY <1>1, <1>9 DEF Unlock, ConnectionLost, Crash, ReleaseHeld
<1> QED BY <1>2, <1>3, <1>4, <1>5, <1>6, <1>7, <1>8, <1>9 DEF Waits, Works, Faults, ApplyOne, FinishNoTx

(* Whoever holds the lock may land what it has left, in order.              *)
THEOREM OrderAlways == Spec => []OrderInv
<1>1. Init => OrderInv
  BY CallerAssumption DEF Init, OrderInv, CallerAssumption
<1>2. IInv /\ OrderInv /\ [Next]_vars => OrderInv'
  <2>1. ASSUME IInv, OrderInv, UNCHANGED vars PROVE OrderInv'
    BY <2>1 DEF vars, OrderInv, InOrderFor, Above, Scope, Recorded
  <2>2. ASSUME IInv, OrderInv, StrictOrdering, NEW p \in Procs,
               Begin(p) \/ Validate(p) \/ Waits(p) \/ Works(p) \/ Faults(p),
               NEW r \in Procs, lock' = r, pc'[r] \in Working \ {"markFailed"}
        PROVE  \A m \in todo'[r] : InOrderFor(r, m)'
    <3>1. CASE r = p
      BY <2>2, <3>1, OwnOrder
    <3>2. CASE r # p
      <4>1. lock = r
        BY <2>2, <3>2, StepWrites, CallerAssumption DEF CallerAssumption
      <4>2. Writes(p) \/ UNCHANGED dbVars
        BY <2>2, StepWrites
      <4>3. pc'[r] = pc[r] /\ call'[r] = call[r] /\ todo'[r] = todo[r]
        BY <2>2, <3>2, OthersUntouched DEF IInv
      <4>4. \A q \in Seqs : Recorded(ledger'[Scope(r)][q]) <=> Recorded(ledger[Scope(r)][q])
        BY <2>2, <3>2, <4>1, <4>2, QuietForOthers, TreesAreChains DEF IInv, TypeInv, Scope
      <4>5. \A m \in Files(call[r].tree) : m.seq \in Seqs
        BY <2>2, <4>1, TreeKeys DEF IInv, LockInv, Pinned
      <4>6. \A m \in todo[r] : InOrderFor(r, m)
        BY <2>2, <4>1, <4>3 DEF OrderInv
      <4>7. \A m \in todo[r] : Above(Scope(r), m.seq, call[r].tree)' = Above(Scope(r), m.seq, call[r].tree)
        BY <4>3, <4>4, <4>5 DEF Above, Scope, Recorded
      <4> QED BY <4>3, <4>6, <4>7 DEF InOrderFor
    <3> QED BY <3>1, <3>2
  <2> QED BY <2>1, <2>2 DEF Next, OrderInv
<1> QED BY <1>1, <1>2, Invariance, PTL DEF Spec

(* What lands, lands for the file a lock holder has left to do.             *)
LEMMA LandingIsOfTodo ==
  ASSUME IInv, NEW p \in Procs, Writes(p) \/ UNCHANGED dbVars, NEW s \in Scopes, NEW q \in Seqs,
         landed[s][q] = <<>>, landed'[s][q] # <<>>
  PROVE  /\ lock = p /\ pc[p] \in {"apply", "exec"} /\ s = Scope(p)
         /\ \E m \in todo[p] : m.seq = q
<1>1. PICK m \in todo[p] : CommitMigration(p, m) \/ RunStatement(p, m)
  BY DEF Writes, dbVars, CreateTracker, CreateSchema, StampRow, ClaimRow, RecordFailure, RecordSuccess
<1>2. lock = p /\ pc[p] \in {"apply", "exec"}
  BY <1>1 DEF CommitMigration, RunStatement
<1>3. m.seq \in Seqs /\ \E new, pieces : Touches(p, m.seq, new, pieces)
  BY <1>1, <1>2, OwnRow, CommitEffect, RunEffect DEF IInv
<1>4. s = Scope(p) /\ q = m.seq
  BY <1>3 DEF Touches
<1> QED BY <1>2, <1>4

(* Strict ordering is kept at the moment DDL lands: nothing starts landing  *)
(* below a file of its tree that has a row, but what the caller exempted.   *)
THEOREM LandsInOrderAlways == Spec => LandsInOrder
<1> DEFINE Ordered ==
             StrictOrdering => \A s \in Scopes, q \in Seqs :
               landed[s][q] = <<>> /\ landed'[s][q] # <<>> =>
                 \E p \in Procs : /\ lock = p /\ Scope(p) = s
                                  /\ Above(s, q, call[p].tree) = {} \/ q \in call[p].exempt
<1>1. IInv /\ OrderInv /\ [Next]_vars => [Ordered]_vars
  <2>1. ASSUME IInv, OrderInv, StrictOrdering, NEW p \in Procs,
               Begin(p) \/ Validate(p) \/ Waits(p) \/ Works(p) \/ Faults(p),
               NEW s \in Scopes, NEW q \in Seqs, landed[s][q] = <<>>, landed'[s][q] # <<>>
        PROVE  /\ lock = p /\ Scope(p) = s
               /\ Above(s, q, call[p].tree) = {} \/ q \in call[p].exempt
    <3>1. Writes(p) \/ UNCHANGED dbVars
      BY <2>1, StepWrites
    <3>2. lock = p /\ pc[p] \in {"apply", "exec"} /\ s = Scope(p)
      BY <2>1, <3>1, LandingIsOfTodo
    <3>3. PICK m \in todo[p] : m.seq = q
      BY <2>1, <3>1, LandingIsOfTodo
    <3>4. InOrderFor(p, m)
      BY <2>1, <3>2 DEF OrderInv, Working
    <3> QED BY <3>2, <3>3, <3>4 DEF InOrderFor
  <2> QED BY <2>1 DEF Next
<1>2. Spec => [][Ordered]_vars
  BY <1>1, Invariance, OrderAlways, PTL DEF Spec
<1> QED BY <1>2 DEF LandsInOrder

(* At work, an apply sees no error in its tree: not by its own reading of   *)
(* the rows, nor by that of Status.                                         *)
LEMMA NoErrorsAtWork ==
  ASSUME IInv, OrderInv, NEW p \in Procs, lock = p, pc[p] = "apply", call[p].exempt = {}
  PROVE  ~HasErrors(StatusDiscrepancies(call[p].tree, ledger[Scope(p)], StrictOrdering))
<1> DEFINE t == call[p].tree
           records == ledger[Scope(p)]
<1>1. /\ \A m \in Files(t) : m \in Migrations /\ m.seq \in Seqs
      /\ \A m, n \in Files(t) : m.seq = n.seq => m = n
      /\ Scope(p) \in Scopes
  BY TreeKeys DEF IInv
<1>2. DOMAIN records = Seqs
  BY <1>1 DEF IInv, TypeInv, TypeOK, Records
<1>3. /\ \A q \in Seqs : ~IsDirty(records[q])
      /\ \A m \in Files(t) \ todo[p] : Settled(p, m)
  BY DEF IInv, WorkInv, WorkOf, Working
<1>4. ASSUME NEW m \in Files(t) PROVE ~IsMismatch(m, records[m.seq])
  <2>1. m \notin todo[p] => Row(p, m).filename \in {NoName, m.name}
    BY <1>3 DEF Settled
  <2>2. m \in todo[p] => ~Recorded(Row(p, m))
    BY DEF IInv, WorkInv, WorkOf
  <2> QED BY <2>1, <2>2 DEF IsMismatch, IsApplied, Row
<1>5. ASSUME StrictOrdering, NEW m \in Files(t) PROVE ~IsBelowApplied(m, t, records)
  <2>1. SUFFICES ASSUME ~Recorded(records[m.seq]), NEW i \in DOMAIN t,
                        IsHighestRecorded(i, t, records), m.seq < t[i].seq
                 PROVE  FALSE
    BY DEF IsBelowApplied
  <2>2. m \in todo[p]
    BY <1>3, <2>1 DEF Settled, IsApplied, Row
  <2>3. Above(Scope(p), m.seq, t) = {}
    BY <1>5, <2>2 DEF OrderInv, InOrderFor, Working
  <2>4. t[i] \in Files(t) /\ t[i].seq \in Nat /\ m.seq \in Nat
    BY <1>1, SeqsAreNat DEF Files
  <2>5. t[i] \in Above(Scope(p), m.seq, t)
    BY <2>1, <2>4 DEF Above, IsHighestRecorded
  <2> QED BY <2>3, <2>5
<1>6. ASSUME NEW d \in Analyze(t, records, StrictOrdering, {}) PROVE d.severity # "error"
  <2>1. d \notin DirtyInTree(t, records)
    BY <1>1, <1>3 DEF DirtyInTree
  <2>2. d \notin DirtyOrphans(t, records)
    BY <1>2, <1>3 DEF DirtyOrphans
  <2>3. d \notin {Finding("number_mismatch", "error", m) : m \in {f \in Files(t) : IsMismatch(f, records[f.seq])}}
    BY <1>4
  <2>4. d \notin {Finding("order_violation", "error", m)
                    : m \in {f \in Files(t) : /\ StrictOrdering
                                              /\ IsBelowApplied(f, t, records)
                                              /\ f.seq \notin {}}}
    BY <1>5
  <2>5. d \in {Finding("content_drift", "warning", m) : m \in {f \in Files(t) : IsDrift(f, records[f.seq])}}
    BY <1>6, <2>1, <2>2, <2>3, <2>4 DEF Analyze
  <2> QED BY <2>5 DEF Finding
<1>7. ASSUME NEW d \in ReportedOrphans(t, records) PROVE d.severity # "error"
  BY <1>2, <1>3, <1>7 DEF ReportedOrphans
<1> QED BY <1>6, <1>7 DEF StatusDiscrepancies, HasErrors, FirstError

(* While Status would report an error for the tree of an apply, that apply  *)
(* is not about to start a file.                                            *)
THEOREM StatusErrorsBlockAlways == Spec => []StatusErrorsBlock
<1>1. IInv /\ OrderInv => StatusErrorsBlock
  BY NoErrorsAtWork DEF StatusErrorsBlock
<1> QED BY <1>1, Invariance, OrderAlways, PTL

-----------------------------------------------------------------------------
(* The audit trail                                                          *)

(* A step that writes no audit row.                                         *)
LEMMA NoneAdded ==
  ASSUME repairs \in Seq(AuditRows), UNCHANGED repairs
  PROVE  IsPrefixOf(repairs, repairs') /\ \A s, q : NewAudits(s, q) = {}
<1>1. Len(repairs) \in Nat
  OBVIOUS
<1> QED BY <1>1 DEF IsPrefixOf, NewAudits

(* A step that writes one.                                                  *)
LEMMA OneAdded ==
  ASSUME repairs \in Seq(AuditRows), NEW a \in AuditRows, repairs' = Append(repairs, a)
  PROVE  /\ IsPrefixOf(repairs, repairs')
         /\ NewAudits(a.scope, a.key) = {Len(repairs) + 1}
         /\ repairs'[Len(repairs) + 1] = a
         /\ \A s, q : <<s, q>> # <<a.scope, a.key>> => NewAudits(s, q) = {}
<1>1. /\ Len(repairs) \in Nat /\ Len(repairs') = Len(repairs) + 1
      /\ repairs'[Len(repairs) + 1] = a
      /\ \A i \in 1..Len(repairs) : repairs'[i] = repairs[i]
  OBVIOUS
<1>2. (Len(repairs) + 1)..Len(repairs') = {Len(repairs) + 1}
  BY <1>1
<1>3. IsPrefixOf(repairs, repairs')
  BY <1>1 DEF IsPrefixOf
<1>4. NewAudits(a.scope, a.key) = {Len(repairs) + 1}
  BY <1>1, <1>2 DEF NewAudits
<1>5. \A s, q : <<s, q>> # <<a.scope, a.key>> => NewAudits(s, q) = {}
  BY <1>1, <1>2 DEF NewAudits
<1> QED BY <1>1, <1>3, <1>4, <1>5

(* What the audit trail gains for number q of scope s is what it should.    *)
AuditedAt(s, q) ==
  IF Exempted(s, q)
    THEN \E i \in NewAudits(s, q) : /\ NewAudits(s, q) = {i}
                                    /\ repairs'[i].new = IdentityOf(ledger'[s][q])
    ELSE NewAudits(s, q) = {}

(* A file that is done is audited if it was exempted.                       *)
LEMMA DoneIsAudited ==
  ASSUME IInv, NEW p \in Procs, NEW m \in todo[p], lock = p, pc[p] # "idle",
         NEW new, NEW pieces, Touches(p, m.seq, new, pieces),
         ~IsApplied(Row(p, m)), IsApplied(new), IdentityOf(new) = Identity(m.name, ContentDigest(m)),
         AuditWhenExempt(p, m)
  PROVE  IsPrefixOf(repairs, repairs') /\ \A s \in Scopes, q \in Seqs : AuditedAt(s, q)
<1>1. /\ repairs \in Seq(AuditRows) /\ Scope(p) \in Scopes
      /\ m \in Migrations /\ m.seq \in Seqs /\ p # Nobody
  BY OwnRow, CallerAssumption DEF IInv, TypeInv, TypeOK, CallerAssumption
<1>2. \A s \in Scopes, q \in Seqs :
        /\ s = Scope(p) /\ q = m.seq => ledger'[s][q] = new /\ ledger[s][q] = Row(p, m)
        /\ ~(s = Scope(p) /\ q = m.seq) => ledger'[s][q] = ledger[s][q]
  BY DEF Touches, Row
<1>3. \A s \in Scopes, q \in Seqs :
        Exempted(s, q) <=> s = Scope(p) /\ q = m.seq /\ m.seq \in call[p].exempt
  <2> TAKE s \in Scopes, q \in Seqs
  <2>1. CASE s = Scope(p) /\ q = m.seq
    BY <1>1, <1>2, <2>1 DEF Exempted
  <2>2. CASE ~(s = Scope(p) /\ q = m.seq)
    BY <1>2, <2>2 DEF Exempted
  <2> QED BY <2>1, <2>2
<1>4. CASE m.seq \notin call[p].exempt
  BY <1>1, <1>3, <1>4, NoneAdded DEF AuditWhenExempt, AuditedAt
<1>5. CASE m.seq \in call[p].exempt
  <2> DEFINE a == [verb |-> "apply --allow-below-applied", scope |-> Scope(p), key |-> m.seq,
                   old |-> NoIdentity, new |-> Identity(m.name, ContentDigest(m))]
  <2>1. a \in AuditRows
    <3>1. NoIdentity \in Identities /\ Identity(m.name, ContentDigest(m)) \in Identities
      BY <1>1 DEF NoIdentity, Identity, Identities, Names, Digests, ContentDigest
    <3> QED BY <1>1, <3>1 DEF AuditRows, Verbs
  <2>2. a.scope = Scope(p) /\ a.key = m.seq /\ a.new = IdentityOf(new)
    OBVIOUS
  <2>3. repairs' = Append(repairs, a)
    BY <1>5 DEF AuditWhenExempt, InsertAudit
  <2> HIDE DEF a
  <2>4. /\ IsPrefixOf(repairs, repairs')
        /\ NewAudits(Scope(p), m.seq) = {Len(repairs) + 1}
        /\ repairs'[Len(repairs) + 1] = a
        /\ \A s, q : <<s, q>> # <<Scope(p), m.seq>> => NewAudits(s, q) = {}
    BY <1>1, <2>1, <2>2, <2>3, OneAdded
  <2>5. ASSUME NEW s \in Scopes, NEW q \in Seqs PROVE AuditedAt(s, q)
    <3>1. CASE s = Scope(p) /\ q = m.seq
      BY <1>2, <1>3, <1>5, <2>2, <2>4, <3>1 DEF AuditedAt
    <3>2. CASE ~(s = Scope(p) /\ q = m.seq)
      BY <1>3, <2>4, <3>2 DEF AuditedAt
    <3> QED BY <3>1, <3>2
  <2> QED BY <2>4, <2>5
<1> QED BY <1>4, <1>5

(* A write that makes nothing applied and adds no audit row.                *)
LEMMA QuietIsAudited ==
  ASSUME IInv, UNCHANGED repairs,
         \A s \in Scopes, q \in Seqs : IsApplied(ledger'[s][q]) => IsApplied(ledger[s][q])
  PROVE  IsPrefixOf(repairs, repairs') /\ \A s \in Scopes, q \in Seqs : AuditedAt(s, q)
<1>1. repairs \in Seq(AuditRows)
  BY DEF IInv, TypeInv, TypeOK
<1> QED BY <1>1, NoneAdded DEF AuditedAt, Exempted

LEMMA WritesAreAudited ==
  ASSUME IInv, NEW p \in Procs, Writes(p) \/ UNCHANGED dbVars
  PROVE  IsPrefixOf(repairs, repairs') /\ \A s \in Scopes, q \in Seqs : AuditedAt(s, q)
<1>1. CASE UNCHANGED dbVars \/ CreateTracker(p) \/ CreateSchema(p)
  BY <1>1, QuietIsAudited DEF dbVars, CreateTracker, CreateSchema
<1>2. ASSUME NEW m \in todo[p], NEW new, NEW pieces, Touches(p, m.seq, new, pieces),
             IsApplied(new) => IsApplied(Row(p, m)), UNCHANGED repairs
      PROVE  IsPrefixOf(repairs, repairs') /\ \A s \in Scopes, q \in Seqs : AuditedAt(s, q)
  BY <1>2, QuietIsAudited DEF Touches, Row
<1>3. ASSUME NEW m \in todo[p], StampRow(p, m)
      PROVE  IsPrefixOf(repairs, repairs') /\ \A s \in Scopes, q \in Seqs : AuditedAt(s, q)
  <2>1. UNCHANGED repairs
    BY <1>3 DEF StampRow
  <2>2. CASE UNCHANGED <<ledger, landed, namespace>>
    BY <2>1, <2>2, QuietIsAudited
  <2>3. CASE \E new \in Rows :
               /\ Touches(p, m.seq, new, landed[Scope(p)][m.seq])
               /\ Recorded(Row(p, m)) /\ Recorded(new) /\ new.status = Row(p, m).status
    BY <1>2, <2>1, <2>3 DEF IsApplied, IsDirty
  <2> QED BY <1>3, <2>2, <2>3, StampEffect DEF IInv
<1>4. ASSUME NEW m \in todo[p], CommitMigration(p, m)
      PROVE  IsPrefixOf(repairs, repairs') /\ \A s \in Scopes, q \in Seqs : AuditedAt(s, q)
  <2>1. /\ Touches(p, m.seq, RowOf(m, StatusApplied), Units(m)) /\ ~IsApplied(Row(p, m))
        /\ m \in Migrations
    BY <1>4, CommitEffect DEF IsApplied
  <2>2. IsApplied(RowOf(m, StatusApplied)) /\ Recorded(RowOf(m, StatusApplied))
    BY <2>1, RowOfType, NoRowAssumption
    DEF IsApplied, IsDirty, Recorded, RowOf, NoRowAssumption, StatusApplied
  <2>3. IdentityOf(RowOf(m, StatusApplied)) = Identity(m.name, ContentDigest(m))
    BY <2>2 DEF IdentityOf, RowOf
  <2> QED BY <1>4, <2>1, <2>2, <2>3, DoneIsAudited DEF CommitMigration
<1>5. ASSUME NEW m \in todo[p], ClaimRow(p, m)
      PROVE  IsPrefixOf(repairs, repairs') /\ \A s \in Scopes, q \in Seqs : AuditedAt(s, q)
  <2>1. ~IsApplied(RowOf(m, StatusRunning))
    BY DEF IsApplied, IsDirty, Recorded, RowOf, StatusRunning, StatusApplied
  <2> QED BY <1>2, <1>5, <2>1, ClaimEffect DEF ClaimRow
<1>6. ASSUME NEW m \in todo[p], RunStatement(p, m)
      PROVE  IsPrefixOf(repairs, repairs') /\ \A s \in Scopes, q \in Seqs : AuditedAt(s, q)
  BY <1>6, QuietIsAudited DEF RunStatement
<1>7. ASSUME NEW m \in todo[p], RecordFailure(p, m)
      PROVE  IsPrefixOf(repairs, repairs') /\ \A s \in Scopes, q \in Seqs : AuditedAt(s, q)
  <2>1. UNCHANGED repairs
    BY <1>7 DEF RecordFailure
  <2>2. PICK new \in Rows : Touches(p, m.seq, new, landed[Scope(p)][m.seq]) /\ IsDirty(new)
    BY <1>7, FailureEffect
  <2> QED BY <1>2, <2>1, <2>2 DEF IsApplied
<1>8. ASSUME NEW m \in todo[p], RecordSuccess(p, m)
      PROVE  IsPrefixOf(repairs, repairs') /\ \A s \in Scopes, q \in Seqs : AuditedAt(s, q)
  <2>1. ~IsApplied(Row(p, m)) /\ lock = p /\ pc[p] # "idle" /\ AuditWhenExempt(p, m)
    BY <1>8, SuccessEffect DEF Underway, IsApplied, RecordSuccess
  <2>2. PICK new \in Rows : /\ Touches(p, m.seq, new, Units(m))
                            /\ new.filename = m.name /\ new.digest = m.bytes /\ IsApplied(new)
    BY <1>8, SuccessEffect
  <2>3. IdentityOf(new) = Identity(m.name, ContentDigest(m))
    BY <2>2 DEF IdentityOf, IsApplied, ContentDigest
  <2> QED BY <2>1, <2>2, <2>3, DoneIsAudited
<1> QED BY <1>1, <1>3, <1>4, <1>5, <1>6, <1>7, <1>8 DEF Writes

(* A migration that comes to be applied under an ordering exception leaves  *)
(* exactly one audit row, of what its row records then, in the same step;   *)
(* no other step writes one, and none is ever taken back.                   *)
THEOREM ExceptionsAreAuditedAlways == Spec => ExceptionsAreAudited
<1> DEFINE Audited == /\ IsPrefixOf(repairs, repairs')
                      /\ \A s \in Scopes, q \in Seqs :
                           IF Exempted(s, q)
                             THEN \E i \in NewAudits(s, q) :
                                    /\ NewAudits(s, q) = {i}
                                    /\ repairs'[i].new = IdentityOf(ledger'[s][q])
                             ELSE NewAudits(s, q) = {}
<1>1. IInv /\ [Next]_vars => [Audited]_vars
  <2>1. ASSUME IInv, NEW p \in Procs, Begin(p) \/ Validate(p) \/ Waits(p) \/ Works(p) \/ Faults(p)
        PROVE  Audited
    <3>1. IsPrefixOf(repairs, repairs') /\ \A s \in Scopes, q \in Seqs : AuditedAt(s, q)
      BY <2>1, StepWrites, WritesAreAudited
    <3> QED BY <3>1 DEF AuditedAt
  <2> QED BY <2>1 DEF Next
<1>2. Spec => [][Audited]_vars
  BY <1>1, Invariance, PTL DEF Spec
<1> QED BY <1>2 DEF ExceptionsAreAudited

-----------------------------------------------------------------------------
(* What a migrator does to the rows and to the audit trail, whatever else    *)
(* writes them: these lemmas ask for the types only, not for IInv.           *)

DigestsFit(row) ==
  Recorded(row) /\ row.semantic # NoDigest =>
    \E m \in Migrations : row.digest = ContentDigest(m) /\ row.semantic = SemanticContentDigest(m)

(* p is at its step with the lock, with the file of number q of scope s.    *)
Handles(p, step, s, q) ==
  lock = p /\ pc[p] = step /\ Scope(p) = s /\ \E m \in todo[p] : IsNext(p, m) /\ m.seq = q

(* A migrator never forgets a row, names one only when it starts the file,  *)
(* and ends an unfinished one only when it finishes it.                     *)
RowStep(p, s, q, old, new) ==
  /\ DigestsFit(old) => DigestsFit(new)
  /\ Recorded(old) => Recorded(new)
  /\ ~Recorded(old) /\ Recorded(new) => Handles(p, "apply", s, q)
  /\ Recorded(old) /\ new.filename # old.filename => Handles(p, "apply", s, q)
  /\ IsDirty(old) /\ ~IsDirty(new) => Handles(p, "finish", s, q)
  /\ ~IsDirty(old) /\ IsDirty(new) => lock = p

(* An audit of an ordering exception is the only one a migrator writes.     *)
LogStep(p) ==
  \/ repairs' = repairs
  \/ /\ lock = p
     /\ \E a \in AuditRows : /\ repairs' = Append(repairs, a)
                             /\ a.verb = "apply --allow-below-applied"

(* DDL lands for a file about to be committed or being run, with the lock.  *)
LandStep(p) ==
  \A s \in Scopes, q \in Seqs :
    landed'[s][q] # landed[s][q] => Handles(p, "apply", s, q) \/ Handles(p, "exec", s, q)

LEMMA NewRowStep ==
  ASSUME TypeInv, NEW p \in Procs, pc[p] # "idle", NEW m \in todo[p], NEW row,
         SetRow(p, m, row), RowStep(p, Scope(p), m.seq, Row(p, m), row)
  PROVE  \A s \in Scopes, q \in Seqs : RowStep(p, s, q, ledger[s][q], ledger'[s][q])
<1> SUFFICES ASSUME NEW s \in Scopes, NEW q \in Seqs
             PROVE  RowStep(p, s, q, ledger[s][q], ledger'[s][q])
  OBVIOUS
<1>1. ledger'[s][q] = IF s = Scope(p) /\ q = m.seq THEN row ELSE ledger[s][q]
  BY OwnRow, SetRowAt DEF TypeInv
<1>2. CASE s = Scope(p) /\ q = m.seq
  BY <1>1, <1>2 DEF Row
<1>3. CASE ~(s = Scope(p) /\ q = m.seq)
  BY <1>1, <1>3 DEF RowStep
<1> QED BY <1>2, <1>3

LEMMA SameRows ==
  ASSUME NEW p \in Procs, ledger' = ledger
  PROVE  \A s \in Scopes, q \in Seqs : RowStep(p, s, q, ledger[s][q], ledger'[s][q])
BY DEF RowStep

LEMMA ExemptionLog ==
  ASSUME TypeInv, NEW p \in Procs, pc[p] # "idle", lock = p, NEW m \in todo[p], AuditWhenExempt(p, m)
  PROVE  LogStep(p)
<1> DEFINE a == [verb |-> "apply --allow-below-applied", scope |-> Scope(p), key |-> m.seq,
                 old |-> NoIdentity, new |-> Identity(m.name, ContentDigest(m))]
<1>1. m \in Migrations /\ m.seq \in Seqs /\ Scope(p) \in Scopes
  BY OwnRow
<1>2. a \in AuditRows
  <2>1. NoIdentity \in Identities /\ Identity(m.name, ContentDigest(m)) \in Identities
    BY <1>1 DEF NoIdentity, Identity, Identities, Names, Digests, ContentDigest
  <2> QED BY <1>1, <2>1 DEF AuditRows, Verbs
<1>3. repairs' = Append(repairs, a) \/ repairs' = repairs
  BY DEF AuditWhenExempt, InsertAudit
<1>4. a.verb = "apply --allow-below-applied"
  OBVIOUS
<1> HIDE DEF a
<1> QED BY <1>2, <1>3, <1>4 DEF LogStep

LEMMA RowOfFits ==
  ASSUME NEW m \in Migrations, NEW row, row.digest = ContentDigest(m),
         row.semantic = SemanticContentDigest(m)
  PROVE  DigestsFit(row)
BY DEF DigestsFit

LEMMA MigratorWrite ==
  ASSUME TypeInv, NEW p \in Procs, pc[p] # "idle", Writes(p)
  PROVE  /\ \A s \in Scopes, q \in Seqs : RowStep(p, s, q, ledger[s][q], ledger'[s][q])
         /\ LogStep(p) /\ LandStep(p)
<1> USE DEF LandStep, LogStep
<1>0. ASSUME NEW m \in todo[p]
      PROVE  /\ m \in Migrations /\ m.seq \in Seqs /\ Scope(p) \in Scopes
             /\ Recorded(Row(p, m)) => Row(p, m) \in Rows
  BY OwnRow
<1>1. CASE CreateTracker(p) \/ CreateSchema(p)
  BY <1>1, SameRows DEF CreateTracker, CreateSchema
<1>2. ASSUME NEW m \in todo[p], StampRow(p, m)
      PROVE  /\ \A s \in Scopes, q \in Seqs : RowStep(p, s, q, ledger[s][q], ledger'[s][q])
             /\ LogStep(p) /\ LandStep(p)
  <2> DEFINE row == [Row(p, m) EXCEPT !.semantic = SemanticContentDigest(m)]
  <2>1. UNCHANGED <<landed, repairs>>
    BY <1>2 DEF StampRow
  <2>2. CASE ledger' = ledger
    BY <2>1, <2>2, SameRows
  <2>3. CASE Recorded(Row(p, m)) /\ Row(p, m).digest = ContentDigest(m) /\ SetRow(p, m, row)
    <3>1. /\ row \in Rows /\ row.filename = Row(p, m).filename /\ row.status = Row(p, m).status
          /\ row.digest = ContentDigest(m) /\ row.semantic = SemanticContentDigest(m)
      BY <1>0, <2>3 DEF Rows, Tokens, SemanticContentDigest
    <3>2. row # NoRow
      BY <3>1, NoRowAssumption DEF NoRowAssumption
    <3>3. DigestsFit(row)
      BY <1>0, <3>1, RowOfFits
    <3> HIDE DEF row
    <3>4. IsDirty(row) <=> IsDirty(Row(p, m))
      BY <2>3, <3>1, <3>2 DEF IsDirty, Recorded
    <3>5. RowStep(p, Scope(p), m.seq, Row(p, m), row)
      BY <2>3, <3>1, <3>2, <3>3, <3>4 DEF RowStep, Recorded
    <3> QED BY <2>1, <2>3, <3>5, NewRowStep
  <2> QED BY <1>2, <2>2, <2>3 DEF StampRow
<1>3. ASSUME NEW m \in todo[p], CommitMigration(p, m)
      PROVE  /\ \A s \in Scopes, q \in Seqs : RowStep(p, s, q, ledger[s][q], ledger'[s][q])
             /\ LogStep(p) /\ LandStep(p)
  <2>1. Handles(p, "apply", Scope(p), m.seq)
    BY <1>3 DEF CommitMigration, Handles
  <2>2. LogStep(p)
    BY <1>3, ExemptionLog DEF CommitMigration
  <2>3. LandStep(p)
    BY <1>0, <1>3, <2>1, LandAt DEF CommitMigration, TypeInv
  <2>4. CASE ledger' = ledger
    BY <2>2, <2>3, <2>4, SameRows
  <2>5. CASE ~Recorded(Row(p, m)) /\ SetRow(p, m, RowOf(m, StatusApplied))
    <3>1. RowOf(m, StatusApplied) # NoRow
      BY <1>0, RowOfType, NoRowAssumption DEF NoRowAssumption
    <3>2. DigestsFit(RowOf(m, StatusApplied)) /\ ~IsDirty(RowOf(m, StatusApplied))
      BY <1>0, RowOfFits DEF RowOf, IsDirty
    <3>3. RowStep(p, Scope(p), m.seq, Row(p, m), RowOf(m, StatusApplied))
      BY <2>1, <2>5, <3>1, <3>2 DEF RowStep, IsDirty
    <3> QED BY <2>2, <2>3, <2>5, <3>3, NewRowStep
  <2> QED BY <1>3, <2>4, <2>5 DEF CommitMigration
<1>4. ASSUME NEW m \in todo[p], ClaimRow(p, m)
      PROVE  /\ \A s \in Scopes, q \in Seqs : RowStep(p, s, q, ledger[s][q], ledger'[s][q])
             /\ LogStep(p) /\ LandStep(p)
  <2>1. Handles(p, "apply", Scope(p), m.seq) /\ UNCHANGED <<landed, repairs>>
    BY <1>4 DEF ClaimRow, Handles
  <2> DEFINE row == [Row(p, m) EXCEPT !.status = StatusRunning, !.filename = m.name]
  <2>2. CASE Recorded(Row(p, m)) /\ SetRow(p, m, row)
    <3>1. /\ row \in Rows /\ row.status = StatusRunning
          /\ row.digest = Row(p, m).digest /\ row.semantic = Row(p, m).semantic
      BY <1>0, <2>2 DEF Rows, Names
    <3>2. row # NoRow
      BY <3>1, NoRowAssumption DEF NoRowAssumption
    <3> HIDE DEF row
    <3>3. DigestsFit(Row(p, m)) => DigestsFit(row)
      BY <2>2, <3>1 DEF DigestsFit
    <3>4. IsDirty(row)
      BY <3>1, <3>2 DEF IsDirty, Recorded, StatusRunning, StatusApplied
    <3>5. lock = p
      BY <2>1 DEF Handles
    <3>6. RowStep(p, Scope(p), m.seq, Row(p, m), row)
      BY <2>1, <2>2, <3>2, <3>3, <3>4, <3>5 DEF RowStep, Recorded
    <3> QED BY <2>1, <2>2, <3>6, NewRowStep
  <2>3. CASE ~Recorded(Row(p, m)) /\ SetRow(p, m, RowOf(m, StatusRunning))
    <3>1. RowOf(m, StatusRunning) # NoRow
      BY <1>0, RowOfType, NoRowAssumption DEF NoRowAssumption
    <3>2. DigestsFit(RowOf(m, StatusRunning))
      BY <1>0, RowOfFits DEF RowOf
    <3>3. lock = p
      BY <2>1 DEF Handles
    <3>4. RowStep(p, Scope(p), m.seq, Row(p, m), RowOf(m, StatusRunning))
      BY <2>1, <2>3, <3>1, <3>2, <3>3 DEF RowStep, IsDirty
    <3> QED BY <2>1, <2>3, <3>4, NewRowStep
  <2> QED BY <1>4, <2>2, <2>3 DEF ClaimRow
<1>5. ASSUME NEW m \in todo[p], RunStatement(p, m)
      PROVE  /\ \A s \in Scopes, q \in Seqs : RowStep(p, s, q, ledger[s][q], ledger'[s][q])
             /\ LogStep(p) /\ LandStep(p)
  <2>1. Handles(p, "exec", Scope(p), m.seq) /\ UNCHANGED <<ledger, repairs>>
    BY <1>5 DEF RunStatement, Handles
  <2>2. LandStep(p)
    BY <1>0, <1>5, <2>1, LandAt DEF RunStatement, TypeInv
  <2> QED BY <2>1, <2>2, SameRows
<1>6. ASSUME NEW m \in todo[p], RecordFailure(p, m)
      PROVE  /\ \A s \in Scopes, q \in Seqs : RowStep(p, s, q, ledger[s][q], ledger'[s][q])
             /\ LogStep(p) /\ LandStep(p)
  <2> DEFINE row == [Row(p, m) EXCEPT !.status = StatusFailed]
  <2>1. lock = p /\ UNCHANGED <<landed, repairs>>
    BY <1>6 DEF RecordFailure
  <2>2. CASE ledger' = ledger
    BY <2>1, <2>2, SameRows
  <2>3. CASE Recorded(Row(p, m)) /\ SetRow(p, m, row)
    <3>1. /\ row \in Rows /\ row.status = StatusFailed /\ row.filename = Row(p, m).filename
          /\ row.digest = Row(p, m).digest /\ row.semantic = Row(p, m).semantic
      BY <1>0, <2>3 DEF Rows
    <3>2. row # NoRow
      BY <3>1, NoRowAssumption DEF NoRowAssumption
    <3> HIDE DEF row
    <3>3. DigestsFit(Row(p, m)) => DigestsFit(row)
      BY <2>3, <3>1 DEF DigestsFit
    <3>4. IsDirty(row)
      BY <3>1, <3>2 DEF IsDirty, Recorded, StatusFailed, StatusApplied
    <3>5. RowStep(p, Scope(p), m.seq, Row(p, m), row)
      BY <2>1, <2>3, <3>1, <3>2, <3>3, <3>4 DEF RowStep, Recorded
    <3> QED BY <2>1, <2>3, <3>5, NewRowStep
  <2> QED BY <1>6, <2>2, <2>3 DEF RecordFailure
<1>7. ASSUME NEW m \in todo[p], RecordSuccess(p, m)
      PROVE  /\ \A s \in Scopes, q \in Seqs : RowStep(p, s, q, ledger[s][q], ledger'[s][q])
             /\ LogStep(p) /\ LandStep(p)
  <2> DEFINE row == [Row(p, m) EXCEPT !.status = StatusApplied, !.digest = ContentDigest(m),
                                      !.semantic = SemanticContentDigest(m)]
  <2>1. Handles(p, "finish", Scope(p), m.seq) /\ landed' = landed
    BY <1>7 DEF RecordSuccess, Handles
  <2>2. LogStep(p)
    BY <1>7, ExemptionLog DEF RecordSuccess
  <2>3. CASE ledger' = ledger
    BY <2>1, <2>2, <2>3, SameRows
  <2>4. CASE Recorded(Row(p, m)) /\ SetRow(p, m, row)
    <3>1. /\ row \in Rows /\ row.status = StatusApplied /\ row.filename = Row(p, m).filename
          /\ row.digest = ContentDigest(m) /\ row.semantic = SemanticContentDigest(m)
      BY <1>0, <2>4 DEF Rows, Digests, Tokens, ContentDigest, SemanticContentDigest
    <3>2. row # NoRow
      BY <3>1, NoRowAssumption DEF NoRowAssumption
    <3>3. DigestsFit(row)
      BY <1>0, <3>1, RowOfFits
    <3> HIDE DEF row
    <3>4. ~IsDirty(row)
      BY <3>1 DEF IsDirty
    <3>5. RowStep(p, Scope(p), m.seq, Row(p, m), row)
      BY <2>1, <2>4, <3>1, <3>2, <3>3, <3>4 DEF RowStep, Recorded
    <3> QED BY <2>1, <2>2, <2>4, <3>5, NewRowStep
  <2> QED BY <1>7, <2>3, <2>4 DEF RecordSuccess
<1> QED BY <1>1, <1>2, <1>3, <1>4, <1>5, <1>6, <1>7 DEF Writes

MigrateStep(p) == Begin(p) \/ Validate(p) \/ Waits(p) \/ Works(p) \/ Faults(p)

(* Whatever the step, the rows, the log and the schema change as a write of *)
(* one statement does.                                                      *)
LEMMA StepEffect ==
  ASSUME TypeInv, NEW p \in Procs, MigrateStep(p)
  PROVE  /\ \A s \in Scopes, q \in Seqs : RowStep(p, s, q, ledger[s][q], ledger'[s][q])
         /\ LogStep(p) /\ LandStep(p)
<1>1. CASE UNCHANGED dbVars
  BY <1>1, SameRows DEF dbVars, LogStep, LandStep
<1>2. CASE Writes(p)
  <2>1. pc[p] # "idle"
    BY <1>2 DEF Writes, CreateTracker, CreateSchema, StampRow, CommitMigration, ClaimRow,
                RunStatement, RecordFailure, RecordSuccess
  <2> QED BY <1>2, <2>1, MigratorWrite
<1> QED BY <1>1, <1>2, StepWrites DEF MigrateStep

LEMMA StepKeepsTypes ==
  ASSUME TypeInv, NEW p \in Procs, MigrateStep(p) PROVE TypeInv'
BY StepTypes DEF MigrateStep, Next

(* A process takes one file at a time: two next files are the same file.    *)
LEMMA OneNext ==
  ASSUME TypeInv, NEW p \in Procs, pc[p] # "idle", NEW m \in todo[p], NEW n \in todo[p],
         IsNext(p, m), IsNext(p, n)
  PROVE  m = n
<1>1. m.seq \in Nat /\ n.seq \in Nat
  BY TodoKeys, SeqsAreNat
<1>2. m.seq = n.seq
  BY <1>1 DEF IsNext
<1>3. call[p].tree \in Seq(Migrations) /\ ValidateSequences(call[p].tree)
  BY TreesAreChains DEF TypeInv, CallInv
<1>4. m \in Files(call[p].tree) /\ n \in Files(call[p].tree)
  BY DEF TypeInv, CallInv
<1> QED BY <1>2, <1>3, <1>4, ValidChain

(* A file without a row gets one only by being the one that is started.     *)
LEMMA StartedOnly ==
  ASSUME TypeInv, NEW p \in Procs, pc[p] # "idle", MigrateStep(p), NEW m \in todo[p],
         ~Recorded(Row(p, m)), Recorded(ledger'[Scope(p)][m.seq])
  PROVE  pc[p] = "apply" /\ IsNext(p, m)
<1>1. m.seq \in Seqs /\ Scope(p) \in Scopes
  BY OwnRow
<1>2. Handles(p, "apply", Scope(p), m.seq)
  BY <1>1, StepEffect DEF RowStep, Row
<1> QED BY <1>2 DEF Handles, IsNext

-----------------------------------------------------------------------------
(* Migrator implements Rollout: the runner *)

(* A number is being run exactly by the lock holder inside a no-transaction *)
(* file, and then it is the only one in the whole database.                 *)
LEMMA RunnerIsAlone ==
  ASSUME IInv, NEW p \in Procs, NEW m \in todo[p], lock = p, pc[p] \in OnNoTx, IsNext(p, m)
  PROVE  Running = {<<Scope(p), m.seq>>}
<1>1. pc[p] # "idle" /\ Scope(p) \in Scopes /\ m.seq \in Seqs
  BY TodoKeys, TreesAreChains DEF IInv, TypeInv, OnNoTx, Scope
<1>2. Runs(p, Scope(p), m.seq)
  BY DEF Runs, OnNoTx
<1>3. ASSUME NEW r \in Procs, NEW s \in Scopes, NEW q \in Seqs, Runs(r, s, q)
      PROVE  s = Scope(p) /\ q = m.seq
  <2>1. r = p /\ s = Scope(p)
    BY <1>3 DEF Runs
  <2>2. PICK n \in todo[p] : IsNext(p, n) /\ n.seq = q
    BY <1>3, <2>1 DEF Runs
  <2>3. m.seq \in Nat /\ n.seq \in Nat
    BY <1>1, <2>2, SeqsAreNat
  <2> QED BY <2>1, <2>2, <2>3 DEF IsNext
<1> QED BY <1>1, <1>2, <1>3 DEF Running

LEMMA NobodyRuns ==
  ASSUME NEW p \in Procs, lock = p, pc[p] \notin OnNoTx
  PROVE  Running = {}
BY DEF Running, Runs, OnNoTx

(* At most one number is run at a time.                                     *)
LEMMA AtMostOneRunner ==
  ASSUME IInv, NEW k \in Running PROVE Running = {k}
<1>1. PICK p \in Procs : Runs(p, k[1], k[2])
  BY DEF Running
<1>2. PICK m \in todo[p] : IsNext(p, m) /\ m.seq = k[2]
  BY <1>1 DEF Runs
<1>3. lock = p /\ pc[p] \in OnNoTx
  BY <1>1 DEF Runs, OnNoTx
<1> QED BY <1>2, <1>3, RunnerIsAlone

(* A step of one process leaves the runs of the others alone.               *)
LEMMA OthersRun ==
  ASSUME IInv, NEW p \in Procs, NEW r \in Procs, r # p,
         Begin(p) \/ Validate(p) \/ Waits(p) \/ Works(p) \/ Faults(p),
         NEW s \in Scopes, NEW q \in Seqs
  PROVE  Runs(r, s, q)' <=> Runs(r, s, q)
<1>1. pc'[r] = pc[r] /\ call'[r] = call[r] /\ todo'[r] = todo[r]
  BY OthersUntouched DEF IInv
<1>2. lock' = r <=> lock = r
  BY StepWrites, LockStaysWithOthers, CallerAssumption DEF CallerAssumption
<1> QED BY <1>1, <1>2 DEF Runs, Scope, IsNext

(* How a process comes to be, or stays, inside a no-transaction file.       *)
LEMMA RunsOn ==
  ASSUME IInv, NEW p \in Procs,
         Begin(p) \/ Validate(p) \/ Waits(p) \/ Works(p) \/ Faults(p),
         lock' = p, pc'[p] \in OnNoTx
  PROVE  ClaimNoTx(p) \/ ExecNoTx(p) \/ (StatementFails(p) /\ pc[p] = "exec")
<1> USE DEF Goto, Return, Unwind, OnNoTx
<1>1. p \in DOMAIN pc /\ p # Nobody /\ (lock = p => pc[p] \in Pinned)
  BY CallerAssumption DEF IInv, TypeInv, TypeOK, LockInv, CallerAssumption
<1>2. CASE Begin(p) \/ Validate(p)
  BY <1>1, <1>2 DEF Begin, Validate
<1>3. CASE Waits(p)
  BY <1>1, <1>3 DEF Waits, EnsureSetup, AcquireLock
<1>4. CASE ReadForStamps(p) \/ Stamp(p) \/ CheckUnlocked(p) \/ CheckLocked(p) \/ EnsureSchema(p)
  BY <1>1, <1>4 DEF ReadForStamps, Stamp, CheckUnlocked, CheckLocked, EnsureSchema
<1>5. CASE ApplyOne(p) \/ FinishNoTx(p)
  BY <1>1, <1>5 DEF ApplyOne, FinishNoTx, Advance
<1>6. CASE MarkFailed(p) \/ Unlock(p)
  BY <1>1, <1>6 DEF MarkFailed, Unlock
<1>7. CASE StatementFails(p)
  BY <1>1, <1>7 DEF StatementFails, ErrorPath
<1>8. CASE ConnectionLost(p) \/ Crash(p)
  BY <1>1, <1>8 DEF ConnectionLost, Crash, ErrorPath, ReleaseHeld, Pinned, Unlocked
<1> QED BY <1>2, <1>3, <1>4, <1>5, <1>6, <1>7, <1>8 DEF Works, Faults

(* A step after which the stepping process is in no such file.              *)
LEMMA RunEnds ==
  ASSUME IInv, NEW p \in Procs,
         Begin(p) \/ Validate(p) \/ Waits(p) \/ Works(p) \/ Faults(p),
         ~(lock' = p /\ pc'[p] \in OnNoTx)
  PROVE  /\ Running' \in {Running, {}}
         /\ lock = p => Running' = {}
<1>1. \A s \in Scopes, q \in Seqs : ~Runs(p, s, q)'
  BY DEF Runs, OnNoTx
<1>2. \A r \in Procs, s \in Scopes, q \in Seqs : Runs(r, s, q)' => Runs(r, s, q)
  BY <1>1, OthersRun
<1>3. CASE lock = p
  <2>1. \A r \in Procs, s \in Scopes, q \in Seqs : ~Runs(r, s, q)'
    BY <1>1, <1>2, <1>3 DEF Runs
  <2> QED BY <1>3, <2>1 DEF Running
<1>4. Running' \subseteq Running
  BY <1>2 DEF Running
<1>5. Running' \in {Running, {}}
  BY <1>4, AtMostOneRunner
<1> QED BY <1>3, <1>5

-----------------------------------------------------------------------------
(* What a write shows *)

(* Both modules read the same ledger.                                       *)
LEMMA SameLedger ==
  /\ Abstract!Seqs = Seqs /\ Abstract!Absent = "absent"
  /\ Abstract!StatusApplied = "applied" /\ StatusApplied = "applied"
  /\ Abstract!StatusRunning = "running" /\ StatusRunning = "running"
  /\ Abstract!StatusFailed = "failed" /\ StatusFailed = "failed"
  /\ \A m : Abstract!Units(m) = Units(m)
BY DEF Abstract!Seqs, Seqs, Abstract!NoSequence, NoSequence, Abstract!Absent, Abstract!StatusApplied,
       StatusApplied, Abstract!StatusRunning, StatusRunning, Abstract!StatusFailed, StatusFailed,
       Abstract!Units, Units

(* A scope in which the lock holder may start a file has nothing unfinished. *)
LEMMA NothingUnfinished ==
  ASSUME IInv, NEW p \in Procs, lock = p, pc[p] = "apply"
  PROVE  ~Abstract!Unfinished(Scope(p))
<1>1. Scope(p) \in Scopes
  BY TreesAreChains DEF IInv, TypeInv, Scope
<1>2. \A q \in Seqs : ~IsDirty(ledger[Scope(p)][q])
  BY DEF IInv, WorkInv, WorkOf
<1>3. ASSUME NEW q \in Seqs PROVE Statuses[Scope(p)][q] \in {"absent", StatusApplied}
  BY <1>1, <1>2 DEF Statuses, Phase
<1> QED BY <1>3, SameLedger DEF Abstract!Unfinished

(* One key changes, and with it one phase and what the schema shows.        *)
LEMMA TouchShows ==
  ASSUME IInv, TypeInv', NEW p \in Procs, NEW q \in Seqs, NEW new, NEW pieces, Touches(p, q, new, pieces)
  PROVE  /\ Abstract!Becomes(Scope(p), q, Phase(new))
         /\ Abstract!Shows(Scope(p), q, pieces)
<1>1. Scope(p) \in Scopes
  BY TreesAreChains DEF IInv, TypeInv, Scope
<1>2. \A s \in Scopes, k \in Seqs :
        Phase(ledger[s][k])' = IF s = Scope(p) /\ k = q THEN Phase(new) ELSE Phase(ledger[s][k])
  BY DEF Touches, Phase, Recorded, IsDirty
<1>3. Statuses' = [Statuses EXCEPT ![Scope(p)][q] = Phase(new)]
  BY <1>1, <1>2 DEF Statuses
<1>4. /\ landed \in [Scopes -> [Seqs -> Seq(Pieces)]]
      /\ landed' \in [Scopes -> [Seqs -> Seq(Pieces)]]
  BY DEF IInv, TypeInv, TypeOK
<1>5. \A s \in Scopes, k \in Seqs :
        landed'[s][k] = IF s = Scope(p) /\ k = q THEN pieces ELSE landed[s][k]
  BY DEF Touches
<1>6. landed' = [landed EXCEPT ![Scope(p)][q] = pieces]
  BY <1>1, <1>4, <1>5
<1> QED BY <1>3, <1>6 DEF Abstract!Becomes, Abstract!Shows

(* The row of a file that is not there, or is being run.                    *)
LEMMA PhaseOf ==
  ASSUME IInv, NEW p \in Procs, NEW m \in todo[p], pc[p] # "idle"
  PROVE  /\ m \in Migrations /\ m.seq \in Seqs /\ Scope(p) \in Scopes
         /\ Statuses[Scope(p)][m.seq] = Phase(Row(p, m))
<1>1. m \in Migrations /\ m.seq \in Seqs /\ Scope(p) \in Scopes
  BY OwnRow DEF IInv
<1> QED BY <1>1 DEF Statuses, Row

-----------------------------------------------------------------------------
(* Every write is a step of Rollout *)

LEMMA CommitLands ==
  ASSUME IInv, TypeInv', NEW p \in Procs, NEW m \in todo[p], CommitMigration(p, m), Running' = {}
  PROVE  Abstract!Land(Scope(p), m)
<1>1. lock = p /\ pc[p] = "apply" /\ ~m.notx
  BY DEF CommitMigration
<1>2. /\ Touches(p, m.seq, RowOf(m, StatusApplied), Units(m))
      /\ ~Recorded(Row(p, m)) /\ m \in Migrations /\ m.seq \in Seqs
  BY CommitEffect
<1>3. Phase(RowOf(m, StatusApplied)) = StatusApplied
  BY <1>2, RowOfType, NoRowAssumption
  DEF Phase, Recorded, IsDirty, RowOf, StatusApplied, NoRowAssumption
<1>4. Statuses[Scope(p)][m.seq] = "absent" /\ Running = {}
  BY <1>1, <1>2, PhaseOf, NobodyRuns DEF Phase, OnNoTx
<1> QED BY <1>1, <1>2, <1>3, <1>4, TouchShows, NothingUnfinished, SameLedger DEF Abstract!Land

LEMMA ClaimClaims ==
  ASSUME IInv, TypeInv', NEW p \in Procs, NEW m \in todo[p], ClaimRow(p, m),
         Running' \in {{<<Scope(p), m.seq>>}, {}}
  PROVE  Abstract!Claim(Scope(p), m)
<1>1. lock = p /\ pc[p] = "apply" /\ m.notx
  BY DEF ClaimRow
<1>2. /\ Touches(p, m.seq, RowOf(m, StatusRunning), <<>>)
      /\ ~Recorded(Row(p, m)) /\ m \in Migrations /\ m.seq \in Seqs /\ UNCHANGED landed
  BY ClaimEffect
<1>3. Phase(RowOf(m, StatusRunning)) = StatusRunning
  BY <1>2, RowOfType, NoRowAssumption
  DEF Phase, Recorded, IsDirty, RowOf, StatusApplied, StatusRunning, NoRowAssumption
<1>4. Statuses[Scope(p)][m.seq] = "absent" /\ Running = {}
  BY <1>1, <1>2, PhaseOf, NobodyRuns DEF Phase, OnNoTx
<1> QED BY <1>1, <1>2, <1>3, <1>4, TouchShows, NothingUnfinished, SameLedger
        DEF Abstract!Claim, Abstract!MayEnd

(* What the runner of a no-transaction file finds.                          *)
LEMMA RunnerFinds ==
  ASSUME IInv, NEW p \in Procs, NEW m \in todo[p], lock = p, pc[p] \in OnNoTx, IsNext(p, m)
  PROVE  /\ Running = {<<Scope(p), m.seq>>}
         /\ Statuses[Scope(p)][m.seq] = StatusRunning
<1>1. Underway(p, m) /\ pc[p] # "idle"
  BY OwnsClaim DEF OnNoTx
<1>2. Phase(Row(p, m)) = StatusRunning
  BY <1>1 DEF Underway, Phase, IsDirty
<1> QED BY <1>1, <1>2, PhaseOf, RunnerIsAlone

LEMMA RunProgresses ==
  ASSUME IInv, TypeInv', NEW p \in Procs, NEW m \in todo[p], RunStatement(p, m),
         Running' \in {{<<Scope(p), m.seq>>}, {}}
  PROVE  Abstract!Progress(Scope(p), m)
<1>1. lock = p /\ pc[p] = "exec" /\ IsNext(p, m)
  BY DEF RunStatement
<1>2. /\ Touches(p, m.seq, Row(p, m), [i \in 1..stmt[p] |-> <<m, i>>])
      /\ Underway(p, m) /\ m \in Migrations /\ m.seq \in Seqs /\ UNCHANGED ledger
  BY RunEffect
<1>3. /\ stmt[p] \in 1..m.stmts
      /\ landed[Scope(p)][m.seq] = [i \in 1..(stmt[p] - 1) |-> <<m, i>>]
  BY <1>1, <1>2 DEF Underway
<1>4. ASSUME NEW k \in 0..m.stmts PROVE SubSeq(Units(m), 1, k) = [i \in 1..k |-> <<m, i>>]
  <2>1. Units(m) \in Seq(Pieces) /\ Len(Units(m)) = m.stmts /\ m.stmts \in Nat
    BY <1>2, UnitsType
  <2>2. SubSeq(Units(m), 1, k) = [i \in 1..k |-> Units(m)[i]]
    BY <2>1
  <2>3. \A i \in 1..k : Units(m)[i] = <<m, i>>
    BY <2>1 DEF Units
  <2> QED BY <2>2, <2>3
<1>5. stmt[p] \in 0..m.stmts /\ stmt[p] - 1 \in 0..m.stmts
  BY <1>2, <1>3, UnitsType
<1>6. /\ landed[Scope(p)][m.seq] = SubSeq(Units(m), 1, stmt[p] - 1)
      /\ Abstract!Shows(Scope(p), m.seq, SubSeq(Units(m), 1, stmt[p]))
  BY <1>2, <1>3, <1>4, <1>5, TouchShows
<1>7. Running = {<<Scope(p), m.seq>>} /\ Statuses[Scope(p)][m.seq] = StatusRunning
  BY <1>1, RunnerFinds DEF OnNoTx
<1>8. Statuses' = Statuses
  BY <1>2 DEF Statuses
<1> QED BY <1>3, <1>6, <1>7, <1>8, SameLedger DEF Abstract!Progress, Abstract!MayEnd

LEMMA FailureFails ==
  ASSUME IInv, TypeInv', NEW p \in Procs, NEW m \in todo[p], RecordFailure(p, m), Running' = {}
  PROVE  Abstract!Fail(Scope(p), m)
<1>1. lock = p /\ pc[p] = "markFailed" /\ IsNext(p, m)
  BY DEF RecordFailure
<1>2. PICK new \in Rows : /\ Touches(p, m.seq, new, landed[Scope(p)][m.seq])
                          /\ new.status = StatusFailed /\ IsDirty(new)
  BY FailureEffect
<1>3. m.seq \in Seqs /\ UNCHANGED landed
  BY FailureEffect
<1>4. Phase(new) = StatusFailed
  BY <1>2 DEF Phase, IsDirty
<1>5. Running = {<<Scope(p), m.seq>>} /\ Statuses[Scope(p)][m.seq] = StatusRunning
  BY <1>1, RunnerFinds DEF OnNoTx
<1> QED BY <1>2, <1>3, <1>4, <1>5, TouchShows, SameLedger DEF Abstract!Fail

LEMMA SuccessFinishes ==
  ASSUME IInv, TypeInv', NEW p \in Procs, NEW m \in todo[p], RecordSuccess(p, m), Running' = {}
  PROVE  Abstract!Finish(Scope(p), m)
<1>1. lock = p /\ pc[p] = "finish" /\ IsNext(p, m)
  BY DEF RecordSuccess
<1>2. PICK new \in Rows : Touches(p, m.seq, new, Units(m)) /\ IsApplied(new)
  BY SuccessEffect
<1>3. Underway(p, m) /\ m.seq \in Seqs /\ UNCHANGED landed
  BY SuccessEffect
<1>4. Phase(new) = StatusApplied /\ landed[Scope(p)][m.seq] = Units(m)
  BY <1>1, <1>2, <1>3 DEF Phase, IsApplied, Underway
<1>5. Running = {<<Scope(p), m.seq>>} /\ Statuses[Scope(p)][m.seq] = StatusRunning
  BY <1>1, RunnerFinds DEF OnNoTx
<1> QED BY <1>2, <1>3, <1>4, <1>5, TouchShows, SameLedger DEF Abstract!Finish

(* A stamp shows nothing: it changes neither a status nor a schema.         *)
LEMMA StampShowsNothing ==
  ASSUME IInv, NEW p \in Procs, NEW m \in todo[p], StampRow(p, m)
  PROVE  Statuses' = Statuses /\ landed' = landed
<1>1. CASE UNCHANGED <<ledger, landed>>
  BY <1>1 DEF Statuses
<1>2. ASSUME NEW new \in Rows, Touches(p, m.seq, new, landed[Scope(p)][m.seq]),
             Recorded(Row(p, m)), Recorded(new), new.status = Row(p, m).status
      PROVE  Statuses' = Statuses
  <2>1. Phase(new) = Phase(Row(p, m))
    BY <1>2 DEF Phase, IsDirty
  <2>2. \A s \in Scopes, k \in Seqs : Phase(ledger[s][k])' = Phase(ledger[s][k])
    BY <1>2, <2>1 DEF Touches, Phase, Recorded, IsDirty, Row
  <2> QED BY <2>2 DEF Statuses
<1> QED BY <1>1, <1>2, StampEffect DEF IInv

-----------------------------------------------------------------------------
(* Every step is a step of Rollout or shows nothing *)

LEMMA WriteAdvances ==
  ASSUME IInv, TypeInv', NEW p \in Procs, Writes(p),
         Running' \in {Running, {}}, lock = p => Running' = {}
  PROVE  Abstract!Advance \/ UNCHANGED <<Statuses, landed, Running>>
<1> DEFINE Quiet == Statuses' = Statuses /\ landed' = landed
<1>1. ASSUME Quiet PROVE Abstract!Advance \/ UNCHANGED <<Statuses, landed, Running>>
  BY <1>1 DEF Abstract!Advance, Abstract!Abandon
<1>2. CASE CreateTracker(p) \/ CreateSchema(p)
  BY <1>1, <1>2 DEF CreateTracker, CreateSchema, Statuses
<1>3. ASSUME NEW m \in todo[p], StampRow(p, m) PROVE Quiet
  BY <1>3, StampShowsNothing
<1>4. ASSUME NEW m \in todo[p],
             \/ CommitMigration(p, m) \/ ClaimRow(p, m) \/ RunStatement(p, m)
             \/ RecordFailure(p, m) \/ RecordSuccess(p, m)
      PROVE  Abstract!Advance
  <2>1. lock = p /\ pc[p] # "idle"
    BY <1>4 DEF CommitMigration, ClaimRow, RunStatement, RecordFailure, RecordSuccess
  <2>2. m \in Migrations /\ m.seq \in Abstract!Seqs /\ Scope(p) \in Scopes
    BY <2>1, PhaseOf, SameLedger
  <2>3. \/ Abstract!Land(Scope(p), m) \/ Abstract!Claim(Scope(p), m) \/ Abstract!Progress(Scope(p), m)
        \/ Abstract!Fail(Scope(p), m) \/ Abstract!Finish(Scope(p), m)
    BY <1>4, <2>1, CommitLands, ClaimClaims, RunProgresses, FailureFails, SuccessFinishes
  <2> QED BY <2>2, <2>3 DEF Abstract!Advance
<1> QED BY <1>1, <1>2, <1>3, <1>4 DEF Writes

LEMMA StepAdvances ==
  ASSUME IInv, IInv', NEW p \in Procs,
         Begin(p) \/ Validate(p) \/ Waits(p) \/ Works(p) \/ Faults(p)
  PROVE  Abstract!Advance \/ UNCHANGED <<Statuses, landed, Running>>
<1>0. TypeInv'
  BY DEF IInv
<1>1. CASE lock' = p /\ pc'[p] \in OnNoTx /\ ~StatementFails(p)
  <2>1. PICK m \in todo[p] : ClaimRow(p, m) \/ RunStatement(p, m)
    BY <1>1, RunsOn DEF ClaimNoTx, ExecNoTx
  <2>2. UNCHANGED <<todo, call>>
    BY <1>1, RunsOn DEF ClaimNoTx, ExecNoTx
  <2>3. Running' = {<<Scope(p), m.seq>>}
    <3>1. IsNext(p, m)' /\ Scope(p)' = Scope(p)
      BY <2>1, <2>2 DEF ClaimRow, RunStatement, IsNext, Scope
    <3>2. pc'[p] # "idle" /\ Scope(p) \in Scopes /\ m.seq \in Seqs
      <4>1. pc[p] # "idle"
        BY <2>1 DEF ClaimRow, RunStatement
      <4> QED BY <1>1, <4>1, PhaseOf DEF OnNoTx
    <3>3. Runs(p, Scope(p), m.seq)'
      BY <1>1, <2>2, <3>1 DEF Runs, OnNoTx
    <3>4. <<Scope(p), m.seq>> \in Running'
      BY <3>1, <3>2, <3>3 DEF Running
    <3>5. \A r \in Procs, s \in Scopes, q \in Seqs : Runs(r, s, q)' => s = Scope(p) /\ q = m.seq
      <4>1. SUFFICES ASSUME NEW r \in Procs, NEW s \in Scopes, NEW q \in Seqs, Runs(r, s, q)'
                     PROVE  s = Scope(p) /\ q = m.seq
        OBVIOUS
      <4>2. r = p /\ s = Scope(p)
        BY <1>1, <3>1, <4>1 DEF Runs
      <4>3. PICK n \in todo[p] : IsNext(p, n)' /\ n.seq = q
        BY <2>2, <4>1, <4>2 DEF Runs
      <4>4. n.seq \in Nat /\ m.seq \in Nat /\ m.seq <= n.seq /\ n.seq <= m.seq
        BY <2>2, <3>1, <3>2, <4>3, SeqsAreNat DEF IsNext
      <4> QED BY <4>2, <4>3, <4>4
    <3> QED BY <3>4, <3>5 DEF Running
  <2>4. Abstract!Claim(Scope(p), m) \/ Abstract!Progress(Scope(p), m)
    BY <1>0, <2>1, <2>3, ClaimClaims, RunProgresses
  <2>5. m \in Migrations /\ m.seq \in Abstract!Seqs /\ Scope(p) \in Scopes
    BY <2>1, PhaseOf, SameLedger DEF ClaimRow, RunStatement
  <2> QED BY <2>4, <2>5 DEF Abstract!Advance
<1>2. CASE lock' = p /\ pc'[p] \in OnNoTx /\ StatementFails(p)
  <2>1. p \in DOMAIN pc
    BY DEF IInv, TypeInv, TypeOK
  <2>2. /\ pc[p] = "exec" /\ pc'[p] = "markFailed"
        /\ UNCHANGED <<ledger, landed, lock, call, todo>>
    BY <1>2, <2>1 DEF StatementFails, ErrorPath, Return, Unwind, Goto, OnNoTx, dbVars
  <2>3. \A s \in Scopes, q \in Seqs : Runs(p, s, q)' <=> Runs(p, s, q)
    BY <2>2 DEF Runs, Scope, IsNext
  <2>4. \A r \in Procs, s \in Scopes, q \in Seqs : Runs(r, s, q)' <=> Runs(r, s, q)
    BY <2>3, OthersRun
  <2> QED BY <2>2, <2>4 DEF Running, Statuses
<1>3. CASE ~(lock' = p /\ pc'[p] \in OnNoTx)
  <2>1. Running' \in {Running, {}} /\ (lock = p => Running' = {})
    BY <1>3, RunEnds
  <2>2. CASE UNCHANGED dbVars
    BY <2>1, <2>2 DEF dbVars, Statuses, Abstract!Advance, Abstract!Abandon
  <2> QED BY <1>0, <2>1, <2>2, StepWrites, WriteAdvances
<1> QED BY <1>1, <1>2, <1>3

LEMMA StartsAsRollout == ASSUME Init PROVE Abstract!Start
<1>1. PICK past \in [Scopes -> Histories], identified \in BOOLEAN, made \in SUBSET Scopes :
        /\ ledger = [s \in Scopes |-> HistoryRows(past[s], identified)]
        /\ landed = [s \in Scopes |-> HistoryPieces(past[s])]
  BY DEF Init
<1>2. Running = {}
  BY CallerAssumption DEF Init, Running, Runs, CallerAssumption
<1>3. ASSUME NEW s \in Scopes, NEW q \in Seqs
      PROVE  /\ landed[s][q] \in {<<>>} \cup {Units(m) : m \in Migrations}
             /\ Phase(ledger[s][q]) = IF landed[s][q] = <<>> THEN "absent" ELSE StatusApplied
  <2>1. ledger[s][q] = HistoryRows(past[s], identified)[q] /\ landed[s][q] = HistoryPieces(past[s])[q]
    BY <1>1
  <2>2. CASE HistoryRows(past[s], identified)[q] = NoRow /\ HistoryPieces(past[s])[q] = <<>>
    BY <2>1, <2>2 DEF Phase, Recorded
  <2>3. ASSUME NEW m \in Migrations, HistoryRows(past[s], identified)[q] = LegacyRow(m, identified),
               HistoryPieces(past[s])[q] = Units(m)
        PROVE  /\ landed[s][q] = Units(m) /\ Units(m) # <<>>
               /\ Phase(ledger[s][q]) = StatusApplied
    <3>1. Units(m) # <<>>
      BY UnitsType
    <3>2. Phase(LegacyRow(m, identified)) = StatusApplied
      BY LegacyRowType, NoRowAssumption
      DEF Phase, Recorded, IsDirty, LegacyRow, StatusApplied, NoRowAssumption
    <3> QED BY <2>1, <2>3, <3>1, <3>2
  <2> QED BY <2>1, <2>2, <2>3, HistoryOf
<1>4. landed \in [Scopes -> [Seqs -> {<<>>} \cup {Units(m) : m \in Migrations}]]
  <2>1. \A s \in Scopes : landed[s] \in [Seqs -> {<<>>} \cup {Units(m) : m \in Migrations}]
    BY <1>1, <1>3 DEF HistoryPieces
  <2> QED BY <1>1, <2>1
<1>5. Statuses = [s \in Scopes |-> [q \in Seqs |->
                    IF landed[s][q] = <<>> THEN "absent" ELSE StatusApplied]]
  BY <1>3 DEF Statuses
<1>6. {Abstract!Units(m) : m \in Migrations} = {Units(m) : m \in Migrations}
  BY SameLedger
<1> QED BY <1>2, <1>4, <1>5, <1>6, SameLedger DEF Abstract!Start

(* The apply path implements Rollout: through every interleaving, crash and *)
(* lost connection a number is seen to go from absent to applied once, at   *)
(* once or by one runner statement by statement, and nothing lands beside   *)
(* an unfinished number.                                                    *)
THEOREM ApplyImplementsRollout == Spec => ImplementsRollout
<1>1. Init => Abstract!Start
  BY StartsAsRollout
<1>2. IInv /\ IInv' /\ [Next]_vars => [Abstract!Advance]_(Abstract!rolloutVars)
  <2>1. CASE UNCHANGED vars
    BY <2>1 DEF vars, Abstract!rolloutVars, Statuses, Running, Runs, Scope, IsNext
  <2>2. ASSUME IInv, IInv', NEW p \in Procs,
               Begin(p) \/ Validate(p) \/ Waits(p) \/ Works(p) \/ Faults(p)
        PROVE  [Abstract!Advance]_(Abstract!rolloutVars)
    BY <2>2, StepAdvances DEF Abstract!rolloutVars
  <2> QED BY <2>1, <2>2 DEF Next
<1> QED BY <1>1, <1>2, Invariance, PTL DEF Spec, ImplementsRollout, Abstract!RolloutSpec
=============================================================================
