--------------------------- MODULE RepairsProofs ---------------------------
(* Machine-checked proofs about Repairs, for every value of its constants.  *)
EXTENDS Repairs, MigratorProofs

-----------------------------------------------------------------------------
(* The inductive invariant. The truth about the schema is not part of it:   *)
(* an operator may resolve a row to a lie. What holds is what the verbs and *)
(* the migrators know of each other through the lock and the rows.          *)

Desks == [step : {"rest", "setup", "read", "write", "lock", "plan", "commit", "unlock"},
          verb : Verbs \cup {"none"}, scope : Scopes, files : SUBSET Migrations,
          retire : SUBSET Seqs, read : Records]
DeskTypes == desk \in [Procs -> Desks]

(* A process at a desk runs no migration; a baseline past its lock has it,  *)
(* and what it is about to retire was there when it looked and is finished. *)
AtDesk(p) ==
  /\ desk[p] # AtRest => pc[p] = "idle" /\ desk[p].verb # "none"
  /\ \A m \in desk[p].files : m.seq # NoSequence
  /\ \A m, n \in desk[p].files : m.seq = n.seq => m = n
  /\ desk[p].step \in {"read", "write"} => desk[p].verb # "baseline"
  /\ desk[p].step \in {"plan", "commit", "unlock"} => lock = p
  /\ desk[p].step = "commit" =>
       \A q \in desk[p].retire : Recorded(desk[p].read[q]) /\ ~IsDirty(ledger[desk[p].scope][q])

(* The last audit of number q in scope s is a baseline's that recorded it.  *)
RecordsBaseline(a) == a.verb = "baseline" /\ a.new # NoIdentity
LastByBaseline(log, s, q) ==
  \E i \in DOMAIN log :
    /\ log[i].scope = s /\ log[i].key = q /\ RecordsBaseline(log[i])
    /\ \A j \in (i + 1)..Len(log) : log[j].scope # s \/ log[j].key # q

(* What a migrator with the lock knows: no file it has yet to start has a   *)
(* row, and no file it may still land was recorded by a baseline.           *)
AtMigration(p) ==
  /\ pc[p] \in {"createSchema", "apply"} => \A m \in todo[p] : ~Recorded(Row(p, m))
  /\ pc[p] \in {"exec", "finish"} => \A m \in todo[p] : IsNext(p, m) \/ ~Recorded(Row(p, m))
  /\ pc[p] \in {"createSchema", "apply", "exec", "finish"} =>
       \A m \in todo[p] : ~LastByBaseline(repairs, Scope(p), m.seq)

(* What a baseline recorded stays recorded until something else is audited. *)
BaselinesStand ==
  \A s \in Scopes, q \in Seqs : LastByBaseline(repairs, s, q) => Recorded(ledger[s][q])

RInv ==
  /\ TypeInv /\ DeskTypes
  /\ \A p \in Procs : AtDesk(p)
  /\ \A p \in Procs : lock = p => AtMigration(p)
  /\ BaselinesStand
  /\ DigestsAgree

-----------------------------------------------------------------------------
(* Lemmas about the audit trail *)

(* A sequence longer than another: what the log says of a number after some *)
(* audits were appended.                                                    *)
LEMMA LastOfLonger ==
  ASSUME NEW log \in Seq(AuditRows), NEW more \in Seq(AuditRows), NEW s, NEW q,
         LastByBaseline(log \o more, s, q)
  PROVE  \/ \E i \in DOMAIN more : /\ more[i].scope = s /\ more[i].key = q
                                   /\ RecordsBaseline(more[i])
         \/ /\ LastByBaseline(log, s, q)
            /\ \A i \in DOMAIN more : more[i].scope # s \/ more[i].key # q
<1> DEFINE all == log \o more
<1>1. PICK i \in DOMAIN all :
        /\ all[i].scope = s /\ all[i].key = q /\ RecordsBaseline(all[i])
        /\ \A j \in (i + 1)..Len(all) : all[j].scope # s \/ all[j].key # q
  BY DEF LastByBaseline
<1>2. /\ Len(log) \in Nat /\ Len(more) \in Nat /\ Len(all) = Len(log) + Len(more)
      /\ DOMAIN all = 1..(Len(log) + Len(more))
      /\ DOMAIN log = 1..Len(log) /\ DOMAIN more = 1..Len(more)
      /\ \A k \in 1..Len(log) : all[k] = log[k]
      /\ \A k \in 1..Len(more) : all[Len(log) + k] = more[k]
  OBVIOUS
<1> HIDE DEF all
<1>3. CASE i > Len(log)
  <2>1. i - Len(log) \in 1..Len(more) /\ Len(log) + (i - Len(log)) = i
    BY <1>1, <1>2, <1>3
  <2>2. all[i] = more[i - Len(log)]
    BY <1>2, <2>1
  <2> QED BY <1>1, <1>2, <2>1, <2>2
<1>4. CASE i <= Len(log)
  <2>1. i \in DOMAIN log /\ log[i] = all[i]
    BY <1>1, <1>2, <1>4
  <2>2. ASSUME NEW j \in (i + 1)..Len(log) PROVE log[j].scope # s \/ log[j].key # q
    <3>1. j \in (i + 1)..Len(all) /\ all[j] = log[j]
      BY <1>1, <1>2, <1>4
    <3> QED BY <1>1, <3>1
  <2>3. ASSUME NEW k \in DOMAIN more PROVE more[k].scope # s \/ more[k].key # q
    <3>1. Len(log) + k \in (i + 1)..Len(all) /\ all[Len(log) + k] = more[k]
      BY <1>1, <1>2, <1>4
    <3> QED BY <1>1, <3>1
  <2> QED BY <1>1, <2>1, <2>2, <2>3 DEF LastByBaseline
<1>5. i \in Nat
  BY <1>1, <1>2
<1> QED BY <1>2, <1>3, <1>4, <1>5

(* The same for one audit.                                                  *)
LEMMA LastOfAppended ==
  ASSUME NEW log \in Seq(AuditRows), NEW a \in AuditRows, NEW s, NEW q,
         LastByBaseline(Append(log, a), s, q)
  PROVE  \/ a.scope = s /\ a.key = q /\ RecordsBaseline(a)
         \/ LastByBaseline(log, s, q) /\ (a.scope # s \/ a.key # q)
<1> DEFINE more == <<a>>
<1>1. more \in Seq(AuditRows) /\ Append(log, a) = log \o more /\ DOMAIN more = {1} /\ more[1] = a
  OBVIOUS
<1> HIDE DEF more
<1>2. \/ \E i \in DOMAIN more : more[i].scope = s /\ more[i].key = q /\ RecordsBaseline(more[i])
      \/ /\ LastByBaseline(log, s, q)
         /\ \A i \in DOMAIN more : more[i].scope # s \/ more[i].key # q
  BY <1>1, LastOfLonger
<1> QED BY <1>1, <1>2

(* An appended audit is one this step added.                                *)
LEMMA AppendedIsAdded ==
  ASSUME repairs \in Seq(AuditRows), NEW more \in Seq(AuditRows), repairs' = repairs \o more,
         NEW s, NEW q, NEW i \in DOMAIN more, more[i].scope = s, more[i].key = q
  PROVE  more[i] \in Added(s, q)
<1> DEFINE k == Len(repairs) + i
<1>1. /\ k \in (Len(repairs) + 1)..(Len(repairs) + Len(more))
      /\ Len(repairs') = Len(repairs) + Len(more)
      /\ repairs'[k] = more[i]
  OBVIOUS
<1> HIDE DEF k
<1> QED BY <1>1 DEF Added

-----------------------------------------------------------------------------
(* The steps of migrators keep the invariant                                *)

LEMMA StepKeepsDesks ==
  ASSUME RInv, NEW p \in Procs, Migrate(p)
  PROVE  DeskTypes' /\ \A r \in Procs : AtDesk(r)'
<1>1. desk' = desk /\ desk[p] = AtRest /\ MigrateStep(p) /\ TypeInv
  BY DEF Migrate, MigrateStep, RInv
<1>2. DeskTypes'
  BY <1>1 DEF RInv, DeskTypes, Desks, Records, Rows
<1>3. AtDesk(p)'
  BY <1>1 DEF AtDesk, AtRest
<1>4. ASSUME NEW r \in Procs, r # p PROVE AtDesk(r)'
  <2>1. AtDesk(r) /\ pc'[r] = pc[r] /\ (lock = r => lock' = r)
    BY <1>1, <1>4, OthersUntouched, LockStaysWithOthers DEF RInv, MigrateStep
  <2>2. ASSUME desk[r].step = "commit", NEW q \in desk[r].retire
        PROVE  Recorded(desk[r].read[q]) /\ ~IsDirty(ledger'[desk[r].scope][q])
    <3>1. lock # p /\ desk[r].scope \in Scopes /\ q \in Seqs
      BY <1>4, <2>1, <2>2 DEF AtDesk, RInv, DeskTypes, Desks
    <3>2. RowStep(p, desk[r].scope, q, ledger[desk[r].scope][q], ledger'[desk[r].scope][q])
      BY <1>1, <3>1, StepEffect
    <3> QED BY <2>1, <2>2, <3>1, <3>2 DEF AtDesk, RowStep
  <2>3. (\A q \in desk[r].retire : Recorded(desk[r].read[q]) /\ ~IsDirty(ledger[desk[r].scope][q]))'
          <=> \A q \in desk[r].retire :
                Recorded(desk[r].read[q]) /\ ~IsDirty(ledger'[desk[r].scope][q])
    BY <1>1 DEF Recorded, IsDirty
  <2> QED BY <1>1, <2>1, <2>2, <2>3 DEF AtDesk
<1> QED BY <1>2, <1>3, <1>4

(* A migrator's audits say nothing of baselines.                            *)
LEMMA StepKeepsBaselines ==
  ASSUME RInv, NEW p \in Procs, MigrateStep(p), NEW s \in Scopes, NEW q \in Seqs,
         LastByBaseline(repairs', s, q)
  PROVE  LastByBaseline(repairs, s, q)
<1>1. repairs \in Seq(AuditRows) /\ LogStep(p)
  BY StepEffect DEF RInv, TypeInv, TypeOK
<1>2. CASE repairs' = repairs
  BY <1>2
<1>3. ASSUME NEW a \in AuditRows, repairs' = Append(repairs, a), a.verb = "apply --allow-below-applied"
      PROVE  LastByBaseline(repairs, s, q)
  BY <1>1, <1>3, LastOfAppended DEF RecordsBaseline
<1> QED BY <1>1, <1>2, <1>3 DEF LogStep

(* What another process knows of the lock it holds is not disturbed.        *)
LEMMA StepKeepsOthers ==
  ASSUME RInv, NEW p \in Procs, NEW r \in Procs, r # p, MigrateStep(p), lock' = r
  PROVE  AtMigration(r)'
<1>1. lock = r /\ TypeInv /\ AtMigration(r)
  BY StepWrites, CallerAssumption DEF MigrateStep, RInv, CallerAssumption
<1>2. /\ pc'[r] = pc[r] /\ todo'[r] = todo[r] /\ Scope(r)' = Scope(r)
  BY <1>1, OthersUntouched DEF MigrateStep, Scope
<1>3. repairs' = repairs
  BY <1>1, StepEffect DEF LogStep
<1>4. pc[r] # "idle" => \A m \in todo[r] : Recorded(ledger'[Scope(r)][m.seq]) => Recorded(Row(r, m))
  BY <1>1, StepEffect, OwnRow DEF RowStep, Handles, Row
<1>5. \A m \in todo[r] : (IsNext(r, m) <=> IsNext(r, m)') /\ Row(r, m)' = ledger'[Scope(r)][m.seq]
  BY <1>2 DEF IsNext, Row
<1>6. \A m \in todo[r] : Recorded(Row(r, m))' <=> Recorded(ledger'[Scope(r)][m.seq])
  BY <1>5 DEF Recorded
<1>7. /\ pc[r] \in {"createSchema", "apply"} => \A m \in todo[r] : ~Recorded(Row(r, m))'
      /\ pc[r] \in {"exec", "finish"} => \A m \in todo[r] : IsNext(r, m)' \/ ~Recorded(Row(r, m))'
  BY <1>1, <1>4, <1>5, <1>6 DEF AtMigration
<1>8. pc[r] \in {"createSchema", "apply", "exec", "finish"} =>
        \A m \in todo[r] : ~LastByBaseline(repairs, Scope(r), m.seq)
  BY <1>1 DEF AtMigration
<1> QED BY <1>2, <1>3, <1>7, <1>8 DEF AtMigration

(* What a file that goes on to the next one leaves to do.                   *)
LEMMA GoesOn ==
  ASSUME RInv, NEW p \in Procs, MigrateStep(p), NEW m \in todo[p], IsNext(p, m),
         pc[p] \in {"apply", "finish"}, lock = p, Advance(p, m)
  PROVE  AtMigration(p)'
<1>1. TypeInv /\ p \in DOMAIN pc /\ p \in DOMAIN todo /\ AtMigration(p)
  BY DEF RInv, TypeInv, TypeOK
<1>2. CASE todo[p] = {m}
  <2>1. pc'[p] = "unlock"
    BY <1>1, <1>2 DEF Advance, Unwind, Goto
  <2> QED BY <2>1 DEF AtMigration
<1>3. CASE todo[p] # {m}
  <2>1. pc'[p] = "apply" /\ todo'[p] = todo[p] \ {m} /\ call' = call
    BY <1>1, <1>3 DEF Advance, Goto
  <2>2. ASSUME NEW n \in todo[p] \ {m}
        PROVE  ~Recorded(ledger'[Scope(p)][n.seq]) /\ ~LastByBaseline(repairs', Scope(p), n.seq)
    <3>1. ~IsNext(p, n)
      BY <1>1, <2>2, OneNext
    <3>2. ~Recorded(Row(p, n)) /\ ~LastByBaseline(repairs, Scope(p), n.seq)
      BY <1>1, <3>1 DEF AtMigration
    <3>3. n.seq \in Seqs /\ Scope(p) \in Scopes
      BY <1>1, OwnRow
    <3> QED BY <1>1, <3>1, <3>2, <3>3, StartedOnly, StepKeepsBaselines
  <2>3. Scope(p)' = Scope(p)
    BY <2>1 DEF Scope
  <2> QED BY <2>1, <2>2, <2>3 DEF AtMigration, Row, Recorded
<1> QED BY <1>2, <1>3

LEMMA StepKeepsOwn ==
  ASSUME RInv, NEW p \in Procs, MigrateStep(p), lock' = p
  PROVE  AtMigration(p)'
<1>1. TypeInv /\ p \in DOMAIN pc /\ p \in DOMAIN todo
  BY DEF RInv, TypeInv, TypeOK
<1>2. CASE pc'[p] \notin {"createSchema", "apply", "exec", "finish"}
  BY <1>2 DEF AtMigration
<1>3. CASE CheckLocked(p) /\ pc'[p] = "createSchema"
  <2>1. UNCHANGED <<ledger, repairs, call>> /\ todo'[p] = ToApply(p)
    BY <1>1, <1>3 DEF CheckLocked, dbVars, Unwind, Goto
  <2>2. \A m \in ToApply(p) : ~Recorded(Row(p, m)) /\ m.seq \in Seqs /\ Scope(p) \in Scopes
    <3>1. pc[p] # "idle" /\ call[p].tree \in Seq(Migrations) /\ Scope(p) \in Scopes
      BY <1>1, <1>3, TreesAreChains DEF CheckLocked, TypeInv, Scope
    <3>2. ValidateSequences(call[p].tree)
      BY <1>1, <3>1 DEF TypeInv, CallInv
    <3> QED BY <3>1, <3>2, ValidChain DEF ToApply, Pending, Row
  <2>3. \A m \in ToApply(p) : ~LastByBaseline(repairs, Scope(p), m.seq)
    BY <2>2 DEF RInv, BaselinesStand, Row
  <2> QED BY <1>3, <2>1, <2>2, <2>3 DEF AtMigration, Row, Scope, Recorded
<1>4. CASE EnsureSchema(p)
  <2>1. UNCHANGED <<ledger, repairs, call, todo>> /\ pc[p] = "createSchema" /\ pc'[p] = "apply" /\ lock = p
    BY <1>1, <1>4 DEF EnsureSchema, CreateSchema, Goto
  <2>2. AtMigration(p)
    BY <2>1 DEF RInv
  <2> QED BY <2>1, <2>2 DEF AtMigration, Row, Scope, Recorded
<1>5. CASE ApplyOne(p) \/ FinishNoTx(p)
  <2>1. PICK m \in todo[p] : /\ IsNext(p, m) /\ pc[p] \in {"apply", "finish"} /\ lock = p
                             /\ Advance(p, m)
    BY <1>5 DEF ApplyOne, FinishNoTx, CommitMigration, RecordSuccess
  <2> QED BY <2>1, GoesOn
<1>6. CASE ClaimNoTx(p) \/ ExecNoTx(p)
  <2>1. /\ pc[p] \in {"apply", "exec"} /\ lock = p /\ pc'[p] \in {"exec", "finish"}
        /\ UNCHANGED <<call, todo>>
    BY <1>1, <1>6 DEF ClaimNoTx, ExecNoTx, ClaimRow, RunStatement, Goto
  <2>2. AtMigration(p)
    BY <2>1 DEF RInv
  <2>3. ASSUME NEW m \in todo[p]
        PROVE  /\ IsNext(p, m) \/ ~Recorded(ledger'[Scope(p)][m.seq])
               /\ ~LastByBaseline(repairs', Scope(p), m.seq)
    <3>1. IsNext(p, m) \/ ~Recorded(Row(p, m))
      BY <2>1, <2>2 DEF AtMigration
    <3>2. m.seq \in Seqs /\ Scope(p) \in Scopes /\ ~LastByBaseline(repairs, Scope(p), m.seq)
      BY <1>1, <2>1, <2>2, OwnRow DEF AtMigration
    <3> QED BY <1>1, <2>1, <3>1, <3>2, StartedOnly, StepKeepsBaselines
  <2> QED BY <2>1, <2>3 DEF AtMigration, Row, Scope, Recorded, IsNext
<1>7. CASE Begin(p) \/ Validate(p)
  <2>1. pc'[p] \in {"idle", "setup"}
    BY <1>1, <1>7 DEF Begin, Validate, Goto
  <2> QED BY <1>2, <2>1
<1>8. CASE Waits(p) \/ ReadForStamps(p) \/ Stamp(p) \/ CheckUnlocked(p) \/ MarkFailed(p) \/ Unlock(p)
  <2>1. pc'[p] \in {"idle", "readStamps", "recheck", "check", "stamp", "lock", "unlock"}
    BY <1>1, <1>8 DEF Waits, EnsureSetup, AcquireLock, ReadForStamps, Stamp, CheckUnlocked, MarkFailed,
                      Unlock, Goto, Return, Unwind
  <2> QED BY <1>2, <2>1
<1>9. CASE CheckLocked(p) /\ pc'[p] # "createSchema"
  <2>1. pc'[p] = "unlock"
    BY <1>1, <1>9 DEF CheckLocked, Unwind, Goto
  <2> QED BY <1>2, <2>1
<1>10. CASE Faults(p)
  <2>1. pc'[p] \in {"idle", "unlock", "markFailed"}
    BY <1>1, <1>10 DEF Faults, StatementFails, ConnectionLost, Crash, ErrorPath, Goto, Return, Unwind
  <2> QED BY <1>2, <2>1
<1> QED BY <1>3, <1>4, <1>5, <1>6, <1>7, <1>8, <1>9, <1>10 DEF MigrateStep, Works

LEMMA FitsAgree == DigestsAgree <=> \A s \in Scopes, q \in Seqs : DigestsFit(ledger[s][q])
BY DEF DigestsAgree, DigestsFit

(* Every step of a migrator keeps the invariant.                            *)
LEMMA MigrateKeeps ==
  ASSUME RInv, NEW p \in Procs, Migrate(p) PROVE RInv'
<1>1. MigrateStep(p) /\ TypeInv
  BY DEF Migrate, MigrateStep, RInv
<1>2. \A s \in Scopes, q \in Seqs : RowStep(p, s, q, ledger[s][q], ledger'[s][q])
  BY <1>1, StepEffect
<1>3. TypeInv'
  BY <1>1, StepKeepsTypes
<1>4. (\A r \in Procs : lock = r => AtMigration(r))'
  BY <1>1, StepKeepsOwn, StepKeepsOthers
<1>5. BaselinesStand'
  <2>1. ASSUME NEW s \in Scopes, NEW q \in Seqs, LastByBaseline(repairs', s, q)
        PROVE  Recorded(ledger'[s][q])
    BY <1>1, <1>2, <2>1, StepKeepsBaselines DEF RInv, BaselinesStand, RowStep
  <2> QED BY <2>1 DEF BaselinesStand, Recorded, LastByBaseline, RecordsBaseline
<1>6. DigestsAgree'
  <2>1. \A s \in Scopes, q \in Seqs : DigestsFit(ledger'[s][q])
    BY <1>2, FitsAgree DEF RInv, RowStep
  <2> QED BY <2>1 DEF DigestsAgree, DigestsFit, Recorded
<1> QED BY <1>3, <1>4, <1>5, <1>6, StepKeepsDesks DEF RInv

-----------------------------------------------------------------------------
(* What an operator's step does to one row and to the audit trail           *)

(* A repair records no new row but as a baseline, makes none unfinished,    *)
(* and puts on record what it ends, renames or forgets.                     *)
RepairEffect(p, s, q) ==
  LET old == ledger[s][q]  new == ledger'[s][q] IN
  /\ DigestsFit(old) => DigestsFit(new)
  /\ ~IsDirty(old) => ~IsDirty(new)
  /\ ~Recorded(old) /\ Recorded(new) => lock = p
  /\ LastByBaseline(repairs', s, q) => Recorded(new) /\ (LastByBaseline(repairs, s, q) \/ lock = p)
  /\ IsDirty(old) /\ ~IsDirty(new) => \E a \in Added(s, q) : a.verb \in ResolveVerbs
  /\ Recorded(old) /\ (~Recorded(new) \/ new.filename # old.filename) =>
       \E a \in Added(s, q) : a.new = IdentityOf(new)
RepairEffects(p) == \A s \in Scopes, q \in Seqs : RepairEffect(p, s, q)

(* Rows and trail left alone.                                               *)
LEMMA NoEffect ==
  ASSUME RInv, NEW p \in Procs, UNCHANGED <<ledger, repairs>> PROVE RepairEffects(p)
BY DEF RInv, BaselinesStand, RepairEffects, RepairEffect

(* Nobody else's desk, call or lock changes.                                *)
RepairFrame(p) ==
  /\ UNCHANGED <<pc, todo, landed>>
  /\ \A r \in Procs \ {p} : /\ desk'[r] = desk[r] /\ call'[r] = call[r]
                            /\ lock = r <=> lock' = r

LEMMA RepairKeepsOthers ==
  ASSUME RInv, NEW p \in Procs, RepairFrame(p), RepairEffects(p), NEW r \in Procs, r # p
  PROVE  AtDesk(r)' /\ (lock' = r => AtMigration(r)')
<1>1. /\ pc'[r] = pc[r] /\ todo'[r] = todo[r] /\ Scope(r)' = Scope(r) /\ desk'[r] = desk[r]
      /\ lock = r <=> lock' = r
  BY DEF RepairFrame, Scope
<1>2. AtDesk(r) /\ desk[r] \in Desks /\ TypeInv
  BY DEF RInv, DeskTypes
<1>3. AtDesk(r)'
  <2>1. ASSUME desk[r].step = "commit", NEW q \in desk[r].retire
        PROVE  Recorded(desk[r].read[q]) /\ ~IsDirty(ledger'[desk[r].scope][q])
    <3>1. desk[r].scope \in Scopes /\ q \in Seqs
      BY <1>2, <2>1 DEF Desks
    <3> QED BY <1>2, <2>1, <3>1 DEF AtDesk, RepairEffects, RepairEffect
  <2>2. (\A q \in desk[r].retire : Recorded(desk[r].read[q]) /\ ~IsDirty(ledger[desk[r].scope][q]))'
          <=> \A q \in desk[r].retire :
                Recorded(desk[r].read[q]) /\ ~IsDirty(ledger'[desk[r].scope][q])
    BY <1>1 DEF Recorded, IsDirty
  <2> QED BY <1>1, <1>2, <2>1, <2>2 DEF AtDesk, AtRest
<1>4. ASSUME lock' = r PROVE AtMigration(r)'
  <2>1. AtMigration(r) /\ lock # p
    BY <1>1, <1>4 DEF RInv
  <2>2. ASSUME pc[r] # "idle", NEW m \in todo[r]
        PROVE  /\ Recorded(ledger'[Scope(r)][m.seq]) => Recorded(Row(r, m))
               /\ LastByBaseline(repairs', Scope(r), m.seq) => LastByBaseline(repairs, Scope(r), m.seq)
    <3>1. m.seq \in Seqs /\ Scope(r) \in Scopes
      BY <1>2, <2>2, OwnRow
    <3> QED BY <2>1, <3>1 DEF RepairEffects, RepairEffect, Row
  <2>3. /\ pc[r] \in {"createSchema", "apply"} => \A m \in todo[r] : ~Recorded(ledger'[Scope(r)][m.seq])
        /\ pc[r] \in {"exec", "finish"} =>
             \A m \in todo[r] : IsNext(r, m) \/ ~Recorded(ledger'[Scope(r)][m.seq])
        /\ pc[r] \in {"createSchema", "apply", "exec", "finish"} =>
             \A m \in todo[r] : ~LastByBaseline(repairs', Scope(r), m.seq)
    BY <2>1, <2>2 DEF AtMigration
  <2> QED BY <1>1, <2>3 DEF AtMigration, Row, Recorded, IsNext
<1> QED BY <1>3, <1>4

(* Put together: what a repair has to do to keep the invariant.             *)
LEMMA RepairKeeps ==
  ASSUME RInv, NEW p \in Procs, pc[p] = "idle", RepairFrame(p), RepairEffects(p),
         TypeInv', DeskTypes', AtDesk(p)'
  PROVE  RInv'
<1>1. \A r \in Procs : AtDesk(r)'
  BY RepairKeepsOthers
<1>2. \A r \in Procs : lock' = r => AtMigration(r)'
  <2>1. AtMigration(p)'
    BY DEF RepairFrame, AtMigration
  <2> QED BY <2>1, RepairKeepsOthers
<1>3. BaselinesStand'
  BY DEF BaselinesStand, RepairEffects, RepairEffect, Recorded, LastByBaseline, RecordsBaseline
<1>4. DigestsAgree'
  <2>1. \A s \in Scopes, q \in Seqs : DigestsFit(ledger'[s][q])
    BY FitsAgree DEF RInv, RepairEffects, RepairEffect
  <2> QED BY <2>1 DEF DigestsAgree, DigestsFit, Recorded
<1> QED BY <1>1, <1>2, <1>3, <1>4 DEF RInv

-----------------------------------------------------------------------------
(* The operator's steps, one by one                                         *)

LEMMA AtRestType == AtRest \in Desks
<1>1. NoCall.scope \in Scopes
  BY NoCallType DEF Calls
<1>2. NoRows \in Records
  BY DEF NoRows, Records
<1> QED BY <1>1, <1>2 DEF AtRest, Desks

(* Steps that change neither rows nor trail, nor another desk.              *)
LEMMA QuietRepair ==
  ASSUME RInv, NEW p \in Procs, pc[p] = "idle", UNCHANGED <<ledger, landed, namespace, repairs, pc, todo, stmt>>,
         tracker' \in BOOLEAN, lock' \in Procs \cup {Nobody},
         \A r \in Procs \ {p} : lock = r <=> lock' = r,
         NEW c \in Calls, call' = call \/ call' = [call EXCEPT ![p] = c],
         NEW o \in {"none", "ok", "error", "crashed"},
         outcome' = outcome \/ outcome' = [outcome EXCEPT ![p] = o],
         NEW d \in Desks, desk' = [desk EXCEPT ![p] = d], AtDesk(p)'
  PROVE  RInv'
<1>1. TypeInv /\ desk \in [Procs -> Desks] /\ ledger \in [Scopes -> Records]
  BY DEF RInv, DeskTypes, TypeInv, TypeOK
<1>2. RepairFrame(p)
  BY <1>1 DEF RepairFrame, TypeInv, TypeOK
<1>3. RepairEffects(p)
  BY NoEffect
<1>4. TypeInv'
  <2>1. call' \in [Procs -> Calls] /\ outcome' \in [Procs -> {"none", "ok", "error", "crashed"}]
    BY <1>1 DEF TypeInv, TypeOK
  <2>2. TypeOK'
    BY <1>1, <2>1 DEF TypeInv, TypeOK, Records, Rows
  <2>3. CallInv'
    BY <1>1 DEF TypeInv, TypeOK, CallInv
  <2> QED BY <2>2, <2>3 DEF TypeInv
<1>5. DeskTypes'
  BY <1>1 DEF DeskTypes, Desks, Records, Rows
<1> QED BY <1>2, <1>3, <1>4, <1>5, RepairKeeps

LEMMA DeskOf ==
  ASSUME RInv, NEW p \in Procs
  PROVE  /\ TypeInv /\ desk \in [Procs -> Desks] /\ desk[p] \in Desks /\ AtDesk(p)
         /\ ledger \in [Scopes -> Records] /\ ledger[desk[p].scope] \in Records
         /\ desk[p].step # "rest" => pc[p] = "idle" /\ desk[p].verb # "none"
         /\ tracker \in BOOLEAN /\ lock \in Procs \cup {Nobody} /\ p # Nobody
         /\ call[p] \in Calls /\ outcome[p] \in {"none", "ok", "error", "crashed"}
<1>1. TypeInv /\ desk \in [Procs -> Desks] /\ AtDesk(p)
  BY DEF RInv, DeskTypes
<1>2. desk[p] \in Desks
  BY <1>1
<1>3. desk[p].step # "rest" => desk[p] # AtRest
  BY DEF AtRest
<1>4. desk[p].scope \in Scopes
  BY <1>2 DEF Desks
<1> QED BY <1>1, <1>2, <1>3, <1>4, CallerAssumption DEF AtDesk, TypeInv, TypeOK, CallerAssumption

LEMMA JobsAreFiles ==
  ASSUME NEW job \in Jobs
  PROVE  /\ job[1] \in Verbs /\ job[1] # "none" /\ job[2] \in SUBSET Migrations
         /\ \A m \in job[2] : m.seq # NoSequence
         /\ \A m, n \in job[2] : m.seq = n.seq => m = n
<1>1. CASE job \in RowVerbs \X {{m} : m \in {n \in Migrations : n.seq # NoSequence}}
  <2>1. job[1] \in RowVerbs /\ \E m \in Migrations : m.seq # NoSequence /\ job[2] = {m}
    BY <1>1
  <2> QED BY <2>1 DEF RowVerbs, ResolveVerbs, Verbs
<1>2. CASE job \in TreeVerbs \X {Files(t) : t \in {u \in Trees : ValidateSequences(u)}}
  <2>1. PICK t \in Trees : ValidateSequences(t) /\ job[2] = Files(t) /\ job[1] \in TreeVerbs
    BY <1>2
  <2>2. t \in Seq(Migrations)
    BY CallerAssumption DEF CallerAssumption
  <2>3. job[2] \subseteq Migrations
    BY <2>1, <2>2, FilesAreMigrations
  <2>4. \A m \in job[2] : m.seq # NoSequence
    BY <2>1 DEF ValidateSequences, InTree
  <2>5. \A m, n \in job[2] : m.seq = n.seq => m = n
    BY <2>1, <2>2, ValidChain
  <2> QED BY <2>1, <2>3, <2>4, <2>5 DEF TreeVerbs, Verbs
<1> QED BY <1>1, <1>2 DEF Jobs

LEMMA BeginKeeps == ASSUME RInv, NEW p \in Procs, RepairBegin(p) PROVE RInv'
<1>1. PICK s \in Scopes, job \in Jobs :
        desk' = [desk EXCEPT ![p] = [AtRest EXCEPT !.step = "setup", !.verb = job[1],
                                                   !.scope = s, !.files = job[2]]]
  BY DEF RepairBegin
<1> DEFINE d == [AtRest EXCEPT !.step = "setup", !.verb = job[1], !.scope = s, !.files = job[2]]
<1>2. /\ d \in Desks /\ d.step = "setup" /\ d.files = job[2] /\ d.verb = job[1]
  BY AtRestType, JobsAreFiles DEF Desks, AtRest
<1>3. desk' = [desk EXCEPT ![p] = d]
  BY <1>1
<1> HIDE DEF d
<1>4. desk'[p] = d /\ pc'[p] = "idle"
  BY <1>3, DeskOf DEF RepairBegin
<1>5. AtDesk(p)'
  BY <1>2, <1>4, JobsAreFiles DEF AtDesk
<1>6. NoCall \in Calls /\ lock' = lock
  BY NoCallType DEF RepairBegin
<1> QED BY <1>2, <1>3, <1>5, <1>6, DeskOf, QuietRepair DEF RepairBegin, dbVars

(* A desk that moves to another step with the same job.                     *)
LEMMA SetupKeeps == ASSUME RInv, NEW p \in Procs, RepairSetup(p) PROVE RInv'
<1> DEFINE next == IF desk[p].verb = "baseline" THEN "lock" ELSE "read"
           d == [desk[p] EXCEPT !.step = next]
<1>1. desk[p] \in Desks /\ AtDesk(p) /\ pc[p] = "idle" /\ desk[p].verb # "none"
  BY DeskOf DEF RepairSetup
<1>2. /\ d \in Desks /\ d.step \in {"lock", "read"} /\ d.files = desk[p].files /\ d.verb = desk[p].verb
      /\ d.step = "read" => d.verb # "baseline"
  BY <1>1 DEF Desks
<1>3. desk' = [desk EXCEPT ![p] = d]
  BY DEF RepairSetup, MoveTo
<1> HIDE DEF d
<1>4. desk'[p] = d /\ pc'[p] = "idle"
  BY <1>1, <1>3, DeskOf DEF RepairSetup
<1>5. AtDesk(p)'
  BY <1>1, <1>2, <1>4 DEF AtDesk
<1> QED BY <1>1, <1>2, <1>3, <1>5, DeskOf, QuietRepair DEF RepairSetup

LEMMA RestKeeps ==
  ASSUME RInv, NEW p \in Procs, pc[p] = "idle", Rest(p), UNCHANGED <<dbVars, pc, call, todo, stmt, outcome>>,
         lock' \in Procs \cup {Nobody}, \A r \in Procs \ {p} : lock = r <=> lock' = r
  PROVE  RInv'
<1>1. desk'[p] = AtRest
  BY DeskOf DEF Rest
<1>2. AtDesk(p)'
  BY <1>1 DEF AtDesk, AtRest
<1> QED BY <1>2, AtRestType, DeskOf, QuietRepair DEF Rest, dbVars

LEMMA ReadKeeps == ASSUME RInv, NEW p \in Procs, RepairRead(p) PROVE RInv'
<1> DEFINE rows  == ledger[desk[p].scope]
           files == {m \in desk[p].files : Repairable(desk[p].verb, m, rows[m.seq])}
           read  == [q \in Seqs |-> IF \E m \in files : m.seq = q THEN rows[q] ELSE NoRow]
           d     == [desk[p] EXCEPT !.step = "write", !.files = files, !.read = read]
<1>1. desk[p] \in Desks /\ AtDesk(p) /\ pc[p] = "idle" /\ rows \in Records /\ lock' = lock
  BY DeskOf DEF RepairRead
<1>2. CASE files = {}
  BY <1>1, <1>2, RestKeeps, DeskOf DEF RepairRead
<1>3. CASE files # {}
  <2>1. read \in Records
    BY <1>1 DEF Records
  <2>2. files \subseteq desk[p].files
    OBVIOUS
  <2>3. desk' = [desk EXCEPT ![p] = d]
    BY <1>3, DeskOf DEF RepairRead
  <2> HIDE DEF files, read
  <2>4. d \in Desks /\ d.step = "write" /\ d.files = files /\ d.verb = desk[p].verb
    BY <1>1, <2>1, <2>2 DEF Desks
  <2> HIDE DEF d
  <2>5. desk'[p] = d /\ pc'[p] = "idle" /\ d.verb # "baseline" /\ d.verb # "none"
    BY <1>1, <2>3, <2>4, DeskOf DEF RepairRead, AtDesk
  <2>6. AtDesk(p)'
    BY <1>1, <2>2, <2>4, <2>5 DEF AtDesk
  <2> QED BY <1>1, <2>3, <2>4, <2>6, DeskOf, QuietRepair DEF RepairRead, dbVars
<1> QED BY <1>2, <1>3

LEMMA LockKeeps == ASSUME RInv, NEW p \in Procs, BaselineLock(p) PROVE RInv'
<1> DEFINE d == [desk[p] EXCEPT !.step = "plan"]
<1>1. desk[p] \in Desks /\ AtDesk(p) /\ pc[p] = "idle" /\ desk[p].verb # "none"
  BY DeskOf DEF BaselineLock
<1>2. d \in Desks /\ d.step = "plan" /\ d.files = desk[p].files /\ d.verb = desk[p].verb
  BY <1>1 DEF Desks
<1>3. desk' = [desk EXCEPT ![p] = d]
  BY DEF BaselineLock, MoveTo
<1> HIDE DEF d
<1>4. desk'[p] = d /\ pc'[p] = "idle" /\ lock' = p
  BY <1>1, <1>3, DeskOf DEF BaselineLock
<1>5. AtDesk(p)'
  BY <1>1, <1>2, <1>4 DEF AtDesk
<1>6. \A r \in Procs \ {p} : lock = r <=> lock' = r
  BY <1>4, CallerAssumption DEF BaselineLock, CallerAssumption
<1> QED BY <1>1, <1>2, <1>3, <1>4, <1>5, <1>6, DeskOf, QuietRepair DEF BaselineLock, dbVars

LEMMA UnlockKeeps == ASSUME RInv, NEW p \in Procs, BaselineUnlock(p) \/ GiveUp(p) PROVE RInv'
<1>1. pc[p] = "idle"
  BY DeskOf DEF BaselineUnlock, GiveUp, AtDesk
<1>2. lock' \in Procs \cup {Nobody} /\ \A r \in Procs \ {p} : lock = r <=> lock' = r
  BY DeskOf, CallerAssumption DEF BaselineUnlock, GiveUp, ReleaseHeld, CallerAssumption
<1> QED BY <1>1, <1>2, RestKeeps DEF BaselineUnlock, GiveUp

LEMMA PlanKeeps == ASSUME RInv, NEW p \in Procs, BaselinePlan(p) PROVE RInv'
<1> DEFINE rows == ledger[desk[p].scope]
           retire == Retired(desk[p].files, rows)
           d1 == [desk[p] EXCEPT !.step = "unlock"]
           d2 == [desk[p] EXCEPT !.step = "commit", !.retire = retire, !.read = rows]
<1>1. /\ desk[p] \in Desks /\ AtDesk(p) /\ pc[p] = "idle" /\ desk[p].verb # "none"
      /\ rows \in Records /\ lock = p /\ lock' = lock /\ desk[p].scope \in Scopes
  BY DeskOf DEF BaselinePlan, AtDesk, Desks
<1>2. CASE desk' = [desk EXCEPT ![p] = d1]
  <2>1. d1 \in Desks /\ d1.step = "unlock" /\ d1.files = desk[p].files /\ d1.verb = desk[p].verb
    BY <1>1 DEF Desks
  <2> HIDE DEF d1
  <2>2. desk'[p] = d1 /\ pc'[p] = "idle" /\ lock' = p
    BY <1>1, <1>2, DeskOf DEF BaselinePlan
  <2>3. AtDesk(p)'
    BY <1>1, <2>1, <2>2 DEF AtDesk
  <2> QED BY <1>1, <1>2, <2>1, <2>3, DeskOf, QuietRepair DEF BaselinePlan, dbVars
<1>3. CASE ~Unsafe(desk[p].files, rows) /\ desk' = [desk EXCEPT ![p] = d2]
  <2>1. retire \in SUBSET Seqs /\ \A q \in retire : Recorded(rows[q]) /\ ~IsDirty(rows[q])
    BY <1>3 DEF Retired, Unsafe
  <2>2. /\ d2 \in Desks /\ d2.step = "commit" /\ d2.files = desk[p].files /\ d2.verb = desk[p].verb
        /\ d2.retire = retire /\ d2.read = rows /\ d2.scope = desk[p].scope
    BY <1>1, <2>1 DEF Desks
  <2> HIDE DEF d2, retire
  <2>3. desk'[p] = d2 /\ pc'[p] = "idle" /\ lock' = p /\ ledger' = ledger
    BY <1>1, <1>3, DeskOf DEF BaselinePlan, dbVars
  <2>4. \A q \in d2.retire : Recorded(d2.read[q]) /\ ~IsDirty(ledger'[d2.scope][q])
    BY <2>1, <2>2, <2>3
  <2>5. AtDesk(p)'
    BY <1>1, <2>2, <2>3, <2>4 DEF AtDesk, Recorded, IsDirty
  <2> QED BY <1>1, <1>3, <2>2, <2>5, DeskOf, QuietRepair DEF BaselinePlan, dbVars
<1> QED BY <1>2, <1>3 DEF BaselinePlan, MoveTo

-----------------------------------------------------------------------------
(* The transactions of the operator's verbs                                 *)

(* One row replaced, or left, and one audit row of a repair verb.           *)
LEMMA RowAndAudit ==
  ASSUME RInv, NEW p \in Procs, NEW s \in Scopes, NEW q \in Seqs, NEW new,
         ledger' = [ledger EXCEPT ![s][q] = new] \/ (ledger' = ledger /\ new = ledger[s][q]),
         NEW a \in AuditRows, repairs' = Append(repairs, a),
         a.scope = s, a.key = q, a.verb # "baseline",
         DigestsFit(ledger[s][q]) => DigestsFit(new),
         ~IsDirty(ledger[s][q]) => ~IsDirty(new),
         Recorded(new) => Recorded(ledger[s][q]),
         IsDirty(ledger[s][q]) /\ ~IsDirty(new) => a.verb \in ResolveVerbs,
         Recorded(ledger[s][q]) /\ (~Recorded(new) \/ new.filename # ledger[s][q].filename)
           => a.new = IdentityOf(new)
  PROVE  RepairEffects(p)
<1>1. repairs \in Seq(AuditRows) /\ ledger \in [Scopes -> Records]
  BY DEF RInv, TypeInv, TypeOK
<1>2. a \in Added(s, q)
  <2>1. Len(repairs') = Len(repairs) + 1 /\ repairs'[Len(repairs) + 1] = a /\ Len(repairs) \in Nat
    BY <1>1
  <2> QED BY <2>1 DEF Added
<1>3. \A t \in Scopes, k \in Seqs : ledger'[t][k] = IF t = s /\ k = q THEN new ELSE ledger[t][k]
  BY <1>1 DEF Records
<1>4. ASSUME NEW t \in Scopes, NEW k \in Seqs, LastByBaseline(repairs', t, k)
      PROVE  LastByBaseline(repairs, t, k) /\ (t # s \/ k # q)
  BY <1>1, <1>4, LastOfAppended DEF RecordsBaseline
<1>5. ASSUME NEW t \in Scopes, NEW k \in Seqs PROVE RepairEffect(p, t, k)
  <2>1. CASE t = s /\ k = q
    <3>1. ledger'[t][k] = new /\ ~LastByBaseline(repairs', t, k)
      BY <1>3, <1>4, <2>1
    <3> QED BY <1>2, <2>1, <3>1 DEF RepairEffect
  <2>2. CASE ~(t = s /\ k = q)
    <3>1. ledger'[t][k] = ledger[t][k]
      BY <1>3, <2>2
    <3>2. LastByBaseline(repairs', t, k) => LastByBaseline(repairs, t, k) /\ Recorded(ledger[t][k])
      BY <1>4 DEF RInv, BaselinesStand
    <3> QED BY <3>1, <3>2 DEF RepairEffect
  <2> QED BY <2>1, <2>2
<1> QED BY <1>5 DEF RepairEffects

(* Binding a row to a file leaves its status.                               *)
LEMMA BindType ==
  ASSUME NEW m \in Migrations, NEW row \in Rows
  PROVE  /\ Bind(row, m) \in Rows /\ Bind(row, m) # NoRow
         /\ Bind(row, m).status = row.status
         /\ DigestsFit(Bind(row, m)) /\ IdentityOf(Bind(row, m)) = FileIdentity(m)
<1>1. /\ Bind(row, m) \in Rows /\ Bind(row, m).status = row.status
      /\ Bind(row, m).filename = m.name /\ Bind(row, m).digest = ContentDigest(m)
      /\ Bind(row, m).semantic = SemanticContentDigest(m)
  BY DEF Bind, Rows, Names, Digests, Tokens, ContentDigest, SemanticContentDigest
<1>2. Bind(row, m) # NoRow
  BY <1>1, NoRowAssumption DEF NoRowAssumption
<1> QED BY <1>1, <1>2, RowOfFits DEF IdentityOf, FileIdentity, Recorded

(* What the transaction of a repair verb does to rows and trail.            *)
LEMMA WriteEffects ==
  ASSUME RInv, NEW p \in Procs, desk[p].step = "write", NEW m \in desk[p].files,
         IF desk[p].verb \in ResolveVerbs THEN WriteResolve(p, m) ELSE WriteRepair(p, m)
  PROVE  /\ RepairEffects(p)
         /\ ledger' \in [Scopes -> Records] /\ repairs' \in Seq(AuditRows)
<1> DEFINE s == desk[p].scope
           q == m.seq
           old == ledger[s][q]
           A(new) == [verb |-> desk[p].verb, scope |-> s, key |-> q,
                      old |-> IdentityOf(desk[p].read[q]), new |-> new]
<1>1. /\ m \in Migrations /\ q \in Seqs /\ s \in Scopes /\ desk[p].read \in Records
      /\ desk[p].verb \in Verbs /\ desk[p].verb # "baseline"
      /\ repairs \in Seq(AuditRows) /\ ledger \in [Scopes -> Records]
  BY DeskOf DEF Desks, AtDesk, Seqs, TypeInv, TypeOK
<1>2. /\ desk[p].read[q] \in Rows \cup {NoRow}
      /\ old \in Rows \cup {NoRow} /\ (Recorded(old) => old \in Rows)
  BY <1>1 DEF Records, Recorded
<1>3. ASSUME NEW id \in Identities
      PROVE  /\ A(id) \in AuditRows /\ A(id).verb = desk[p].verb /\ A(id).scope = s /\ A(id).key = q
             /\ A(id).new = id
  BY <1>1, <1>2, IdentitiesType DEF AuditRows
<1>4. CASE Recorded(old) /\ desk[p].verb \notin ResolveVerbs
  <2> DEFINE new == Bind(old, m)
  <2>1. ledger' = [ledger EXCEPT ![s][q] = new] /\ repairs' = Append(repairs, A(FileIdentity(m)))
    BY <1>1, <1>4 DEF WriteRepair, InsertAudit, Records
  <2>2. PICK a \in AuditRows : /\ repairs' = Append(repairs, a) /\ a.scope = s /\ a.key = q
                               /\ a.verb = desk[p].verb /\ a.new = FileIdentity(m)
    BY <1>1, <1>3, <2>1, IdentitiesType
  <2>3. /\ new \in Rows /\ new # NoRow /\ new.status = old.status
        /\ DigestsFit(new) /\ IdentityOf(new) = FileIdentity(m)
    BY <1>1, <1>2, <1>4, BindType
  <2> HIDE DEF new, A
  <2>4. IsDirty(new) <=> IsDirty(old)
    BY <1>4, <2>3 DEF IsDirty, Recorded
  <2>5. RepairEffects(p)
    <3>1. ledger' = [ledger EXCEPT ![s][q] = new] \/ (ledger' = ledger /\ new = ledger[s][q])
      BY <2>1
    <3>2. Recorded(new) /\ Recorded(ledger[s][q]) /\ IdentityOf(new) = FileIdentity(m)
      BY <1>4, <2>3 DEF Recorded
    <3> QED BY <1>1, <2>2, <2>3, <2>4, <3>1, <3>2, RowAndAudit
  <2>6. ledger' \in [Scopes -> Records]
    BY <1>1, <2>1, <2>3 DEF Records
  <2>7. repairs' \in Seq(AuditRows)
    BY <1>1, <2>2
  <2> QED BY <2>5, <2>6, <2>7
<1>5. CASE ~Recorded(old) /\ desk[p].verb \notin ResolveVerbs
  <2>1. UNCHANGED <<ledger, repairs>>
    BY <1>5 DEF WriteRepair
  <2> QED BY <1>1, <2>1, NoEffect
<1>6. CASE desk[p].verb = "repair resolve --rerun"
  <2>1. ledger' = [ledger EXCEPT ![s][q] = NoRow] /\ repairs' = Append(repairs, A(NoIdentity))
    BY <1>6 DEF WriteResolve, InsertAudit, ResolveVerbs
  <2>2. PICK a \in AuditRows : /\ repairs' = Append(repairs, a) /\ a.scope = s /\ a.key = q
                               /\ a.verb = desk[p].verb /\ a.new = NoIdentity
    BY <1>3, <2>1, IdentitiesType
  <2> HIDE DEF A
  <2>3. ~Recorded(NoRow) /\ ~IsDirty(NoRow) /\ DigestsFit(NoRow) /\ IdentityOf(NoRow) = NoIdentity
    BY DEF Recorded, IsDirty, DigestsFit, IdentityOf
  <2>4. desk[p].verb \in ResolveVerbs
    BY <1>6 DEF ResolveVerbs
  <2>5. RepairEffects(p)
    <3> DEFINE new == NoRow
    <3>1. ledger' = [ledger EXCEPT ![s][q] = new] \/ (ledger' = ledger /\ new = ledger[s][q])
      BY <2>1
    <3>2. ~Recorded(new) /\ ~IsDirty(new) /\ DigestsFit(new) /\ IdentityOf(new) = NoIdentity
      BY <2>3
    <3> HIDE DEF new
    <3> QED BY <1>1, <2>2, <2>4, <3>1, <3>2, RowAndAudit
  <2>6. ledger' \in [Scopes -> Records]
    BY <1>1, <2>1 DEF Records
  <2>7. repairs' \in Seq(AuditRows)
    BY <1>1, <2>2
  <2> QED BY <2>5, <2>6, <2>7
<1>7. CASE desk[p].verb = "repair resolve --applied"
  <2> DEFINE new == IF Recorded(old) THEN [Bind(old, m) EXCEPT !.status = StatusApplied] ELSE old
  <2>1. /\ ledger' = [ledger EXCEPT ![s][q] = new] \/ (ledger' = ledger /\ new = ledger[s][q])
        /\ repairs' = Append(repairs, A(FileIdentity(m)))
    BY <1>7 DEF WriteResolve, InsertAudit, ResolveVerbs
  <2>2. A(FileIdentity(m)) \in AuditRows
    BY <1>1, <1>3, IdentitiesType
  <2> HIDE DEF A
  <2>3. desk[p].verb \in ResolveVerbs
    BY <1>7 DEF ResolveVerbs
  <2>4. Recorded(old) => /\ new \in Rows /\ Recorded(new) /\ ~IsDirty(new) /\ DigestsFit(new)
                         /\ IdentityOf(new) = FileIdentity(m)
    <3> HAVE Recorded(old)
    <3> DEFINE row == [Bind(old, m) EXCEPT !.status = StatusApplied]
    <3>1. Bind(old, m) \in Rows /\ DigestsFit(Bind(old, m)) /\ IdentityOf(Bind(old, m)) = FileIdentity(m)
          /\ Bind(old, m) # NoRow
      BY <1>1, <1>2, BindType
    <3>2. /\ row \in Rows /\ row.status = StatusApplied /\ row.filename = Bind(old, m).filename
          /\ row.digest = Bind(old, m).digest /\ row.semantic = Bind(old, m).semantic
      BY <3>1 DEF Rows
    <3> HIDE DEF row
    <3>3. row # NoRow
      BY <3>2, NoRowAssumption DEF NoRowAssumption
    <3>4. /\ Recorded(row) /\ ~IsDirty(row) /\ DigestsFit(row)
          /\ IdentityOf(row) = FileIdentity(m)
      BY <3>1, <3>2, <3>3 DEF Recorded, IsDirty, DigestsFit, IdentityOf
    <3> QED BY <3>2, <3>4 DEF row
  <2>5. ~Recorded(old) => new = old /\ ~IsDirty(new)
    BY DEF IsDirty
  <2>6. new \in Rows \cup {NoRow}
    BY <1>2, <2>4, <2>5
  <2> HIDE DEF new
  <2>7. RepairEffects(p)
    BY <1>1, <1>3, <2>1, <2>2, <2>3, <2>4, <2>5, IdentitiesType, RowAndAudit
  <2>8. ledger' \in [Scopes -> Records]
    <3>1. CASE ledger' = ledger
      BY <1>1, <3>1
    <3>2. CASE ledger' = [ledger EXCEPT ![s][q] = new]
      BY <1>1, <2>6, <3>2 DEF Records
    <3> QED BY <2>1, <3>1, <3>2
  <2>9. repairs' \in Seq(AuditRows)
    BY <1>1, <2>1, <2>2
  <2> QED BY <2>7, <2>8, <2>9
<1> QED BY <1>4, <1>5, <1>6, <1>7 DEF ResolveVerbs

LEMMA TypesAfterWrite ==
  ASSUME RInv, ledger' \in [Scopes -> Records], repairs' \in Seq(AuditRows),
         UNCHANGED <<landed, namespace, tracker, lock, pc, call, todo, stmt, outcome>>
  PROVE  TypeInv'
<1>1. TypeOK'
  BY DEF RInv, TypeInv, TypeOK
<1>2. CallInv'
  BY DEF RInv, TypeInv, CallInv
<1> QED BY <1>1, <1>2 DEF TypeInv

LEMMA WriteKeeps == ASSUME RInv, NEW p \in Procs, RepairWrite(p) PROVE RInv' /\ RepairEffects(p)
<1>1. PICK m \in desk[p].files :
        IF desk[p].verb \in ResolveVerbs THEN WriteResolve(p, m) ELSE WriteRepair(p, m)
  BY DEF RepairWrite
<1>2. RepairEffects(p) /\ ledger' \in [Scopes -> Records] /\ repairs' \in Seq(AuditRows)
  BY <1>1, WriteEffects DEF RepairWrite
<1>3. TypeInv'
  BY <1>2, TypesAfterWrite DEF RepairWrite
<1> DEFINE d == [desk[p] EXCEPT !.files = desk[p].files \ {m}]
<1>4. desk' = [desk EXCEPT ![p] = AtRest] \/ desk' = [desk EXCEPT ![p] = d]
  BY <1>1, DeskOf DEF WriteResolve, WriteRepair, Rest
<1>5. /\ d \in Desks /\ d.step = "write" /\ d.files \subseteq desk[p].files
      /\ d.verb = desk[p].verb /\ d.verb # "baseline" /\ d.verb # "none" /\ pc[p] = "idle"
  BY DeskOf DEF RepairWrite, Desks, AtDesk
<1> HIDE DEF d
<1>6. desk' \in [Procs -> Desks] /\ desk'[p] \in {AtRest, d}
  BY <1>4, <1>5, DeskOf, AtRestType
<1>7. DeskTypes'
  BY <1>6 DEF DeskTypes, Desks, Records, Rows
<1>8. AtDesk(p)'
  <2>1. pc'[p] = "idle" /\ AtDesk(p)
    BY <1>5, DeskOf DEF RepairWrite
  <2>2. CASE desk'[p] = AtRest
    BY <2>2 DEF AtDesk, AtRest
  <2>3. CASE desk'[p] = d
    BY <1>5, <2>1, <2>3 DEF AtDesk
  <2> QED BY <1>6, <2>2, <2>3
<1>9. RepairFrame(p)
  BY <1>4, DeskOf DEF RepairFrame, RepairWrite
<1> QED BY <1>2, <1>3, <1>5, <1>7, <1>8, <1>9, RepairKeeps

-----------------------------------------------------------------------------
(* The transaction of a baseline                                            *)

(* A baseline's audits: one per key it retires, one per file it records.    *)
MissingKeys(d) == {m.seq : m \in NotRecorded(d.files, d.read)}
BaselineAudits(d) == RetireAudits(d) \o RecordAudits(d)

LEMMA RetireAuditsAre ==
  ASSUME NEW d \in Desks
  PROVE  /\ RetireAudits(d) \in Seq(AuditRows)
         /\ \A i \in DOMAIN RetireAudits(d) :
              /\ RetireAudits(d)[i].scope = d.scope /\ RetireAudits(d)[i].new = NoIdentity
              /\ RetireAudits(d)[i].key \in d.retire
         /\ \A q \in d.retire : \E i \in DOMAIN RetireAudits(d) : RetireAudits(d)[i].key = q
<1> DEFINE keys == InOrder(d.retire)
           n == Cardinality(d.retire)
           row(i) == [verb |-> "baseline", scope |-> d.scope, key |-> keys[i],
                      old |-> IdentityOf(d.read[keys[i]]), new |-> NoIdentity]
<1>1. /\ d.retire \in SUBSET Seqs /\ d.scope \in Scopes /\ d.read \in Records
  BY DEF Desks
<1>2. Enumerates(keys, d.retire) /\ n \in Nat
  BY <1>1, KeysAreFinite, InOrderEnumerates, FS_CardinalityType
<1> HIDE DEF keys, n
<1>3. keys \in [1..n -> d.retire] /\ \A q \in d.retire : \E i \in 1..n : keys[i] = q
  BY <1>2 DEF Enumerates, n
<1>4. ASSUME NEW i \in 1..n
      PROVE  /\ row(i) \in AuditRows /\ row(i).scope = d.scope /\ row(i).new = NoIdentity
             /\ row(i).key = keys[i] /\ keys[i] \in d.retire
  <2>1. keys[i] \in Seqs /\ keys[i] \in d.retire
    BY <1>1, <1>3
  <2>2. IdentityOf(d.read[keys[i]]) \in Identities /\ NoIdentity \in Identities
    BY <1>1, <2>1, IdentitiesType DEF Records
  <2> QED BY <1>1, <2>1, <2>2 DEF AuditRows, Verbs
<1>5. RetireAudits(d) = [i \in 1..n |-> row(i)]
  BY <1>3 DEF RetireAudits, keys
<1> HIDE DEF row
<1>6. RetireAudits(d) \in Seq(AuditRows) /\ DOMAIN RetireAudits(d) = 1..n
  BY <1>2, <1>4, <1>5
<1> QED BY <1>3, <1>4, <1>5, <1>6

LEMMA RecordAuditsAre ==
  ASSUME NEW d \in Desks, \A m \in d.files : m.seq # NoSequence
  PROVE  /\ RecordAudits(d) \in Seq(AuditRows)
         /\ \A i \in DOMAIN RecordAudits(d) :
              RecordAudits(d)[i].scope = d.scope /\ RecordAudits(d)[i].key \in MissingKeys(d)
<1> DEFINE files == NotRecorded(d.files, d.read)
           keys == InOrder(MissingKeys(d))
           n == Cardinality(MissingKeys(d))
           row(i) == [verb |-> "baseline", scope |-> d.scope, key |-> keys[i],
                      old |-> NoIdentity, new |-> FileIdentity(FileOf(keys[i], files))]
<1>1. /\ files \subseteq Migrations /\ d.scope \in Scopes /\ MissingKeys(d) \in SUBSET Seqs
  BY DEF Desks, MissingKeys, NotRecorded, Seqs
<1>2. Enumerates(keys, MissingKeys(d)) /\ n \in Nat
  BY <1>1, KeysAreFinite, InOrderEnumerates, FS_CardinalityType
<1> HIDE DEF keys, n
<1>3. keys \in [1..n -> MissingKeys(d)]
  BY <1>2 DEF Enumerates, n
<1>4. ASSUME NEW i \in 1..n
      PROVE  /\ row(i) \in AuditRows /\ row(i).scope = d.scope
             /\ row(i).key = keys[i] /\ keys[i] \in MissingKeys(d)
  <2>1. keys[i] \in Seqs /\ keys[i] \in MissingKeys(d)
    BY <1>1, <1>3
  <2>2. FileOf(keys[i], files) \in Migrations
    BY <1>1, <2>1, FileOfKey DEF MissingKeys
  <2>3. FileIdentity(FileOf(keys[i], files)) \in Identities /\ NoIdentity \in Identities
    BY <2>2, IdentitiesType
  <2> QED BY <1>1, <2>1, <2>3 DEF AuditRows, Verbs
<1>5. RecordAudits(d) = [i \in 1..n |-> row(i)]
  BY <1>3 DEF RecordAudits, keys, MissingKeys
<1> HIDE DEF row
<1>6. RecordAudits(d) \in Seq(AuditRows) /\ DOMAIN RecordAudits(d) = 1..n
  BY <1>2, <1>4, <1>5
<1> QED BY <1>3, <1>4, <1>5, <1>6

LEMMA BaselineAuditsAre ==
  ASSUME NEW d \in Desks, \A m \in d.files : m.seq # NoSequence
  PROVE  /\ BaselineAudits(d) \in Seq(AuditRows)
         /\ \A i \in DOMAIN BaselineAudits(d) :
              LET a == BaselineAudits(d)[i] IN
              /\ a.scope = d.scope
              /\ (a.key \in d.retire /\ a.new = NoIdentity) \/ a.key \in MissingKeys(d)
         /\ \A q \in d.retire : \E i \in DOMAIN BaselineAudits(d) :
              LET a == BaselineAudits(d)[i] IN a.key = q /\ a.scope = d.scope /\ a.new = NoIdentity
<1> DEFINE A == RetireAudits(d)
           B == RecordAudits(d)
<1>1. A \in Seq(AuditRows) /\ B \in Seq(AuditRows)
  BY RetireAuditsAre, RecordAuditsAre
<1>2. \A i \in DOMAIN A : A[i].scope = d.scope /\ A[i].new = NoIdentity /\ A[i].key \in d.retire
  BY RetireAuditsAre
<1>3. \A q \in d.retire : \E i \in DOMAIN A : A[i].key = q
  BY RetireAuditsAre
<1>4. \A i \in DOMAIN B : B[i].scope = d.scope /\ B[i].key \in MissingKeys(d)
  BY RecordAuditsAre
<1> HIDE DEF A, B
<1> DEFINE C == A \o B
<1>5. /\ C \in Seq(AuditRows) /\ Len(A) \in Nat /\ Len(B) \in Nat
      /\ DOMAIN C = 1..(Len(A) + Len(B)) /\ DOMAIN A = 1..Len(A) /\ DOMAIN B = 1..Len(B)
      /\ \A i \in 1..Len(A) : C[i] = A[i]
      /\ \A i \in DOMAIN C : i > Len(A) => C[i] = B[i - Len(A)] /\ i - Len(A) \in 1..Len(B)
  BY <1>1
<1> HIDE DEF C
<1>6. ASSUME NEW i \in DOMAIN C
      PROVE  /\ C[i].scope = d.scope
             /\ (C[i].key \in d.retire /\ C[i].new = NoIdentity) \/ C[i].key \in MissingKeys(d)
  <2>1. CASE i <= Len(A)
    BY <1>2, <1>5, <2>1
  <2>2. CASE i > Len(A)
    BY <1>4, <1>5, <2>2
  <2> QED BY <1>5, <2>1, <2>2
<1>7. ASSUME NEW q \in d.retire
      PROVE  \E i \in DOMAIN C : C[i].key = q /\ C[i].scope = d.scope /\ C[i].new = NoIdentity
  <2>1. PICK i \in DOMAIN A : A[i].key = q
    BY <1>3
  <2>2. i \in DOMAIN C /\ C[i] = A[i]
    BY <1>5
  <2> QED BY <1>2, <2>1, <2>2
<1>8. BaselineAudits(d) = C
  BY DEF BaselineAudits, A, B, C
<1> QED BY <1>5, <1>6, <1>7, <1>8

LEMMA CommitEffects ==
  ASSUME RInv, NEW p \in Procs, BaselineCommit(p)
  PROVE  /\ RepairEffects(p)
         /\ ledger' \in [Scopes -> Records] /\ repairs' \in Seq(AuditRows)
<1> DEFINE d == desk[p]
           more == BaselineAudits(d)
<1>1. /\ d \in Desks /\ lock = p /\ d.scope \in Scopes /\ d.retire \in SUBSET Seqs
      /\ repairs \in Seq(AuditRows) /\ ledger \in [Scopes -> Records] /\ d.files \subseteq Migrations
      /\ \A m \in d.files : m.seq # NoSequence
      /\ \A q \in d.retire : Recorded(d.read[q]) /\ ~IsDirty(ledger[d.scope][q])
  BY DeskOf DEF BaselineCommit, AtDesk, Desks, TypeInv, TypeOK
<1>2. CASE UNCHANGED <<ledger, repairs>>
  BY <1>1, <1>2, NoEffect
<1>3. CASE /\ ~\E m \in NotRecorded(d.files, d.read) : Recorded(ledger[d.scope][m.seq])
           /\ ledger' = [ledger EXCEPT ![d.scope] = Baselined(d, @)]
           /\ repairs' = repairs \o RetireAudits(d) \o RecordAudits(d)
  <2>1. RetireAudits(d) \in Seq(AuditRows) /\ RecordAudits(d) \in Seq(AuditRows) /\ more \in Seq(AuditRows)
    BY <1>1, RetireAuditsAre, RecordAuditsAre, BaselineAuditsAre
  <2>2. repairs' = repairs \o more
    <3> DEFINE A == RetireAudits(d)
               B == RecordAudits(d)
    <3>1. A \in Seq(AuditRows) /\ B \in Seq(AuditRows) /\ repairs' = (repairs \o A) \o B
      BY <1>3, <2>1
    <3>2. more = A \o B
      BY DEF BaselineAudits
    <3> HIDE DEF A, B, more
    <3>3. (repairs \o A) \o B = repairs \o (A \o B)
      BY <1>1, <3>1
    <3> QED BY <3>1, <3>2, <3>3
  <2>3. /\ \A i \in DOMAIN more :
              /\ more[i].scope = d.scope
              /\ (more[i].key \in d.retire /\ more[i].new = NoIdentity) \/ more[i].key \in MissingKeys(d)
        /\ \A q \in d.retire : \E i \in DOMAIN more :
              more[i].key = q /\ more[i].scope = d.scope /\ more[i].new = NoIdentity
    BY <1>1, BaselineAuditsAre
  <2>4. \A q \in MissingKeys(d) : ~Recorded(d.read[q]) /\ ~Recorded(ledger[d.scope][q]) /\ q \notin d.retire
    BY <1>1, <1>3 DEF MissingKeys, NotRecorded
  <2> HIDE DEF more, d
  <2>5. ASSUME NEW q \in d.retire PROVE \E a \in Added(d.scope, q) : a.new = NoIdentity
    <3>1. PICK i \in DOMAIN more : more[i].key = q /\ more[i].scope = d.scope /\ more[i].new = NoIdentity
      BY <2>3
    <3>2. repairs \in Seq(AuditRows) /\ more \in Seq(AuditRows)
      BY <1>1, <2>1
    <3>3. more[i] \in Added(d.scope, q)
      BY <2>2, <3>1, <3>2, AppendedIsAdded
    <3> QED BY <3>1, <3>3
  <2>6. ASSUME NEW s \in Scopes, NEW q \in Seqs, LastByBaseline(repairs', s, q)
        PROVE  \/ s = d.scope /\ q \in MissingKeys(d)
               \/ LastByBaseline(repairs, s, q) /\ (s # d.scope \/ q \notin d.retire)
    <3>1. \/ \E i \in DOMAIN more : more[i].scope = s /\ more[i].key = q /\ RecordsBaseline(more[i])
          \/ /\ LastByBaseline(repairs, s, q)
             /\ \A i \in DOMAIN more : more[i].scope # s \/ more[i].key # q
      BY <1>1, <2>1, <2>2, <2>6, LastOfLonger
    <3> QED BY <2>3, <3>1 DEF RecordsBaseline
  <2>7. ASSUME NEW q \in MissingKeys(d)
        PROVE  FileOf(q, d.files) \in Migrations
    <3>1. q \in {m.seq : m \in d.files}
      BY DEF MissingKeys, NotRecorded
    <3> QED BY <1>1, <3>1, FileOfKey
  <2> DEFINE row(q) == RowOf(FileOf(q, d.files), StatusApplied)
  <2>8. ASSUME NEW q \in MissingKeys(d)
        PROVE  row(q) \in Rows /\ Recorded(row(q)) /\ ~IsDirty(row(q)) /\ DigestsFit(row(q))
    <3>1. row(q) \in Rows /\ row(q).status = StatusApplied
      BY <2>7, RowOfType DEF RowOf
    <3>2. row(q) # NoRow
      BY <3>1, NoRowAssumption DEF NoRowAssumption
    <3>3. DigestsFit(row(q))
      BY <2>7, RowOfFits DEF RowOf
    <3> QED BY <3>1, <3>2, <3>3 DEF Recorded, IsDirty
  <2>9. \A q \in Seqs : ledger'[d.scope][q] = IF q \in d.retire THEN NoRow
                                              ELSE IF q \in MissingKeys(d) THEN row(q) ELSE ledger[d.scope][q]
    <3>1. ledger'[d.scope] = Baselined(d, ledger[d.scope])
      BY <1>1, <1>3 DEF d
    <3>2. \A q \in Seqs : (\E m \in NotRecorded(d.files, d.read) : m.seq = q) <=> q \in MissingKeys(d)
      BY DEF MissingKeys
    <3> QED BY <3>1, <3>2 DEF Baselined
  <2>10. \A s \in Scopes : s # d.scope => ledger'[s] = ledger[s]
    BY <1>1, <1>3 DEF d
  <2> HIDE DEF row
  <2>11. ledger' \in [Scopes -> Records]
    <3>1. Baselined(d, ledger[d.scope]) \in Records
      <4>1. Baselined(d, ledger[d.scope]) = [q \in Seqs |-> ledger'[d.scope][q]]
        BY <1>1, <1>3 DEF Baselined, d
      <4>2. \A q \in Seqs : ledger'[d.scope][q] \in Rows \cup {NoRow}
        BY <1>1, <2>8, <2>9 DEF Records
      <4> QED BY <4>1, <4>2 DEF Records
    <3> QED BY <1>1, <1>3, <3>1 DEF d
  <2>12. repairs' \in Seq(AuditRows)
    BY <1>1, <2>1, <2>2
  <2>13. ASSUME NEW s \in Scopes, NEW q \in Seqs PROVE RepairEffect(p, s, q)
    <3>1. CASE s = d.scope /\ q \in d.retire
      <4>1. ledger'[s][q] = NoRow /\ ~LastByBaseline(repairs', s, q)
        BY <2>4, <2>6, <2>9, <3>1
      <4>2. DigestsFit(NoRow) /\ ~IsDirty(NoRow) /\ ~Recorded(NoRow) /\ IdentityOf(NoRow) = NoIdentity
        BY DEF DigestsFit, IsDirty, Recorded, IdentityOf
      <4> QED BY <1>1, <2>5, <3>1, <4>1, <4>2 DEF RepairEffect
    <3>2. CASE s = d.scope /\ q \in MissingKeys(d)
      <4>1. ledger'[s][q] = row(q) /\ ~Recorded(ledger[s][q])
        BY <2>4, <2>9, <3>2
      <4> QED BY <1>1, <2>8, <3>2, <4>1 DEF RepairEffect, IsDirty
    <3>3. CASE s # d.scope \/ (q \notin d.retire /\ q \notin MissingKeys(d))
      <4>1. ledger'[s][q] = ledger[s][q]
        BY <2>9, <2>10, <3>3
      <4>2. LastByBaseline(repairs', s, q) => LastByBaseline(repairs, s, q) /\ Recorded(ledger[s][q])
        BY <2>6, <3>3 DEF RInv, BaselinesStand
      <4> QED BY <4>1, <4>2 DEF RepairEffect
    <3> QED BY <3>1, <3>2, <3>3
  <2> QED BY <2>11, <2>12, <2>13 DEF RepairEffects
<1> QED BY <1>2, <1>3 DEF BaselineCommit

LEMMA CommitKeeps == ASSUME RInv, NEW p \in Procs, BaselineCommit(p) PROVE RInv' /\ RepairEffects(p)
<1>1. RepairEffects(p) /\ ledger' \in [Scopes -> Records] /\ repairs' \in Seq(AuditRows)
  BY CommitEffects
<1>2. TypeInv'
  BY <1>1, TypesAfterWrite DEF BaselineCommit
<1> DEFINE d == [desk[p] EXCEPT !.step = "unlock"]
<1>3. /\ d \in Desks /\ d.step = "unlock" /\ d.files = desk[p].files
      /\ d.verb = desk[p].verb /\ d.verb # "none" /\ pc[p] = "idle" /\ lock = p
  BY DeskOf DEF BaselineCommit, Desks, AtDesk
<1>4. desk' = [desk EXCEPT ![p] = d]
  BY DEF BaselineCommit, MoveTo
<1> HIDE DEF d
<1>5. desk' \in [Procs -> Desks] /\ desk'[p] = d
  BY <1>3, <1>4, DeskOf
<1>6. DeskTypes'
  BY <1>5 DEF DeskTypes, Desks, Records, Rows
<1>7. AtDesk(p)'
  <2>1. pc'[p] = "idle" /\ lock' = p /\ AtDesk(p)
    BY <1>3, DeskOf DEF BaselineCommit
  <2> QED BY <1>3, <1>5, <2>1 DEF AtDesk
<1>8. RepairFrame(p)
  BY <1>4, DeskOf DEF RepairFrame, BaselineCommit
<1> QED BY <1>1, <1>2, <1>3, <1>6, <1>7, <1>8, RepairKeeps

(* Every step of an operator keeps the invariant, and changes rows and      *)
(* trail as RepairEffect says.                                              *)
LEMMA RepairStep ==
  ASSUME RInv, NEW p \in Procs, Repair(p)
  PROVE  RInv' /\ RepairEffects(p) /\ landed' = landed
<1>1. CASE RepairBegin(p)
  BY <1>1, BeginKeeps, NoEffect DEF RepairBegin, dbVars
<1>2. CASE RepairSetup(p)
  BY <1>2, SetupKeeps, NoEffect DEF RepairSetup
<1>3. CASE RepairRead(p)
  BY <1>3, ReadKeeps, NoEffect DEF RepairRead, dbVars
<1>4. CASE RepairWrite(p)
  BY <1>4, WriteKeeps DEF RepairWrite
<1>5. CASE BaselineLock(p)
  BY <1>5, LockKeeps, NoEffect DEF BaselineLock, dbVars
<1>6. CASE BaselinePlan(p)
  BY <1>6, PlanKeeps, NoEffect DEF BaselinePlan, dbVars
<1>7. CASE BaselineCommit(p)
  BY <1>7, CommitKeeps DEF BaselineCommit
<1>8. CASE BaselineUnlock(p) \/ GiveUp(p)
  BY <1>8, UnlockKeeps, NoEffect DEF BaselineUnlock, GiveUp, dbVars
<1> QED BY <1>1, <1>2, <1>3, <1>4, <1>5, <1>6, <1>7, <1>8 DEF Repair

LEMMA InitRInv == ASSUME RepairInit PROVE RInv
<1>1. TypeInv
  BY InitTypes DEF RepairInit
<1>2. DeskTypes
  BY AtRestType DEF RepairInit, DeskTypes
<1>3. \A p \in Procs : AtDesk(p)
  BY DEF RepairInit, AtDesk, AtRest
<1>4. \A p \in Procs : lock # p
  BY CallerAssumption DEF RepairInit, Init, CallerAssumption
<1>5. BaselinesStand
  BY DEF RepairInit, Init, BaselinesStand, LastByBaseline
<1>6. DigestsAgree
  <2>1. PICK past \in [Scopes -> Histories], identified \in BOOLEAN :
          ledger = [s \in Scopes |-> HistoryRows(past[s], identified)]
    BY DEF RepairInit, Init
  <2>2. ASSUME NEW s \in Scopes, NEW q \in Seqs PROVE DigestsFit(ledger[s][q])
    <3>1. \/ ledger[s][q] = NoRow
          \/ \E m \in Migrations : ledger[s][q] = LegacyRow(m, identified)
      BY <2>1, HistoryOf
    <3>2. \A m \in Migrations : LegacyRow(m, identified).semantic = NoDigest
      BY DEF LegacyRow
    <3>3. \A row : row = NoRow \/ row.semantic = NoDigest => DigestsFit(row)
      BY DEF DigestsFit, Recorded
    <3> QED BY <3>1, <3>2, <3>3
  <2> QED BY <2>2, FitsAgree
<1> QED BY <1>1, <1>2, <1>3, <1>4, <1>5, <1>6 DEF RInv

LEMMA StepRInv == ASSUME RInv, [RepairNext]_repairVars PROVE RInv'
<1>1. CASE UNCHANGED repairVars
  <2>1. TypeInv' /\ DeskTypes'
    BY <1>1 DEF repairVars, RInv, TypeInv, TypeOK, CallInv, DeskTypes, Desks, Records, Rows
  <2>2. (\A p \in Procs : AtDesk(p))'
    BY <1>1 DEF repairVars, RInv, AtDesk, AtRest, Recorded, IsDirty
  <2>3. (\A p \in Procs : lock = p => AtMigration(p))'
    BY <1>1 DEF repairVars, RInv, AtMigration, Row, Scope, Recorded, IsNext, LastByBaseline, RecordsBaseline
  <2>4. BaselinesStand' /\ DigestsAgree'
    BY <1>1 DEF repairVars, RInv, BaselinesStand, DigestsAgree, Recorded, LastByBaseline, RecordsBaseline
  <2> QED BY <2>1, <2>2, <2>3, <2>4 DEF RInv
<1>2. CASE RepairNext
  BY <1>2, RepairStep, MigrateKeeps DEF RepairNext
<1> QED BY <1>1, <1>2

-----------------------------------------------------------------------------
(* Theorems *)

(* RInv is an inductive invariant of operators and migrators at work on one *)
(* database: it holds at the start and every step keeps it.                 *)
THEOREM RepairsInvariance == RepairSpec => []RInv
<1>1. RepairInit => RInv
  BY InitRInv
<1>2. RInv /\ [RepairNext]_repairVars => RInv'
  BY StepRInv
<1> QED BY <1>1, <1>2, PTL DEF RepairSpec

(* Type correctness: the database, the processes and the desks stay in      *)
(* range, the audit trail of every verb included.                           *)
THEOREM DeskOKAlways == RepairSpec => []DeskOK
<1>1. RInv => DeskOK
  BY DEF RInv, TypeInv, DeskTypes, Desks, DeskOK
<1> QED BY <1>1, RepairsInvariance, PTL

(* The two digests of a row always come from one file, whatever repairs and *)
(* unlocked stamps interleave (postgres.go:476-500, repair.go:279-319).     *)
THEOREM DigestsAgreeAlways == RepairSpec => []DigestsAgree
<1>1. RInv => DigestsAgree
  BY DEF RInv
<1> QED BY <1>1, RepairsInvariance, PTL

(* An unfinished row ends only by its own run or by an audited resolve      *)
(* (notx.go:40-43, baseline.go:103-107).                                    *)
THEOREM DirtyEndsOnRecordAlways == RepairSpec => DirtyEndsOnRecord
<1> DEFINE A == \A s \in Scopes, q \in Seqs :
                  IsDirty(ledger[s][q]) /\ ~IsDirty(ledger'[s][q]) =>
                    \/ \E p \in Procs : lock = p /\ Scope(p) = s /\ pc[p] = "finish"
                    \/ \E a \in Added(s, q) : a.verb \in ResolveVerbs
<1>1. ASSUME RInv, [RepairNext]_repairVars PROVE [A]_repairVars
  <2>1. CASE UNCHANGED repairVars
    BY <2>1
  <2>2. ASSUME NEW p \in Procs, Repair(p) PROVE A
    BY <1>1, <2>2, RepairStep DEF RepairEffects, RepairEffect
  <2>3. ASSUME NEW p \in Procs, Migrate(p) PROVE A
    <3>1. \A s \in Scopes, q \in Seqs : RowStep(p, s, q, ledger[s][q], ledger'[s][q])
      BY <1>1, <2>3, StepEffect DEF RInv, Migrate, MigrateStep
    <3> QED BY <3>1 DEF RowStep, Handles
  <2> QED BY <1>1, <2>1, <2>2, <2>3 DEF RepairNext
<1> QED BY <1>1, RepairsInvariance, PTL DEF RepairSpec, DirtyEndsOnRecord

(* A number is rebound or forgotten only with an audit of the same          *)
(* transaction that says so (repair.go:276-278, baseline.go:139-143).       *)
THEOREM RebindingIsAuditedAlways == RepairSpec => RebindingIsAudited
<1> DEFINE A == \A s \in Scopes, q \in Seqs :
                  LET new == ledger'[s][q] IN
                  /\ Recorded(ledger[s][q])
                  /\ ~Recorded(new) \/ new.filename # ledger[s][q].filename
                  => \E a \in Added(s, q) : a.new = IdentityOf(new)
<1>1. ASSUME RInv, [RepairNext]_repairVars PROVE [A]_repairVars
  <2>1. CASE UNCHANGED repairVars
    BY <2>1
  <2>2. ASSUME NEW p \in Procs, Repair(p) PROVE A
    BY <1>1, <2>2, RepairStep DEF RepairEffects, RepairEffect
  <2>3. ASSUME NEW p \in Procs, Migrate(p) PROVE A
    <3>1. \A s \in Scopes, q \in Seqs : RowStep(p, s, q, ledger[s][q], ledger'[s][q])
      BY <1>1, <2>3, StepEffect DEF RInv, Migrate, MigrateStep
    <3>2. ASSUME NEW s \in Scopes, NEW q \in Seqs, Recorded(ledger[s][q]), Handles(p, "apply", s, q)
          PROVE  FALSE
      BY <1>1, <3>2 DEF Handles, RInv, AtMigration, Row
    <3> QED BY <3>1, <3>2 DEF RowStep
  <2> QED BY <1>1, <2>1, <2>2, <2>3 DEF RepairNext
<1> QED BY <1>1, RepairsInvariance, PTL DEF RepairSpec, RebindingIsAudited

(* No migrator runs what a baseline recorded, not even one that decided     *)
(* before the baseline (baseline.go:139-171).                               *)
THEOREM BaselineStopsApplyAlways == RepairSpec => BaselineStopsApply
<1> DEFINE A == \A s \in Scopes, q \in Seqs : ByBaseline(s, q) => landed'[s][q] = landed[s][q]
<1>1. ASSUME RInv, [RepairNext]_repairVars PROVE [A]_repairVars
  <2>1. CASE UNCHANGED repairVars
    BY <2>1
  <2>2. ASSUME NEW p \in Procs, Repair(p) PROVE A
    BY <1>1, <2>2, RepairStep
  <2>3. ASSUME NEW p \in Procs, Migrate(p) PROVE A
    <3>1. LandStep(p)
      BY <1>1, <2>3, StepEffect DEF RInv, Migrate, MigrateStep
    <3>2. ASSUME NEW s \in Scopes, NEW q \in Seqs, ByBaseline(s, q),
                 Handles(p, "apply", s, q) \/ Handles(p, "exec", s, q)
          PROVE  FALSE
      <4>1. LastByBaseline(repairs, s, q)
        BY <3>2 DEF ByBaseline, LastByBaseline, RecordsBaseline
      <4> QED BY <1>1, <3>2, <4>1 DEF Handles, RInv, AtMigration
    <3> QED BY <3>1, <3>2 DEF LandStep
  <2> QED BY <1>1, <2>1, <2>2, <2>3 DEF RepairNext
<1> QED BY <1>1, RepairsInvariance, PTL DEF RepairSpec, BaselineStopsApply
=============================================================================
