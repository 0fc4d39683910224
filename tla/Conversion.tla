----------------------------- MODULE Conversion -----------------------------
(***************************************************************************)
(* reconcile(): what ApplyMigrations does between its set-up and its first *)
(* check when a chain declares conversions or asks for strict integrity.   *)
(* A conversion turns a database built by a retired chain into the leading *)
(* files of the current one; strict integrity decides on the live schema   *)
(* whether an edited migration may pass. Both read the ledger, take the    *)
(* lock when there is something to decide, read again, and commit ledger,  *)
(* schema and audit in one transaction. The lock is then given up, and the *)
(* apply of Migrator goes on from its own first check.                     *)
(*                                                                         *)
(* A schema is the set of objects its fingerprint lists, up to what the    *)
(* fingerprint ignores. Shape says which objects each statement of a file  *)
(* makes; a fresh build of a chain is what its files make together. Every  *)
(* scope has a schema of its own (WithSchema).                             *)
(***************************************************************************)
EXTENDS Migrator

CONSTANTS Objects,          \* the lines a schema's fingerprint may have
          Shape,            \* the objects each statement of a file makes
          Declared,         \* the conversions the release of each tree declares
          Strays,           \* what a schema may hold that its ledger never made
          StrictIntegrity,  \* WithStrictIntegrity()
          MaxAudits         \* no call begins once the audit trail is this long

Conversions == UNION {{Declared[t][i] : i \in DOMAIN Declared[t]} : t \in Trees}

ConversionAssumption ==
  /\ Shape \in [Migrations -> Seq(SUBSET Objects)]
  /\ \A m \in Migrations : Len(Shape[m]) = m.stmts
  /\ \A m, n \in Migrations : m.sql = n.sql => Shape[m] = Shape[n]
  /\ Declared \in [Trees -> Seq(Conversions)]
  /\ \A c \in Conversions : /\ c.retired \in Seq(Migrations) /\ ValidateSequences(c.retired)
                            /\ c.replaces \in Nat
                            /\ c.drops \subseteq Objects /\ c.adds \subseteq Objects
  /\ Strays \subseteq SUBSET Objects
  /\ StrictIntegrity \in BOOLEAN
ASSUME ConversionAssumption

VARIABLES
  schema,   \* the objects live in each scope's schema
  stray,    \* those of them no ledger row accounts for
  recon     \* how far a process is in reconcile

conversionVars == <<ledger, landed, namespace, tracker, repairs, lock, pc, call, todo, stmt,
                    outcome, schema, stray, recon>>

NoRows == [q \in Seqs |-> NoRow]
AtStart == [step |-> "due", rows |-> NoRows, nth |-> 1, ledgerless |-> FALSE]

ConversionOK ==
  /\ TypeOK
  /\ schema \in [Scopes -> SUBSET Objects]
  /\ stray \in [Scopes -> SUBSET Objects]
  /\ recon \in [Procs -> [step : {"due", "populated", "lock", "reread", "convert", "settle", "unlock", "done"},
                          rows : Records, nth : Nat, ledgerless : BOOLEAN]]

-----------------------------------------------------------------------------
(* Fingerprints *)

Effect(m) == UNION {Shape[m][k] : k \in DOMAIN Shape[m]}

(* A fresh build runs in one transaction: no-transaction files refuse it.   *)
Rebuildable(files) == \A m \in files : ~m.notx
FreshBuild(files) == UNION {Effect(m) : m \in files}

LaidDown(pieces) ==
  UNION {UNION {Shape[pieces[q][i][1]][pieces[q][i][2]] : i \in DOMAIN pieces[q]} : q \in Seqs}

ConversionInit ==
  /\ Init
  /\ stray \in [Scopes -> Strays]
  /\ \A s \in Scopes : stray[s] # {} => s \in namespace
  /\ schema = [s \in Scopes |-> stray[s] \cup LaidDown(landed[s])]
  /\ recon = [p \in Procs |-> AtStart]

-----------------------------------------------------------------------------
(* What is decided on the ledger alone *)

KeysOf(rows) == {q \in Seqs : Recorded(rows[q])}

(* Exactly the retired chain, every row finished and of its content.        *)
LedgerRecords(rows, retired) ==
  /\ retired # {}
  /\ KeysOf(rows) = {m.seq : m \in retired}
  /\ \A m \in retired : /\ IsApplied(rows[m.seq])
                        /\ rows[m.seq].filename = m.name
                        /\ \/ rows[m.seq].digest = ContentDigest(m)
                           \/ rows[m.seq].semantic = SemanticContentDigest(m)

Drifted(tree, rows) == {m \in Files(tree) : IsDrift(m, rows[m.seq])}

Own(p) == Declared[call[p].tree]
Matching(p, rows) == {i \in DOMAIN Own(p) : LedgerRecords(rows, Files(Own(p)[i].retired))}

-----------------------------------------------------------------------------
(* The transaction of a conversion *)

Conv(p) == Own(p)[recon[p].nth]
Live(p) == schema[Scope(p)]
Leading(p) == Files(SubSeq(call[p].tree, 1, Conv(p).replaces))
Result(p) == (Live(p) \ Conv(p).drops) \cup Conv(p).adds

InRange(p) == Conv(p).replaces \in 1..Len(call[p].tree)
Comparable(p) == InRange(p) /\ Rebuildable(Files(Conv(p).retired))
Recognised(p) == Comparable(p) /\ Live(p) = FreshBuild(Files(Conv(p).retired))

(* Mutant: the result of the conversion's SQL is taken on trust.            *)
Trusted(p) == TRUE

(* What the SQL made must be a fresh build of the files it stands for.      *)
Verified(p) == Rebuildable(Leading(p)) /\ Result(p) = FreshBuild(Leading(p))

(* An INSERT over a row that was not there when the ledger was read fails.  *)
Insertable(p) ==
  \A m \in Leading(p) : Recorded(ledger[Scope(p)][m.seq]) => Recorded(recon[p].rows[m.seq])

(* One audit row per number: from what its row was when it was read, to the *)
(* file that takes it, if any.                                              *)
NewIdentity(q, files) == IF \E m \in files : m.seq = q THEN FileIdentity(FileOf(q, files)) ELSE NoIdentity
AuditSeq(verb, s, keys, rows, files) ==
  LET order == InOrder(keys) IN
  [i \in DOMAIN order |-> [verb |-> verb, scope |-> s, key |-> order[i],
                           old |-> IdentityOf(rows[order[i]]), new |-> NewIdentity(order[i], files)]]

(* Mutant: a retired row the new chain has no file for goes without audit.  *)
ForgetQuietly(p) == <<>>

ForgetAudits(p) ==
  AuditSeq("convert", Scope(p), KeysOf(recon[p].rows) \ {m.seq : m \in Leading(p)},
           recon[p].rows, {})
ReplaceAudits(p) ==
  AuditSeq("convert", Scope(p), {m.seq : m \in Leading(p)},
           recon[p].rows, Leading(p))

ConvertWrites(p) ==
  /\ recon[p].step = "convert" /\ lock = p
  /\ Recognised(p) /\ Verified(p) /\ Insertable(p)
  /\ LET s == Scope(p)  keys == {m.seq : m \in Leading(p)} IN
     /\ ledger' = [ledger EXCEPT ![s] =
                     [q \in Seqs |-> IF q \in keys THEN RowOf(FileOf(q, Leading(p)), StatusApplied)
                                     ELSE IF Recorded(recon[p].rows[q]) THEN NoRow
                                     ELSE ledger[s][q]]]
     /\ landed' = [landed EXCEPT ![s] =
                     [q \in Seqs |-> IF q \in keys THEN Units(FileOf(q, Leading(p))) ELSE <<>>]]
     /\ schema' = [schema EXCEPT ![s] = Result(p)]
     /\ stray' = [stray EXCEPT ![s] = {}]
  /\ repairs' = repairs \o ForgetAudits(p) \o ReplaceAudits(p)
  /\ UNCHANGED <<namespace, tracker>>

(* The transaction that settles drift. The files compared are those of the  *)
(* tree that have any row.                                                  *)
RecordedFiles(p) == {m \in Files(call[p].tree) : Recorded(recon[p].rows[m.seq])}

(* Mutant: looks for what the edited files make, not for the whole build.   *)
EditsPresent(p) == FreshBuild(Drifted(call[p].tree, recon[p].rows)) \subseteq Live(p)

BuildUnchanged(p) == Rebuildable(RecordedFiles(p)) /\ Live(p) = FreshBuild(RecordedFiles(p))

SettleWrites(p) ==
  /\ recon[p].step = "settle" /\ lock = p
  /\ BuildUnchanged(p)
  /\ LET s == Scope(p)  edited == Drifted(call[p].tree, recon[p].rows)
         keys == {m.seq : m \in edited}
     IN /\ ledger' = [ledger EXCEPT ![s] =
                        [q \in Seqs |-> IF q \in keys /\ Recorded(ledger[s][q])
                                          THEN [ledger[s][q] EXCEPT !.digest = ContentDigest(FileOf(q, edited)),
                                                                    !.semantic = SemanticContentDigest(FileOf(q, edited))]
                                          ELSE ledger[s][q]]]
        /\ repairs' = repairs \o AuditSeq("verify-content", s, keys, recon[p].rows, edited)
  /\ UNCHANGED <<landed, namespace, tracker, schema, stray>>

-----------------------------------------------------------------------------
(* The steps of reconcile *)

Reconciling(p) == pc[p] = "check" /\ recon[p].step # "done"
At(p, step) == Reconciling(p) /\ recon[p].step = step
MoveTo(p, step) == recon' = [recon EXCEPT ![p].step = step]

(* The read without the lock, which only decides whether to take it.        *)
Consider(p) ==
  /\ At(p, "due")
  /\ LET rows == ledger[Scope(p)] IN
     \/ /\ Matching(p, rows) # {} \/ (StrictIntegrity /\ Drifted(call[p].tree, rows) # {})
        /\ MoveTo(p, "lock")
     \/ /\ KeysOf(rows) = {} /\ Own(p) # <<>>
        /\ MoveTo(p, "populated")
     \/ /\ Matching(p, rows) = {} /\ ~(StrictIntegrity /\ Drifted(call[p].tree, rows) # {})
        /\ KeysOf(rows) # {} \/ Own(p) = <<>>
        /\ MoveTo(p, "done")
  /\ UNCHANGED <<dbVars, lock, pc, call, todo, stmt, outcome, schema, stray>>

(* An empty ledger over a schema that has tables.                           *)
LookForTables(p) ==
  /\ At(p, "populated")
  /\ MoveTo(p, IF Live(p) # {} THEN "lock" ELSE "done")
  /\ UNCHANGED <<dbVars, lock, pc, call, todo, stmt, outcome, schema, stray>>

LockForReconcile(p) ==
  /\ At(p, "lock") /\ lock = Nobody
  /\ lock' = p
  /\ MoveTo(p, "reread")
  /\ UNCHANGED <<dbVars, pc, call, todo, stmt, outcome, schema, stray>>

First(nths) == CHOOSE i \in nths : \A j \in nths : i <= j

(* The read that decides, on the lock session: the first conversion whose   *)
(* chain the ledger records; with no rows at all each of them, by shape;    *)
(* drift only when no conversion has a say.                                *)
Reread(p) ==
  /\ At(p, "reread") /\ lock = p
  /\ LET rows == ledger[Scope(p)]
         To(step, nth, ledgerless) ==
           recon' = [recon EXCEPT ![p] = [step |-> step, rows |-> rows, nth |-> nth, ledgerless |-> ledgerless]]
     IN \/ /\ Matching(p, rows) # {}
           /\ To("convert", First(Matching(p, rows)), FALSE)
        \/ /\ KeysOf(rows) = {} /\ Own(p) # <<>>
           /\ To("convert", 1, TRUE)
        \/ /\ Matching(p, rows) = {} /\ (KeysOf(rows) # {} \/ Own(p) = <<>>)
           /\ To(IF StrictIntegrity /\ Drifted(call[p].tree, rows) # {} THEN "settle" ELSE "unlock", 1, FALSE)
  /\ UNCHANGED <<dbVars, lock, pc, call, todo, stmt, outcome, schema, stray>>

(* The call is going to fail; the deferred unlock still has to run.         *)
Refuse(p) == MoveTo(p, "unlock") /\ outcome' = [outcome EXCEPT ![p] = "error"]

Convert(p) ==
  /\ At(p, "convert")
  /\ ConvertWrites(p)
  /\ MoveTo(p, "unlock")
  /\ UNCHANGED <<lock, pc, call, todo, stmt, outcome>>

(* Without a ledger the shape alone decides: the next conversion, or none.  *)
TryNext(p) ==
  /\ At(p, "convert") /\ lock = p
  /\ recon[p].ledgerless /\ Comparable(p) /\ ~Recognised(p)
  /\ recon' = IF recon[p].nth < Len(Own(p)) THEN [recon EXCEPT ![p].nth = @ + 1]
                                            ELSE [recon EXCEPT ![p].step = "unlock"]
  /\ UNCHANGED <<dbVars, lock, pc, call, todo, stmt, outcome, schema, stray>>

(* Everything the transaction did is rolled back.                           *)
RefuseConversion(p) ==
  /\ At(p, "convert") /\ lock = p
  /\ \/ ~Comparable(p)
     \/ ~Recognised(p) /\ ~recon[p].ledgerless
     \/ Recognised(p) /\ ~(Verified(p) /\ Insertable(p))
  /\ Refuse(p)
  /\ UNCHANGED <<dbVars, lock, pc, call, todo, stmt, schema, stray>>

Settle(p) ==
  /\ At(p, "settle")
  /\ SettleWrites(p)
  /\ MoveTo(p, "unlock")
  /\ UNCHANGED <<lock, pc, call, todo, stmt, outcome>>

RefuseDrift(p) ==
  /\ At(p, "settle") /\ lock = p
  /\ ~BuildUnchanged(p)
  /\ Refuse(p)
  /\ UNCHANGED <<dbVars, lock, pc, call, todo, stmt, schema, stray>>

(* reconcile returns an error, and the apply with it.                       *)
Leave(p, result) == Return(p, result) /\ recon' = [recon EXCEPT ![p] = AtStart]

(* Mutant: only a reconcile that succeeded gives the lock back.             *)
UnlockIfReconciled(p) ==
  /\ At(p, "unlock")
  /\ IF outcome[p] = "error"
       THEN Leave(p, "error") /\ UNCHANGED lock
       ELSE ReleaseHeld(p) /\ MoveTo(p, "done") /\ UNCHANGED <<pc, call, todo, stmt, outcome>>
  /\ UNCHANGED <<dbVars, schema, stray>>

UnlockReconcile(p) ==
  /\ At(p, "unlock")
  /\ ReleaseHeld(p)
  /\ IF lock = p /\ outcome[p] # "error"
       THEN MoveTo(p, "done") /\ UNCHANGED <<pc, call, todo, stmt, outcome>>
       ELSE Leave(p, "error")
  /\ UNCHANGED <<dbVars, schema, stray>>

(* A statement, a render or the conversion's SQL (which may RAISE) fails.   *)
ReconcileFails(p) ==
  /\ Reconciling(p)
  /\ \/ recon[p].step \in {"due", "populated", "lock"} /\ Leave(p, "error")
     \/ /\ recon[p].step \in {"reread", "convert", "settle"}
        /\ Refuse(p)
        /\ UNCHANGED <<pc, call, todo, stmt>>
  /\ UNCHANGED <<dbVars, lock, schema, stray>>

(* The connection drops or the process dies; a COMMIT in flight may land.   *)
ReconcileCut(p) ==
  /\ Reconciling(p)
  /\ ConvertWrites(p) \/ SettleWrites(p) \/ UNCHANGED <<dbVars, schema, stray>>
  /\ ReleaseHeld(p)
  /\ \E result \in {"error", "crashed"} : Leave(p, result)

-----------------------------------------------------------------------------
(* The apply around it: its DDL makes the objects its files make.           *)
Migrate(p) ==
  /\ ~Reconciling(p)
  /\ (Begin(p) /\ Len(repairs) < MaxAudits) \/ Validate(p) \/ Waits(p) \/ Works(p) \/ Faults(p)
  /\ schema' = [s \in Scopes |-> schema[s] \cup LaidDown(landed'[s])]
  /\ recon' = IF pc[p] = "check" THEN [recon EXCEPT ![p] = AtStart] ELSE recon
  /\ UNCHANGED stray

Decides(p) ==
  \/ Consider(p) \/ LookForTables(p) \/ Reread(p) \/ Convert(p) \/ TryNext(p) \/ RefuseConversion(p)
  \/ Settle(p) \/ RefuseDrift(p) \/ UnlockReconcile(p)

ConversionNext ==
  \E p \in Procs : Decides(p) \/ LockForReconcile(p) \/ ReconcileFails(p) \/ ReconcileCut(p) \/ Migrate(p)

ConversionSpec == ConversionInit /\ [][ConversionNext]_conversionVars

(* As in Migrator: a process keeps running, a lock waiter is served.        *)
ConversionFairness ==
  \A p \in Procs : /\ WF_conversionVars(Decides(p))
                   /\ SF_conversionVars(LockForReconcile(p))
                   /\ WF_conversionVars(Migrate(p) /\ Works(p))
                   /\ SF_conversionVars(Migrate(p) /\ Waits(p))
FairConversionSpec == ConversionSpec /\ ConversionFairness

-----------------------------------------------------------------------------
(* Safety *)

(* A choice of one file per row, each of the name and content it records.   *)
Accounts(files, rows) ==
  /\ {m.seq : m \in files} = KeysOf(rows)
  /\ \A m, n \in files : m.seq = n.seq => m = n
  /\ \A m \in files : Identifies(rows[m.seq], m)

(* Ledger and schema tell the same story (conversion.go:189-287, 292-354):  *)
(* unless a no-transaction file is under way, what lives in a schema is the *)
(* fresh build of the files its rows record, and what was there without a   *)
(* ledger. Conversions that crash, fail or make something else, files whose *)
(* digests strict integrity re-stamps, older releases and lanes that apply  *)
(* in between: none of them leaves rows that describe another schema.       *)
RowsExplainSchema ==
  \A s \in Scopes :
    (\A q \in Seqs : ~IsDirty(ledger[s][q])) =>
      \E files \in SUBSET Migrations :
        Accounts(files, ledger[s]) /\ schema[s] = stray[s] \cup FreshBuild(files)

(* Drift is never settled on the strength of a file that did not run        *)
(* because another file took its number: settleDrift rebuilds every file of *)
(* the tree whose number has a row (conversion.go:298-304), and only the    *)
(* comparison with the live schema can tell that one of them never ran. So  *)
(* this depends on what the files make; RowsExplainSchema rests on it.      *)
RestampsOwnFiles ==
  \A p \in Procs : At(p, "settle") /\ lock = p /\ BuildUnchanged(p) =>
    \A m \in RecordedFiles(p) : ~IsMismatch(m, recon[p].rows[m.seq])

(* No row is rebound or forgotten but with one audit row, in the same       *)
(* transaction, from the identity it had to the one it has (conversion.go:  *)
(* 240-286, 336-353): an identity read under the lock is still the row's    *)
(* when the transaction replaces it.                                        *)
ReplacementsAreAudited ==
  [][\A s \in Scopes, q \in Seqs :
       LET old == IdentityOf(ledger[s][q])  new == IdentityOf(ledger'[s][q]) IN
       Recorded(ledger[s][q]) /\ old # new =>
         \E i \in NewAudits(s, q) : /\ NewAudits(s, q) = {i}
                                    /\ repairs'[i].old = old /\ repairs'[i].new = new]_conversionVars

(* Files of the tree that differ from what their row records, in a schema   *)
(* that is not the fresh build of the tree's applied files.                 *)
EditedUnder(p) ==
  LET rows == ledger[Scope(p)] IN
  /\ Drifted(call[p].tree, rows) # {}
  /\ Live(p) # FreshBuild({m \in Files(call[p].tree) : Recorded(rows[m.seq])})

(* What conversion.go:83-85 says of strict integrity: it refuses to apply   *)
(* migrations over an applied migration whose content changed, unless the   *)
(* live schema still equals a fresh build of the tree's applied migrations. *)
(* reconcile() looks before the apply takes the lock; under it, drift is    *)
(* only a warning.                                                         *)
NeverAppliesOverEdits ==
  [][StrictIntegrity =>
       \A p \in Procs : lock = p /\ pc[p] = "apply" /\ EditedUnder(p) =>
         landed'[Scope(p)] = landed[Scope(p)]]_conversionVars
=============================================================================
