-------------------------- MODULE ConversionProofs --------------------------
(* Machine-checked proofs about Conversion, for every value of its          *)
(* constants.                                                               *)
EXTENDS Conversion, MigratorProofs

-----------------------------------------------------------------------------
(* The inductive invariant. IInv of Migrator is not part of it: a           *)
(* conversion forgets rows another call's verdict was about, and settling   *)
(* drift gives a row the digest of a file that did not make what is there.  *)
(* What holds is what the holder of the lock knows of its scope, and, scope *)
(* by scope, a choice of files that accounts for rows and schema both.      *)

Recons == [step : {"due", "populated", "lock", "reread", "convert", "settle", "unlock", "done"},
           rows : Records, nth : Nat, ledgerless : BOOLEAN]

ReconTypes ==
  /\ schema \in [Scopes -> SUBSET Objects]
  /\ stray \in [Scopes -> SUBSET Objects]
  /\ recon \in [Procs -> Recons]

(* What landed is pieces of files, and what they make is in the schema.     *)
Stands(objects, piece) ==
  /\ piece[2] \in 1..piece[1].stmts
  /\ Shape[piece[1]][piece[2]] \subseteq objects
Visible == \A s \in Scopes, q \in Seqs : \A i \in DOMAIN landed[s][q] : Stands(schema[s], landed[s][q][i])

(* A row without a name has no digest, and two digests are of one file.     *)
Named(row) == Recorded(row) /\ row.filename = NoName => row.digest = NoDigest
RowsOK == \A s \in Scopes, q \in Seqs : Named(ledger[s][q]) /\ DigestsFit(ledger[s][q])

(* The same row but for a semantic digest it may have gained meanwhile.     *)
SameRow(old, new) ==
  /\ Recorded(old) <=> Recorded(new)
  /\ IsDirty(old) <=> IsDirty(new)
  /\ Recorded(old) => /\ new.filename = old.filename /\ new.digest = old.digest
                      /\ new.semantic = old.semantic \/ old.semantic = NoDigest

(* A call on its way has a tree of its own, and is in reconcile only at its *)
(* first check; the conversion it tries is one of those it declares; with   *)
(* the lock, what it read is still there.                                   *)
ReconOf(p) ==
  /\ pc[p] # "idle" => call[p].tree \in Trees
  /\ pc[p] # "check" => recon[p] = AtStart
  /\ At(p, "convert") => recon[p].nth \in DOMAIN Own(p)
  /\ lock = p /\ (At(p, "convert") \/ At(p, "settle")) =>
       \A q \in Seqs : SameRow(recon[p].rows[q], ledger[Scope(p)][q])

(* m is the file that the holder of the lock runs outside a transaction.    *)
Claim(p, m) ==
  /\ IsNext(p, m) /\ Identified(Row(p, m), m) /\ IsDirty(Row(p, m))
  /\ \A q \in Seqs \ {m.seq} : ~IsDirty(ledger[Scope(p)][q])
  /\ \A n \in todo[p] \ {m} : ~Recorded(Row(p, n))
  /\ pc[p] = "exec" => stmt[p] \in 1..m.stmts
  /\ pc[p] = "finish" => stmt[p] = m.stmts + 1

AtWork(p) ==
  /\ pc[p] \in {"createSchema", "apply"} =>
       /\ \A q \in Seqs : ~IsDirty(ledger[Scope(p)][q])
       /\ \A m \in todo[p] : ~Recorded(Row(p, m))
  /\ pc[p] \in OnNoTx => \E m \in todo[p] : Claim(p, m)

KInv ==
  /\ TypeInv /\ ReconTypes /\ Visible /\ RowsOK
  /\ \A p \in Procs : ReconOf(p)
  /\ \A p \in Procs : lock = p => AtWork(p)

(* The file of number q of scope s is being run, and has made o so far.     *)
Claims(p, s) == lock = p /\ Scope(p) = s /\ pc[p] \in {"exec", "finish"}
Attended(s, q) == \E p \in Procs : Claims(p, s) /\ \E m \in todo[p] : IsNext(p, m) /\ m.seq = q
InFlight(s, o) ==
  \E p \in Procs : Claims(p, s) /\ \E m \in todo[p] : IsNext(p, m) /\ \E k \in 1..(stmt[p] - 1) : o \in Shape[m][k]

(* One file for each applied row of scope s, which together with what has   *)
(* no row and what is under way make what is there.                         *)
AccountsFor(files, s) ==
  /\ \A m \in files : m.seq \in Seqs /\ IsApplied(ledger[s][m.seq]) /\ Identifies(ledger[s][m.seq], m)
  /\ \A q \in Seqs : IsApplied(ledger[s][q]) => \E m \in files : m.seq = q
  /\ \A m, n \in files : m.seq = n.seq => m = n
Makes(files, s) ==
  \A o \in Objects : o \in schema[s] <=> o \in stray[s] \/ (\E m \in files : o \in Effect(m)) \/ InFlight(s, o)

(* An unfinished row that nobody attends stays, and then nothing is said.   *)
Explained(s) ==
  (\A q \in Seqs : IsDirty(ledger[s][q]) => Attended(s, q)) =>
    \E files \in SUBSET Migrations : AccountsFor(files, s) /\ Makes(files, s)

EInv == KInv /\ \A s \in Scopes : Explained(s)

-----------------------------------------------------------------------------
(* What a step of the apply does to rows and schema, given what the holder  *)
(* of the lock knows                                                        *)

OneRow(p, m, new) ==
  \A s \in Scopes, k \in Seqs :
    ledger'[s][k] = IF s = Scope(p) /\ k = m.seq THEN new ELSE ledger[s][k]
OneLanding(p, m, pieces) ==
  \A s \in Scopes, k \in Seqs :
    landed'[s][k] = IF s = Scope(p) /\ k = m.seq THEN landed[s][k] \o pieces ELSE landed[s][k]

(* Nothing to speak of; a file in one transaction; the claim, a statement   *)
(* and the end of a file outside one.                                       *)
Quiet == landed' = landed /\ \A s \in Scopes, q \in Seqs : SameRow(ledger[s][q], ledger'[s][q])
Commits(p, m) ==
  /\ lock = p /\ pc[p] = "apply" /\ IsNext(p, m) /\ ~Recorded(Row(p, m))
  /\ OneRow(p, m, RowOf(m, StatusApplied)) /\ OneLanding(p, m, Units(m))
Starts(p, m) ==
  /\ lock = p /\ pc[p] = "apply" /\ IsNext(p, m) /\ ~Recorded(Row(p, m))
  /\ OneRow(p, m, RowOf(m, StatusRunning)) /\ landed' = landed
Executes(p, m) ==
  /\ lock = p /\ pc[p] = "exec" /\ Claim(p, m)
  /\ ledger' = ledger /\ OneLanding(p, m, <<<<m, stmt[p]>>>>)
Completes(p, m) ==
  /\ lock = p /\ pc[p] = "finish" /\ Claim(p, m)
  /\ OneRow(p, m, RowOf(m, StatusApplied)) /\ landed' = landed
Effects(p) ==
  Quiet \/ \E m \in todo[p] : Commits(p, m) \/ Starts(p, m) \/ Executes(p, m) \/ Completes(p, m)

LEMMA UnchangedRows == ASSUME ledger' = ledger PROVE \A s \in Scopes, q \in Seqs : SameRow(ledger[s][q], ledger'[s][q])
BY DEF SameRow

LEMMA SameRowTwice ==
  ASSUME NEW a, NEW b, NEW c, SameRow(a, b), SameRow(b, c) PROVE SameRow(a, c)
BY DEF SameRow

(* A row just written says what it was written with.                        *)
LEMMA WrittenRow ==
  ASSUME NEW m \in Migrations, NEW status \in {StatusApplied, StatusRunning}
  PROVE  /\ RowOf(m, status) \in Rows /\ Recorded(RowOf(m, status))
         /\ Identified(RowOf(m, status), m) /\ Identifies(RowOf(m, status), m)
         /\ Named(RowOf(m, status)) /\ DigestsFit(RowOf(m, status))
         /\ IsDirty(RowOf(m, status)) <=> status = StatusRunning
<1>1. RowOf(m, status) \in Rows
  BY RowOfType
<1>2. Recorded(RowOf(m, status))
  BY <1>1, NoRowAssumption DEF Recorded, NoRowAssumption
<1>3. m.name # NoName
  BY NullsAssumption DEF NullsAssumption, Names
<1>4. /\ RowOf(m, status).filename = m.name /\ RowOf(m, status).digest = ContentDigest(m)
      /\ RowOf(m, status).semantic = SemanticContentDigest(m) /\ RowOf(m, status).status = status
  BY DEF RowOf
<1>5. IsDirty(RowOf(m, status)) <=> status = StatusRunning
  BY <1>2, <1>4 DEF IsDirty, StatusRunning, StatusApplied
<1> QED BY <1>1, <1>2, <1>3, <1>4, <1>5 DEF Identified, Identifies, Named, DigestsFit, ContentDigest

(* A row is what its columns are.                                           *)
LEMMA RowOfFields ==
  ASSUME NEW a \in Rows, NEW b \in Rows, a.filename = b.filename, a.digest = b.digest,
         a.semantic = b.semantic, a.status = b.status
  PROVE  a = b
<1>1. /\ a = [filename |-> a.filename, digest |-> a.digest, semantic |-> a.semantic, status |-> a.status]
      /\ b = [filename |-> b.filename, digest |-> b.digest, semantic |-> b.semantic, status |-> b.status]
  BY DEF Rows
<1> QED BY <1>1

(* Two next files are one file: the claim is on the file at hand.           *)
LEMMA OwnClaim ==
  ASSUME TypeInv, NEW p \in Procs, AtWork(p), pc[p] \in OnNoTx, NEW m \in todo[p], IsNext(p, m)
  PROVE  Claim(p, m)
<1>1. PICK n \in todo[p] : Claim(p, n)
  BY DEF AtWork
<1>2. m = n
  BY <1>1, OneNext DEF Claim, OnNoTx
<1> QED BY <1>1, <1>2

(* A stamp changes nothing to speak of.                                     *)
LEMMA StampIsQuiet ==
  ASSUME TypeInv, NEW p \in Procs, lock = p => AtWork(p), NEW m \in todo[p], StampRow(p, m)
  PROVE  Quiet
<1>0. /\ m \in Migrations /\ m.seq \in Seqs /\ Scope(p) \in Scopes
      /\ Recorded(Row(p, m)) => Row(p, m) \in Rows
  BY OwnRow DEF StampRow
<1>1. CASE UNCHANGED <<ledger, landed, namespace>>
  BY <1>1, UnchangedRows DEF Quiet
<1>2. ASSUME NEW new \in Rows,
             Touches(p, m.seq, new, landed[Scope(p)][m.seq]),
             Recorded(Row(p, m)), Recorded(new),
             new.filename = Row(p, m).filename, new.digest = Row(p, m).digest,
             new.status = Row(p, m).status,
             new.semantic = Row(p, m).semantic \/ Row(p, m).semantic = NoDigest,
             UNCHANGED <<landed, namespace>>
      PROVE  Quiet
  <2>1. SameRow(Row(p, m), new)
    BY <1>2 DEF SameRow, IsDirty
  <2>2. ASSUME NEW s \in Scopes, NEW q \in Seqs PROVE SameRow(ledger[s][q], ledger'[s][q])
    <3>1. ledger'[s][q] = IF s = Scope(p) /\ q = m.seq THEN new ELSE ledger[s][q]
      BY <1>2 DEF Touches
    <3>2. SameRow(ledger[s][q], ledger[s][q])
      BY DEF SameRow
    <3> QED BY <2>1, <3>1, <3>2 DEF Row
  <2> QED BY <1>2, <2>2 DEF Quiet
<1> QED BY <1>1, <1>2, StampEffect

(* A commit adds a row and its pieces.                                      *)
LEMMA CommitIs ==
  ASSUME TypeInv, NEW p \in Procs, lock = p => AtWork(p), NEW m \in todo[p], CommitMigration(p, m)
  PROVE  Commits(p, m)
<1>0. /\ m \in Migrations /\ m.seq \in Seqs /\ Scope(p) \in Scopes
      /\ Recorded(Row(p, m)) => Row(p, m) \in Rows
  BY OwnRow DEF CommitMigration
<1>1. ~Recorded(Row(p, m)) /\ lock = p /\ pc[p] = "apply" /\ IsNext(p, m)
  BY DEF CommitMigration, AtWork
<1>2. OneRow(p, m, RowOf(m, StatusApplied)) /\ OneLanding(p, m, Units(m))
  BY <1>0, <1>1, SetRowAt, LandAt DEF CommitMigration, OneRow, OneLanding, TypeInv
<1> QED BY <1>1, <1>2 DEF Commits

(* A claim adds a dirty row.                                                *)
LEMMA ClaimIs ==
  ASSUME TypeInv, NEW p \in Procs, lock = p => AtWork(p), NEW m \in todo[p], ClaimRow(p, m)
  PROVE  Starts(p, m)
<1>0. /\ m \in Migrations /\ m.seq \in Seqs /\ Scope(p) \in Scopes
      /\ Recorded(Row(p, m)) => Row(p, m) \in Rows
  BY OwnRow DEF ClaimRow
<1>1. ~Recorded(Row(p, m)) /\ lock = p /\ pc[p] = "apply" /\ IsNext(p, m)
  BY DEF ClaimRow, AtWork
<1>2. OneRow(p, m, RowOf(m, StatusRunning)) /\ landed' = landed
  BY <1>0, <1>1, SetRowAt DEF ClaimRow, OneRow, TypeInv
<1> QED BY <1>1, <1>2 DEF Starts

(* A statement adds its piece, under its file's claim.                      *)
LEMMA RunIs ==
  ASSUME TypeInv, NEW p \in Procs, lock = p => AtWork(p), NEW m \in todo[p], RunStatement(p, m)
  PROVE  Executes(p, m)
<1>0. /\ m \in Migrations /\ m.seq \in Seqs /\ Scope(p) \in Scopes
      /\ Recorded(Row(p, m)) => Row(p, m) \in Rows
  BY OwnRow DEF RunStatement
<1>1. Claim(p, m) /\ lock = p /\ pc[p] = "exec"
  BY OwnClaim DEF RunStatement, OnNoTx
<1>2. ledger' = ledger /\ OneLanding(p, m, <<<<m, stmt[p]>>>>)
  BY <1>0, LandAt DEF RunStatement, OneLanding, TypeInv
<1> QED BY <1>1, <1>2 DEF Executes

(* A row marked failed was dirty and stays so.                              *)
LEMMA FailureIsQuiet ==
  ASSUME TypeInv, NEW p \in Procs, lock = p => AtWork(p), NEW m \in todo[p], RecordFailure(p, m)
  PROVE  Quiet
<1>0. /\ m \in Migrations /\ m.seq \in Seqs /\ Scope(p) \in Scopes
      /\ Recorded(Row(p, m)) => Row(p, m) \in Rows
  BY OwnRow DEF RecordFailure
<1> DEFINE new == [Row(p, m) EXCEPT !.status = StatusFailed]
<1>1. landed' = landed /\ Claim(p, m)
  BY OwnClaim DEF RecordFailure, OnNoTx
<1>2. CASE ledger' = ledger
  BY <1>1, <1>2, UnchangedRows DEF Quiet
<1>3. CASE Recorded(Row(p, m)) /\ SetRow(p, m, new)
  <2>1. /\ new \in Rows /\ new.filename = Row(p, m).filename /\ new.digest = Row(p, m).digest
        /\ new.semantic = Row(p, m).semantic /\ new.status = StatusFailed
    BY <1>0, <1>3 DEF Rows
  <2>2. Recorded(new) /\ IsDirty(new)
    BY <2>1, NoRowAssumption DEF Recorded, IsDirty, NoRowAssumption, StatusFailed, StatusApplied
  <2>3. OneRow(p, m, new)
    BY <1>0, <1>3, SetRowAt DEF OneRow, TypeInv
  <2> HIDE DEF new
  <2>4. SameRow(Row(p, m), new)
    BY <1>1, <1>3, <2>1, <2>2 DEF SameRow, Claim
  <2>5. ASSUME NEW s \in Scopes, NEW q \in Seqs PROVE SameRow(ledger[s][q], ledger'[s][q])
    <3>1. SameRow(ledger[s][q], ledger[s][q])
      BY DEF SameRow
    <3> QED BY <2>3, <2>4, <3>1 DEF Row, OneRow
  <2> QED BY <1>1, <2>5 DEF Quiet
<1> QED BY <1>2, <1>3 DEF RecordFailure

(* The end of a file settles the row it claimed.                            *)
LEMMA SuccessIs ==
  ASSUME TypeInv, NEW p \in Procs, lock = p => AtWork(p), NEW m \in todo[p], RecordSuccess(p, m)
  PROVE  Completes(p, m)
<1>0. /\ m \in Migrations /\ m.seq \in Seqs /\ Scope(p) \in Scopes
      /\ Recorded(Row(p, m)) => Row(p, m) \in Rows
  BY OwnRow DEF RecordSuccess
<1>1. /\ landed' = landed /\ lock = p /\ pc[p] = "finish" /\ Claim(p, m)
      /\ Recorded(Row(p, m)) /\ Row(p, m).filename = m.name
  BY OwnClaim DEF RecordSuccess, OnNoTx, Claim, Identified
<1> DEFINE new == [Row(p, m) EXCEPT !.status = StatusApplied, !.digest = ContentDigest(m),
                                    !.semantic = SemanticContentDigest(m)]
<1>2. new = RowOf(m, StatusApplied)
  <2>1. /\ new \in Rows /\ new.filename = m.name /\ new.digest = ContentDigest(m)
        /\ new.semantic = SemanticContentDigest(m) /\ new.status = StatusApplied
    BY <1>0, <1>1 DEF Rows, Digests, Tokens, ContentDigest, SemanticContentDigest
  <2>2. /\ RowOf(m, StatusApplied) \in Rows /\ RowOf(m, StatusApplied).filename = m.name
        /\ RowOf(m, StatusApplied).digest = ContentDigest(m)
        /\ RowOf(m, StatusApplied).semantic = SemanticContentDigest(m)
        /\ RowOf(m, StatusApplied).status = StatusApplied
    BY <1>0, RowOfType DEF RowOf
  <2> HIDE DEF new
  <2> QED BY <2>1, <2>2, RowOfFields
<1>3. OneRow(p, m, RowOf(m, StatusApplied))
  BY <1>0, <1>1, <1>2, SetRowAt DEF RecordSuccess, OneRow, TypeInv
<1> QED BY <1>1, <1>3 DEF Completes

LEMMA WriteCases ==
  ASSUME TypeInv, NEW p \in Procs, lock = p => AtWork(p), MigrateStep(p)
  PROVE  Effects(p)
<1>1. CASE UNCHANGED dbVars
  BY <1>1, UnchangedRows DEF dbVars, Effects, Quiet
<1>2. CASE CreateTracker(p) \/ CreateSchema(p)
  BY <1>2, UnchangedRows DEF CreateTracker, CreateSchema, Effects, Quiet
<1> QED BY <1>1, <1>2, StepWrites, StampIsQuiet, CommitIs, ClaimIs, RunIs, FailureIsQuiet, SuccessIs
        DEF MigrateStep, Writes, Effects

-----------------------------------------------------------------------------
(* Migrate keeps the rows                                                    *)

(* What a row records is never changed by the apply path.                   *)
SameIdentity(old, new) ==
  Recorded(old) => Recorded(new) /\ new.filename = old.filename /\ new.digest = old.digest

LEMMA RowsStay ==
  ASSUME TypeInv, RowsOK, NEW p \in Procs, lock = p => AtWork(p), MigrateStep(p),
         NEW s \in Scopes, NEW q \in Seqs
  PROVE  SameIdentity(ledger[s][q], ledger'[s][q]) /\ Named(ledger'[s][q]) /\ DigestsFit(ledger'[s][q])
<1>1. DigestsFit(ledger'[s][q])
  BY StepEffect DEF RowStep, RowsOK
<1>2. Named(ledger[s][q])
  BY DEF RowsOK
<1>3. ASSUME SameRow(ledger[s][q], ledger'[s][q])
      PROVE  SameIdentity(ledger[s][q], ledger'[s][q]) /\ Named(ledger'[s][q])
  BY <1>2, <1>3 DEF SameRow, SameIdentity, Named
<1>4. CASE Quiet
  BY <1>1, <1>3, <1>4 DEF Quiet
<1>5. ASSUME NEW m \in todo[p], NEW status \in {StatusApplied, StatusRunning}, pc[p] # "idle",
             OneRow(p, m, RowOf(m, status)), ~Recorded(Row(p, m)) \/ Identified(Row(p, m), m)
      PROVE  SameIdentity(ledger[s][q], ledger'[s][q]) /\ Named(ledger'[s][q])
  <2>1. m \in Migrations
    BY <1>5, OwnRow
  <2>2. Recorded(RowOf(m, status)) /\ Identified(RowOf(m, status), m) /\ Named(RowOf(m, status))
    BY <2>1, WrittenRow
  <2>3. CASE s = Scope(p) /\ q = m.seq
    <3>1. ledger'[s][q] = RowOf(m, status) /\ ledger[s][q] = Row(p, m)
      BY <1>5, <2>3 DEF OneRow, Row
    <3> QED BY <1>5, <2>2, <3>1 DEF SameIdentity, Identified
  <2>4. CASE ~(s = Scope(p) /\ q = m.seq)
    <3>1. ledger'[s][q] = ledger[s][q]
      BY <1>5, <2>4 DEF OneRow
    <3> QED BY <1>2, <3>1 DEF SameIdentity
  <2> QED BY <2>3, <2>4
<1>6. ASSUME NEW m \in todo[p], Commits(p, m) \/ Starts(p, m) \/ Completes(p, m)
      PROVE  SameIdentity(ledger[s][q], ledger'[s][q]) /\ Named(ledger'[s][q])
  BY <1>5, <1>6 DEF Commits, Starts, Completes, Claim
<1>7. ASSUME ledger' = ledger
      PROVE  SameIdentity(ledger[s][q], ledger'[s][q]) /\ Named(ledger'[s][q])
  BY <1>2, <1>7 DEF SameIdentity
<1> QED BY <1>1, <1>4, <1>6, <1>7, WriteCases DEF Effects, Executes

-----------------------------------------------------------------------------
(* Migrate and the schema                                                    *)

Shows(s, o) == \E q \in Seqs : \E i \in DOMAIN landed[s][q] :
                 o \in Shape[landed[s][q][i][1]][landed[s][q][i][2]]

LEMMA LaidDownIs ==
  ASSUME NEW s \in Scopes, NEW o
  PROVE  /\ o \in LaidDown(landed[s]) <=> Shows(s, o)
         /\ o \in LaidDown(landed'[s]) <=> Shows(s, o)'
BY DEF LaidDown, Shows

(* The pieces of a file are its statements, and each has a shape.           *)
LEMMA ShapeOf ==
  ASSUME NEW m \in Migrations
  PROVE  /\ Shape[m] \in Seq(SUBSET Objects) /\ DOMAIN Shape[m] = 1..m.stmts
         /\ \A k \in 1..m.stmts : Shape[m][k] \subseteq Objects
         /\ m.stmts \in Nat \ {0}
<1>1. Shape[m] \in Seq(SUBSET Objects) /\ Len(Shape[m]) = m.stmts
  BY ConversionAssumption DEF ConversionAssumption
<1> QED BY <1>1, UnitsType

LEMMA EffectIs ==
  ASSUME NEW m \in Migrations, NEW o
  PROVE  o \in Effect(m) <=> \E k \in 1..m.stmts : o \in Shape[m][k]
BY ShapeOf DEF Effect

(* DDL makes what its pieces make, and what has landed shows already.       *)
Grows == schema' = [s \in Scopes |-> schema[s] \cup LaidDown(landed'[s])]

LEMMA SchemaOfQuiet ==
  ASSUME TypeInv, ReconTypes, Visible, Grows, landed' = landed
  PROVE  schema' = schema
<1>1. ASSUME NEW s \in Scopes, NEW o, Shows(s, o) PROVE o \in schema[s]
  BY <1>1 DEF Shows, Visible, Stands
<1>2. ASSUME NEW s \in Scopes PROVE schema'[s] = schema[s]
  <2>1. \A o : o \in LaidDown(landed'[s]) => o \in schema[s]
    BY <1>1, LaidDownIs
  <2> QED BY <2>1 DEF Grows
<1> QED BY <1>2 DEF Grows, ReconTypes

Fits(pieces) == \A i \in DOMAIN pieces : pieces[i][1] \in Migrations /\ pieces[i][2] \in 1..pieces[i][1].stmts

LEMMA LandedPieces ==
  ASSUME TypeInv, NEW p \in Procs, pc[p] # "idle", NEW m \in todo[p],
         NEW pieces \in Seq(Pieces), OneLanding(p, m, pieces), NEW s \in Scopes, NEW q \in Seqs
  PROVE  /\ landed'[s][q] \in Seq(Pieces)
         /\ \A i \in DOMAIN landed'[s][q] :
              \/ i \in DOMAIN landed[s][q] /\ landed'[s][q][i] = landed[s][q][i]
              \/ /\ s = Scope(p) /\ q = m.seq
                 /\ \E j \in DOMAIN pieces : landed'[s][q][i] = pieces[j]
         /\ \A i \in DOMAIN landed[s][q] :
              i \in DOMAIN landed'[s][q] /\ landed'[s][q][i] = landed[s][q][i]
         /\ s = Scope(p) /\ q = m.seq =>
              \A j \in DOMAIN pieces : \E i \in DOMAIN landed'[s][q] : landed'[s][q][i] = pieces[j]
<1>0. PICK old : old = landed[s][q]
  OBVIOUS
<1>1. old \in Seq(Pieces)
  BY <1>0 DEF TypeInv, TypeOK
<1>2. CASE s = Scope(p) /\ q = m.seq
  <2>1. landed'[s][q] = old \o pieces
    BY <1>0, <1>2 DEF OneLanding
  <2>2. /\ old \o pieces \in Seq(Pieces)
        /\ \A i \in DOMAIN (old \o pieces) :
             \/ i \in DOMAIN old /\ (old \o pieces)[i] = old[i]
             \/ \E j \in DOMAIN pieces : (old \o pieces)[i] = pieces[j]
    <3>1. ASSUME NEW i \in DOMAIN (old \o pieces), i \notin DOMAIN old
          PROVE  i - Len(old) \in DOMAIN pieces /\ (old \o pieces)[i] = pieces[i - Len(old)]
      BY <1>1, <3>1
    <3> QED BY <1>1, <3>1
  <2>3. \A i \in DOMAIN old : i \in DOMAIN (old \o pieces) /\ (old \o pieces)[i] = old[i]
    BY <1>1
  <2>4. \A j \in DOMAIN pieces : \E i \in DOMAIN (old \o pieces) : (old \o pieces)[i] = pieces[j]
    <3>1. ASSUME NEW j \in DOMAIN pieces
          PROVE  Len(old) + j \in DOMAIN (old \o pieces) /\ (old \o pieces)[Len(old) + j] = pieces[j]
      BY <1>1, <3>1
    <3> QED BY <3>1
  <2>5. /\ landed'[s][q] \in Seq(Pieces)
        /\ \A i \in DOMAIN landed'[s][q] :
             \/ i \in DOMAIN old /\ landed'[s][q][i] = old[i]
             \/ \E j \in DOMAIN pieces : landed'[s][q][i] = pieces[j]
    BY <2>1, <2>2
  <2>6. \A i \in DOMAIN old : i \in DOMAIN landed'[s][q] /\ landed'[s][q][i] = old[i]
    BY <2>1, <2>3
  <2>7. \A j \in DOMAIN pieces : \E i \in DOMAIN landed'[s][q] : landed'[s][q][i] = pieces[j]
    BY <2>1, <2>4
  <2> QED BY <1>0, <1>2, <2>5, <2>6, <2>7
<1>3. CASE ~(s = Scope(p) /\ q = m.seq)
  <2>1. landed'[s][q] = old
    BY <1>0, <1>3 DEF OneLanding
  <2> QED BY <1>0, <1>1, <1>3, <2>1
<1> QED BY <1>2, <1>3

LEMMA SchemaOfLanding ==
  ASSUME TypeInv, ReconTypes, Visible, Grows, NEW p \in Procs, pc[p] # "idle", NEW m \in todo[p],
         NEW pieces \in Seq(Pieces), OneLanding(p, m, pieces), Fits(pieces)
  PROVE  /\ schema' \in [Scopes -> SUBSET Objects]
         /\ Visible'
         /\ \A s \in Scopes : \A o : o \in schema'[s] <=>
              \/ o \in schema[s]
              \/ s = Scope(p) /\ \E j \in DOMAIN pieces : o \in Shape[pieces[j][1]][pieces[j][2]]
<1>0. m.seq \in Seqs /\ Scope(p) \in Scopes
  BY OwnRow
<1>1. \A s \in Scopes : \A o : o \in schema'[s] <=> o \in schema[s] \/ Shows(s, o)'
  BY LaidDownIs DEF Grows
<1>2. ASSUME NEW s \in Scopes, NEW o, Shows(s, o)'
      PROVE  \/ o \in schema[s]
             \/ s = Scope(p) /\ \E j \in DOMAIN pieces : o \in Shape[pieces[j][1]][pieces[j][2]]
  <2>0. PICK q \in Seqs : \E i \in DOMAIN landed'[s][q] : o \in Shape[landed'[s][q][i][1]][landed'[s][q][i][2]]
    BY <1>2 DEF Shows
  <2>1. PICK i \in DOMAIN landed'[s][q] : o \in Shape[landed'[s][q][i][1]][landed'[s][q][i][2]]
    BY <2>0
  <2>2. \/ i \in DOMAIN landed[s][q] /\ landed'[s][q][i] = landed[s][q][i]
        \/ s = Scope(p) /\ \E j \in DOMAIN pieces : landed'[s][q][i] = pieces[j]
    BY <2>1, LandedPieces
  <2>3. CASE i \in DOMAIN landed[s][q] /\ landed'[s][q][i] = landed[s][q][i]
    BY <2>1, <2>3 DEF Visible, Stands
  <2> QED BY <2>1, <2>2, <2>3
<1>4. \A s \in Scopes : \A o : o \in schema'[s] <=>
        \/ o \in schema[s]
        \/ s = Scope(p) /\ \E j \in DOMAIN pieces : o \in Shape[pieces[j][1]][pieces[j][2]]
  <2>1. ASSUME NEW j \in DOMAIN pieces, NEW o, o \in Shape[pieces[j][1]][pieces[j][2]]
        PROVE  o \in schema'[Scope(p)]
    BY <1>0, <2>1, LandedPieces DEF Grows, LaidDown
  <2> QED BY <1>1, <1>2, <2>1
<1>5. ASSUME NEW j \in DOMAIN pieces PROVE Shape[pieces[j][1]][pieces[j][2]] \subseteq Objects
  BY ShapeOf DEF Fits
<1>6. schema' \in [Scopes -> SUBSET Objects]
  <2>1. ASSUME NEW s \in Scopes PROVE schema'[s] \subseteq Objects
    BY <1>4, <1>5 DEF ReconTypes
  <2> QED BY <2>1 DEF Grows
<1>7. ASSUME NEW s \in Scopes, NEW q \in Seqs, NEW i \in DOMAIN landed'[s][q]
      PROVE  Stands(schema'[s], landed'[s][q][i])
  <2>1. \/ i \in DOMAIN landed[s][q] /\ landed'[s][q][i] = landed[s][q][i]
        \/ s = Scope(p) /\ \E j \in DOMAIN pieces : landed'[s][q][i] = pieces[j]
    BY LandedPieces
  <2>2. CASE i \in DOMAIN landed[s][q] /\ landed'[s][q][i] = landed[s][q][i]
    <3>1. Stands(schema[s], landed[s][q][i])
      BY <2>2 DEF Visible
    <3> QED BY <1>4, <2>2, <3>1 DEF Stands
  <2>3. ASSUME s = Scope(p), NEW j \in DOMAIN pieces, landed'[s][q][i] = pieces[j]
        PROVE  Stands(schema'[s], landed'[s][q][i])
    <3>1. \A o : o \in Shape[pieces[j][1]][pieces[j][2]] => o \in schema'[s]
      BY <1>4, <2>3
    <3> QED BY <2>3, <3>1 DEF Stands, Fits
  <2> QED BY <2>1, <2>2, <2>3
<1> QED BY <1>4, <1>6, <1>7 DEF Visible

LEMMA UnitsFit ==
  ASSUME NEW m \in Migrations
  PROVE  /\ Units(m) \in Seq(Pieces) /\ Fits(Units(m))
         /\ \A o : (\E j \in DOMAIN Units(m) : o \in Shape[Units(m)[j][1]][Units(m)[j][2]]) <=> o \in Effect(m)
<1>1. /\ Units(m) \in Seq(Pieces) /\ DOMAIN Units(m) = 1..m.stmts
      /\ \A j \in 1..m.stmts : Units(m)[j] = <<m, j>>
  BY UnitsType DEF Units
<1>2. \A j \in 1..m.stmts : Units(m)[j][1] = m /\ Units(m)[j][2] = j
  BY <1>1
<1> QED BY <1>1, <1>2, EffectIs DEF Fits

LEMMA OnePieceFits ==
  ASSUME NEW m \in Migrations, NEW k \in 1..m.stmts
  PROVE  /\ <<<<m, k>>>> \in Seq(Pieces) /\ Fits(<<<<m, k>>>>)
         /\ \A o : (\E j \in DOMAIN <<<<m, k>>>> : o \in Shape[<<<<m, k>>>>[j][1]][<<<<m, k>>>>[j][2]])
                     <=> o \in Shape[m][k]
<1>1. k \in Nat /\ <<m, k>> \in Pieces
  BY UnitsType DEF Pieces
<1>2. /\ <<<<m, k>>>> \in Seq(Pieces) /\ DOMAIN <<<<m, k>>>> = {1} /\ <<<<m, k>>>>[1] = <<m, k>>
      /\ <<m, k>>[1] = m /\ <<m, k>>[2] = k
  BY <1>1
<1> QED BY <1>2 DEF Fits

(* What each effect of the apply path adds to the schema.                   *)
LEMMA SchemaOfEffect ==
  ASSUME TypeInv, ReconTypes, Visible, Grows, NEW p \in Procs, lock = p => AtWork(p)
  PROVE  /\ Quiet => schema' = schema /\ Visible'
         /\ \A m \in todo[p] :
              /\ Starts(p, m) \/ Completes(p, m) => schema' = schema /\ Visible'
              /\ Commits(p, m) =>
                   /\ schema' \in [Scopes -> SUBSET Objects] /\ Visible'
                   /\ \A s \in Scopes : \A o : o \in schema'[s] <=> o \in schema[s] \/ (s = Scope(p) /\ o \in Effect(m))
              /\ Executes(p, m) =>
                   /\ schema' \in [Scopes -> SUBSET Objects] /\ Visible'
                   /\ stmt[p] \in 1..m.stmts
                   /\ \A s \in Scopes : \A o : o \in schema'[s] <=>
                        o \in schema[s] \/ (s = Scope(p) /\ o \in Shape[m][stmt[p]])
<1>1. ASSUME landed' = landed PROVE schema' = schema /\ Visible'
  BY <1>1, SchemaOfQuiet DEF Visible
<1>2. ASSUME NEW m \in todo[p], Commits(p, m)
      PROVE  /\ schema' \in [Scopes -> SUBSET Objects] /\ Visible'
             /\ \A s \in Scopes : \A o : o \in schema'[s] <=> o \in schema[s] \/ (s = Scope(p) /\ o \in Effect(m))
  <2>1. m \in Migrations /\ pc[p] # "idle" /\ OneLanding(p, m, Units(m))
    BY <1>2, OwnRow DEF Commits
  <2> QED BY <2>1, UnitsFit, SchemaOfLanding
<1>3. ASSUME NEW m \in todo[p], Executes(p, m)
      PROVE  /\ schema' \in [Scopes -> SUBSET Objects] /\ Visible'
             /\ stmt[p] \in 1..m.stmts
             /\ \A s \in Scopes : \A o : o \in schema'[s] <=>
                  o \in schema[s] \/ (s = Scope(p) /\ o \in Shape[m][stmt[p]])
  <2>1. /\ m \in Migrations /\ pc[p] # "idle" /\ OneLanding(p, m, <<<<m, stmt[p]>>>>)
        /\ stmt[p] \in 1..m.stmts
    BY <1>3, OwnRow DEF Executes, Claim
  <2> QED BY <2>1, OnePieceFits, SchemaOfLanding
<1> QED BY <1>1, <1>2, <1>3 DEF Quiet, Starts, Completes

LEMMA MigrateIs ==
  ASSUME NEW p \in Procs, Migrate(p)
  PROVE  /\ MigrateStep(p) /\ Grows /\ stray' = stray /\ ~Reconciling(p)
         /\ recon' = IF pc[p] = "check" THEN [recon EXCEPT ![p] = AtStart] ELSE recon
BY DEF Migrate, MigrateStep, Grows

LEMMA StartType == AtStart \in Recons
BY DEF AtStart, Recons, NoRows, Records

LEMMA MigrateSchema ==
  ASSUME TypeInv, ReconTypes, Visible, NEW p \in Procs, lock = p => AtWork(p), Migrate(p)
  PROVE  ReconTypes' /\ Visible'
<1>1. schema' \in [Scopes -> SUBSET Objects] /\ Visible'
  <2>1. CASE Quiet
    BY <2>1, SchemaOfEffect, MigrateIs DEF ReconTypes
  <2>2. ASSUME NEW m \in todo[p], Commits(p, m) \/ Starts(p, m) \/ Executes(p, m) \/ Completes(p, m)
        PROVE  schema' \in [Scopes -> SUBSET Objects] /\ Visible'
    BY <2>2, SchemaOfEffect, MigrateIs DEF ReconTypes
  <2> QED BY <2>1, <2>2, WriteCases, MigrateIs DEF Effects
<1>2. recon' \in [Procs -> Recons] /\ stray' = stray
  BY StartType, MigrateIs DEF ReconTypes
<1> QED BY <1>1, <1>2 DEF ReconTypes

-----------------------------------------------------------------------------
(* Migrate and what the holder of the lock knows                             *)

LEMMA WorkAfterCheck ==
  ASSUME TypeInv, NEW p \in Procs, CheckLocked(p)
  PROVE  AtWork(p)'
<1>1. pc[p] = "recheck" /\ p \in DOMAIN pc /\ p \in DOMAIN todo /\ ledger' = ledger
  BY DEF CheckLocked, TypeInv, TypeOK, dbVars
<1>2. CASE pc'[p] = "unlock"
  BY <1>2 DEF AtWork, OnNoTx
<1>3. CASE /\ ~Blocked(p)
           /\ todo' = [todo EXCEPT ![p] = ToApply(p)]
           /\ Goto(p, "createSchema")
           /\ UNCHANGED <<call, stmt, outcome>>
  <2>1. pc'[p] = "createSchema" /\ todo'[p] = ToApply(p) /\ call' = call
    BY <1>1, <1>3 DEF Goto
  <2>2. \A q \in Seqs : ~IsDirty(ledger[Scope(p)][q])
    BY <1>1, <1>3, CleanCheck
  <2>3. \A m \in ToApply(p) : ~Recorded(Row(p, m))
    BY DEF ToApply, Pending, Row
  <2> QED BY <1>1, <2>1, <2>2, <2>3 DEF AtWork, OnNoTx, Row, Scope
<1> QED BY <1>1, <1>2, <1>3 DEF CheckLocked, Unwind, Goto

(* A file is done: the others of todo still have no row.                    *)
LEMMA WorkAfterFile ==
  ASSUME TypeInv, NEW p \in Procs, AtWork(p), NEW m \in todo[p], pc[p] # "idle",
         OneRow(p, m, RowOf(m, StatusApplied)), Advance(p, m),
         \A q \in Seqs \ {m.seq} : ~IsDirty(ledger[Scope(p)][q]),
         \A n \in todo[p] \ {m} : ~Recorded(Row(p, n))
  PROVE  AtWork(p)'
<1>0. p \in DOMAIN pc /\ p \in DOMAIN todo
  BY DEF TypeInv, TypeOK
<1>1. CASE todo[p] = {m}
  <2>1. pc'[p] = "unlock"
    BY <1>0, <1>1 DEF Advance, Unwind, Goto
  <2> QED BY <2>1 DEF AtWork, OnNoTx
<1>2. CASE todo[p] # {m}
  <2>1. pc'[p] = "apply" /\ todo'[p] = todo[p] \ {m} /\ Scope(p)' = Scope(p)
    BY <1>0, <1>2 DEF Advance, Goto, Scope
  <2>2. /\ m \in Migrations /\ m.seq \in Seqs /\ Scope(p) \in Scopes
        /\ \A n \in todo[p] : n.seq \in Seqs
        /\ \A n \in todo[p] : n.seq = m.seq => n = m
    BY TreeKeys
  <2>3. ~IsDirty(RowOf(m, StatusApplied))
    BY <2>2, WrittenRow DEF StatusApplied, StatusRunning
  <2>4. \A q \in Seqs : ~IsDirty(ledger'[Scope(p)][q])
    <3>1. \A q \in Seqs : ledger'[Scope(p)][q] = IF q = m.seq THEN RowOf(m, StatusApplied) ELSE ledger[Scope(p)][q]
      BY <2>2 DEF OneRow
    <3> QED BY <2>3, <3>1
  <2>5. \A n \in todo[p] \ {m} : ~Recorded(ledger'[Scope(p)][n.seq])
    <3>1. \A n \in todo[p] \ {m} : ledger'[Scope(p)][n.seq] = Row(p, n)
      BY <2>2 DEF OneRow, Row
    <3> QED BY <3>1
  <2> QED BY <2>1, <2>4, <2>5 DEF AtWork, OnNoTx, Row, Scope
<1> QED BY <1>1, <1>2

LEMMA WorkAfterClaim ==
  ASSUME TypeInv, NEW p \in Procs, lock = p => AtWork(p), ClaimNoTx(p)
  PROVE  AtWork(p)'
<1>1. PICK m \in todo[p] : ClaimRow(p, m)
  BY DEF ClaimNoTx
<1>2. pc[p] = "apply" /\ lock = p /\ pc'[p] = "exec" /\ stmt'[p] = 1 /\ todo' = todo /\ Scope(p)' = Scope(p)
  BY <1>1 DEF ClaimNoTx, ClaimRow, Goto, Scope, TypeInv, TypeOK
<1>3. Starts(p, m)
  BY <1>1, ClaimIs
<1>4. /\ m \in Migrations /\ m.seq \in Seqs /\ Scope(p) \in Scopes
      /\ \A n \in todo[p] : n.seq \in Seqs
      /\ \A n \in todo[p] : n.seq = m.seq => n = m
  BY <1>2, TreeKeys
<1>5. \A q \in Seqs : ledger'[Scope(p)][q] = IF q = m.seq THEN RowOf(m, StatusRunning) ELSE ledger[Scope(p)][q]
  BY <1>3, <1>4 DEF Starts, OneRow
<1>6. /\ Identified(RowOf(m, StatusRunning), m) /\ IsDirty(RowOf(m, StatusRunning))
  BY <1>4, WrittenRow
<1>7. Row(p, m)' = RowOf(m, StatusRunning)
  BY <1>2, <1>4, <1>5 DEF Row
<1>8. (IsNext(p, m) /\ Identified(Row(p, m), m) /\ IsDirty(Row(p, m)))'
  BY <1>2, <1>3, <1>6, <1>7 DEF Starts, IsNext, Identified, IsDirty, Recorded
<1>9. \A q \in Seqs \ {m.seq} : ~IsDirty(ledger'[Scope(p)][q])
  BY <1>2, <1>5 DEF AtWork
<1>10. \A n \in todo[p] \ {m} : ~Recorded(ledger'[Scope(p)][n.seq])
  BY <1>2, <1>4, <1>5 DEF AtWork, Row
<1>11. stmt'[p] \in 1..m.stmts
  BY <1>2, <1>4, UnitsType
<1>12. Claim(p, m)'
  BY <1>2, <1>8, <1>9, <1>10, <1>11 DEF Claim, Row
<1> QED BY <1>1, <1>2, <1>12 DEF AtWork, OnNoTx

LEMMA WorkAfterStatement ==
  ASSUME TypeInv, NEW p \in Procs, lock = p => AtWork(p), ExecNoTx(p)
  PROVE  AtWork(p)'
<1>1. PICK m \in todo[p] : /\ RunStatement(p, m)
                           /\ stmt' = [stmt EXCEPT ![p] = stmt[p] + 1]
                           /\ Goto(p, IF stmt[p] = m.stmts THEN "finish" ELSE "exec")
  BY DEF ExecNoTx
<1>2. Executes(p, m)
  BY <1>1, RunIs
<1>3. /\ pc[p] = "exec" /\ UNCHANGED <<ledger, call, todo>>
      /\ stmt[p] \in Nat /\ stmt'[p] = stmt[p] + 1
      /\ pc'[p] = IF stmt[p] = m.stmts THEN "finish" ELSE "exec"
  BY <1>1 DEF ExecNoTx, RunStatement, Goto, TypeInv, TypeOK
<1>4. Claim(p, m) /\ stmt[p] \in 1..m.stmts /\ m.stmts \in Nat
  BY <1>2, <1>3, OwnRow, UnitsType DEF Executes, Claim
<1>5. Claim(p, m)'
  BY <1>3, <1>4 DEF Claim, IsNext, Row, Scope
<1> QED BY <1>3, <1>5 DEF AtWork, OnNoTx

LEMMA WorkAfterFailure ==
  ASSUME TypeInv, NEW p \in Procs, lock = p, AtWork(p), StatementFails(p)
  PROVE  AtWork(p)'
<1>0. p \in DOMAIN pc
  BY DEF TypeInv, TypeOK
<1>1. CASE pc[p] = "exec" /\ Goto(p, "markFailed") /\ UNCHANGED <<call, todo, stmt, outcome>>
  <2>1. pc'[p] = "markFailed" /\ UNCHANGED <<ledger, call, todo, stmt>>
    BY <1>0, <1>1 DEF Goto, StatementFails, dbVars
  <2>2. PICK m \in todo[p] : Claim(p, m)
    BY <1>1 DEF AtWork, OnNoTx
  <2>3. Claim(p, m)'
    BY <2>1, <2>2 DEF Claim, IsNext, Row, Scope
  <2> QED BY <2>1, <2>2, <2>3 DEF AtWork, OnNoTx
<1>2. CASE pc'[p] \in {"unlock", "idle"}
  BY <1>2 DEF AtWork, OnNoTx
<1> QED BY <1>0, <1>1, <1>2 DEF StatementFails, ErrorPath, Unwind, Return, Goto

LEMMA OwnWorkKept ==
  ASSUME TypeInv, NEW p \in Procs, lock = p => AtWork(p), lock' = p, MigrateStep(p)
  PROVE  AtWork(p)'
<1>1. p # Nobody /\ p \in DOMAIN pc /\ p \in DOMAIN todo
  BY CallerAssumption DEF TypeInv, TypeOK, CallerAssumption
<1>2. CASE pc'[p] \notin {"createSchema", "apply"} \cup OnNoTx
  BY <1>2 DEF AtWork, OnNoTx
<1>3. CASE Begin(p) \/ Validate(p)
  BY <1>1, <1>2, <1>3 DEF Begin, Validate, Goto, OnNoTx
<1>4. CASE EnsureSetup(p) \/ AcquireLock(p) \/ ReadForStamps(p) \/ Stamp(p) \/ CheckUnlocked(p) \/ MarkFailed(p)
  BY <1>1, <1>2, <1>4 DEF EnsureSetup, AcquireLock, ReadForStamps, Stamp, CheckUnlocked, MarkFailed,
                          Unwind, Return, Goto, OnNoTx
<1>5. CASE CheckLocked(p)
  BY <1>5, WorkAfterCheck
<1>6. CASE EnsureSchema(p)
  <2>1. pc[p] = "createSchema" /\ pc'[p] = "apply" /\ lock = p /\ UNCHANGED <<ledger, call, todo>>
    BY <1>1, <1>6 DEF EnsureSchema, CreateSchema, Goto
  <2> QED BY <2>1 DEF AtWork, OnNoTx, Row, Scope
<1>7. CASE ApplyOne(p)
  <2>1. PICK m \in todo[p] : CommitMigration(p, m) /\ Advance(p, m)
    BY <1>7 DEF ApplyOne
  <2>2. pc[p] = "apply" /\ lock = p /\ OneRow(p, m, RowOf(m, StatusApplied))
    BY <2>1, CommitIs DEF Commits
  <2> QED BY <2>1, <2>2, WorkAfterFile DEF AtWork
<1>8. CASE FinishNoTx(p)
  <2>1. PICK m \in todo[p] : RecordSuccess(p, m) /\ Advance(p, m)
    BY <1>8 DEF FinishNoTx
  <2>2. pc[p] = "finish" /\ lock = p /\ OneRow(p, m, RowOf(m, StatusApplied)) /\ Claim(p, m)
    BY <2>1, SuccessIs DEF Completes
  <2> QED BY <2>1, <2>2, WorkAfterFile DEF Claim
<1>9. CASE ClaimNoTx(p) \/ ExecNoTx(p)
  BY <1>9, WorkAfterClaim, WorkAfterStatement
<1>10. CASE StatementFails(p)
  BY <1>10, WorkAfterFailure DEF StatementFails
<1>11. CASE Unlock(p) \/ ConnectionLost(p) \/ Crash(p)
  BY <1>1, <1>11 DEF Unlock, ConnectionLost, Crash, ReleaseHeld
<1> QED BY <1>3, <1>4, <1>5, <1>6, <1>7, <1>8, <1>9, <1>10, <1>11 DEF MigrateStep, Waits, Works, Faults

LEMMA LockMoves ==
  ASSUME NEW p \in Procs, MigrateStep(p) PROVE lock' \in {lock, p, Nobody}
<1>1. CASE Begin(p) \/ Validate(p) \/ Waits(p)
  BY <1>1 DEF Begin, Validate, Waits, EnsureSetup, AcquireLock
<1>2. CASE Works(p)
  BY <1>2 DEF Works, ReadForStamps, Stamp, CheckUnlocked, CheckLocked, EnsureSchema,
              ApplyOne, ClaimNoTx, ExecNoTx, FinishNoTx, MarkFailed, Unlock
<1>3. CASE Faults(p)
  BY <1>3 DEF Faults, StatementFails, ConnectionLost, Crash, ReleaseHeld
<1> QED BY <1>1, <1>2, <1>3 DEF MigrateStep

(* A call gets its tree when it begins and keeps it until it returns.       *)
LEMMA CallStays ==
  ASSUME TypeInv, NEW p \in Procs, MigrateStep(p), pc'[p] # "idle"
  PROVE  call'[p].tree \in Trees \/ (call'[p] = call[p] /\ pc[p] # "idle")
<1> USE DEF Goto, Return, Unwind
<1>0. p \in DOMAIN pc /\ p \in DOMAIN call
  BY DEF TypeInv, TypeOK
<1>1. CASE Begin(p)
  <2>1. PICK s \in Scopes, t \in Trees, e \in Exemptions :
          call' = [call EXCEPT ![p] = [verb |-> "apply", scope |-> s, tree |-> t, exempt |-> e]] \/ pc' = pc
    BY <1>1 DEF Begin
  <2> QED BY <1>0, <1>1, <2>1 DEF Begin
<1>2. CASE Validate(p)
  BY <1>2 DEF Validate
<1>3. CASE EnsureSetup(p) \/ AcquireLock(p) \/ ReadForStamps(p) \/ Stamp(p)
  BY <1>3 DEF EnsureSetup, CreateTracker, AcquireLock, ReadForStamps, Stamp, StampRow
<1>4. CASE CheckUnlocked(p) \/ CheckLocked(p) \/ EnsureSchema(p)
  BY <1>0, <1>4 DEF CheckUnlocked, CheckLocked, EnsureSchema, CreateSchema
<1>5. CASE ApplyOne(p) \/ FinishNoTx(p)
  BY <1>0, <1>5 DEF ApplyOne, CommitMigration, FinishNoTx, RecordSuccess, Advance
<1>6. CASE ClaimNoTx(p) \/ ExecNoTx(p) \/ MarkFailed(p) \/ Unlock(p)
  BY <1>0, <1>6 DEF ClaimNoTx, ClaimRow, ExecNoTx, RunStatement, MarkFailed, Unlock
<1>7. CASE Faults(p)
  BY <1>0, <1>7 DEF Faults, StatementFails, ConnectionLost, Crash, ErrorPath, Unlocked, Pinned
<1> QED BY <1>1, <1>2, <1>3, <1>4, <1>5, <1>6, <1>7 DEF MigrateStep, Waits, Works

(* What process r knows stays true while another holds still or stamps.     *)
LEMMA KnowledgeStays ==
  ASSUME TypeInv, NEW r \in Procs, ReconOf(r), lock = r => AtWork(r),
         lock' = r => lock = r /\ \A s \in Scopes, q \in Seqs : SameRow(ledger[s][q], ledger'[s][q]),
         pc'[r] = pc[r], call'[r] = call[r], todo'[r] = todo[r], stmt'[r] = stmt[r], recon'[r] = recon[r]
  PROVE  ReconOf(r)' /\ (lock' = r => AtWork(r)')
<1>1. Scope(r)' = Scope(r) /\ Scope(r) \in Scopes
  BY TreesAreChains DEF TypeInv, Scope
<1>2. /\ At(r, "convert")' <=> At(r, "convert")
      /\ At(r, "settle")' <=> At(r, "settle")
      /\ Own(r)' = Own(r)
  BY DEF At, Reconciling, Own
<1>3. ASSUME lock' = r, At(r, "convert") \/ At(r, "settle"), NEW q \in Seqs
      PROVE  SameRow(recon'[r].rows[q], ledger'[Scope(r)][q])
  BY <1>1, <1>3, SameRowTwice DEF ReconOf
<1>4. ReconOf(r)'
  BY <1>1, <1>2, <1>3 DEF ReconOf
<1>5. ASSUME lock' = r PROVE AtWork(r)'
  <2>1. /\ \A q \in Seqs : IsDirty(ledger'[Scope(r)][q]) <=> IsDirty(ledger[Scope(r)][q])
        /\ \A q \in Seqs : Recorded(ledger'[Scope(r)][q]) <=> Recorded(ledger[Scope(r)][q])
    BY <1>1, <1>5 DEF SameRow
  <2>2. ASSUME NEW m \in todo[r], pc[r] # "idle"
        PROVE  /\ m.seq \in Seqs
               /\ Recorded(ledger'[Scope(r)][m.seq]) <=> Recorded(Row(r, m))
               /\ IsDirty(ledger'[Scope(r)][m.seq]) <=> IsDirty(Row(r, m))
               /\ Identified(Row(r, m), m) => Identified(ledger'[Scope(r)][m.seq], m)
    <3>1. m.seq \in Seqs
      BY <2>2, OwnRow
    <3>2. SameRow(Row(r, m), ledger'[Scope(r)][m.seq])
      BY <1>1, <1>5, <3>1 DEF Row
    <3> QED BY <3>1, <3>2 DEF SameRow, Identified
  <2>3. CASE pc[r] \in {"createSchema", "apply"}
    <3>1. \A m \in todo[r] : ~Recorded(ledger'[Scope(r)][m.seq])
      BY <1>5, <2>2, <2>3 DEF AtWork
    <3>2. \A q \in Seqs : ~IsDirty(ledger'[Scope(r)][q])
      BY <1>5, <2>1, <2>3 DEF AtWork
    <3> QED BY <1>1, <2>3, <3>1, <3>2 DEF AtWork, OnNoTx, Row
  <2>4. CASE pc[r] \in OnNoTx
    <3>1. PICK m \in todo[r] : Claim(r, m)
      BY <1>5, <2>4 DEF AtWork
    <3>2. pc[r] # "idle"
      BY <2>4 DEF OnNoTx
    <3>3. /\ Identified(ledger'[Scope(r)][m.seq], m) /\ IsDirty(ledger'[Scope(r)][m.seq])
          /\ \A q \in Seqs \ {m.seq} : ~IsDirty(ledger'[Scope(r)][q])
          /\ \A n \in todo[r] \ {m} : ~Recorded(ledger'[Scope(r)][n.seq])
      BY <2>1, <2>2, <3>1, <3>2 DEF Claim
    <3>4. IsNext(r, m)'
      BY <3>1 DEF Claim, IsNext
    <3>5. Claim(r, m)'
      BY <1>1, <3>1, <3>3, <3>4 DEF Claim, Row
    <3> QED BY <2>4, <3>5 DEF AtWork, OnNoTx
  <2>5. CASE pc[r] \notin {"createSchema", "apply"} \cup OnNoTx
    BY <2>5 DEF AtWork
  <2> QED BY <2>3, <2>4, <2>5
<1> QED BY <1>4, <1>5

LEMMA QuietUnderOthers ==
  ASSUME TypeInv, NEW p \in Procs, NEW r \in Procs, r # p, lock = r, MigrateStep(p)
  PROVE  landed' = landed /\ \A s \in Scopes, q \in Seqs : SameRow(ledger[s][q], ledger'[s][q])
<1>1. Writes(p) \/ UNCHANGED dbVars
  BY StepWrites DEF MigrateStep
<1> QED BY <1>1, QuietForOthers DEF SameRow

LEMMA MigrateKeeps ==
  ASSUME KInv, NEW p \in Procs, Migrate(p)
  PROVE  KInv'
<1>0. MigrateStep(p) /\ (lock = p => AtWork(p)) /\ p # Nobody
  BY MigrateIs, CallerAssumption DEF KInv, CallerAssumption
<1>1. TypeInv'
  BY <1>0, StepKeepsTypes DEF KInv
<1>2. ReconTypes' /\ Visible'
  BY <1>0, MigrateSchema DEF KInv
<1>3. RowsOK'
  BY <1>0, RowsStay DEF KInv, RowsOK
<1>4. ASSUME NEW r \in Procs PROVE ReconOf(r)' /\ (lock' = r => AtWork(r)')
  <2>1. CASE r = p
    <3>1. recon'[p] = AtStart
      BY MigrateIs DEF KInv, ReconOf, ReconTypes
    <3>2. ~At(p, "convert")' /\ ~At(p, "settle")'
      BY <3>1 DEF At, AtStart
    <3>3. pc'[p] # "idle" => call'[p].tree \in Trees
      BY <1>0, CallStays DEF KInv, ReconOf
    <3>4. ReconOf(p)'
      BY <3>1, <3>2, <3>3 DEF ReconOf, AtStart, NoRows
    <3> QED BY <1>0, <2>1, <3>4, OwnWorkKept DEF KInv
  <2>2. CASE r # p
    <3>1. pc'[r] = pc[r] /\ call'[r] = call[r] /\ todo'[r] = todo[r] /\ stmt'[r] = stmt[r]
      BY <1>0, <2>2, OthersUntouched DEF KInv, MigrateStep
    <3>2. recon'[r] = recon[r]
      BY <2>2, MigrateIs DEF KInv, ReconTypes
    <3>3. lock' = r => lock = r /\ \A s \in Scopes, q \in Seqs : SameRow(ledger[s][q], ledger'[s][q])
      BY <1>0, <2>2, LockMoves, QuietUnderOthers, CallerAssumption DEF KInv, CallerAssumption
    <3> QED BY <3>1, <3>2, <3>3, KnowledgeStays DEF KInv
  <2> QED BY <2>1, <2>2
<1> QED BY <1>1, <1>2, <1>3, <1>4 DEF KInv

-----------------------------------------------------------------------------
(* The steps of reconcile                                                    *)

ReconStep(p) == Decides(p) \/ LockForReconcile(p) \/ ReconcileFails(p) \/ ReconcileCut(p)

Stays(p) == UNCHANGED <<pc, call, todo, stmt>> /\ \E o \in {outcome[p], "error"} : outcome' = [outcome EXCEPT ![p] = o]
Leaves(p) == \E result \in {"error", "crashed"} : Leave(p, result)

(* Only the transactions of a conversion and of settled drift write, and    *)
(* only with the lock.                                                      *)
LEMMA ReconcileIs ==
  ASSUME TypeInv, NEW p \in Procs, ReconStep(p)
  PROVE  /\ pc[p] = "check"
         /\ lock' \in {lock, p, Nobody}
         /\ Stays(p) \/ Leaves(p)
         /\ \/ UNCHANGED <<dbVars, schema, stray>>
            \/ At(p, "convert") /\ ConvertWrites(p)
            \/ At(p, "settle") /\ SettleWrites(p)
<1> USE DEF At, Reconciling, MoveTo, Refuse, ReleaseHeld, Stays, Leaves
<1>0. outcome = [outcome EXCEPT ![p] = outcome[p]]
  BY DEF TypeInv, TypeOK
<1>1. CASE Consider(p) \/ LookForTables(p) \/ LockForReconcile(p)
  BY <1>0, <1>1 DEF Consider, LookForTables, LockForReconcile
<1>2. CASE Reread(p) \/ TryNext(p)
  BY <1>0, <1>2 DEF Reread, TryNext
<1>3. CASE Convert(p) \/ Settle(p)
  BY <1>0, <1>3 DEF Convert, Settle
<1>4. CASE RefuseConversion(p) \/ RefuseDrift(p)
  BY <1>4 DEF RefuseConversion, RefuseDrift
<1>5. CASE UnlockReconcile(p)
  BY <1>0, <1>5 DEF UnlockReconcile
<1>6. CASE ReconcileFails(p)
  BY <1>6 DEF ReconcileFails
<1>7. CASE ReconcileCut(p)
  BY <1>7 DEF ReconcileCut, ConvertWrites, SettleWrites
<1> QED BY <1>1, <1>2, <1>3, <1>4, <1>5, <1>6, <1>7 DEF ReconStep, Decides

LEMMA ReconcileProcs ==
  ASSUME TypeInv, NEW p \in Procs, Stays(p) \/ Leaves(p)
  PROVE  ProcInv'
<1>1. CASE Stays(p)
  <2>1. PICK o \in {outcome[p], "error"} : outcome' = [outcome EXCEPT ![p] = o]
    BY <1>1 DEF Stays
  <2> QED BY <1>1, <2>1 DEF Stays, TypeInv, TypeOK, ProcInv, ProcTypes, CallInv
<1>2. CASE Leaves(p)
  BY <1>2, ReturnKeeps DEF Leaves, Leave
<1> QED BY <1>1, <1>2

(* The files that stand for the retired chain are files of the tree.        *)
LEMMA LeadingFiles ==
  ASSUME TypeInv, NEW p \in Procs, pc[p] # "idle", InRange(p)
  PROVE  /\ Leading(p) \subseteq Files(call[p].tree) /\ Leading(p) \subseteq Migrations
         /\ \A m \in Leading(p) : m.seq \in Seqs
         /\ \A m, n \in Leading(p) : m.seq = n.seq => m = n
<1>1. call[p].tree \in Seq(Migrations)
  BY TreesAreChains DEF TypeInv
<1>2. Conv(p).replaces \in 1..Len(call[p].tree)
  BY DEF InRange
<1>3. ASSUME NEW t \in Seq(Migrations), NEW k \in 1..Len(t) PROVE Files(SubSeq(t, 1, k)) \subseteq Files(t)
  <2>1. /\ DOMAIN SubSeq(t, 1, k) \subseteq DOMAIN t
        /\ \A i \in DOMAIN SubSeq(t, 1, k) : SubSeq(t, 1, k)[i] = t[i]
    OBVIOUS
  <2> QED BY <2>1 DEF Files
<1>4. Leading(p) \subseteq Files(call[p].tree)
  BY <1>1, <1>2, <1>3 DEF Leading
<1> QED BY <1>4, TreeKeys

(* The conversion at hand is one of those declared.                         *)
LEMMA ConvIs ==
  ASSUME NEW p \in Procs, ReconOf(p), At(p, "convert")
  PROVE  Conv(p) \in Conversions /\ Own(p) \in Seq(Conversions)
<1>1. call[p].tree \in Trees /\ recon[p].nth \in DOMAIN Own(p)
  BY DEF ReconOf, At, Reconciling
<1>2. Own(p) \in Seq(Conversions)
  BY <1>1, ConversionAssumption DEF Own, ConversionAssumption
<1> QED BY <1>1, <1>2 DEF Conv

LEMMA ConvertIs ==
  ASSUME KInv, NEW p \in Procs, At(p, "convert"), ConvertWrites(p)
  PROVE  /\ lock = p /\ Scope(p) \in Scopes
         /\ Leading(p) \subseteq Migrations
         /\ \A m \in Leading(p) : /\ m.seq \in Seqs
                                  /\ ledger'[Scope(p)][m.seq] = RowOf(m, StatusApplied)
                                  /\ landed'[Scope(p)][m.seq] = Units(m)
         /\ \A m, n \in Leading(p) : m.seq = n.seq => m = n
         /\ \A q \in Seqs \ {m.seq : m \in Leading(p)} :
              ledger'[Scope(p)][q] = NoRow /\ landed'[Scope(p)][q] = <<>>
         /\ \A s \in Scopes \ {Scope(p)} : /\ ledger'[s] = ledger[s] /\ landed'[s] = landed[s]
                                           /\ schema'[s] = schema[s] /\ stray'[s] = stray[s]
         /\ schema'[Scope(p)] = FreshBuild(Leading(p)) /\ stray'[Scope(p)] = {}
         /\ schema' = [schema EXCEPT ![Scope(p)] = Result(p)] /\ Result(p) \subseteq Objects
         /\ stray' = [stray EXCEPT ![Scope(p)] = {}]
         /\ UNCHANGED <<namespace, tracker>>
         /\ repairs' = repairs \o ForgetAudits(p) \o ReplaceAudits(p)
         /\ ledger' \in [Scopes -> Records] /\ landed' \in [Scopes -> [Seqs -> Seq(Pieces)]]
<1> DEFINE s == Scope(p)
           L == Leading(p)
           keys == {m.seq : m \in L}
<1>1. pc[p] = "check" /\ lock = p /\ InRange(p) /\ s \in Scopes
  BY TreesAreChains DEF At, Reconciling, ConvertWrites, Recognised, Comparable, KInv, TypeInv, Scope
<1>2. /\ L \subseteq Migrations /\ \A m \in L : m.seq \in Seqs
      /\ \A m, n \in L : m.seq = n.seq => m = n
  BY <1>1, LeadingFiles DEF KInv
<1>3. \A m \in L : m.seq \in keys /\ FileOf(m.seq, L) = m
  BY <1>2, FileOfKey
<1>4. \A q \in Seqs : SameRow(recon[p].rows[q], ledger[s][q])
  BY <1>1 DEF KInv, ReconOf
<1>5. \A q \in Seqs : ~Recorded(recon[p].rows[q]) => ledger[s][q] = NoRow
  BY <1>4 DEF SameRow, Recorded
<1>6. /\ ledger' = [ledger EXCEPT ![s] =
                      [q \in Seqs |-> IF q \in keys THEN RowOf(FileOf(q, L), StatusApplied)
                                      ELSE IF Recorded(recon[p].rows[q]) THEN NoRow
                                      ELSE ledger[s][q]]]
      /\ landed' = [landed EXCEPT ![s] =
                      [q \in Seqs |-> IF q \in keys THEN Units(FileOf(q, L)) ELSE <<>>]]
      /\ schema' = [schema EXCEPT ![s] = Result(p)]
      /\ stray' = [stray EXCEPT ![s] = {}]
      /\ repairs' = repairs \o ForgetAudits(p) \o ReplaceAudits(p)
      /\ UNCHANGED <<namespace, tracker>>
  BY DEF ConvertWrites
<1>7. /\ DOMAIN ledger = Scopes /\ DOMAIN landed = Scopes /\ DOMAIN schema = Scopes /\ DOMAIN stray = Scopes
  BY DEF KInv, TypeInv, TypeOK, ReconTypes
<1>8. Result(p) = FreshBuild(L)
  BY DEF ConvertWrites, Verified
<1>9. Result(p) \subseteq Objects
  <2>1. Conv(p) \in Conversions
    BY ConvIs DEF KInv
  <2>2. Conv(p).adds \subseteq Objects /\ schema[s] \subseteq Objects
    BY <1>1, <2>1, ConversionAssumption DEF ConversionAssumption, KInv, ReconTypes
  <2> QED BY <2>2 DEF Result, Live
<1> HIDE DEF s, L, keys
<1>10. \A q \in Seqs : /\ ledger'[s][q] = IF q \in keys THEN RowOf(FileOf(q, L), StatusApplied) ELSE NoRow
                       /\ landed'[s][q] = IF q \in keys THEN Units(FileOf(q, L)) ELSE <<>>
  BY <1>1, <1>5, <1>6, <1>7
<1>11. schema'[s] = FreshBuild(L) /\ stray'[s] = {}
  BY <1>1, <1>6, <1>7, <1>8
<1>12. \A x \in Scopes \ {s} : /\ ledger'[x] = ledger[x] /\ landed'[x] = landed[x]
                               /\ schema'[x] = schema[x] /\ stray'[x] = stray[x]
  BY <1>6, <1>7
<1>13. \A m \in L : ledger'[s][m.seq] = RowOf(m, StatusApplied) /\ landed'[s][m.seq] = Units(m)
  BY <1>2, <1>3, <1>10
<1>14. ledger' \in [Scopes -> Records]
  <2>1. ASSUME NEW q \in Seqs PROVE ledger'[s][q] \in Rows \cup {NoRow}
    <3>1. CASE q \in keys
      <4>1. FileOf(q, L) \in Migrations
        BY <1>2, <3>1, FileOfKey DEF keys
      <4> QED BY <1>10, <3>1, <4>1, RowOfType
    <3>2. CASE q \notin keys
      BY <1>10, <3>2
    <3> QED BY <3>1, <3>2
  <2>2. ledger'[s] \in Records
    BY <1>1, <1>6, <1>7, <2>1 DEF Records
  <2>3. \A x \in Scopes : ledger[x] \in Records
    BY DEF KInv, TypeInv, TypeOK
  <2> QED BY <1>6, <1>7, <1>12, <2>2, <2>3
<1>15. landed' \in [Scopes -> [Seqs -> Seq(Pieces)]]
  <2>1. ASSUME NEW q \in Seqs PROVE landed'[s][q] \in Seq(Pieces)
    <3>1. CASE q \in keys
      <4>1. FileOf(q, L) \in Migrations
        BY <1>2, <3>1, FileOfKey DEF keys
      <4> QED BY <1>10, <3>1, <4>1, UnitsType
    <3>2. CASE q \notin keys
      <4>1. <<>> \in Seq(Pieces)
        OBVIOUS
      <4> QED BY <1>10, <3>2, <4>1
    <3> QED BY <3>1, <3>2
  <2>2. landed'[s] \in [Seqs -> Seq(Pieces)]
    BY <1>1, <1>6, <1>7, <2>1
  <2>3. \A x \in Scopes : landed[x] \in [Seqs -> Seq(Pieces)]
    BY DEF KInv, TypeInv, TypeOK
  <2> QED BY <1>6, <1>7, <1>12, <2>2, <2>3
<1> QED BY <1>1, <1>2, <1>6, <1>9, <1>10, <1>11, <1>12, <1>13, <1>14, <1>15 DEF s, L, keys

(* Settling drift gives each drifted row the digests of the tree's file,    *)
(* whose name it has already.                                               *)
LEMMA SettleIs ==
  ASSUME KInv, NEW p \in Procs, At(p, "settle"), SettleWrites(p)
  PROVE  LET D == Drifted(call[p].tree, recon[p].rows) IN
         /\ lock = p /\ Scope(p) \in Scopes
         /\ D \subseteq Files(call[p].tree) /\ D \subseteq Migrations
         /\ \A m \in D : /\ m.seq \in Seqs
                         /\ IsApplied(Row(p, m)) /\ Row(p, m).filename = m.name
                         /\ ledger'[Scope(p)][m.seq] \in Rows
                         /\ IsApplied(ledger'[Scope(p)][m.seq]) /\ Identified(ledger'[Scope(p)][m.seq], m)
                         /\ ledger'[Scope(p)][m.seq].semantic = SemanticContentDigest(m)
         /\ \A m, n \in D : m.seq = n.seq => m = n
         /\ \A q \in Seqs \ {m.seq : m \in D} : ledger'[Scope(p)][q] = ledger[Scope(p)][q]
         /\ \A s \in Scopes \ {Scope(p)} : ledger'[s] = ledger[s]
         /\ ledger' \in [Scopes -> Records]
         /\ UNCHANGED <<landed, namespace, tracker, schema, stray>>
         /\ repairs' = repairs \o AuditSeq("verify-content", Scope(p), {m.seq : m \in D}, recon[p].rows, D)
<1> DEFINE s == Scope(p)
           D == Drifted(call[p].tree, recon[p].rows)
           keys == {m.seq : m \in D}
<1>1. pc[p] = "check" /\ lock = p /\ s \in Scopes
  BY TreesAreChains DEF At, Reconciling, SettleWrites, KInv, TypeInv, Scope
<1>2. /\ D \subseteq Files(call[p].tree) /\ D \subseteq Migrations /\ \A m \in D : m.seq \in Seqs
      /\ \A m, n \in D : m.seq = n.seq => m = n
  BY <1>1, TreeKeys DEF KInv, Drifted
<1>3. \A m \in D : m.seq \in keys /\ FileOf(m.seq, D) = m
  BY <1>2, FileOfKey
<1>4. \A q \in Seqs : SameRow(recon[p].rows[q], ledger[s][q])
  BY <1>1 DEF KInv, ReconOf
<1>5. ASSUME NEW m \in D PROVE IsApplied(Row(p, m)) /\ Row(p, m).filename = m.name /\ Row(p, m) \in Rows
  <2>1. IsDrift(m, recon[p].rows[m.seq])
    BY <1>5 DEF Drifted
  <2>2. SameRow(recon[p].rows[m.seq], Row(p, m)) /\ Named(Row(p, m)) /\ Row(p, m) \in Rows \cup {NoRow}
    BY <1>1, <1>2, <1>4, RowType DEF KInv, RowsOK, Row, TypeInv
  <2> QED BY <2>1, <2>2 DEF IsDrift, IsMismatch, SameRow, Named, IsApplied, Recorded
<1>6. /\ ledger' = [ledger EXCEPT ![s] =
                      [q \in Seqs |-> IF q \in keys /\ Recorded(ledger[s][q])
                                        THEN [ledger[s][q] EXCEPT !.digest = ContentDigest(FileOf(q, D)),
                                                                  !.semantic = SemanticContentDigest(FileOf(q, D))]
                                        ELSE ledger[s][q]]]
      /\ repairs' = repairs \o AuditSeq("verify-content", s, keys, recon[p].rows, D)
      /\ UNCHANGED <<landed, namespace, tracker, schema, stray>>
  BY DEF SettleWrites
<1>7. DOMAIN ledger = Scopes
  BY DEF KInv, TypeInv, TypeOK
<1> HIDE DEF s, D, keys
<1>8. \A q \in Seqs : ledger'[s][q] = IF q \in keys /\ Recorded(ledger[s][q])
                                        THEN [ledger[s][q] EXCEPT !.digest = ContentDigest(FileOf(q, D)),
                                                                  !.semantic = SemanticContentDigest(FileOf(q, D))]
                                        ELSE ledger[s][q]
  BY <1>1, <1>6, <1>7
<1>9. ASSUME NEW m \in D
      PROVE  /\ ledger'[s][m.seq] \in Rows
             /\ IsApplied(ledger'[s][m.seq]) /\ Identified(ledger'[s][m.seq], m)
             /\ ledger'[s][m.seq].semantic = SemanticContentDigest(m)
  <2>1. ledger'[s][m.seq] = [Row(p, m) EXCEPT !.digest = ContentDigest(m), !.semantic = SemanticContentDigest(m)]
    BY <1>2, <1>3, <1>5, <1>8 DEF Row, s, IsApplied
  <2>2. m \in Migrations
    BY <1>2
  <2>3. /\ ledger'[s][m.seq] \in Rows /\ ledger'[s][m.seq].filename = m.name
        /\ ledger'[s][m.seq].digest = ContentDigest(m)
        /\ ledger'[s][m.seq].semantic = SemanticContentDigest(m)
        /\ ledger'[s][m.seq].status = Row(p, m).status
    BY <1>5, <2>1, <2>2 DEF Rows, Digests, Tokens, ContentDigest, SemanticContentDigest
  <2>4. Recorded(ledger'[s][m.seq])
    BY <2>3, NoRowAssumption DEF Recorded, NoRowAssumption
  <2> QED BY <1>5, <2>3, <2>4 DEF IsApplied, IsDirty, Identified
<1>10. \A q \in Seqs \ keys : ledger'[s][q] = ledger[s][q]
  BY <1>8
<1>11. \A x \in Scopes \ {s} : ledger'[x] = ledger[x]
  BY <1>6, <1>7
<1>12. ledger' \in [Scopes -> Records]
  <2>1. ASSUME NEW q \in Seqs PROVE ledger'[s][q] \in Rows \cup {NoRow}
    <3>1. CASE q \in keys
      BY <1>9, <3>1 DEF keys
    <3>2. CASE q \notin keys
      BY <1>1, <1>10, <3>2 DEF KInv, TypeInv, TypeOK, Records
    <3> QED BY <3>1, <3>2
  <2>2. ledger'[s] \in Records
    BY <1>1, <1>6, <1>7, <2>1 DEF Records
  <2>3. \A x \in Scopes : ledger[x] \in Records
    BY DEF KInv, TypeInv, TypeOK
  <2> QED BY <1>6, <1>7, <1>11, <2>2, <2>3
<1> QED BY <1>1, <1>2, <1>5, <1>6, <1>9, <1>10, <1>11, <1>12 DEF s, D, keys

(* The audit rows of a transaction: one for each key.                       *)
AuditsFor(a, s, keys, rows, files) ==
  /\ a \in Seq(AuditRows)
  /\ \A i \in DOMAIN a : /\ a[i].scope = s /\ a[i].key \in keys
                         /\ a[i].old = IdentityOf(rows[a[i].key])
                         /\ a[i].new = NewIdentity(a[i].key, files)
  /\ \A q \in keys : \E i \in DOMAIN a : a[i].key = q
  /\ \A i, j \in DOMAIN a : a[i].key = a[j].key => i = j

LEMMA AuditSeqIs ==
  ASSUME NEW verb \in Verbs, NEW s \in Scopes, NEW keys \in SUBSET Seqs,
         NEW rows \in Records, NEW files \in SUBSET Migrations
  PROVE  AuditsFor(AuditSeq(verb, s, keys, rows, files), s, keys, rows, files)
<1> DEFINE order == InOrder(keys)
           a == AuditSeq(verb, s, keys, rows, files)
<1>1. IsFiniteSet(keys) /\ keys \in SUBSET Nat
  BY KeysAreFinite
<1>2. Enumerates(order, keys) /\ Cardinality(keys) \in Nat
  BY <1>1, InOrderEnumerates, FS_CardinalityType
<1>3. a = [i \in DOMAIN order |-> [verb |-> verb, scope |-> s, key |-> order[i],
                                   old |-> IdentityOf(rows[order[i]]), new |-> NewIdentity(order[i], files)]]
  BY DEF AuditSeq
<1>4. DOMAIN order = 1..Cardinality(keys) /\ \A i \in DOMAIN order : order[i] \in keys
  BY <1>2 DEF Enumerates
<1>5. ASSUME NEW i \in DOMAIN order
      PROVE  [verb |-> verb, scope |-> s, key |-> order[i],
              old |-> IdentityOf(rows[order[i]]), new |-> NewIdentity(order[i], files)] \in AuditRows
  <2>1. order[i] \in Seqs /\ rows[order[i]] \in Rows \cup {NoRow}
    BY <1>4 DEF Records
  <2>2. NewIdentity(order[i], files) \in Identities
    BY IdentitiesType, FileOfKey DEF NewIdentity
  <2>3. IdentityOf(rows[order[i]]) \in Identities
    BY <2>1, IdentitiesType
  <2> QED BY <2>1, <2>2, <2>3 DEF AuditRows
<1> HIDE DEF order
<1>6. a \in Seq(AuditRows)
  BY <1>2, <1>3, <1>4, <1>5
<1>7. \A i \in DOMAIN a : /\ a[i].scope = s /\ a[i].key \in keys
                          /\ a[i].old = IdentityOf(rows[a[i].key])
                          /\ a[i].new = NewIdentity(a[i].key, files)
  BY <1>3, <1>4
<1>8. DOMAIN a = DOMAIN order /\ \A i \in DOMAIN a : a[i].key = order[i]
  BY <1>3
<1>9. \A q \in keys : \E i \in DOMAIN a : a[i].key = q
  BY <1>2, <1>8 DEF Enumerates
<1>10. ASSUME NEW i \in DOMAIN order, NEW j \in DOMAIN order, order[i] = order[j] PROVE i = j
  <2>0. i \in 1..Cardinality(keys) /\ j \in 1..Cardinality(keys)
    BY <1>4
  <2>1. i \in Int /\ j \in Int
    BY <1>2, <2>0
  <2>2. order[i] \in keys /\ order[j] \in keys
    BY <1>4
  <2>3. order[i] \in Nat /\ order[j] \in Nat
    BY <1>1, <2>2
  <2>4. ~(i < j) /\ ~(j < i)
    BY <1>2, <1>10, <2>3 DEF Enumerates
  <2> QED BY <2>1, <2>4
<1>11. \A i, j \in DOMAIN a : a[i].key = a[j].key => i = j
  BY <1>8, <1>10
<1> HIDE DEF a
<1>12. AuditsFor(a, s, keys, rows, files)
  BY <1>6, <1>7, <1>9, <1>11 DEF AuditsFor
<1> QED BY <1>12 DEF a

LEMMA RowsRead ==
  ASSUME ReconTypes, NEW p \in Procs
  PROVE  recon[p].rows \in Records /\ KeysOf(recon[p].rows) \subseteq Seqs
BY DEF ReconTypes, Recons, KeysOf

(* The audits of a conversion: one for each number it forgets, one for each *)
(* it replaces.                                                             *)
LEMMA ConvertAudits ==
  ASSUME KInv, NEW p \in Procs, At(p, "convert"), ConvertWrites(p)
  PROVE  /\ ForgetAudits(p) \in Seq(AuditRows) /\ ReplaceAudits(p) \in Seq(AuditRows)
         /\ repairs' \in Seq(AuditRows)
<1>1. /\ Leading(p) \in SUBSET Migrations /\ {m.seq : m \in Leading(p)} \in SUBSET Seqs /\ Scope(p) \in Scopes
      /\ repairs' = repairs \o ForgetAudits(p) \o ReplaceAudits(p)
  BY ConvertIs
<1>2. "convert" \in Verbs /\ recon[p].rows \in Records /\ KeysOf(recon[p].rows) \subseteq Seqs
  BY RowsRead DEF Verbs, KInv
<1>3. ForgetAudits(p) \in Seq(AuditRows)
  BY <1>1, <1>2, AuditSeqIs DEF ForgetAudits, AuditsFor
<1>4. ReplaceAudits(p) \in Seq(AuditRows)
  BY <1>1, <1>2, AuditSeqIs DEF ReplaceAudits, AuditsFor
<1>5. repairs \in Seq(AuditRows)
  BY DEF KInv, TypeInv, TypeOK
<1> QED BY <1>1, <1>3, <1>4, <1>5

LEMMA SettleAudits ==
  ASSUME KInv, NEW p \in Procs, At(p, "settle"), SettleWrites(p)
  PROVE  repairs' \in Seq(AuditRows)
<1> DEFINE D == Drifted(call[p].tree, recon[p].rows)
           a == AuditSeq("verify-content", Scope(p), {m.seq : m \in D}, recon[p].rows, D)
<1>1. D \in SUBSET Migrations /\ {m.seq : m \in D} \in SUBSET Seqs /\ Scope(p) \in Scopes /\ repairs' = repairs \o a
  BY SettleIs
<1>2. "verify-content" \in Verbs /\ recon[p].rows \in Records
  BY RowsRead DEF Verbs, KInv
<1> HIDE DEF D
<1>3. a \in Seq(AuditRows)
  BY <1>1, <1>2, AuditSeqIs DEF AuditsFor
<1> HIDE DEF a
<1>4. repairs \in Seq(AuditRows)
  BY DEF KInv, TypeInv, TypeOK
<1> QED BY <1>1, <1>3, <1>4

LEMMA ConvertKeeps ==
  ASSUME KInv, NEW p \in Procs, At(p, "convert"), ConvertWrites(p)
  PROVE  /\ DbTypes' /\ schema' \in [Scopes -> SUBSET Objects] /\ stray' \in [Scopes -> SUBSET Objects]
         /\ Visible' /\ RowsOK'
<1> DEFINE s == Scope(p)
           L == Leading(p)
<1>1. DbTypes'
  BY ConvertIs, ConvertAudits DEF DbTypes, KInv, TypeInv, TypeOK
<1>2. schema' \in [Scopes -> SUBSET Objects] /\ stray' \in [Scopes -> SUBSET Objects]
  BY ConvertIs DEF KInv, ReconTypes
<1>3. ASSUME NEW x \in Scopes, NEW q \in Seqs
      PROVE  /\ Named(ledger'[x][q]) /\ DigestsFit(ledger'[x][q])
             /\ \A i \in DOMAIN landed'[x][q] : Stands(schema'[x], landed'[x][q][i])
  <2>1. CASE x # s
    <3>1. ledger'[x] = ledger[x] /\ landed'[x] = landed[x] /\ schema'[x] = schema[x]
      BY <2>1, ConvertIs
    <3> QED BY <3>1 DEF KInv, RowsOK, Visible
  <2>2. ASSUME x = s, NEW m \in L, q = m.seq
        PROVE  /\ Named(ledger'[x][q]) /\ DigestsFit(ledger'[x][q])
               /\ \A i \in DOMAIN landed'[x][q] : Stands(schema'[x], landed'[x][q][i])
    <3>1. /\ m \in Migrations /\ ledger'[s][q] = RowOf(m, StatusApplied) /\ landed'[s][q] = Units(m)
          /\ schema'[s] = FreshBuild(L)
      BY <2>2, ConvertIs
    <3>2. \A o : o \in Effect(m) => o \in schema'[s]
      BY <3>1 DEF FreshBuild
    <3>3. /\ DOMAIN Units(m) = 1..m.stmts
          /\ \A i \in 1..m.stmts : Units(m)[i][1] = m /\ Units(m)[i][2] = i
      BY <3>1, UnitsType DEF Units
    <3>4. ASSUME NEW i \in 1..m.stmts PROVE Shape[m][i] \subseteq schema'[s]
      BY <3>1, <3>2, EffectIs
    <3>5. \A i \in DOMAIN Units(m) : Stands(schema'[s], Units(m)[i])
      BY <3>3, <3>4 DEF Stands
    <3> QED BY <2>2, <3>1, <3>5, WrittenRow
  <2>3. CASE x = s /\ q \notin {m.seq : m \in L}
    <3>1. ledger'[x][q] = NoRow /\ landed'[x][q] = <<>>
      BY <2>3, ConvertIs
    <3> QED BY <3>1 DEF Named, DigestsFit, Recorded
  <2> QED BY <2>1, <2>2, <2>3
<1> QED BY <1>1, <1>2, <1>3 DEF Visible, RowsOK

LEMMA SettleKeeps ==
  ASSUME KInv, NEW p \in Procs, At(p, "settle"), SettleWrites(p)
  PROVE  DbTypes' /\ UNCHANGED <<schema, stray>> /\ Visible' /\ RowsOK'
<1> DEFINE s == Scope(p)
           D == Drifted(call[p].tree, recon[p].rows)
           keys == {m.seq : m \in D}
<1>1. /\ s \in Scopes /\ D \subseteq Migrations
      /\ \A m \in D : /\ ledger'[s][m.seq] \in Rows /\ IsApplied(ledger'[s][m.seq])
                      /\ Identified(ledger'[s][m.seq], m)
                      /\ ledger'[s][m.seq].semantic = SemanticContentDigest(m)
      /\ \A q \in Seqs \ keys : ledger'[s][q] = ledger[s][q]
      /\ \A x \in Scopes \ {s} : ledger'[x] = ledger[x]
      /\ ledger' \in [Scopes -> Records]
      /\ UNCHANGED <<landed, namespace, tracker, schema, stray>>
  BY SettleIs
<1> HIDE DEF D
<1>2. ASSUME NEW x \in Scopes, NEW q \in Seqs
      PROVE  Named(ledger'[x][q]) /\ DigestsFit(ledger'[x][q])
  <2>1. CASE x = s /\ q \in keys
    <3>1. PICK m \in D : m.seq = q
      BY <2>1
    <3>2. /\ m \in Migrations /\ m.name # NoName /\ ledger'[x][q] \in Rows
          /\ Identified(ledger'[x][q], m) /\ ledger'[x][q].semantic = SemanticContentDigest(m)
      BY <1>1, <2>1, <3>1, NullsAssumption DEF NullsAssumption, Names
    <3> QED BY <3>2 DEF Named, DigestsFit, Identified
  <2>2. CASE ~(x = s /\ q \in keys)
    <3>1. ledger'[x][q] = ledger[x][q]
      BY <1>1, <2>2
    <3> QED BY <3>1 DEF KInv, RowsOK
  <2> QED BY <2>1, <2>2
<1>3. DbTypes'
  BY <1>1, SettleAudits DEF DbTypes, KInv, TypeInv, TypeOK
<1>4. Visible'
  BY <1>1 DEF KInv, Visible
<1> QED BY <1>1, <1>2, <1>3, <1>4 DEF RowsOK

(* Only the read under the lock, and the next conversion tried after it,    *)
(* lead to a transaction.                                                   *)
LEMMA Decision ==
  ASSUME TypeInv, ReconTypes, NEW p \in Procs, ReconOf(p), ReconStep(p)
  PROVE  /\ \A r \in Procs \ {p} : recon'[r] = recon[r]
         /\ recon' \in [Procs -> Recons]
         /\ \/ Leaves(p) /\ recon'[p] = AtStart
            \/ Stays(p) /\ recon'[p].step \notin {"convert", "settle"}
            \/ /\ Reread(p) /\ recon'[p].rows = ledger[Scope(p)]
               /\ recon'[p].step = "convert" => recon'[p].nth \in DOMAIN Own(p)
            \/ /\ TryNext(p) /\ recon'[p].rows = recon[p].rows
               /\ recon'[p].nth \in DOMAIN Own(p) /\ recon'[p].step = "convert"
<1>0. recon \in [Procs -> Recons] /\ p \in DOMAIN recon /\ recon[p] \in Recons
  BY DEF ReconTypes
<1> DEFINE Moved(x) == recon' = [recon EXCEPT ![p] = x] /\ x \in Recons
<1>1. ASSUME NEW x, Moved(x)
      PROVE  /\ \A r \in Procs \ {p} : recon'[r] = recon[r]
             /\ recon' \in [Procs -> Recons] /\ recon'[p] = x
  BY <1>0, <1>1
<1>2. ASSUME NEW step \in {"populated", "lock", "reread", "unlock", "done"}, MoveTo(p, step)
      PROVE  Moved([recon[p] EXCEPT !.step = step]) /\ recon'[p].step \notin {"convert", "settle"}
  BY <1>0, <1>2 DEF MoveTo, Recons
<1>3. Leaves(p) => Moved(AtStart)
  BY StartType DEF Leaves, Leave
<1>4. call[p].tree \in Trees => Own(p) \in Seq(Conversions)
  BY ConversionAssumption DEF Own, ConversionAssumption
<1>5. pc[p] = "check" => Own(p) \in Seq(Conversions)
  BY <1>4 DEF ReconOf
<1>6. CASE Reread(p)
  <2>1. pc[p] = "check"
    BY <1>6 DEF Reread, At, Reconciling
  <2>2. PICK step \in {"convert", "settle", "unlock"}, nth \in Nat, ledgerless \in BOOLEAN :
          /\ recon' = [recon EXCEPT ![p] = [step |-> step, rows |-> ledger[Scope(p)], nth |-> nth, ledgerless |-> ledgerless]]
          /\ step = "convert" => nth \in DOMAIN Own(p)
    <3>1. DOMAIN Own(p) \subseteq Nat /\ (Own(p) # <<>> => 1 \in DOMAIN Own(p))
      BY <1>5, <2>1
    <3>2. ASSUME NEW S \in SUBSET DOMAIN Own(p), S # {} PROVE First(S) \in S
      <4>1. \E i \in S : \A j \in S : i <= j
        BY <3>1, <3>2, LeastNumber
      <4> QED BY <4>1 DEF First
    <3>3. Matching(p, ledger[Scope(p)]) \subseteq DOMAIN Own(p)
      BY DEF Matching
    <3>4. CASE /\ Matching(p, ledger[Scope(p)]) # {}
               /\ recon' = [recon EXCEPT ![p] = [step |-> "convert", rows |-> ledger[Scope(p)],
                                                 nth |-> First(Matching(p, ledger[Scope(p)])), ledgerless |-> FALSE]]
      BY <3>1, <3>2, <3>3, <3>4
    <3>5. CASE /\ Own(p) # <<>>
               /\ recon' = [recon EXCEPT ![p] = [step |-> "convert", rows |-> ledger[Scope(p)],
                                                 nth |-> 1, ledgerless |-> TRUE]]
      BY <3>1, <3>5
    <3>6. CASE \E step \in {"settle", "unlock"} :
                 recon' = [recon EXCEPT ![p] = [step |-> step, rows |-> ledger[Scope(p)],
                                                nth |-> 1, ledgerless |-> FALSE]]
      BY <3>6
    <3> QED BY <1>6, <3>4, <3>5, <3>6 DEF Reread
  <2> DEFINE x == [step |-> step, rows |-> ledger[Scope(p)], nth |-> nth, ledgerless |-> ledgerless]
  <2>3. ledger[Scope(p)] \in Records
    BY TreesAreChains DEF Scope, TypeInv, TypeOK
  <2>4. Moved(x) /\ x.step = step /\ x.rows = ledger[Scope(p)] /\ x.nth = nth
    BY <2>2, <2>3 DEF Recons
  <2> HIDE DEF x
  <2> QED BY <1>1, <1>6, <2>2, <2>4
<1>7. CASE TryNext(p)
  <2>1. pc[p] = "check" /\ recon[p].step = "convert" /\ recon[p].nth \in DOMAIN Own(p)
    BY <1>7 DEF TryNext, At, Reconciling, ReconOf
  <2>2. CASE recon[p].nth < Len(Own(p)) /\ recon' = [recon EXCEPT ![p].nth = @ + 1]
    <3> DEFINE x == [recon[p] EXCEPT !.nth = @ + 1]
    <3>1. Moved(x) /\ x.step = "convert" /\ x.rows = recon[p].rows /\ x.nth = recon[p].nth + 1
      BY <1>0, <2>1, <2>2 DEF Recons
    <3>2. recon[p].nth + 1 \in DOMAIN Own(p)
      BY <1>5, <2>1, <2>2
    <3> HIDE DEF x
    <3> QED BY <1>1, <1>7, <3>1, <3>2
  <2>3. CASE recon' = [recon EXCEPT ![p].step = "unlock"]
    <3>1. Stays(p)
      <4>1. UNCHANGED outcome /\ outcome' = [outcome EXCEPT ![p] = outcome[p]]
        BY <1>7 DEF TryNext, TypeInv, TypeOK
      <4> QED BY <1>7, <4>1 DEF TryNext, Stays
    <3>2. MoveTo(p, "unlock")
      BY <2>3 DEF MoveTo
    <3> QED BY <1>1, <1>2, <3>1, <3>2
  <2> QED BY <1>7, <2>2, <2>3 DEF TryNext
<1>8. CASE \E step \in {"populated", "lock", "reread", "unlock", "done"} : MoveTo(p, step)
  BY <1>1, <1>2, <1>3, <1>8, ReconcileIs
<1>9. CASE Leaves(p)
  BY <1>1, <1>3, <1>9
<1>10. CASE \/ Consider(p) \/ LookForTables(p) \/ LockForReconcile(p) \/ Convert(p) \/ RefuseConversion(p)
            \/ Settle(p) \/ RefuseDrift(p)
  BY <1>8, <1>10 DEF Consider, LookForTables, LockForReconcile, Convert, RefuseConversion, Settle, RefuseDrift, Refuse
<1>11. CASE UnlockReconcile(p) \/ ReconcileFails(p) \/ ReconcileCut(p)
  BY <1>8, <1>9, <1>11 DEF UnlockReconcile, ReconcileFails, ReconcileCut, Refuse, Leaves
<1> QED BY <1>6, <1>7, <1>10, <1>11 DEF ReconStep, Decides

LEMMA OwnDecision ==
  ASSUME KInv, NEW p \in Procs, ReconStep(p)
  PROVE  ReconOf(p)' /\ AtWork(p)'
<1>0. /\ pc[p] = "check" /\ TypeInv /\ ReconTypes /\ ReconOf(p) /\ p \in DOMAIN pc
      /\ Scope(p) \in Scopes
  BY ReconcileIs, TreesAreChains DEF KInv, TypeInv, TypeOK, Scope
<1>1. CASE Leaves(p) /\ recon'[p] = AtStart
  <2>1. pc'[p] = "idle"
    BY <1>0, <1>1 DEF Leaves, Leave, Return, Goto
  <2> QED BY <1>1, <2>1 DEF ReconOf, At, Reconciling, AtWork, OnNoTx, AtStart
<1>2. ASSUME UNCHANGED <<pc, call>>
      PROVE  /\ AtWork(p)' /\ pc'[p] = "check" /\ call'[p].tree \in Trees
             /\ Scope(p)' = Scope(p) /\ Own(p)' = Own(p)
  BY <1>0, <1>2 DEF AtWork, OnNoTx, ReconOf, Scope, Own
<1>3. CASE Stays(p) /\ recon'[p].step \notin {"convert", "settle"}
  BY <1>2, <1>3 DEF Stays, ReconOf, At, Reconciling
<1>4. CASE /\ Reread(p) /\ recon'[p].rows = ledger[Scope(p)]
           /\ recon'[p].step = "convert" => recon'[p].nth \in DOMAIN Own(p)
  <2>1. UNCHANGED <<pc, call, ledger>>
    BY <1>4 DEF Reread, dbVars
  <2>2. \A q \in Seqs : SameRow(recon'[p].rows[q], ledger'[Scope(p)][q])
    BY <1>0, <1>4, <2>1 DEF SameRow
  <2> QED BY <1>2, <1>4, <2>1, <2>2 DEF ReconOf, At, Reconciling
<1>5. CASE /\ TryNext(p) /\ recon'[p].rows = recon[p].rows
           /\ recon'[p].nth \in DOMAIN Own(p) /\ recon'[p].step = "convert"
  <2>1. UNCHANGED <<pc, call, ledger>> /\ At(p, "convert") /\ lock = p
    BY <1>5 DEF TryNext, dbVars
  <2>2. \A q \in Seqs : SameRow(recon'[p].rows[q], ledger'[Scope(p)][q])
    BY <1>0, <1>5, <2>1 DEF ReconOf
  <2> QED BY <1>2, <1>5, <2>1, <2>2 DEF ReconOf, At, Reconciling
<1> QED BY <1>0, <1>1, <1>3, <1>4, <1>5, Decision

LEMMA ReconcileKeeps ==
  ASSUME KInv, NEW p \in Procs, ReconStep(p)
  PROVE  KInv'
<1>0. /\ pc[p] = "check" /\ lock' \in {lock, p, Nobody} /\ (Stays(p) \/ Leaves(p))
      /\ \/ UNCHANGED <<dbVars, schema, stray>>
         \/ At(p, "convert") /\ ConvertWrites(p)
         \/ At(p, "settle") /\ SettleWrites(p)
      /\ p # Nobody
  BY ReconcileIs, CallerAssumption DEF KInv, CallerAssumption
<1>1. DbTypes' /\ schema' \in [Scopes -> SUBSET Objects] /\ stray' \in [Scopes -> SUBSET Objects] /\ Visible' /\ RowsOK'
  <2>1. CASE UNCHANGED <<dbVars, schema, stray>>
    <3>1. DbTypes'
      BY <2>1, DbUnchanged DEF KInv
    <3>2. UNCHANGED <<ledger, landed, schema, stray>>
      BY <2>1 DEF dbVars
    <3> QED BY <3>1, <3>2 DEF KInv, ReconTypes, Visible, RowsOK
  <2>2. CASE At(p, "convert") /\ ConvertWrites(p)
    BY <2>2, ConvertKeeps
  <2>3. CASE At(p, "settle") /\ SettleWrites(p)
    BY <2>3, SettleKeeps DEF KInv, ReconTypes
  <2> QED BY <1>0, <2>1, <2>2, <2>3
<1>2. TypeInv'
  <2>1. ProcInv'
    BY <1>0, ReconcileProcs DEF KInv
  <2>2. lock' \in Procs \cup {Nobody}
    BY <1>0 DEF KInv, TypeInv, TypeOK
  <2> QED BY <1>1, <2>1, <2>2, TypeParts
<1>3. ReconTypes'
  BY <1>1, Decision DEF KInv, ReconTypes
<1>4. ASSUME NEW r \in Procs PROVE ReconOf(r)' /\ (lock' = r => AtWork(r)')
  <2>1. CASE r = p
    BY <2>1, OwnDecision
  <2>2. CASE r # p
    <3>1. pc'[r] = pc[r] /\ call'[r] = call[r] /\ todo'[r] = todo[r] /\ stmt'[r] = stmt[r]
      BY <1>0, <2>2 DEF Stays, Leaves, Leave, Return, Goto, KInv, TypeInv, TypeOK
    <3>2. recon'[r] = recon[r]
      BY <2>2, Decision DEF KInv
    <3>3. lock' = r => lock = r /\ \A s \in Scopes, q \in Seqs : SameRow(ledger[s][q], ledger'[s][q])
      <4>1. lock' = r => lock = r
        BY <1>0, <2>2, CallerAssumption DEF CallerAssumption
      <4>2. lock = r => UNCHANGED dbVars
        BY <1>0, <2>2 DEF ConvertWrites, SettleWrites
      <4> QED BY <4>1, <4>2, UnchangedRows DEF dbVars
    <3> QED BY <3>1, <3>2, <3>3, KnowledgeStays DEF KInv
  <2> QED BY <2>1, <2>2
<1> QED BY <1>1, <1>2, <1>3, <1>4 DEF KInv

LEMMA InitRows ==
  ASSUME ConversionInit, NEW s \in Scopes, NEW q \in Seqs
  PROVE  \/ ledger[s][q] = NoRow /\ landed[s][q] = <<>>
         \/ \E m \in Migrations, identified \in BOOLEAN :
              m.seq = q /\ ledger[s][q] = LegacyRow(m, identified) /\ landed[s][q] = Units(m)
<1>1. PICK past \in [Scopes -> Histories], identified \in BOOLEAN :
        /\ ledger = [x \in Scopes |-> HistoryRows(past[x], identified)]
        /\ landed = [x \in Scopes |-> HistoryPieces(past[x])]
  BY DEF ConversionInit, Init
<1>2. /\ ledger[s][q] = HistoryRows(past[s], identified)[q] /\ landed[s][q] = HistoryPieces(past[s])[q]
      /\ past[s] \in Histories
  BY <1>1
<1> QED BY <1>2, HistoryOf

LEMMA InitKeeps == ASSUME ConversionInit PROVE KInv
<1>1. TypeInv
  BY InitTypes DEF ConversionInit
<1>2. RowsOK
  <2>1. ASSUME NEW m \in Migrations, NEW identified \in BOOLEAN
        PROVE  Named(LegacyRow(m, identified)) /\ DigestsFit(LegacyRow(m, identified))
    <3>1. m.name # NoName
      BY NullsAssumption DEF NullsAssumption, Names
    <3> QED BY <3>1 DEF LegacyRow, Named, DigestsFit
  <2>2. Named(NoRow) /\ DigestsFit(NoRow)
    BY DEF Named, DigestsFit, Recorded
  <2> QED BY <2>1, <2>2, InitRows DEF RowsOK
<1>3. /\ stray \in [Scopes -> Strays] /\ recon = [p \in Procs |-> AtStart] /\ pc = [p \in Procs |-> "idle"]
      /\ schema = [s \in Scopes |-> stray[s] \cup LaidDown(landed[s])]
  BY DEF ConversionInit, Init
<1>4. ASSUME NEW s \in Scopes, NEW q \in Seqs, NEW i \in DOMAIN landed[s][q]
      PROVE  /\ Stands(schema[s], landed[s][q][i])
             /\ Shape[landed[s][q][i][1]][landed[s][q][i][2]] \subseteq Objects
  <2>1. PICK m \in Migrations : landed[s][q] = Units(m)
    BY InitRows
  <2>2. i \in 1..m.stmts /\ Units(m)[i] = <<m, i>>
    BY <2>1, UnitsType DEF Units
  <2>3. landed[s][q][i] = <<m, i>> /\ <<m, i>>[1] = m /\ <<m, i>>[2] = i
    BY <2>1, <2>2
  <2>4. Shape[landed[s][q][i][1]][landed[s][q][i][2]] \subseteq LaidDown(landed[s])
    BY DEF LaidDown
  <2>5. LaidDown(landed[s]) \subseteq schema[s]
    BY <1>3
  <2> QED BY <2>2, <2>3, <2>4, <2>5, ShapeOf DEF Stands
<1>5. ReconTypes
  <2>1. stray \in [Scopes -> SUBSET Objects]
    BY <1>3, ConversionAssumption DEF ConversionAssumption
  <2>2. ASSUME NEW s \in Scopes PROVE LaidDown(landed[s]) \subseteq Objects
    <3>1. \A o : Shows(s, o) => o \in Objects
      BY <1>4 DEF Shows
    <3> QED BY <3>1, LaidDownIs
  <2> QED BY <1>3, <2>1, <2>2, StartType DEF ReconTypes
<1>6. \A p \in Procs : ReconOf(p) /\ (lock = p => AtWork(p))
  BY <1>3 DEF ReconOf, AtWork, OnNoTx, At, Reconciling
<1> QED BY <1>1, <1>2, <1>4, <1>5, <1>6 DEF KInv, Visible

LEMMA StepKeeps == ASSUME KInv, [ConversionNext]_conversionVars PROVE KInv'
<1>1. ASSUME NEW p \in Procs, ReconStep(p) \/ Migrate(p) PROVE KInv'
  BY <1>1, ReconcileKeeps, MigrateKeeps
<1>2. CASE UNCHANGED conversionVars
  <2>1. UNCHANGED vars /\ UNCHANGED <<schema, stray, recon>>
    BY <1>2 DEF conversionVars, vars
  <2>2. TypeInv'
    BY <2>1, StepTypes DEF KInv
  <2>3. ReconTypes' /\ Visible' /\ RowsOK'
    BY <2>1 DEF vars, KInv, ReconTypes, Visible, RowsOK
  <2>4. ASSUME NEW r \in Procs PROVE ReconOf(r)' /\ (lock' = r => AtWork(r)')
    BY <2>1, UnchangedRows, KnowledgeStays DEF vars, KInv
  <2> QED BY <2>2, <2>3, <2>4 DEF KInv
<1> QED BY <1>1, <1>2 DEF ConversionNext, ReconStep

(* What the holder of the lock knows is true in every reachable state.      *)
THEOREM ConversionInvariance == ConversionSpec => []KInv
<1>1. ConversionInit => KInv
  BY InitKeeps
<1>2. KInv /\ [ConversionNext]_conversionVars => KInv'
  BY StepKeeps
<1> QED BY <1>1, <1>2, PTL DEF ConversionSpec

(* Conversions and settled drift keep the ledger, the schema, the audit     *)
(* trail and every process well typed: a conversion is declared by the tree *)
(* that tries it, and its audits are one for each number it touches.        *)
THEOREM ConversionOKAlways == ConversionSpec => []ConversionOK
<1>1. KInv => ConversionOK
  BY DEF KInv, TypeInv, ReconTypes, Recons, ConversionOK
<1> QED BY <1>1, ConversionInvariance, PTL

-----------------------------------------------------------------------------
(* Every replacement is audited                                              *)

(* The trail gains one row for number q of scope s, and it is this one.     *)
OneNew(s, q, row) == \E k \in NewAudits(s, q) : NewAudits(s, q) = {k} /\ repairs'[k] = row

(* One row of a block appended to the trail is the only one of its number.  *)
LEMMA AppendedBlock ==
  ASSUME KInv, NEW block \in Seq(AuditRows), repairs' = repairs \o block,
         NEW s, NEW q, NEW i \in DOMAIN block, block[i].scope = s, block[i].key = q,
         \A j \in DOMAIN block : block[j].key = q => j = i
  PROVE  OneNew(s, q, block[i])
<1>1. repairs \in Seq(AuditRows)
  BY DEF KInv, TypeInv, TypeOK
<1>2. PICK n \in Nat : n = Len(repairs)
  BY <1>1
<1>3. /\ Len(repairs') = n + Len(block) /\ Len(block) \in Nat /\ DOMAIN block = 1..Len(block)
      /\ \A j \in DOMAIN block : repairs'[n + j] = block[j]
  BY <1>1, <1>2
<1>4. \A k \in (n + 1)..(n + Len(block)) : k - n \in DOMAIN block /\ n + (k - n) = k
  BY <1>2, <1>3
<1>5. NewAudits(s, q) = {k \in (n + 1)..(n + Len(block)) : repairs'[k].scope = s /\ repairs'[k].key = q}
  BY <1>2, <1>3 DEF NewAudits
<1>6. n + i \in (n + 1)..(n + Len(block)) /\ repairs'[n + i] = block[i]
  BY <1>2, <1>3
<1>7. ASSUME NEW k \in (n + 1)..(n + Len(block)), repairs'[k].key = q PROVE k = n + i
  <2>1. k - n \in DOMAIN block /\ repairs'[k] = block[k - n]
    BY <1>3, <1>4, <1>7
  <2>2. k - n = i
    BY <1>7, <2>1
  <2> QED BY <1>2, <1>7, <2>2
<1>8. NewAudits(s, q) = {n + i}
  BY <1>5, <1>6, <1>7
<1> QED BY <1>6, <1>8 DEF OneNew

Audited(s, q) ==
  \E i \in NewAudits(s, q) : /\ NewAudits(s, q) = {i}
                             /\ repairs'[i].old = IdentityOf(ledger[s][q])
                             /\ repairs'[i].new = IdentityOf(ledger'[s][q])

LEMMA SameRowIdentity ==
  ASSUME NEW a, NEW b, SameRow(a, b) PROVE IdentityOf(a) = IdentityOf(b)
BY DEF SameRow, IdentityOf

(* A conversion: the number is forgotten, or a leading file takes it.       *)
LEMMA ConvertIsAudited ==
  ASSUME KInv, NEW p \in Procs, At(p, "convert"), ConvertWrites(p),
         NEW s \in Scopes, NEW q \in Seqs, Recorded(ledger[s][q]), ledger'[s] # ledger[s]
  PROVE  Audited(s, q)
<1> DEFINE L == Leading(p)
           keys == {m.seq : m \in L}
           rows == recon[p].rows
           F == ForgetAudits(p)
           B == ReplaceAudits(p)
           C == F \o B
<1>1. /\ s = Scope(p) /\ L \in SUBSET Migrations /\ keys \in SUBSET Seqs /\ lock = p
      /\ repairs' = repairs \o F \o B
      /\ \A m \in L : ledger'[s][m.seq] = RowOf(m, StatusApplied)
      /\ \A m, n \in L : m.seq = n.seq => m = n
      /\ \A k \in Seqs \ keys : ledger'[s][k] = NoRow
  BY ConvertIs
<1>2. rows \in Records /\ KeysOf(rows) \ keys \in SUBSET Seqs /\ "convert" \in Verbs
  BY RowsRead DEF Verbs, KInv
<1>3. SameRow(rows[q], ledger[s][q])
  BY <1>1 DEF KInv, ReconOf
<1>4. q \in KeysOf(rows) /\ IdentityOf(rows[q]) = IdentityOf(ledger[s][q])
  BY <1>3, SameRowIdentity DEF SameRow, KeysOf
<1>5. F \in Seq(AuditRows) /\ B \in Seq(AuditRows) /\ repairs \in Seq(AuditRows)
  BY ConvertAudits DEF KInv, TypeInv, TypeOK
<1>6. AuditsFor(F, s, KeysOf(rows) \ keys, rows, {})
  BY <1>1, <1>2, AuditSeqIs DEF ForgetAudits
<1>7. AuditsFor(B, s, keys, rows, L)
  BY <1>1, <1>2, AuditSeqIs DEF ReplaceAudits
<1> HIDE DEF L, keys, rows, F, B
<1>8. C \in Seq(AuditRows) /\ repairs' = repairs \o C
  BY <1>1, <1>5
<1>9. /\ DOMAIN C = 1..(Len(F) + Len(B)) /\ DOMAIN F = 1..Len(F) /\ DOMAIN B = 1..Len(B)
      /\ Len(F) \in Nat /\ Len(B) \in Nat
      /\ \A i \in DOMAIN F : i \in DOMAIN C /\ C[i] = F[i]
      /\ \A i \in DOMAIN B : Len(F) + i \in DOMAIN C /\ C[Len(F) + i] = B[i]
      /\ \A i \in DOMAIN C : i \notin DOMAIN F => i - Len(F) \in DOMAIN B /\ C[i] = B[i - Len(F)]
  BY <1>5
<1> HIDE DEF C
<1>10. CASE q \notin keys
  <2>1. PICK i \in DOMAIN F : F[i].key = q
    BY <1>4, <1>6, <1>10 DEF AuditsFor
  <2>2. i \in DOMAIN C /\ C[i] = F[i] /\ C[i].scope = s /\ C[i].key = q
    BY <1>6, <1>9, <2>1 DEF AuditsFor
  <2>3. ASSUME NEW j \in DOMAIN C, C[j].key = q PROVE j = i
    <3>1. CASE j \in DOMAIN F
      BY <1>6, <1>9, <2>1, <2>3, <3>1 DEF AuditsFor
    <3>2. CASE j \notin DOMAIN F
      BY <1>7, <1>9, <1>10, <2>3, <3>2 DEF AuditsFor
    <3> QED BY <3>1, <3>2
  <2>4. OneNew(s, q, C[i])
    BY <1>8, <2>2, <2>3, AppendedBlock
  <2>5. C[i].new = NoIdentity /\ IdentityOf(ledger'[s][q]) = NoIdentity
    BY <1>1, <1>6, <1>10, <2>1, <2>2 DEF AuditsFor, NewIdentity, IdentityOf, Recorded
  <2>6. C[i].old = IdentityOf(ledger[s][q])
    BY <1>4, <1>6, <2>1, <2>2 DEF AuditsFor
  <2> QED BY <2>4, <2>5, <2>6 DEF Audited, OneNew
<1>11. CASE q \in keys
  <2>1. PICK i \in DOMAIN B : B[i].key = q
    BY <1>7, <1>11 DEF AuditsFor
  <2>2. PICK c \in DOMAIN C : c = Len(F) + i /\ C[c] = B[i]
    BY <1>9
  <2>0. C[c].scope = s /\ C[c].key = q
    BY <1>7, <2>1, <2>2 DEF AuditsFor
  <2>3. ASSUME NEW j \in DOMAIN C, C[j].key = q PROVE j = c
    <3>1. j \notin DOMAIN F
      BY <1>6, <1>9, <1>11, <2>3 DEF AuditsFor
    <3>2. j - Len(F) \in DOMAIN B /\ C[j] = B[j - Len(F)]
      BY <1>9, <3>1
    <3>3. j - Len(F) = i
      BY <1>7, <2>1, <2>3, <3>2 DEF AuditsFor
    <3> QED BY <1>9, <2>2, <3>3
  <2>4. OneNew(s, q, C[c])
    BY <1>8, <2>0, <2>3, AppendedBlock
  <2>5. PICK m \in L : m.seq = q
    BY <1>11 DEF keys
  <2>6. FileOf(q, L) = m
    BY <1>1, <2>5, FileOfKey
  <2>7. NewIdentity(q, L) = FileIdentity(m)
    BY <2>5, <2>6 DEF NewIdentity
  <2>8. m \in Migrations
    BY <1>1
  <2>9. IdentityOf(ledger'[s][q]) = FileIdentity(m)
    <3>1. /\ Recorded(RowOf(m, StatusApplied)) /\ ledger'[s][q] = RowOf(m, StatusApplied)
          /\ Identified(RowOf(m, StatusApplied), m)
      BY <1>1, <2>5, <2>8, WrittenRow
    <3> QED BY <3>1 DEF Identified, IdentityOf, FileIdentity
  <2>10. C[c].old = IdentityOf(ledger[s][q])
    BY <1>4, <1>7, <2>1, <2>2 DEF AuditsFor
  <2>11. C[c].new = IdentityOf(ledger'[s][q])
    BY <1>7, <2>1, <2>2, <2>7, <2>9 DEF AuditsFor
  <2> QED BY <2>4, <2>10, <2>11 DEF Audited, OneNew
<1> QED BY <1>10, <1>11

(* Settled drift: only the drifted numbers change.                          *)
LEMMA SettleIsAudited ==
  ASSUME KInv, NEW p \in Procs, At(p, "settle"), SettleWrites(p),
         NEW s \in Scopes, NEW q \in Seqs, Recorded(ledger[s][q]), ledger'[s][q] # ledger[s][q]
  PROVE  Audited(s, q)
<1> DEFINE D == Drifted(call[p].tree, recon[p].rows)
           keys == {m.seq : m \in D}
           rows == recon[p].rows
           C == AuditSeq("verify-content", Scope(p), keys, rows, D)
<1>1. /\ s = Scope(p) /\ D \in SUBSET Migrations /\ q \in keys /\ keys \in SUBSET Seqs /\ lock = p
      /\ repairs' = repairs \o C
      /\ \A m \in D : Identified(ledger'[s][m.seq], m)
      /\ \A m, n \in D : m.seq = n.seq => m = n
  BY SettleIs
<1>2. rows \in Records /\ "verify-content" \in Verbs
  BY RowsRead DEF Verbs, KInv
<1>3. SameRow(rows[q], ledger[s][q])
  BY <1>1 DEF KInv, ReconOf
<1>4. IdentityOf(rows[q]) = IdentityOf(ledger[s][q])
  BY <1>3, SameRowIdentity
<1> HIDE DEF D, keys, rows
<1>5. AuditsFor(C, s, keys, rows, D)
  BY <1>1, <1>2, AuditSeqIs
<1> HIDE DEF C
<1>6. PICK i \in DOMAIN C : C[i].key = q
  BY <1>1, <1>5 DEF AuditsFor
<1>7. OneNew(s, q, C[i])
  <2>1. C \in Seq(AuditRows) /\ C[i].scope = s /\ \A j \in DOMAIN C : C[j].key = q => j = i
    BY <1>5, <1>6 DEF AuditsFor
  <2> QED BY <1>1, <1>6, <2>1, AppendedBlock
<1>8. PICK m \in D : m.seq = q
  BY <1>1 DEF keys
<1>9. FileOf(q, D) = m
  BY <1>1, <1>8, FileOfKey
<1>10. NewIdentity(q, D) = FileIdentity(m)
  BY <1>8, <1>9 DEF NewIdentity
<1>11. IdentityOf(ledger'[s][q]) = FileIdentity(m)
  BY <1>1, <1>8 DEF Identified, IdentityOf, FileIdentity
<1>12. C[i].old = IdentityOf(ledger[s][q]) /\ C[i].new = IdentityOf(ledger'[s][q])
  BY <1>4, <1>5, <1>6, <1>10, <1>11 DEF AuditsFor
<1> QED BY <1>7, <1>12 DEF Audited, OneNew

(* The apply path changes no identity a row has.                            *)
LEMMA StepIsAudited ==
  ASSUME KInv, NEW p \in Procs, ReconStep(p) \/ Migrate(p), NEW s \in Scopes, NEW q \in Seqs,
         Recorded(ledger[s][q]), IdentityOf(ledger[s][q]) # IdentityOf(ledger'[s][q])
  PROVE  Audited(s, q)
<1>1. CASE Migrate(p)
  <2>1. SameIdentity(ledger[s][q], ledger'[s][q])
    BY <1>1, MigrateIs, RowsStay DEF KInv
  <2> QED BY <2>1 DEF SameIdentity, IdentityOf
<1>2. CASE ReconStep(p)
  <2>1. CASE UNCHANGED <<dbVars, schema, stray>>
    BY <2>1 DEF dbVars
  <2>2. CASE At(p, "convert") /\ ConvertWrites(p)
    BY <2>2, ConvertIsAudited
  <2>3. CASE At(p, "settle") /\ SettleWrites(p)
    BY <2>3, SettleIsAudited
  <2> QED BY <1>2, <2>1, <2>2, <2>3, ReconcileIs DEF KInv
<1> QED BY <1>1, <1>2

(* No row is rebound or forgotten but with one audit row of the same        *)
(* transaction, from the identity it had to the one it has (conversion.go:  *)
(* 240-286, 336-353): what was read under the lock is still the row's when  *)
(* the transaction replaces it, and each number is audited once.            *)
THEOREM ReplacementsAreAuditedAlways == ConversionSpec => ReplacementsAreAudited
<1> DEFINE A == \A s \in Scopes, q \in Seqs :
                  LET old == IdentityOf(ledger[s][q])  new == IdentityOf(ledger'[s][q]) IN
                  Recorded(ledger[s][q]) /\ old # new =>
                    \E i \in NewAudits(s, q) : /\ NewAudits(s, q) = {i}
                                               /\ repairs'[i].old = old /\ repairs'[i].new = new
<1>1. ASSUME KInv, [ConversionNext]_conversionVars PROVE [A]_conversionVars
  <2>1. CASE UNCHANGED conversionVars
    BY <2>1
  <2>2. ASSUME NEW p \in Procs, ReconStep(p) \/ Migrate(p) PROVE A
    BY <1>1, <2>2, StepIsAudited DEF Audited
  <2> QED BY <1>1, <2>1, <2>2 DEF ConversionNext, ReconStep
<1> QED BY <1>1, ConversionInvariance, PTL DEF ConversionSpec, ReplacementsAreAudited

-----------------------------------------------------------------------------
(* Who attends to an unfinished row                                          *)

Attending(p) == lock = p /\ pc[p] \in {"exec", "finish"}

(* A step of the apply path that leaves its process attending to a file has *)
(* just claimed it, or run one more of its statements.                      *)
LEMMA Attention ==
  ASSUME TypeInv, NEW p \in Procs, lock = p => AtWork(p), MigrateStep(p)
  PROVE  \/ Quiet /\ ~Attending(p)'
         \/ \E m \in todo[p] :
              \/ Starts(p, m) /\ (Attending(p)' => stmt'[p] = 1 /\ UNCHANGED <<call, todo>>)
              \/ Executes(p, m) /\ (Attending(p)' => stmt'[p] = stmt[p] + 1 /\ UNCHANGED <<call, todo>>)
              \/ (Commits(p, m) \/ Completes(p, m)) /\ ~Attending(p)'
<1>0. p \in DOMAIN pc /\ p \in DOMAIN stmt /\ p # Nobody
  BY CallerAssumption DEF TypeInv, TypeOK, CallerAssumption
<1>1. CASE ~Attending(p)'
  BY <1>1, WriteCases DEF Effects
<1>2. CASE ClaimNoTx(p)
  <2>1. PICK m \in todo[p] : ClaimRow(p, m)
    BY <1>2 DEF ClaimNoTx
  <2>2. stmt'[p] = 1 /\ UNCHANGED <<call, todo>>
    BY <1>0, <1>2 DEF ClaimNoTx
  <2> QED BY <2>1, <2>2, ClaimIs
<1>3. CASE ExecNoTx(p)
  <2>1. PICK m \in todo[p] : RunStatement(p, m) /\ stmt' = [stmt EXCEPT ![p] = stmt[p] + 1]
    BY <1>3 DEF ExecNoTx
  <2>2. stmt'[p] = stmt[p] + 1 /\ UNCHANGED <<call, todo>>
    BY <1>0, <1>3, <2>1 DEF ExecNoTx
  <2> QED BY <2>1, <2>2, RunIs
<1>4. CASE Begin(p) \/ Validate(p)
  BY <1>0, <1>1, <1>4 DEF Begin, Validate, Goto, Attending
<1>5. CASE EnsureSetup(p) \/ AcquireLock(p) \/ ReadForStamps(p) \/ Stamp(p) \/ CheckUnlocked(p) \/ EnsureSchema(p)
  BY <1>0, <1>1, <1>5 DEF EnsureSetup, AcquireLock, ReadForStamps, Stamp, CheckUnlocked, EnsureSchema,
                          Return, Goto, Attending
<1>6. CASE CheckLocked(p) \/ MarkFailed(p) \/ Unlock(p)
  BY <1>0, <1>1, <1>6 DEF CheckLocked, MarkFailed, Unlock, Unwind, Return, Goto, Attending
<1>7. CASE ApplyOne(p) \/ FinishNoTx(p)
  BY <1>0, <1>1, <1>7 DEF ApplyOne, FinishNoTx, Advance, Unwind, Goto, Attending
<1>8. CASE StatementFails(p)
  BY <1>0, <1>1, <1>8 DEF StatementFails, ErrorPath, Unwind, Return, Goto, Attending
<1>9. CASE ConnectionLost(p) \/ Crash(p)
  BY <1>0, <1>1, <1>9 DEF ConnectionLost, Crash, ReleaseHeld, Attending
<1> QED BY <1>2, <1>3, <1>4, <1>5, <1>6, <1>7, <1>8, <1>9 DEF MigrateStep, Waits, Works, Faults

(* The others hold what they held.                                          *)
LEMMA OthersAttend ==
  ASSUME TypeInv, NEW p \in Procs, MigrateStep(p) \/ ReconStep(p), NEW r \in Procs, r # p
  PROVE  /\ lock' = r <=> lock = r
         /\ pc'[r] = pc[r] /\ call'[r] = call[r] /\ todo'[r] = todo[r] /\ stmt'[r] = stmt[r]
<1>0. p # Nobody /\ r # Nobody
  BY CallerAssumption DEF CallerAssumption
<1>1. CASE MigrateStep(p)
  <2>1. lock = r => lock' = r
    BY <1>1, LockStaysWithOthers DEF MigrateStep
  <2>2. lock' = r => lock = r
    BY <1>0, <1>1, LockMoves
  <2> QED BY <1>1, <2>1, <2>2, OthersUntouched DEF MigrateStep
<1>2. CASE ReconStep(p)
  <2>1. lock' = r => lock = r
    BY <1>0, <1>2, ReconcileIs
  <2>2. lock = r => lock' = lock
    BY <1>0, <1>2 DEF ReconStep, Decides, Consider, LookForTables, LockForReconcile, Reread, Convert, TryNext,
                      RefuseConversion, Settle, RefuseDrift, UnlockReconcile, ReconcileFails, ReconcileCut,
                      ReleaseHeld
  <2>3. Stays(p) \/ Leaves(p)
    BY <1>2, ReconcileIs
  <2> QED BY <2>1, <2>2, <2>3 DEF Stays, Leaves, Leave, Return, Goto, TypeInv, TypeOK
<1> QED BY <1>1, <1>2

(* No claim on scope s: nothing of it is attended to or under way.          *)
LEMMA NoClaim ==
  ASSUME NEW s, \A p \in Procs : ~Claims(p, s)
  PROVE  (\A q : ~Attended(s, q)) /\ (\A o : ~InFlight(s, o))
BY DEF Attended, InFlight

(* The only claim on a scope is that of the holder of the lock.             *)
LEMMA OneClaim ==
  ASSUME KInv, NEW p \in Procs, NEW s, Claims(p, s), NEW m \in todo[p], Claim(p, m)
  PROVE  /\ \A q : Attended(s, q) <=> q = m.seq
         /\ \A o : InFlight(s, o) <=> \E k \in 1..(stmt[p] - 1) : o \in Shape[m][k]
<1>1. \A r \in Procs : Claims(r, s) => r = p
  BY DEF Claims
<1>2. \A n \in todo[p] : IsNext(p, n) <=> n = m
  BY OneNext DEF KInv, Claims, Claim
<1> QED BY <1>1, <1>2 DEF Attended, InFlight

(* The holder of the lock has claimed what it attends to.                   *)
LEMMA ClaimOf ==
  ASSUME KInv, NEW p \in Procs, NEW s, Claims(p, s)
  PROVE  \E m \in todo[p] : Claim(p, m)
BY DEF KInv, AtWork, Claims, OnNoTx

(* An unfinished row that nobody attends to: nothing is said.               *)
LEMMA Unattended ==
  ASSUME NEW s \in Scopes, NEW q \in Seqs, IsDirty(ledger'[s][q]), \A p \in Procs : ~Claims(p, s)'
  PROVE  Explained(s)'
BY DEF Explained, Attended

(* Scope s as it was, and those who attend to it too.                       *)
LEMMA ExplainedStays ==
  ASSUME NEW s \in Scopes, Explained(s), \A q \in Seqs : SameRow(ledger[s][q], ledger'[s][q]),
         schema'[s] = schema[s], stray'[s] = stray[s],
         \A q \in Seqs : Attended(s, q)' => Attended(s, q),
         \A o \in Objects : InFlight(s, o)' <=> InFlight(s, o)
  PROVE  Explained(s)'
<1>1. SUFFICES ASSUME \A q \in Seqs : IsDirty(ledger'[s][q]) => Attended(s, q)'
               PROVE  \E files \in SUBSET Migrations : AccountsFor(files, s)' /\ Makes(files, s)'
  BY DEF Explained
<1>2. \A q \in Seqs : IsDirty(ledger[s][q]) => Attended(s, q)
  BY <1>1 DEF SameRow
<1>3. PICK files \in SUBSET Migrations : AccountsFor(files, s) /\ Makes(files, s)
  BY <1>2 DEF Explained
<1>4. AccountsFor(files, s)'
  <2>1. \A q \in Seqs : IsApplied(ledger'[s][q]) <=> IsApplied(ledger[s][q])
    BY DEF SameRow, IsApplied
  <2>2. ASSUME NEW m \in files PROVE m.seq \in Seqs /\ IsApplied(ledger'[s][m.seq]) /\ Identifies(ledger'[s][m.seq], m)
    BY <1>3, <2>1, <2>2 DEF AccountsFor, SameRow, Identifies, IsApplied
  <2> QED BY <1>3, <2>1, <2>2 DEF AccountsFor
<1>5. Makes(files, s)'
  BY <1>3 DEF Makes
<1> QED BY <1>4, <1>5

-----------------------------------------------------------------------------
(* Migrate and the explanation                                               *)

(* A file that is done joins those that account for its scope.              *)
LEMMA FileJoins ==
  ASSUME NEW p \in Procs, NEW m \in Migrations, NEW s \in Scopes, s = Scope(p), m.seq \in Seqs,
         NEW files \in SUBSET Migrations, AccountsFor(files, s), ~IsApplied(ledger[s][m.seq]),
         OneRow(p, m, RowOf(m, StatusApplied))
  PROVE  AccountsFor(files \cup {m}, s)'
<1>1. /\ ledger'[s][m.seq] = RowOf(m, StatusApplied)
      /\ \A q \in Seqs \ {m.seq} : ledger'[s][q] = ledger[s][q]
  BY DEF OneRow
<1>2. IsApplied(RowOf(m, StatusApplied)) /\ Identifies(RowOf(m, StatusApplied), m)
  BY WrittenRow DEF IsApplied, StatusApplied, StatusRunning
<1>3. \A n \in files : n.seq \in Seqs \ {m.seq}
  BY DEF AccountsFor
<1>4. \A n \in files \cup {m} : /\ n.seq \in Seqs /\ IsApplied(ledger'[s][n.seq])
                                /\ Identifies(ledger'[s][n.seq], n)
  BY <1>1, <1>2, <1>3 DEF AccountsFor
<1>5. \A q \in Seqs : IsApplied(ledger'[s][q]) => \E n \in files \cup {m} : n.seq = q
  BY <1>1 DEF AccountsFor
<1>6. \A n, l \in files \cup {m} : n.seq = l.seq => n = l
  BY <1>3 DEF AccountsFor
<1> QED BY <1>4, <1>5, <1>6 DEF AccountsFor

(* Where nothing is unfinished, and nobody attends to anything, there are   *)
(* files that account for what is there.                                    *)
LEMMA CleanScope ==
  ASSUME NEW s \in Scopes, Explained(s), \A q \in Seqs : ~IsDirty(ledger[s][q]), \A r \in Procs : ~Claims(r, s)
  PROVE  \E files \in SUBSET Migrations :
           /\ AccountsFor(files, s)
           /\ \A o \in Objects : o \in schema[s] <=> o \in stray[s] \/ \E n \in files : o \in Effect(n)
BY NoClaim DEF Explained, Makes

(* The holder of the lock is the only one to attend to anything.            *)
LEMMA HolderAttends ==
  ASSUME KInv, NEW p \in Procs, MigrateStep(p), lock = p
  PROVE  \A r \in Procs \ {p} : ~Attending(r) /\ ~Attending(r)'
BY OthersAttend DEF KInv, Attending

LEMMA StartExplained ==
  ASSUME KInv, NEW p \in Procs, Migrate(p), NEW s \in Scopes, s = Scope(p), Explained(s),
         NEW m \in todo[p], Starts(p, m), Attending(p)' => stmt'[p] = 1 /\ UNCHANGED <<call, todo>>
  PROVE  Explained(s)'
<1>0. MigrateStep(p) /\ lock = p /\ pc[p] = "apply" /\ (lock = p => AtWork(p))
  BY MigrateIs DEF Starts, KInv
<1>1. m \in Migrations /\ m.seq \in Seqs
  BY <1>0, OwnRow DEF KInv
<1>2. /\ ledger'[s][m.seq] = RowOf(m, StatusRunning) /\ ~Recorded(ledger[s][m.seq])
      /\ \A q \in Seqs \ {m.seq} : ledger'[s][q] = ledger[s][q]
      /\ schema' = schema /\ stray' = stray
  BY <1>0, <1>1, SchemaOfEffect, MigrateIs DEF Starts, OneRow, Row, KInv
<1>3. IsDirty(RowOf(m, StatusRunning)) /\ ~IsApplied(RowOf(m, StatusRunning))
  BY <1>1, WrittenRow DEF IsApplied
<1>4. CASE ~Attending(p)'
  BY <1>0, <1>1, <1>2, <1>3, <1>4, HolderAttends, Unattended DEF Claims, Attending
<1>5. CASE Attending(p)'
  <2>1. PICK files \in SUBSET Migrations :
          /\ AccountsFor(files, s)
          /\ \A o \in Objects : o \in schema[s] <=> o \in stray[s] \/ \E n \in files : o \in Effect(n)
    <3>1. \A q \in Seqs : ~IsDirty(ledger[s][q])
      BY <1>0 DEF KInv, AtWork
    <3>2. \A r \in Procs : ~Claims(r, s)
      BY <1>0 DEF Claims
    <3> QED BY <3>1, <3>2, CleanScope
  <2>2. AccountsFor(files, s)'
    <3>1. \A q \in Seqs : IsApplied(ledger'[s][q]) <=> IsApplied(ledger[s][q])
      BY <1>2, <1>3 DEF IsApplied
    <3>2. \A n \in files : n.seq \in Seqs /\ n.seq # m.seq
      BY <1>2, <2>1 DEF AccountsFor, IsApplied
    <3> QED BY <1>2, <2>1, <3>1, <3>2 DEF AccountsFor
  <2>3. \A o : ~InFlight(s, o)'
    <3>1. \A r \in Procs : Claims(r, s)' => r = p
      BY <1>0, HolderAttends DEF Claims, Attending
    <3>2. 1..(stmt'[p] - 1) = {}
      BY <1>5
    <3> QED BY <3>1, <3>2 DEF InFlight
  <2>4. Makes(files, s)'
    BY <1>2, <2>1, <2>3 DEF Makes
  <2> QED BY <2>2, <2>4 DEF Explained
<1> QED BY <1>4, <1>5

LEMMA ExecuteExplained ==
  ASSUME KInv, NEW p \in Procs, Migrate(p), NEW s \in Scopes, s = Scope(p), Explained(s),
         NEW m \in todo[p], Executes(p, m),
         Attending(p)' => stmt'[p] = stmt[p] + 1 /\ UNCHANGED <<call, todo>>
  PROVE  Explained(s)'
<1>0. MigrateStep(p) /\ lock = p /\ pc[p] = "exec" /\ Claim(p, m) /\ ledger' = ledger /\ stray' = stray
  BY MigrateIs DEF Executes
<1>1. m \in Migrations /\ m.seq \in Seqs
  BY <1>0, OwnRow DEF KInv
<1>2. /\ stmt[p] \in 1..m.stmts
      /\ \A o : o \in schema'[s] <=> o \in schema[s] \/ o \in Shape[m][stmt[p]]
  <2>1. lock = p => AtWork(p)
    BY DEF KInv
  <2> QED BY <1>0, <2>1, SchemaOfEffect, MigrateIs DEF KInv
<1>3. CASE ~Attending(p)'
  <2>1. IsDirty(ledger'[s][m.seq])
    BY <1>0 DEF Claim, Row
  <2> QED BY <1>0, <1>1, <1>3, <2>1, HolderAttends, Unattended DEF Claims, Attending
<1>4. CASE Attending(p)'
  <2>1. Claims(p, s) /\ Claims(p, s)'
    BY <1>0, <1>4 DEF Claims, Attending, Scope
  <2>2. \A r \in Procs : Claims(r, s)' => r = p
    BY <1>0, HolderAttends DEF Claims, Attending
  <2>3. /\ \A q : Attended(s, q) <=> q = m.seq
        /\ \A o : InFlight(s, o) <=> \E k \in 1..(stmt[p] - 1) : o \in Shape[m][k]
    BY <1>0, <2>1, OneClaim
  <2>4. \A q \in Seqs : IsDirty(ledger[s][q]) => Attended(s, q)
    BY <1>0, <2>3 DEF Claim
  <2>5. PICK files \in SUBSET Migrations : AccountsFor(files, s) /\ Makes(files, s)
    BY <2>4 DEF Explained
  <2>6. \A n \in todo'[p] : IsNext(p, n)' <=> n = m
    <3>1. \A n \in todo[p] : IsNext(p, n) <=> n = m
      BY <1>0, OneNext DEF KInv, Claim
    <3> QED BY <1>4, <3>1 DEF IsNext
  <2>7. \A o : InFlight(s, o)' <=> InFlight(s, o) \/ o \in Shape[m][stmt[p]]
    <3>1. \A o : InFlight(s, o)' <=> \E k \in 1..(stmt'[p] - 1) : o \in Shape[m][k]
      BY <1>4, <2>1, <2>2, <2>6 DEF InFlight
    <3>2. stmt'[p] - 1 = stmt[p] /\ stmt[p] \in Nat \ {0}
      BY <1>1, <1>2, <1>4, UnitsType
    <3>3. \A k : k \in 1..stmt[p] <=> k \in 1..(stmt[p] - 1) \/ k = stmt[p]
      BY <3>2
    <3> QED BY <2>3, <3>1, <3>2, <3>3
  <2>8. AccountsFor(files, s)'
    BY <1>0, <2>5 DEF AccountsFor
  <2>9. Makes(files, s)'
    BY <1>0, <1>2, <2>5, <2>7 DEF Makes
  <2> QED BY <2>8, <2>9 DEF Explained
<1> QED BY <1>3, <1>4

LEMMA DoneExplained ==
  ASSUME KInv, NEW p \in Procs, Migrate(p), NEW s \in Scopes, s = Scope(p), Explained(s),
         NEW m \in todo[p], Commits(p, m) \/ Completes(p, m), ~Attending(p)'
  PROVE  Explained(s)'
<1>0. /\ MigrateStep(p) /\ lock = p /\ pc[p] \in {"apply", "finish"} /\ stray' = stray /\ AtWork(p)
      /\ OneRow(p, m, RowOf(m, StatusApplied))
  BY MigrateIs DEF Commits, Completes, KInv
<1>1. m \in Migrations /\ m.seq \in Seqs
  BY <1>0, OwnRow DEF KInv
<1>2. \A r \in Procs : ~Claims(r, s)'
  BY <1>0, HolderAttends DEF Claims, Attending
<1>3. \A q : ~Attended(s, q)' /\ \A o : ~InFlight(s, o)'
  BY <1>2 DEF Attended, InFlight
<1>4. \E files \in SUBSET Migrations :
        /\ AccountsFor(files, s) /\ ~IsApplied(ledger[s][m.seq])
        /\ \A o \in Objects : o \in schema'[s] <=>
             o \in stray[s] \/ (\E n \in files : o \in Effect(n)) \/ o \in Effect(m)
  <2>1. CASE Commits(p, m)
    <3>1. \A o : o \in schema'[s] <=> o \in schema[s] \/ o \in Effect(m)
      BY <1>0, <2>1, SchemaOfEffect, MigrateIs DEF KInv
    <3>2. \A q \in Seqs : ~IsDirty(ledger[s][q])
      BY <2>1 DEF KInv, AtWork, Commits
    <3>3. \A r \in Procs : ~Claims(r, s)
      BY <2>1 DEF Claims, Commits
    <3>4. ~IsApplied(ledger[s][m.seq])
      BY <2>1 DEF Commits, Row, IsApplied
    <3> QED BY <3>1, <3>2, <3>3, <3>4, CleanScope
  <2>2. CASE Completes(p, m)
    <3>1. schema' = schema
      BY <1>0, <2>2, SchemaOfEffect, MigrateIs DEF KInv
    <3>2. Claim(p, m) /\ stmt[p] = m.stmts + 1 /\ Claims(p, s)
      BY <2>2 DEF Completes, Claim, Claims
    <3>3. /\ \A q : Attended(s, q) <=> q = m.seq
          /\ \A o : InFlight(s, o) <=> \E k \in 1..(stmt[p] - 1) : o \in Shape[m][k]
      BY <3>2, OneClaim
    <3>4. \A o : InFlight(s, o) <=> o \in Effect(m)
      <4>1. stmt[p] - 1 = m.stmts
        BY <1>1, <3>2, UnitsType
      <4> QED BY <1>1, <3>3, <4>1, EffectIs
    <3>5. \A q \in Seqs : IsDirty(ledger[s][q]) => Attended(s, q)
      BY <3>2, <3>3 DEF Claim
    <3>6. ~IsApplied(ledger[s][m.seq])
      BY <3>2 DEF Claim, Row, IsApplied
    <3> QED BY <3>1, <3>4, <3>5, <3>6 DEF Explained, Makes
  <2> QED BY <2>1, <2>2
<1>5. PICK files \in SUBSET Migrations :
        /\ AccountsFor(files, s) /\ ~IsApplied(ledger[s][m.seq])
        /\ \A o \in Objects : o \in schema'[s] <=>
             o \in stray[s] \/ (\E n \in files : o \in Effect(n)) \/ o \in Effect(m)
  BY <1>4
<1>6. AccountsFor(files \cup {m}, s)'
  BY <1>0, <1>1, <1>5, FileJoins
<1>7. Makes(files \cup {m}, s)'
  BY <1>0, <1>3, <1>5 DEF Makes
<1>8. files \cup {m} \in SUBSET Migrations
  BY <1>1
<1> QED BY <1>6, <1>7, <1>8 DEF Explained

LEMMA MigrateExplained ==
  ASSUME KInv, NEW p \in Procs, Migrate(p), NEW s \in Scopes, Explained(s)
  PROVE  Explained(s)'
<1>0. MigrateStep(p) /\ (lock = p => AtWork(p)) /\ stray' = stray /\ Grows
  BY MigrateIs DEF KInv
<1>1. \A r \in Procs \ {p} : Claims(r, s)' <=> Claims(r, s)
  BY <1>0, OthersAttend DEF KInv, Claims, Scope
<1>2. ASSUME \A r \in Procs : Claims(r, s)' <=> Claims(r, s), ~Claims(p, s),
             schema'[s] = schema[s], \A q \in Seqs : SameRow(ledger[s][q], ledger'[s][q])
      PROVE  Explained(s)'
  <2>1. ASSUME NEW r \in Procs, Claims(r, s) \/ Claims(r, s)'
        PROVE  r # p /\ todo'[r] = todo[r] /\ stmt'[r] = stmt[r]
    BY <1>0, <1>2, <2>1, OthersAttend DEF KInv
  <2>2. \A q \in Seqs : Attended(s, q)' <=> Attended(s, q)
    BY <1>2, <2>1 DEF Attended, IsNext
  <2>3. \A o \in Objects : InFlight(s, o)' <=> InFlight(s, o)
    BY <1>2, <2>1 DEF InFlight, IsNext
  <2> QED BY <1>0, <1>2, <2>2, <2>3, ExplainedStays
<1>3. CASE Quiet /\ ~Attending(p)'
  <2>1. schema' = schema
    BY <1>0, <1>3, SchemaOfEffect DEF KInv
  <2>2. ~Claims(p, s)'
    BY <1>3 DEF Claims, Attending
  <2>3. CASE Claims(p, s)
    <3>1. PICK m \in todo[p] : Claim(p, m)
      BY <2>3, ClaimOf
    <3>2. m.seq \in Seqs /\ IsDirty(ledger[s][m.seq])
      BY <2>3, <3>1, OwnRow DEF KInv, Claim, Claims, Row
    <3>3. IsDirty(ledger'[s][m.seq])
      BY <1>3, <3>2 DEF Quiet, SameRow
    <3>4. \A r \in Procs : ~Claims(r, s)'
      BY <1>1, <2>2, <2>3 DEF Claims
    <3> QED BY <3>2, <3>3, <3>4, Unattended
  <2>4. CASE ~Claims(p, s)
    BY <1>1, <1>2, <1>3, <2>1, <2>2, <2>4 DEF Quiet
  <2> QED BY <2>3, <2>4
<1>4. ASSUME NEW m \in todo[p], Starts(p, m) \/ Executes(p, m) \/ Commits(p, m) \/ Completes(p, m),
             s # Scope(p), Attending(p)' => UNCHANGED call
      PROVE  Explained(s)'
  <2>1. ~Claims(p, s) /\ ~Claims(p, s)'
    BY <1>4 DEF Claims, Attending, Scope
  <2>2. \A q \in Seqs : SameRow(ledger[s][q], ledger'[s][q])
    BY <1>4, UnchangedRows DEF Starts, Executes, Commits, Completes, OneRow, SameRow
  <2>3. schema'[s] = schema[s]
    BY <1>0, <1>4, SchemaOfEffect DEF KInv
  <2> QED BY <1>1, <1>2, <2>1, <2>2, <2>3
<1>5. ASSUME NEW m \in todo[p], Starts(p, m), Attending(p)' => stmt'[p] = 1 /\ UNCHANGED <<call, todo>>
      PROVE  Explained(s)'
  BY <1>4, <1>5, StartExplained
<1>6. ASSUME NEW m \in todo[p], Executes(p, m),
             Attending(p)' => stmt'[p] = stmt[p] + 1 /\ UNCHANGED <<call, todo>>
      PROVE  Explained(s)'
  BY <1>4, <1>6, ExecuteExplained
<1>7. ASSUME NEW m \in todo[p], Commits(p, m) \/ Completes(p, m), ~Attending(p)'
      PROVE  Explained(s)'
  BY <1>4, <1>7, DoneExplained
<1> QED BY <1>0, <1>3, <1>5, <1>6, <1>7, Attention DEF KInv

-----------------------------------------------------------------------------
(* Conversions, settled drift and the explanation                            *)

(* Every step of reconcile is taken at the first check, where its process   *)
(* attends to nothing; whoever does goes on.                                *)
LEMMA ReconcileAttends ==
  ASSUME KInv, NEW p \in Procs, ReconStep(p), NEW s \in Scopes
  PROVE  /\ \A q \in Seqs : Attended(s, q)' <=> Attended(s, q)
         /\ \A o \in Objects : InFlight(s, o)' <=> InFlight(s, o)
<1>1. ~Claims(p, s) /\ ~Claims(p, s)'
  <2>1. pc[p] = "check" /\ pc'[p] \in {"check", "idle"}
    BY ReconcileIs DEF Stays, Leaves, Leave, Return, Goto, KInv, TypeInv, TypeOK
  <2> QED BY <2>1 DEF Claims
<1>2. \A r \in Procs \ {p} : Claims(r, s)' <=> Claims(r, s)
  BY OthersAttend DEF KInv, Claims, Scope
<1>3. ASSUME NEW r \in Procs, Claims(r, s) \/ Claims(r, s)'
      PROVE  (Claims(r, s)' <=> Claims(r, s)) /\ todo'[r] = todo[r] /\ stmt'[r] = stmt[r]
  BY <1>1, <1>2, <1>3, OthersAttend DEF KInv
<1> QED BY <1>3 DEF Attended, InFlight, IsNext

(* A conversion leaves the leading files, and nothing else.                 *)
LEMMA ConvertExplained ==
  ASSUME KInv, NEW p \in Procs, ReconStep(p), At(p, "convert"), ConvertWrites(p),
         NEW s \in Scopes, Explained(s)
  PROVE  Explained(s)'
<1>1. CASE s # Scope(p)
  <2>1. ledger'[s] = ledger[s] /\ schema'[s] = schema[s] /\ stray'[s] = stray[s]
    BY <1>1, ConvertIs
  <2>2. \A q \in Seqs : SameRow(ledger[s][q], ledger'[s][q])
    BY <2>1 DEF SameRow
  <2> QED BY <2>1, <2>2, ReconcileAttends, ExplainedStays
<1>2. CASE s = Scope(p)
  <2>0. PICK L : L = Leading(p)
    OBVIOUS
  <2>1. /\ L \subseteq Migrations /\ \A m \in L : m.seq \in Seqs /\ ledger'[s][m.seq] = RowOf(m, StatusApplied)
        /\ \A m, n \in L : m.seq = n.seq => m = n
        /\ \A q \in Seqs \ {m.seq : m \in L} : ledger'[s][q] = NoRow
        /\ schema'[s] = FreshBuild(L) /\ stray'[s] = {} /\ lock = p
    BY <1>2, <2>0, ConvertIs
  <2>2. \A r \in Procs : ~Claims(r, s)
    BY <2>1 DEF Claims, At, Reconciling
  <2>3. \A o \in Objects : ~InFlight(s, o)'
    BY <2>2, NoClaim, ReconcileAttends
  <2>4. \A m \in L : IsApplied(RowOf(m, StatusApplied)) /\ Identifies(RowOf(m, StatusApplied), m)
    BY <2>1, WrittenRow DEF IsApplied, StatusApplied, StatusRunning
  <2>5. \A q \in Seqs : IsApplied(ledger'[s][q]) => \E m \in L : m.seq = q
    BY <2>1 DEF IsApplied, Recorded
  <2>6. AccountsFor(L, s)'
    BY <2>1, <2>4, <2>5 DEF AccountsFor
  <2>7. Makes(L, s)'
    BY <2>1, <2>3 DEF Makes, FreshBuild
  <2> QED BY <2>1, <2>6, <2>7 DEF Explained
<1> QED BY <1>1, <1>2

(* Of the same tokens, of the same effect.                                  *)
LEMMA SameEffect ==
  ASSUME NEW m \in Migrations, NEW f \in Migrations, m.sql = f.sql PROVE Effect(m) = Effect(f)
BY ConversionAssumption DEF ConversionAssumption, Effect

(* The row of a file of the tree whose name it does not contradict: either  *)
(* it is that file's once drift is settled, or the file that accounts for   *)
(* it now has the same tokens.                                              *)
LEMMA SettledFile ==
  ASSUME KInv, NEW p \in Procs, At(p, "settle"), SettleWrites(p),
         NEW m \in RecordedFiles(p), ~IsMismatch(m, recon[p].rows[m.seq]),
         ~IsDirty(Row(p, m)),
         NEW f \in Migrations, Identifies(Row(p, m), f)
  PROVE  \/ Identifies(ledger'[Scope(p)][m.seq], m)
         \/ Effect(m) = Effect(f)
<1> DEFINE old == Row(p, m)
           read == recon[p].rows[m.seq]
           D == Drifted(call[p].tree, recon[p].rows)
<1>1. /\ m \in Files(call[p].tree) /\ m \in Migrations /\ m.seq \in Seqs /\ Recorded(read)
      /\ Scope(p) \in Scopes /\ lock = p
  BY SettleIs, TreeKeys DEF RecordedFiles, KInv, At, Reconciling
<1>2. SameRow(read, old) /\ DigestsFit(old)
  BY <1>1 DEF KInv, ReconOf, RowsOK, Row
<1>3. CASE m \in D
  BY <1>3, SettleIs DEF Identified, Identifies, ContentDigest
<1>4. CASE m \notin D
  <2>1. ~IsDrift(m, read)
    BY <1>1, <1>4 DEF Drifted
  <2>2. IsApplied(read) /\ old.filename \in {NoName, m.name}
    BY <1>1, <1>2 DEF SameRow, IsApplied, IsMismatch
  <2>3. CASE old.digest \in {NoDigest, m.bytes}
    <3>1. m.seq \notin {n.seq : n \in D}
      BY <1>1, <1>4, TreeKeys DEF Drifted, KInv, At, Reconciling
    <3>2. ledger'[Scope(p)][m.seq] = old
      BY <1>1, <3>1, SettleIs DEF Row
    <3> QED BY <2>2, <2>3, <3>2 DEF Identifies
  <2>4. CASE old.digest \notin {NoDigest, m.bytes}
    <3>1. read.semantic = m.sql /\ read.digest = old.digest
      BY <1>1, <1>2, <2>1, <2>2, <2>4 DEF IsDrift, SameRow, ContentDigest, SemanticContentDigest
    <3>2. m.sql # NoDigest
      BY <1>1, TokensAreDigests DEF SemanticContentDigest
    <3>3. old.semantic = m.sql /\ Recorded(old)
      BY <1>1, <1>2, <3>1, <3>2 DEF SameRow
    <3>4. PICK n \in Migrations : old.digest = n.bytes /\ old.semantic = n.sql
      BY <1>2, <3>2, <3>3 DEF DigestsFit, ContentDigest, SemanticContentDigest
    <3>5. f.bytes = n.bytes
      BY <2>4, <3>4 DEF Identifies
    <3>6. f.sql = n.sql
      BY <3>4, <3>5, FilesAssumption DEF FilesAssumption
    <3> QED BY <1>1, <3>3, <3>4, <3>6, SameEffect
  <2> QED BY <2>3, <2>4
<1> QED BY <1>3, <1>4

(* Settled drift: the files of the tree take over the rows that are theirs, *)
(* and make together what is there.                                         *)
LEMMA SettleExplained ==
  ASSUME KInv, RestampsOwnFiles, NEW p \in Procs, ReconStep(p), At(p, "settle"), SettleWrites(p),
         NEW s \in Scopes, Explained(s)
  PROVE  Explained(s)'
<1>0. lock = p /\ BuildUnchanged(p) /\ UNCHANGED <<schema, stray>>
  BY DEF SettleWrites
<1>1. CASE s # Scope(p)
  <2>1. ledger'[s] = ledger[s]
    BY <1>1, SettleIs
  <2>2. \A q \in Seqs : SameRow(ledger[s][q], ledger'[s][q])
    BY <2>1 DEF SameRow
  <2> QED BY <1>0, <2>2, ReconcileAttends, ExplainedStays
<1>2. CASE s = Scope(p)
  <2> DEFINE D == Drifted(call[p].tree, recon[p].rows)
             T == RecordedFiles(p)
  <2>1. /\ D \subseteq Files(call[p].tree)
        /\ \A m \in D : /\ m.seq \in Seqs /\ IsApplied(ledger[s][m.seq])
                        /\ IsApplied(ledger'[s][m.seq]) /\ Identifies(ledger'[s][m.seq], m)
        /\ \A q \in Seqs \ {m.seq : m \in D} : ledger'[s][q] = ledger[s][q]
    BY <1>2, SettleIs DEF Row, Identified, Identifies, ContentDigest
  <2>2. /\ T \subseteq Migrations /\ \A m \in T : m.seq \in Seqs
        /\ \A m, n \in T : m.seq = n.seq => m = n
        /\ D \subseteq T
    <3>1. pc[p] # "idle"
      BY DEF At, Reconciling
    <3>2. D \subseteq T
      BY <2>1 DEF Drifted, RecordedFiles, IsDrift, IsApplied
    <3> QED BY <3>1, <3>2, TreeKeys DEF RecordedFiles, KInv
  <2>3. \A m \in T : Recorded(ledger[s][m.seq])
    BY <1>0, <1>2, <2>2 DEF RecordedFiles, KInv, ReconOf, SameRow
  <2>4. \A r \in Procs : ~Claims(r, s)
    BY <1>0 DEF Claims, At, Reconciling
  <2>5. (\A q \in Seqs : ~Attended(s, q)') /\ (\A o \in Objects : ~InFlight(s, o)')
    BY <2>4, NoClaim, ReconcileAttends
  <2>6. CASE \E q \in Seqs : IsDirty(ledger'[s][q])
    BY <2>5, <2>6 DEF Explained
  <2>7. CASE \A q \in Seqs : ~IsDirty(ledger'[s][q])
    <3>1. \A q \in Seqs : ~IsDirty(ledger[s][q])
      BY <2>1, <2>7 DEF IsApplied
    <3>2. PICK old \in SUBSET Migrations :
            /\ AccountsFor(old, s)
            /\ \A o \in Objects : o \in schema[s] <=> o \in stray[s] \/ \E n \in old : o \in Effect(n)
      BY <2>4, <3>1, CleanScope
    <3> DEFINE own == {m \in T : Identifies(ledger'[s][m.seq], m)}
               rest == {f \in old : f.seq \notin {m.seq : m \in own}}
    <3>3. ASSUME NEW f \in rest PROVE f.seq \in Seqs /\ ledger'[s][f.seq] = ledger[s][f.seq]
      <4>1. f.seq \in Seqs
        BY <3>2 DEF AccountsFor
      <4>2. f.seq \notin {m.seq : m \in D}
        BY <2>1, <2>2
      <4> QED BY <2>1, <4>1, <4>2
    <3>4. \A m \in T : IsApplied(ledger[s][m.seq]) /\ IsApplied(ledger'[s][m.seq])
      <4>1. \A m \in T : IsApplied(ledger[s][m.seq])
        BY <2>2, <2>3, <3>1 DEF IsApplied
      <4> QED BY <2>1, <2>2, <4>1
    <3>5. PICK files \in SUBSET Migrations : files = own \cup rest
      <4>1. own \cup rest \in SUBSET Migrations
        BY <2>2
      <4> QED BY <4>1
    <3>6. \A n \in files : n.seq \in Seqs /\ IsApplied(ledger'[s][n.seq]) /\ Identifies(ledger'[s][n.seq], n)
      <4>1. \A n \in own : n.seq \in Seqs /\ IsApplied(ledger'[s][n.seq]) /\ Identifies(ledger'[s][n.seq], n)
        BY <2>2, <3>4
      <4>2. \A n \in rest : n.seq \in Seqs /\ IsApplied(ledger'[s][n.seq]) /\ Identifies(ledger'[s][n.seq], n)
        BY <3>2, <3>3 DEF AccountsFor
      <4> QED BY <3>5, <4>1, <4>2
    <3>7. ASSUME NEW q \in Seqs, IsApplied(ledger'[s][q]) PROVE \E n \in files : n.seq = q
      <4>1. IsApplied(ledger[s][q])
        BY <2>1, <3>7
      <4>2. PICK f \in old : f.seq = q
        BY <3>2, <4>1 DEF AccountsFor
      <4> QED BY <3>5, <4>2
    <3>8. \A n, l \in files : n.seq = l.seq => n = l
      <4>1. \A n, l \in own : n.seq = l.seq => n = l
        BY <2>2
      <4>2. \A n, l \in rest : n.seq = l.seq => n = l
        BY <3>2 DEF AccountsFor
      <4> QED BY <3>5, <4>1, <4>2
    <3>9. AccountsFor(files, s)'
      BY <3>6, <3>7, <3>8 DEF AccountsFor
    <3>10. schema[s] = FreshBuild(T)
      BY <1>0, <1>2 DEF BuildUnchanged, Live
    <3>11. ASSUME NEW m \in T, NEW o \in Effect(m) PROVE \E n \in files : o \in Effect(n)
      <4>1. CASE m \in own
        BY <3>5, <3>11, <4>1
      <4>2. CASE m \notin own
        <5>1. PICK f \in old : f.seq = m.seq
          BY <2>2, <3>2, <3>4 DEF AccountsFor
        <5>2. f \in rest
          BY <2>2, <4>2, <5>1
        <5>3. ~IsMismatch(m, recon[p].rows[m.seq])
          BY <1>0 DEF RestampsOwnFiles
        <5>4. Identifies(ledger[s][m.seq], f) /\ f \in Migrations /\ ~IsDirty(ledger[s][m.seq])
          BY <2>2, <3>1, <3>2, <5>1 DEF AccountsFor
        <5>5. Effect(m) = Effect(f)
          BY <1>2, <4>2, <5>3, <5>4, SettledFile DEF Row
        <5> QED BY <3>5, <3>11, <5>2, <5>5
      <4> QED BY <4>1, <4>2
    <3>12. ASSUME NEW o \in Objects
           PROVE  o \in schema[s] <=> o \in stray[s] \/ \E n \in files : o \in Effect(n)
      <4>1. o \in schema[s] => \E n \in files : o \in Effect(n)
        BY <3>10, <3>11 DEF FreshBuild
      <4>2. ASSUME NEW n \in own, o \in Effect(n) PROVE o \in schema[s]
        BY <3>10, <4>2 DEF FreshBuild
      <4>3. ASSUME NEW n \in rest, o \in Effect(n) PROVE o \in schema[s]
        BY <3>2, <4>3
      <4> QED BY <3>2, <3>5, <4>1, <4>2, <4>3
    <3>13. Makes(files, s)'
      BY <1>0, <2>5, <3>12 DEF Makes
    <3> QED BY <3>5, <3>9, <3>13 DEF Explained
  <2> QED BY <2>6, <2>7
<1> QED BY <1>1, <1>2

LEMMA ReconcileExplained ==
  ASSUME KInv, RestampsOwnFiles, NEW p \in Procs, ReconStep(p), NEW s \in Scopes, Explained(s)
  PROVE  Explained(s)'
<1>1. CASE UNCHANGED <<dbVars, schema, stray>>
  <2>1. ledger' = ledger /\ schema' = schema /\ stray' = stray
    BY <1>1 DEF dbVars
  <2> QED BY <2>1, UnchangedRows, ReconcileAttends, ExplainedStays
<1> QED BY <1>1, ConvertExplained, SettleExplained, ReconcileIs DEF KInv

LEMMA InitExplained == ASSUME ConversionInit, NEW s \in Scopes PROVE Explained(s)
<1> DEFINE Holds(q, m) == m.seq = q /\ landed[s][q] = Units(m) /\ \E identified \in BOOLEAN : ledger[s][q] = LegacyRow(m, identified)
           Keys == {q \in Seqs : Recorded(ledger[s][q])}
           At0(q) == CHOOSE m \in Migrations : Holds(q, m)
           files == {At0(q) : q \in Keys}
<1>1. ASSUME NEW q \in Seqs
      PROVE  \/ ~Recorded(ledger[s][q]) /\ landed[s][q] = <<>>
             \/ /\ Recorded(ledger[s][q]) /\ ~IsDirty(ledger[s][q])
                /\ At0(q) \in Migrations /\ Holds(q, At0(q)) /\ Identifies(ledger[s][q], At0(q))
  <2>1. CASE ledger[s][q] = NoRow /\ landed[s][q] = <<>>
    BY <2>1 DEF Recorded
  <2>2. CASE \E m \in Migrations : Holds(q, m)
    <3>1. At0(q) \in Migrations /\ Holds(q, At0(q))
      BY <2>2
    <3> HIDE DEF At0
    <3>2. PICK identified \in BOOLEAN : ledger[s][q] = LegacyRow(At0(q), identified)
      BY <3>1
    <3>3. LegacyRow(At0(q), identified) \in Rows
      BY <3>1, LegacyRowType
    <3>4. Recorded(ledger[s][q])
      BY <3>2, <3>3, NoRowAssumption DEF NoRowAssumption, Recorded
    <3>5. ~IsDirty(ledger[s][q]) /\ Identifies(ledger[s][q], At0(q))
      BY <3>2 DEF LegacyRow, IsDirty, Identifies, ContentDigest, StatusApplied
    <3> QED BY <3>1, <3>4, <3>5
  <2> QED BY <2>1, <2>2, InitRows
<1> HIDE DEF At0
<1>2. files \in SUBSET Migrations
  BY <1>1
<1>3. AccountsFor(files, s)
  <2>1. \A m \in files : m.seq \in Seqs /\ IsApplied(ledger[s][m.seq]) /\ Identifies(ledger[s][m.seq], m)
    BY <1>1 DEF IsApplied
  <2>2. \A q \in Seqs : IsApplied(ledger[s][q]) => \E m \in files : m.seq = q
    BY <1>1 DEF IsApplied
  <2>3. \A m, n \in files : m.seq = n.seq => m = n
    BY <1>1
  <2> QED BY <2>1, <2>2, <2>3 DEF AccountsFor
<1>4. \A r \in Procs : ~Claims(r, s)
  BY DEF ConversionInit, Init, Claims
<1>5. schema[s] = stray[s] \cup LaidDown(landed[s])
  BY DEF ConversionInit
<1>6. ASSUME NEW o PROVE Shows(s, o) <=> \E m \in files : o \in Effect(m)
  <2>1. ASSUME NEW q \in Keys
        PROVE  (\E i \in DOMAIN landed[s][q] : o \in Shape[landed[s][q][i][1]][landed[s][q][i][2]]) <=> o \in Effect(At0(q))
    <3>1. At0(q) \in Migrations /\ landed[s][q] = Units(At0(q))
      BY <1>1
    <3> QED BY <3>1, UnitsFit
  <2>2. \A q \in Seqs \ Keys : landed[s][q] = <<>>
    BY <1>1
  <2> QED BY <2>1, <2>2 DEF Shows
<1>7. Makes(files, s)
  BY <1>4, <1>5, <1>6, LaidDownIs, NoClaim DEF Makes
<1> QED BY <1>2, <1>3, <1>7 DEF Explained

LEMMA ExplanationKept ==
  ASSUME EInv, RestampsOwnFiles, [ConversionNext]_conversionVars PROVE EInv'
<1>1. KInv /\ \A s \in Scopes : Explained(s)
  BY DEF EInv
<1>2. KInv'
  BY <1>1, StepKeeps
<1>3. ASSUME NEW p \in Procs, Migrate(p) \/ ReconStep(p), NEW s \in Scopes PROVE Explained(s)'
  BY <1>1, <1>3, MigrateExplained, ReconcileExplained
<1>4. ASSUME UNCHANGED conversionVars PROVE \A s \in Scopes : Explained(s)'
  <2>1. UNCHANGED <<ledger, lock, pc, call, todo, stmt, schema, stray>>
    BY <1>4 DEF conversionVars
  <2>2. ASSUME NEW s \in Scopes PROVE Explained(s)'
    <3>1. \A r \in Procs : Claims(r, s)' <=> Claims(r, s)
      BY <2>1 DEF Claims, Scope
    <3>2. /\ \A q \in Seqs : Attended(s, q)' <=> Attended(s, q)
          /\ \A o \in Objects : InFlight(s, o)' <=> InFlight(s, o)
      BY <2>1, <3>1 DEF Attended, InFlight, IsNext
    <3> QED BY <1>1, <2>1, <3>2, UnchangedRows, ExplainedStays
  <2> QED BY <2>2
<1>5. ASSUME ConversionNext PROVE \A s \in Scopes : Explained(s)'
  <2>1. PICK p \in Procs : Migrate(p) \/ ReconStep(p)
    BY <1>5 DEF ConversionNext, ReconStep
  <2> QED BY <1>3, <2>1
<1> QED BY <1>2, <1>4, <1>5 DEF EInv

(* With nothing unfinished, nobody attends to anything.                     *)
LEMMA ExplainedIsTold == EInv => RowsExplainSchema
<1> SUFFICES ASSUME EInv, NEW s \in Scopes, \A q \in Seqs : ~IsDirty(ledger[s][q])
             PROVE  \E files \in SUBSET Migrations :
                      Accounts(files, ledger[s]) /\ schema[s] = stray[s] \cup FreshBuild(files)
  BY DEF RowsExplainSchema
<1>1. KInv /\ Explained(s)
  BY DEF EInv
<1>2. \A r \in Procs : ~Claims(r, s)
  <2>1. ASSUME NEW r \in Procs, Claims(r, s) PROVE FALSE
    <3>1. PICK m \in todo[r] : Claim(r, m)
      BY <1>1, <2>1, ClaimOf
    <3>2. m.seq \in Seqs /\ IsDirty(ledger[s][m.seq])
      BY <1>1, <2>1, <3>1, OwnRow DEF KInv, Claim, Claims, Row
    <3> QED BY <3>2
  <2> QED BY <2>1
<1>3. PICK files \in SUBSET Migrations :
        /\ AccountsFor(files, s)
        /\ \A o \in Objects : o \in schema[s] <=> o \in stray[s] \/ \E n \in files : o \in Effect(n)
  BY <1>1, <1>2, CleanScope
<1>4. Accounts(files, ledger[s])
  <2>1. {m.seq : m \in files} = KeysOf(ledger[s])
    BY <1>3 DEF AccountsFor, KeysOf, IsApplied
  <2> QED BY <1>3, <2>1 DEF Accounts, AccountsFor
<1>5. schema[s] = stray[s] \cup FreshBuild(files)
  <2>1. schema[s] \subseteq Objects /\ stray[s] \subseteq Objects
    BY <1>1 DEF KInv, ReconTypes
  <2>2. \A n \in files : Effect(n) \subseteq Objects
    BY ShapeOf, EffectIs
  <2>3. \A o : o \in FreshBuild(files) <=> \E n \in files : o \in Effect(n)
    BY DEF FreshBuild
  <2> QED BY <1>3, <2>1, <2>2, <2>3
<1> QED BY <1>4, <1>5

(* Ledger and schema tell the same story (conversion.go:189-287, 292-354),  *)
(* as long as no drift is settled on the strength of a file of the tree     *)
(* that never ran because a row of another file has its number: settleDrift *)
(* compares the schema with the build of every file whose number is         *)
(* recorded, whoever's row that is (conversion.go:298-304).                 *)
THEOREM RowsExplainSchemaAlways == ConversionSpec /\ []RestampsOwnFiles => []RowsExplainSchema
<1>1. ConversionInit => EInv
  BY InitKeeps, InitExplained DEF EInv
<1>2. EInv /\ RestampsOwnFiles /\ [ConversionNext]_conversionVars => EInv'
  BY ExplanationKept
<1>3. EInv => RowsExplainSchema
  BY ExplainedIsTold
<1> QED BY <1>1, <1>2, <1>3, PTL DEF ConversionSpec

-----------------------------------------------------------------------------
(* Trees for which RestampsOwnFiles can be had                               *)

(* A file whose number another file claims as well makes something that     *)
(* nobody made by hand and no file of another name makes.                   *)
DisputedFilesShow ==
  \A t \in Trees : \A m \in Files(t) :
    (\E n \in Migrations : n.seq = m.seq /\ n.name # m.name) =>
      \E o \in Effect(m) : /\ o \notin UNION Strays
                           /\ \A n \in Migrations : n.name # m.name => o \notin Effect(n)

(* What is in a schema was made by hand, or by a file that the row of its   *)
(* number does not deny, finished or not. Conversions take rows along with  *)
(* what their files made, and settling drift renames no row.                *)
MadeUnderName(s, o) ==
  \E n \in Migrations : /\ n.seq \in Seqs /\ Recorded(ledger[s][n.seq])
                        /\ ledger[s][n.seq].filename \in {NoName, n.name}
                        /\ o \in Effect(n)
Traced(s) == \A o \in schema[s] : o \in UNION Strays \/ MadeUnderName(s, o)

(* The name in a row is that of a file of its number.                       *)
RowNames(row, q) == Recorded(row) => \E n \in Migrations : n.seq = q /\ row.filename \in {NoName, n.name}

TInv == /\ KInv
        /\ \A s \in Scopes : Traced(s)
        /\ \A s \in Scopes, q \in Seqs : RowNames(ledger[s][q], q)

(* Rows that keep their names answer for what they answered for.            *)
LEMMA NamesKept ==
  ASSUME NEW s \in Scopes, NEW o, MadeUnderName(s, o),
         \A q \in Seqs : Recorded(ledger[s][q]) =>
           Recorded(ledger'[s][q]) /\ ledger'[s][q].filename \in {NoName, ledger[s][q].filename}
  PROVE  MadeUnderName(s, o)'
BY DEF MadeUnderName

LEMMA MigrateTraced ==
  ASSUME KInv, NEW p \in Procs, Migrate(p), NEW s \in Scopes, Traced(s) PROVE Traced(s)'
<1>1. /\ MigrateStep(p) /\ Grows /\ TypeInv /\ ReconTypes /\ Visible /\ RowsOK
      /\ lock = p => AtWork(p)
  BY MigrateIs DEF KInv
<1>2. \A q \in Seqs : Recorded(ledger[s][q]) =>
        Recorded(ledger'[s][q]) /\ ledger'[s][q].filename = ledger[s][q].filename
  BY <1>1, RowsStay DEF SameIdentity
<1>3. ASSUME NEW o \in schema[s] PROVE o \in UNION Strays \/ MadeUnderName(s, o)'
  BY <1>2, NamesKept DEF Traced
<1>4. CASE Quiet
  BY <1>1, <1>3, <1>4, SchemaOfEffect DEF Traced
<1>5. ASSUME NEW m \in todo[p], Starts(p, m) \/ Completes(p, m) PROVE Traced(s)'
  BY <1>1, <1>3, <1>5, SchemaOfEffect DEF Traced
<1>6. ASSUME NEW m \in todo[p], Commits(p, m) PROVE Traced(s)'
  <2>1. pc[p] # "idle" /\ m \in Migrations /\ m.seq \in Seqs
    BY <1>1, <1>6, OwnRow DEF Commits
  <2>2. \A o : o \in schema'[s] <=> o \in schema[s] \/ (s = Scope(p) /\ o \in Effect(m))
    BY <1>1, <1>6, SchemaOfEffect
  <2>3. ASSUME NEW o \in Effect(m), s = Scope(p) PROVE MadeUnderName(s, o)'
    <3>1. ledger'[s][m.seq] = RowOf(m, StatusApplied)
      BY <1>6, <2>1, <2>3 DEF Commits, OneRow
    <3>2. Recorded(RowOf(m, StatusApplied)) /\ RowOf(m, StatusApplied).filename = m.name
      BY <2>1, WrittenRow DEF Identified
    <3> QED BY <2>1, <2>3, <3>1, <3>2 DEF MadeUnderName
  <2> QED BY <1>3, <2>2, <2>3 DEF Traced
<1>7. ASSUME NEW m \in todo[p], Executes(p, m) PROVE Traced(s)'
  <2>1. pc[p] # "idle" /\ m \in Migrations /\ m.seq \in Seqs /\ ledger' = ledger /\ Identified(Row(p, m), m)
    BY <1>1, <1>7, OwnRow DEF Executes, Claim
  <2>2. /\ stmt[p] \in 1..m.stmts
        /\ \A o : o \in schema'[s] <=> o \in schema[s] \/ (s = Scope(p) /\ o \in Shape[m][stmt[p]])
    BY <1>1, <1>7, SchemaOfEffect
  <2>3. ASSUME NEW o \in Shape[m][stmt[p]], s = Scope(p) PROVE MadeUnderName(s, o)'
    <3>1. o \in Effect(m)
      BY <2>1, <2>2, EffectIs
    <3> QED BY <2>1, <2>3, <3>1 DEF MadeUnderName, Identified, Row
  <2> QED BY <1>3, <2>2, <2>3 DEF Traced
<1> QED BY <1>1, <1>4, <1>5, <1>6, <1>7, WriteCases DEF Effects

LEMMA MigrateNames ==
  ASSUME KInv, NEW p \in Procs, Migrate(p), NEW s \in Scopes, NEW q \in Seqs, RowNames(ledger[s][q], q)
  PROVE  RowNames(ledger'[s][q], q)
<1>1. MigrateStep(p) /\ TypeInv /\ RowsOK /\ (lock = p => AtWork(p))
  BY MigrateIs DEF KInv
<1>2. CASE Recorded(ledger[s][q])
  BY <1>1, <1>2, RowsStay DEF SameIdentity, RowNames
<1>3. CASE ~Recorded(ledger[s][q]) /\ Recorded(ledger'[s][q])
  <2>1. PICK m \in todo[p], status \in {StatusApplied, StatusRunning} :
          OneRow(p, m, RowOf(m, status)) /\ pc[p] # "idle"
    BY <1>1, <1>3, WriteCases DEF Effects, Quiet, SameRow, Executes, Commits, Starts, Completes
  <2>2. m \in Migrations
    BY <1>1, <2>1, OwnRow
  <2>3. q = m.seq /\ ledger'[s][q] = RowOf(m, status)
    BY <1>3, <2>1 DEF OneRow
  <2> QED BY <2>2, <2>3, WrittenRow DEF RowNames, Identified
<1> QED BY <1>2, <1>3 DEF RowNames

(* Settling drift renames nothing.                                          *)
LEMMA SettleNames ==
  ASSUME KInv, NEW p \in Procs, At(p, "settle"), SettleWrites(p), NEW s \in Scopes, NEW q \in Seqs
  PROVE  /\ Recorded(ledger[s][q]) <=> Recorded(ledger'[s][q])
         /\ Recorded(ledger[s][q]) => ledger'[s][q].filename = ledger[s][q].filename
<1> DEFINE D == Drifted(call[p].tree, recon[p].rows)
<1>1. CASE s = Scope(p) /\ \E m \in D : q = m.seq
  <2>1. PICK m \in D : q = m.seq
    BY <1>1
  <2> QED BY <1>1, <2>1, SettleIs DEF Identified, Row, IsApplied
<1>2. CASE ~(s = Scope(p) /\ \E m \in D : q = m.seq)
  <2>1. ledger'[s][q] = ledger[s][q]
    BY <1>2, SettleIs
  <2> QED BY <2>1
<1> QED BY <1>1, <1>2

LEMMA ReconcileNames ==
  ASSUME KInv, NEW p \in Procs, ReconStep(p), NEW s \in Scopes, NEW q \in Seqs, RowNames(ledger[s][q], q)
  PROVE  RowNames(ledger'[s][q], q)
<1>1. CASE ledger'[s][q] = ledger[s][q]
  BY <1>1
<1>2. CASE At(p, "convert") /\ ConvertWrites(p) /\ s = Scope(p)
  <2>1. CASE \E m \in Leading(p) : q = m.seq
    <3>1. PICK m \in Leading(p) : q = m.seq
      BY <2>1
    <3>2. m \in Migrations /\ ledger'[s][q] = RowOf(m, StatusApplied)
      BY <1>2, <3>1, ConvertIs
    <3> QED BY <3>1, <3>2, WrittenRow DEF RowNames, Identified
  <2>2. CASE ~\E m \in Leading(p) : q = m.seq
    BY <1>2, <2>2, ConvertIs DEF RowNames, Recorded
  <2> QED BY <2>1, <2>2
<1>3. CASE At(p, "settle") /\ SettleWrites(p)
  BY <1>3, SettleNames DEF RowNames
<1>4. CASE At(p, "convert") /\ ConvertWrites(p) /\ s # Scope(p)
  <2>1. ledger'[s] = ledger[s]
    BY <1>4, ConvertIs
  <2> QED BY <1>1, <2>1
<1> QED BY <1>1, <1>2, <1>3, <1>4, ReconcileIs DEF KInv, dbVars

LEMMA ReconcileTraced ==
  ASSUME KInv, NEW p \in Procs, ReconStep(p), NEW s \in Scopes, Traced(s) PROVE Traced(s)'
<1>1. CASE UNCHANGED <<dbVars, schema, stray>>
  <2>1. ledger' = ledger /\ schema' = schema
    BY <1>1 DEF dbVars
  <2> QED BY <2>1 DEF Traced, MadeUnderName
<1>2. CASE At(p, "convert") /\ ConvertWrites(p)
  <2>1. CASE s # Scope(p)
    <3>1. ledger'[s] = ledger[s] /\ schema'[s] = schema[s]
      BY <1>2, <2>1, ConvertIs
    <3> QED BY <3>1 DEF Traced, MadeUnderName
  <2>2. CASE s = Scope(p)
    <3>1. /\ schema'[s] = FreshBuild(Leading(p)) /\ Leading(p) \subseteq Migrations
          /\ \A m \in Leading(p) : m.seq \in Seqs /\ ledger'[s][m.seq] = RowOf(m, StatusApplied)
      BY <1>2, <2>2, ConvertIs
    <3>2. ASSUME NEW m \in Leading(p), NEW o \in Effect(m) PROVE MadeUnderName(s, o)'
      <4>1. Recorded(RowOf(m, StatusApplied)) /\ RowOf(m, StatusApplied).filename = m.name
        BY <3>1, WrittenRow DEF Identified
      <4> QED BY <3>1, <4>1 DEF MadeUnderName
    <3> QED BY <3>1, <3>2 DEF Traced, FreshBuild
  <2> QED BY <2>1, <2>2
<1>3. CASE At(p, "settle") /\ SettleWrites(p)
  <2>1. schema' = schema
    BY <1>3, SettleIs
  <2>2. \A q \in Seqs : Recorded(ledger[s][q]) =>
          Recorded(ledger'[s][q]) /\ ledger'[s][q].filename = ledger[s][q].filename
    BY <1>3, SettleNames
  <2> QED BY <2>1, <2>2, NamesKept DEF Traced
<1> QED BY <1>1, <1>2, <1>3, ReconcileIs DEF KInv

LEMMA InitTraced == ASSUME ConversionInit, NEW s \in Scopes PROVE Traced(s)
<1>1. schema[s] = stray[s] \cup LaidDown(landed[s]) /\ stray[s] \in Strays
  BY DEF ConversionInit
<1>2. ASSUME NEW o, Shows(s, o) PROVE MadeUnderName(s, o)
  <2>1. PICK q \in Seqs : \E i \in DOMAIN landed[s][q] : o \in Shape[landed[s][q][i][1]][landed[s][q][i][2]]
    BY <1>2 DEF Shows
  <2>2. PICK m \in Migrations : /\ m.seq = q /\ landed[s][q] = Units(m)
                                /\ \E identified \in BOOLEAN : ledger[s][q] = LegacyRow(m, identified)
    <3>1. landed[s][q] # <<>>
      BY <2>1
    <3> QED BY <3>1, InitRows
  <2>3. PICK identified \in BOOLEAN : ledger[s][q] = LegacyRow(m, identified)
    BY <2>2
  <2>4. LegacyRow(m, identified) \in Rows
    BY <2>3, LegacyRowType
  <2>5. Recorded(ledger[s][q]) /\ ledger[s][q].filename \in {NoName, m.name}
    BY <2>3, <2>4, NoRowAssumption DEF NoRowAssumption, Recorded, LegacyRow
  <2>6. o \in Effect(m)
    BY <2>1, <2>2, UnitsFit
  <2> QED BY <2>2, <2>5, <2>6 DEF MadeUnderName
<1> QED BY <1>1, <1>2, LaidDownIs DEF Traced

LEMMA InitNames == ASSUME ConversionInit, NEW s \in Scopes, NEW q \in Seqs PROVE RowNames(ledger[s][q], q)
<1>1. CASE ledger[s][q] = NoRow
  BY <1>1 DEF RowNames, Recorded
<1>2. ASSUME NEW m \in Migrations, NEW identified \in BOOLEAN, m.seq = q, ledger[s][q] = LegacyRow(m, identified)
      PROVE  RowNames(ledger[s][q], q)
  BY <1>2 DEF RowNames, LegacyRow
<1> QED BY <1>1, <1>2, InitRows

LEMMA TracesKept == ASSUME TInv, [ConversionNext]_conversionVars PROVE TInv'
<1>1. KInv /\ KInv'
  BY StepKeeps DEF TInv
<1>2. CASE UNCHANGED conversionVars
  <2>1. ledger' = ledger /\ schema' = schema
    BY <1>2 DEF conversionVars
  <2> QED BY <1>1, <2>1 DEF TInv, Traced, MadeUnderName, RowNames
<1>3. CASE ConversionNext
  <2>1. PICK p \in Procs : Migrate(p) \/ ReconStep(p)
    BY <1>3 DEF ConversionNext, ReconStep
  <2> QED BY <1>1, <2>1, MigrateTraced, ReconcileTraced, MigrateNames, ReconcileNames DEF TInv
<1> QED BY <1>2, <1>3

(* A file that shows what nobody else makes is known to have run.           *)
LEMMA TracesTell == ASSUME DisputedFilesShow, TInv PROVE RestampsOwnFiles
<1>1. SUFFICES ASSUME NEW p \in Procs, At(p, "settle"), lock = p, BuildUnchanged(p),
                      NEW m \in RecordedFiles(p), IsMismatch(m, recon[p].rows[m.seq])
               PROVE  FALSE
  BY DEF RestampsOwnFiles
<1> DEFINE s == Scope(p)
           row == ledger[s][m.seq]
<1>2. call[p].tree \in Trees /\ s \in Scopes /\ pc[p] # "idle"
  BY <1>1, TreesAreChains DEF TInv, KInv, TypeInv, ReconOf, At, Reconciling, Scope
<1>3. m \in Files(call[p].tree) /\ m \in Migrations /\ m.seq \in Seqs
  BY <1>2, TreeKeys DEF TInv, KInv, RecordedFiles
<1>4. SameRow(recon[p].rows[m.seq], row)
  BY <1>1, <1>3 DEF TInv, KInv, ReconOf
<1>5. Recorded(row) /\ row.filename \notin {NoName, m.name}
  BY <1>1, <1>4 DEF SameRow, IsMismatch, IsApplied
<1>6. \E n \in Migrations : n.seq = m.seq /\ n.name # m.name
  BY <1>2, <1>3, <1>5 DEF TInv, RowNames
<1>7. PICK o \in Effect(m) : /\ o \notin UNION Strays
                            /\ \A n \in Migrations : n.name # m.name => o \notin Effect(n)
  BY <1>2, <1>3, <1>6 DEF DisputedFilesShow
<1>8. o \in schema[s]
  BY <1>1, <1>7 DEF BuildUnchanged, Live, FreshBuild
<1>9. PICK n \in Migrations : /\ n.seq \in Seqs /\ ledger[s][n.seq].filename \in {NoName, n.name}
                             /\ o \in Effect(n)
  BY <1>2, <1>7, <1>8 DEF TInv, Traced, MadeUnderName
<1>10. n.name = m.name
  BY <1>7, <1>9
<1>11. n.seq = m.seq
  BY <1>3, <1>10, FilesAssumption DEF FilesAssumption
<1> QED BY <1>5, <1>9, <1>10, <1>11

(* Drift is never settled on the strength of a file that did not run, in    *)
(* any behaviour of trees whose disputed files show: settleDrift rebuilds   *)
(* the files of the tree by number (conversion.go:298-304), and what such a *)
(* file makes is in no schema where another one took its number.            *)
THEOREM RestampsOwnFilesAlways == ASSUME DisputedFilesShow PROVE ConversionSpec => []RestampsOwnFiles
<1>1. ConversionInit => TInv
  BY InitKeeps, InitTraced, InitNames DEF TInv
<1>2. TInv /\ [ConversionNext]_conversionVars => TInv'
  BY TracesKept
<1>3. TInv => RestampsOwnFiles
  BY TracesTell
<1> QED BY <1>1, <1>2, <1>3, PTL DEF ConversionSpec

(* For such trees, then, ledger and schema tell the same story whatever is  *)
(* converted, settled, applied or cut off in between.                       *)
THEOREM SchemaIsExplained == ASSUME DisputedFilesShow PROVE ConversionSpec => []RowsExplainSchema
BY RestampsOwnFilesAlways, RowsExplainSchemaAlways, PTL
=============================================================================
