------------------------------- MODULE Ledger -------------------------------
(***************************************************************************)
(* The ledger of migratekit and the pure judgements the library makes on   *)
(* it: one row of public.migrations per sequence number, the identity      *)
(* check of a chain of files against those rows, and the selections (what  *)
(* is pending, what may be back-stamped) every apply starts from.          *)
(*                                                                         *)
(* A migration file is a record                                            *)
(*   name   its file name;                                                 *)
(*   seq    the number Sequence() parses from it, or NoSequence;           *)
(*   bytes  its exact content;                                             *)
(*   sql    the SQL tokens of that content, comments and layout dropped;   *)
(*   notx   whether the no-transaction directive heads it;                 *)
(*   stmts  how many pieces of it become visible separately: one for a     *)
(*          transactional file, one per statement for the others.          *)
(* SHA-256 is injective here: a digest is the thing it digests.            *)
(***************************************************************************)
EXTENDS Integers, Sequences, FiniteSets

CONSTANTS Migrations,   \* every migration file anyone may ship
          NoName,       \* a NULL filename
          NoDigest,     \* a NULL content_sha256 or semantic_sha256
          NoRow         \* a key with no row

NoSequence == -1        \* Sequence() refused the file name

Names   == {m.name : m \in Migrations}
Digests == {m.bytes : m \in Migrations}
Tokens  == {m.sql : m \in Migrations}
Seqs    == {m.seq : m \in Migrations} \ {NoSequence}

FilesAssumption ==
  /\ \A m \in Migrations :
       /\ m.seq \in Nat \cup {NoSequence}
       /\ m.notx \in BOOLEAN
       /\ m.stmts \in Nat \ {0}
       /\ ~m.notx => m.stmts = 1
  /\ \A m, n \in Migrations :
       /\ m.name = n.name => m.seq = n.seq
       /\ m.name = n.name /\ m.bytes = n.bytes => m = n   \* that is all a file is
       /\ m.bytes = n.bytes => m.sql = n.sql /\ m.notx = n.notx /\ m.stmts = n.stmts
ASSUME FilesAssumption
FinitelyManyFiles == IsFiniteSet(Migrations)    \* they are files on disks
ASSUME FinitelyManyFiles
NullsAssumption ==
  /\ NoName \notin Names
  /\ NoDigest \notin Digests \cup Tokens
ASSUME NullsAssumption

-----------------------------------------------------------------------------
(* Rows *)

StatusApplied == "applied"
StatusRunning == "running"
StatusFailed  == "failed"

Rows ==
  [filename : Names \cup {NoName}, digest : Digests \cup {NoDigest},
   semantic : Tokens \cup {NoDigest}, status : {"", StatusApplied, StatusRunning, StatusFailed}]

NoRowAssumption == NoRow \notin Rows
ASSUME NoRowAssumption

Records == [Seqs -> Rows \cup {NoRow}]

(* What the audit trail keeps of a row before and after a change.           *)
Identities == [filename : Names \cup {NoName}, digest : Digests \cup {NoDigest}]
Identity(filename, digest) == [filename |-> filename, digest |-> digest]
NoIdentity == Identity(NoName, NoDigest)

Verbs == {"apply --allow-below-applied", "repair adopt", "repair adopt --all-unmatched",
          "repair accept-content", "repair resolve --applied", "repair resolve --rerun",
          "baseline", "convert", "verify-content"}

(* What of a file becomes visible separately, in order.                     *)
Pieces == Migrations \X Nat
Units(m) == [k \in 1..m.stmts |-> <<m, k>>]

ContentDigest(m) == m.bytes
SemanticContentDigest(m) == m.sql

(* Mutant: two parameters of the INSERT swapped.                            *)
RowOfSwapped(m, status) ==
  [filename |-> ContentDigest(m), digest |-> m.name,
   semantic |-> SemanticContentDigest(m), status |-> status]

(* The row an apply of file m writes, in the given status. *)
RowOf(m, status) ==
  [filename |-> m.name, digest |-> ContentDigest(m),
   semantic |-> SemanticContentDigest(m), status |-> status]

Recorded(row) == row # NoRow
IdentityOf(row) == IF Recorded(row) THEN Identity(row.filename, row.digest) ELSE NoIdentity

FileIdentity(m) == Identity(m.name, ContentDigest(m))

(* An unfinished apply: neither the old empty status nor "applied". *)
IsDirty(row) == Recorded(row) /\ row.status \notin {"", StatusApplied}
IsApplied(row) == Recorded(row) /\ ~IsDirty(row)

-----------------------------------------------------------------------------
(* Chains of files *)

Files(tree) == {tree[i] : i \in DOMAIN tree}
InTree(tree) == {m.seq : m \in Files(tree)}

(* A chain is accepted when every name parses and numbers never repeat or   *)
(* go back.                                                                *)
ValidateSequences(tree) ==
  /\ NoSequence \notin InTree(tree)
  /\ \A i, j \in DOMAIN tree : i < j => tree[i].seq < tree[j].seq

(* Numbers are walked in ascending order (where the code ranges over a map, *)
(* nothing tells one order from another).                                   *)
InOrder(keys) ==
  CHOOSE f \in [1..Cardinality(keys) -> keys] :
    /\ \A q \in keys : \E i \in DOMAIN f : f[i] = q
    /\ \A i, j \in DOMAIN f : i < j => f[i] < f[j]

(* The file of a set that carries number q.                                 *)
FileOf(q, files) == CHOOSE m \in files : m.seq = q

Pending(tree, records) == {m \in Files(tree) : ~Recorded(records[m.seq])}

(* Rows an apply may stamp with a semantic digest: same bytes, none yet.    *)
Stampable(m, row) ==
  /\ IsApplied(row)
  /\ row.semantic = NoDigest
  /\ row.digest = ContentDigest(m)

ToStamp(tree, records) == {m \in Files(tree) : Stampable(m, records[m.seq])}

-----------------------------------------------------------------------------
(* The identity check *)

Finding(kind, severity, m) == [kind |-> kind, severity |-> severity, key |-> m.seq, file |-> m.name]

(* Mutant: rows are matched by number alone.                                *)
NeverMismatch(m, row) == FALSE

IsMismatch(m, row) ==
  /\ IsApplied(row)
  /\ row.filename \notin {NoName, m.name}

IsDrift(m, row) ==
  /\ IsApplied(row)
  /\ ~IsMismatch(m, row)
  /\ row.digest \notin {NoDigest, ContentDigest(m)}
  /\ row.semantic # SemanticContentDigest(m)

(* Mutant: the first recorded file of the tree is taken for the highest.    *)
IsFirstRecorded(i, tree, records) ==
  /\ Recorded(records[tree[i].seq])
  /\ \A j \in DOMAIN tree : Recorded(records[tree[j].seq]) => i <= j

(* The highest file of the tree that has a row: the last one, in tree order. *)
IsHighestRecorded(i, tree, records) ==
  /\ Recorded(records[tree[i].seq])
  /\ \A j \in DOMAIN tree : Recorded(records[tree[j].seq]) => j <= i

IsBelowApplied(m, tree, records) ==
  /\ ~Recorded(records[m.seq])
  /\ \E i \in DOMAIN tree : IsHighestRecorded(i, tree, records) /\ m.seq < tree[i].seq

(* Dirty rows of the tree are reported with the file that carries their     *)
(* number, those of no file of the tree with the name the row recorded.     *)
DirtyInTree(tree, records) ==
  {Finding("dirty_migration", "error", m) : m \in {f \in Files(tree) : IsDirty(records[f.seq])}}

(* Mutant: a dirty row with no file behind it is taken for an ordinary      *)
(* ledger-only row.                                                        *)
IgnoreOrphans(tree, records) == {}

DirtyOrphans(tree, records) ==
  {[kind |-> "dirty_migration", severity |-> "error", key |-> q, file |-> records[q].filename]
     : q \in {k \in DOMAIN records \ InTree(tree) : IsDirty(records[k])}}

Analyze(tree, records, strictOrdering, allowBelow) ==
  DirtyInTree(tree, records)
  \cup {Finding("number_mismatch", "error", m)
          : m \in {f \in Files(tree) : IsMismatch(f, records[f.seq])}}
  \cup {Finding("content_drift", "warning", m)
          : m \in {f \in Files(tree) : IsDrift(f, records[f.seq])}}
  \cup DirtyOrphans(tree, records)
  \cup {Finding("order_violation", "error", m)
          : m \in {f \in Files(tree) : /\ strictOrdering
                                       /\ IsBelowApplied(f, tree, records)
                                       /\ f.seq \notin allowBelow}}

FirstError(discrepancies) == \E d \in discrepancies : d.severity = "error"

(* Status lists every row without a file; unless it is dirty, that is no    *)
(* more than information.                                                  *)
ReportedOrphans(tree, records) ==
  {[kind |-> IF IsDirty(records[q]) THEN "dirty_migration" ELSE "ledger_only",
    severity |-> IF IsDirty(records[q]) THEN "error" ELSE "info",
    key |-> q, file |-> records[q].filename] : q \in {k \in DOMAIN records \ InTree(tree) : Recorded(records[k])}}

StatusDiscrepancies(tree, records, strictOrdering) ==
  {d \in Analyze(tree, records, strictOrdering, {}) : d.key \in InTree(tree)} \cup ReportedOrphans(tree, records)

HasErrors(discrepancies) == FirstError(discrepancies)

(* Mutant: any row counts as proof of application.                          *)
RecordedKeys(records) == {q \in DOMAIN records : Recorded(records[q])}

(* The keys Applied() lists: a row still running or failed is no proof.     *)
AppliedKeys(records) == {q \in DOMAIN records : Recorded(records[q]) /\ records[q].status = StatusApplied}
=============================================================================
