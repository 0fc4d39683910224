------------------------------- MODULE Check -------------------------------
(***************************************************************************)
(* `migratekit check` at the merge boundary, and what becomes of the files *)
(* it let through when they are deployed in turn on a database that runs:  *)
(* every table that was there has rows, and some of them comply with no    *)
(* new constraint.                                                         *)
(***************************************************************************)
EXTENDS Chain

CONSTANTS Lines,       \* the lines files are written with
          MaxLines     \* no file is longer

(* No table is called like a guard, and a name is quoted behind its schema  *)
(* only when it has one.                                                    *)
LinesAssumption ==
  \A line \in Lines :
    /\ line.kind \in {"create", "add", "alter", "index", "repair", "waiver"}
    /\ line.quoted \in {"", "table", "all"} /\ line.guard \in {"", "if", "only"}
    /\ line.notvalid \in {"", "own", "other"} /\ line.plain \in BOOLEAN
    /\ line.kind # "waiver" => line.table \notin {"", "if", "only"}
    /\ line.quoted = "table" => line.schema # ""
ASSUME LinesAssumption

VARIABLES
  chain,     \* the directory: the migration files merged so far
  draft,     \* the body of the next one
  waiting,   \* what is merged and not deployed: at most one file with its body
  records,   \* the ledger rows of the deployment
  tables     \* its tables

checkVars == <<chain, draft, waiting, records, tables>>

Init ==
  /\ chain = {m \in Migrations : ~m.name.up}
  /\ draft = <<>>
  /\ waiting = {}
  /\ records = [q \in Seqs |-> NoRow]
  /\ tables = {}

(* What a release of directory with a new file of that body is checked for. *)
RunCheck(directory, body) ==
  /\ LoadAccepts(directory)
  /\ CheckChain(UpFiles(directory))
  /\ RepairTotalityFindings(body) = {}

Write ==
  /\ waiting = {}
  /\ Len(draft) < MaxLines
  /\ \E line \in Lines : draft' = Append(draft, line)
  /\ UNCHANGED <<chain, waiting, records, tables>>

Discard ==
  /\ draft # <<>>
  /\ draft' = <<>>
  /\ UNCHANGED <<chain, waiting, records, tables>>

Merge(m) ==
  /\ waiting = {} /\ draft # <<>>
  /\ m \in UpFiles(Migrations \ chain)
  /\ RunCheck(chain \cup {m}, draft)
  /\ chain' = chain \cup {m}
  /\ waiting' = {[file |-> m, body |-> draft]}
  /\ draft' = <<>>
  /\ UNCHANGED <<records, tables>>

(* An unqualified table is found through the search_path, in the schema of  *)
(* the application.                                                        *)
Made(body) == {body[i].table : i \in {j \in DOMAIN body : body[j].kind = "create"}}

(* An apply whose statements succeeded. One that was refused is reverted on *)
(* the mainline before anything else is merged.                             *)
Deploy ==
  /\ \E w \in waiting :
       /\ records' = [records EXCEPT ![w.file.seq] = RowOf(w.file, StatusApplied)]
       /\ tables' = tables \cup Made(w.body)
  /\ waiting' = {}
  /\ UNCHANGED <<chain, draft>>

Next == Write \/ Discard \/ (\E m \in Migrations : Merge(m)) \/ Deploy
Spec == Init /\ [][Next]_checkVars

-----------------------------------------------------------------------------
(* Properties *)

Decimal[n \in 0..MaxInt64] == IF n < 10 THEN <<n>> ELSE Append(Decimal[n \div 10], n % 10)

(* Files are looked up by the text Prefix() makes of their names, rows come *)
(* back with the decimal form of a BIGINT (common.go:30-68, loader.go:31-79)*)
(* A directory that Load accepts has, file by file, the key its row will    *)
(* have, and makes a chain that ValidateSequences accepts: two spellings of *)
(* one number never load together.                                         *)
KeysAreNumbers ==
  \A m \in Migrations :
    LET directory == chain \cup {m} IN
    LoadAccepts(directory) =>
      /\ ValidateSequences(Load(directory))
      /\ \A f \in UpFiles(directory) : Prefix(f.name) = Decimal[Sequence(f.name)]

(* A mainline whose every merge passed CheckChain (strict.go:375-411) never *)
(* needs an ordering exception: the identity check of an apply in strict    *)
(* order finds no error in it, however its files were numbered.             *)
CheckedChainsDeploy ==
  LET tree == Load(chain) IN
  /\ ValidateSequences(tree)
  /\ ~FirstError(Analyze(tree, records, TRUE, {}))

(* What refuses rows that were there and do not comply.                     *)
Refuses(line) ==
  \/ line.kind = "add" /\ line.notvalid # "own"
  \/ line.kind \in {"alter", "index"}

(* What the scan reads as it is meant, or reports because it cannot tell    *)
(* the table: a clause in the words of a pattern, over a table without      *)
(* quotes, or, in an ALTER TABLE, one that is quoted from the start and has *)
(* no guard before it.                                                     *)
Legible(line) ==
  /\ line.plain /\ (line.kind = "add" => line.notvalid = "")
  /\ line.quoted = "" \/ (line.quoted = "all" /\ line.guard = "" /\ line.kind # "index")

(* A file the lint let through without a waiver (repairtotality.go:241-303),*)
(* which creates no table that is there already: no legible constraint of   *)
(* it meets a table that was there before the file and that the file has    *)
(* not repaired by then, however its other lines are written: no quoted     *)
(* CREATE TABLE exempts it, no DML over another quoted table repairs it.    *)
(* Of a constraint that is not legible the code keeps no promise: app."x"   *)
(* is read as the table app., and whatever is quoted in that schema exempts *)
(* and repairs whatever else is.                                           *)
LintedFilesDeploy ==
  \A w \in waiting :
    (/\ \A i \in DOMAIN w.body : w.body[i].kind # "waiver"
     /\ Made(w.body) \cap tables = {}) =>
      \A i \in DOMAIN w.body :
        Refuses(w.body[i]) /\ Legible(w.body[i]) /\ w.body[i].table \in tables =>
          \E j \in 1..(i - 1) : w.body[j].kind = "repair" /\ w.body[j].table = w.body[i].table
=============================================================================
