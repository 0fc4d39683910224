------------------------------- MODULE Chain -------------------------------
(***************************************************************************)
(* What is decided on migration files alone, before any database is asked: *)
(* the number a file name carries, the chain Load makes of a directory,    *)
(* the numbering CheckChain asks for and the repair CheckRepairTotality    *)
(* asks for.                                                               *)
(*                                                                         *)
(* A file name is a record: the digits before its first separator (with    *)
(* NotADigit for any other character), what follows, and whether it ends   *)
(* in .up.sql.                                                             *)
(***************************************************************************)
EXTENDS Ledger

CONSTANT MaxInt64     \* where BIGINT ends

NotADigit == 10

(* Mutant: leading zeros stay.                                              *)
PrefixUntrimmed(name) == name.digits

(* The key a file is looked up by: its digits without leading zeros.        *)
Prefix(name) ==
  LET solid == {i \in DOMAIN name.digits : name.digits[i] # 0} IN
  IF solid = {} THEN <<0>>
  ELSE SubSeq(name.digits, CHOOSE i \in solid : \A j \in solid : i <= j, Len(name.digits))

(* What the first so many digits are worth.                                 *)
Value(digits) ==
  LET value[i \in 0..Len(digits)] == IF i = 0 THEN 0 ELSE 10 * value[i - 1] + digits[i]
  IN  value[Len(digits)]

Sequence(name) ==
  IF /\ name.digits # <<>>
     /\ \A i \in DOMAIN name.digits : name.digits[i] # NotADigit
     /\ Value(name.digits) <= MaxInt64
    THEN Value(name.digits) ELSE NoSequence

NamesAssumption ==
  /\ MaxInt64 \in Nat
  /\ \A m \in Migrations : /\ m.name.digits \in Seq(0..NotADigit) /\ m.name.up \in BOOLEAN
                           /\ m.seq = Sequence(m.name)
ASSUME NamesAssumption

-----------------------------------------------------------------------------
(* Load *)

UpFiles(directory) == {m \in directory : m.name.up}
SameKey(m, n) == m # n /\ Prefix(m.name) = Prefix(n.name)

LoadAccepts(directory) ==
  /\ \A m \in UpFiles(directory) : Sequence(m.name) # NoSequence
  /\ \A m, n \in UpFiles(directory) : ~SameKey(m, n)

(* Every file once, by ascending number.                                    *)
Load(directory) ==
  LET files == UpFiles(directory) IN
  CHOOSE tree \in [1..Cardinality(files) -> files] :
    /\ \A m \in files : \E i \in DOMAIN tree : tree[i] = m
    /\ \A i, j \in DOMAIN tree : i < j => Sequence(tree[i].name) <= Sequence(tree[j].name)

-----------------------------------------------------------------------------
(* CheckChain *)

Numbers(files) == {Sequence(m.name) : m \in files}

(* Mutant: gaps are let through, and any start.                             *)
CheckDuplicates(files) ==
  /\ \A m, n \in files : ~SameKey(m, n)
  /\ NoSequence \notin Numbers(files)

(* No number twice, and the numbers are 1, 2, 3, ...                        *)
CheckChain(files) ==
  /\ \A m, n \in files : ~SameKey(m, n)
  /\ NoSequence \notin Numbers(files)
  /\ Numbers(files) = 1..Cardinality(files)

-----------------------------------------------------------------------------
(* CheckRepairTotality. A file body is a sequence of lines, each with a     *)
(* waiver or one statement over a table:                                    *)
(*   create     CREATE TABLE;                                              *)
(*   add        ALTER TABLE that adds a CHECK, FOREIGN KEY, UNIQUE or      *)
(*              PRIMARY KEY;                                               *)
(*   alter      ALTER TABLE that validates a constraint, sets NOT NULL,    *)
(*              changes a type, adds a NOT NULL column without DEFAULT;    *)
(*   index      CREATE UNIQUE INDEX;                                       *)
(*   repair     DML.                                                       *)
(* The scan matches patterns, so how a statement is written matters:        *)
(*   schema     what qualifies the table, or "";                           *)
(*   quoted     what is in quotes: nothing, only the "table" behind its    *)
(*              schema, or the name from its first character ("all");      *)
(*   guard      the last word before the name that a pattern may take for  *)
(*              one: "if" (IF EXISTS, IF NOT EXISTS), "only", or "";       *)
(*   plain      the clause has the words a pattern asks for: an unquoted   *)
(*              name of the constraint, column or index and no USING; in   *)
(*              ADD COLUMN, that COLUMN, and no comma before NOT NULL;     *)
(*   notvalid   whose NOT VALID stands behind: "own", "other" (another     *)
(*              clause of the same ALTER TABLE), or "".                    *)
(* The words of a pattern appear nowhere else (the scan would read them in  *)
(* a string, or in the SET of an ON CONFLICT DO UPDATE, as a name).         *)

(* What [\w.]+ captures where a name should stand; a guard is optional, so  *)
(* it is taken for the name when no other match is left.                    *)
Unread == [schema |-> "", table |-> ""]
Reading(line) ==
  IF line.quoted = "" THEN [schema |-> line.schema, table |-> line.table]
  ELSE IF line.quoted = "table" THEN [schema |-> line.schema, table |-> ""]
  ELSE [schema |-> "", table |-> line.guard]

SameTable(a, b) == a.table = b.table /\ ("" \in {a.schema, b.schema} \/ a.schema = b.schema)

(* An ALTER TABLE is seen whatever it is over, an index only with its table.*)
Seen(line) ==
  /\ line.plain
  /\ \/ line.kind = "add" /\ line.notvalid = ""
     \/ line.kind = "alter"
     \/ line.kind = "index" /\ line.quoted = ""

(* A table the file creates is empty.                                       *)
Creates(body, name) ==
  name # Unread /\ \E i \in DOMAIN body : body[i].kind = "create" /\ Reading(body[i]) = name

Waived(body, i) == \E j \in 1..(i - 1) : body[j].kind = "waiver"

IsRepairOf(line, name) ==
  line.kind = "repair" /\ Reading(line) # Unread /\ SameTable(Reading(line), name)

(* Mutant: a repair anywhere in the file counts.                            *)
RepairedAnywhere(body, i) ==
  Reading(body[i]) # Unread /\ \E j \in DOMAIN body : IsRepairOf(body[j], Reading(body[i]))

(* DML over the same table at a lower line.                                 *)
Repaired(body, i) ==
  Reading(body[i]) # Unread /\ \E j \in 1..(i - 1) : IsRepairOf(body[j], Reading(body[i]))

(* The constraints over rows the file did not write, at their lines.        *)
Constraints(body) == {i \in DOMAIN body : Seen(body[i]) /\ ~Creates(body, Reading(body[i]))}

RepairTotalityFindings(body) == {i \in Constraints(body) : ~Waived(body, i) /\ ~Repaired(body, i)}
=============================================================================
