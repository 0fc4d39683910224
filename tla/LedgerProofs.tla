---------------------------- MODULE LedgerProofs ----------------------------
(* Machine-checked lemmas about the operators of Ledger, for the proofs     *)
(* about the components that use it.                                        *)
EXTENDS Ledger, TLAPS, WellFoundedInduction, FiniteSetTheorems

(* The files of a chain of Migrations are migrations.                       *)
LEMMA FilesAreMigrations ==
  ASSUME NEW t \in Seq(Migrations) PROVE Files(t) \subseteq Migrations
BY DEF Files

(* An accepted chain has no unparsed number and no number twice.            *)
LEMMA ValidChain ==
  ASSUME NEW t \in Seq(Migrations), ValidateSequences(t)
  PROVE  /\ \A m \in Files(t) : m.seq \in Seqs
         /\ \A m, n \in Files(t) : m.seq = n.seq => m = n
<1>1. \A m \in Files(t) : m.seq \in Seqs
  BY FilesAreMigrations DEF ValidateSequences, InTree, Seqs
<1>2. ASSUME NEW m \in Files(t), NEW n \in Files(t), m.seq = n.seq PROVE m = n
  <2>1. PICK i \in DOMAIN t : m = t[i]
    BY DEF Files
  <2>2. PICK j \in DOMAIN t : n = t[j]
    BY DEF Files
  <2>3. m.seq \in Nat
    BY <1>1, FilesAreMigrations, FilesAssumption DEF FilesAssumption, Seqs, NoSequence
  <2>4. i \in Int /\ j \in Int
    OBVIOUS
  <2>5. ~(i < j) /\ ~(j < i)
    BY <1>2, <2>1, <2>2, <2>3 DEF ValidateSequences
  <2> QED BY <2>1, <2>2, <2>4, <2>5
<1> QED BY <1>1, <1>2

(* A sequence number is a natural number.                                   *)
LEMMA SeqsAreNat == Seqs \subseteq Nat
BY FilesAssumption DEF Seqs, FilesAssumption, NoSequence

(* The pieces of a file form a sequence of pieces.                          *)
LEMMA UnitsType ==
  ASSUME NEW m \in Migrations
  PROVE  Units(m) \in Seq(Pieces) /\ Len(Units(m)) = m.stmts /\ m.stmts \in Nat \ {0}
BY FilesAssumption DEF Units, Pieces, FilesAssumption

(* A written row is a row.                                                  *)
LEMMA RowOfType ==
  ASSUME NEW m \in Migrations, NEW status \in {"", StatusApplied, StatusRunning, StatusFailed}
  PROVE  RowOf(m, status) \in Rows
BY DEF RowOf, Rows, Names, Digests, Tokens, ContentDigest, SemanticContentDigest

(* What the audit trail says of a row or a file is an identity.             *)
LEMMA IdentitiesType ==
  /\ \A row \in Rows \cup {NoRow} : IdentityOf(row) \in Identities
  /\ \A m \in Migrations : FileIdentity(m) \in Identities
  /\ NoIdentity \in Identities
BY DEF IdentityOf, FileIdentity, NoIdentity, Identity, Identities, Recorded, Rows, Names, Digests, ContentDigest

(* What a row records is what it was written with: a row of file m.         *)
Identified(row, m) == Recorded(row) /\ row.filename = m.name /\ row.digest = ContentDigest(m)

(* A row records the name and the content of one file at most.              *)
LEMMA OneFilePerRow ==
  ASSUME NEW m \in Migrations, NEW n \in Migrations, NEW row, Identified(row, m), Identified(row, n)
  PROVE  m = n
BY FilesAssumption DEF FilesAssumption, Identified, ContentDigest

-----------------------------------------------------------------------------
(* Lemmas about numbers *)

Less == {pair \in Nat \X Nat : pair[1] < pair[2]}

(* A set of numbers has a least one: this is what lets an apply take its    *)
(* files in order.                                                          *)
LEMMA LeastNumber ==
  ASSUME NEW S \in SUBSET Nat, S # {} PROVE \E n \in S : \A k \in S : n <= k
<1>1. IsWellFoundedOn(Less, Nat)
  BY NatLessThanWellFounded DEF OpToRel, Less
<1>2. PICK n \in S : \A k \in S : <<k, n>> \notin Less
  BY <1>1, WFMin, Zenon
<1>3. ASSUME NEW k \in S PROVE n <= k
  <2>1. <<k, n>> \in Less <=> k < n
    BY DEF Less
  <2> QED BY <1>2, <2>1
<1> QED BY <1>3

(* A nonempty set of files with numbers has one of the lowest number.       *)
LEMMA LowestFile ==
  ASSUME NEW S \in SUBSET Migrations, S # {}, \A m \in S : m.seq \in Seqs
  PROVE  \E m \in S : \A n \in S : m.seq <= n.seq
<1>1. {m.seq : m \in S} \in SUBSET Nat /\ {m.seq : m \in S} # {}
  BY SeqsAreNat
<1>2. PICK q \in {m.seq : m \in S} : \A k \in {m.seq : m \in S} : q <= k
  BY <1>1, LeastNumber
<1> QED BY <1>2

Enumerates(f, K) ==
  /\ f \in [1..Cardinality(K) -> K]
  /\ \A q \in K : \E i \in DOMAIN f : f[i] = q
  /\ \A i, j \in DOMAIN f : i < j => f[i] < f[j]

(* A finite set of numbers can be listed in ascending order: the least one  *)
(* first, then the others.                                                  *)
LEMMA Ascending ==
  ASSUME NEW K \in SUBSET Nat, IsFiniteSet(K) PROVE \E f : Enumerates(f, K)
<1> DEFINE Bad == {n \in Nat : \E S \in SUBSET Nat : /\ IsFiniteSet(S) /\ Cardinality(S) = n
                                                      /\ ~\E f : Enumerates(f, S)}
<1>1. ASSUME Bad # {} PROVE FALSE
  <2>1. PICK n \in Bad : \A k \in Bad : n <= k
    BY <1>1, LeastNumber
  <2>2. PICK S \in SUBSET Nat : IsFiniteSet(S) /\ Cardinality(S) = n /\ ~\E f : Enumerates(f, S)
    BY <2>1
  <2>3. S # {}
    <3>1. ASSUME S = {} PROVE FALSE
      <4> DEFINE f == [i \in 1..0 |-> 0]
      <4>1. Cardinality(S) = 0
        BY <3>1, FS_EmptySet
      <4>2. 1..0 = {}
        OBVIOUS
      <4>3. Enumerates(f, S)
        BY <3>1, <4>1, <4>2 DEF Enumerates
      <4> QED BY <2>2, <4>3
    <3> QED BY <3>1
  <2>4. PICK a \in S : \A k \in S : a <= k
    BY <2>3, LeastNumber
  <2> DEFINE T == S \ {a}
  <2>5. IsFiniteSet(T) /\ Cardinality(T) = n - 1 /\ T \in SUBSET Nat
    BY <2>2, FS_RemoveElement
  <2>6. n - 1 \in Nat /\ n \in Nat
    BY <2>1, <2>5, FS_CardinalityType
  <2>7. n - 1 \notin Bad
    BY <2>1, <2>6
  <2>8. PICK f : Enumerates(f, T)
    BY <2>5, <2>6, <2>7
  <2> DEFINE g == [i \in 1..n |-> IF i = 1 THEN a ELSE f[i - 1]]
  <2>9. f \in [1..(n - 1) -> T]
    BY <2>5, <2>8 DEF Enumerates
  <2> HIDE DEF T
  <2>10. \A i \in 1..n : i # 1 => i - 1 \in 1..(n - 1) /\ g[i] = f[i - 1] /\ f[i - 1] \in T
    BY <2>6, <2>9
  <2>11. 1 \in 1..n /\ g[1] = a
    BY <2>6
  <2>12. T \subseteq S /\ (\A k \in T : a < k) /\ \A k \in S : k = a \/ k \in T
    BY <2>4 DEF T
  <2>13. g \in [1..n -> S]
    BY <2>10, <2>11, <2>12
  <2>14. \A q \in S : \E i \in DOMAIN g : g[i] = q
    <3>1. ASSUME NEW q \in T PROVE \E i \in DOMAIN g : g[i] = q
      <4>1. PICK i \in 1..(n - 1) : f[i] = q
        BY <2>8, <2>9 DEF Enumerates
      <4>2. i + 1 \in 1..n /\ i + 1 # 1 /\ (i + 1) - 1 = i
        BY <2>6
      <4>3. g[i + 1] = q
        BY <2>10, <4>1, <4>2
      <4> QED BY <4>2, <4>3
    <3> QED BY <2>11, <2>12, <3>1
  <2>15. ASSUME NEW i \in 1..n, NEW j \in 1..n, i < j PROVE g[i] < g[j]
    <3>1. j # 1
      BY <2>6, <2>15
    <3>2. g[j] = f[j - 1] /\ f[j - 1] \in T /\ j - 1 \in 1..(n - 1)
      BY <2>10, <3>1
    <3>3. CASE i = 1
      BY <2>11, <2>12, <3>2, <3>3
    <3>4. CASE i # 1
      <4>1. g[i] = f[i - 1] /\ i - 1 \in 1..(n - 1)
        BY <2>10, <3>4
      <4>2. i - 1 < j - 1
        BY <2>6, <2>15
      <4> QED BY <2>8, <2>9, <3>2, <4>1, <4>2 DEF Enumerates
    <3> QED BY <3>3, <3>4
  <2>16. Enumerates(g, S)
    <3> HIDE DEF g
    <3> QED BY <2>2, <2>13, <2>14, <2>15 DEF Enumerates
  <2> QED BY <2>2, <2>16
<1>2. Cardinality(K) \in Nat
  BY FS_CardinalityType
<1> QED BY <1>1, <1>2

(* Hence InOrder lists the keys it is given, all of them and in order.      *)
LEMMA InOrderEnumerates ==
  ASSUME NEW K \in SUBSET Nat, IsFiniteSet(K) PROVE Enumerates(InOrder(K), K)
<1>1. \E f \in [1..Cardinality(K) -> K] :
        /\ \A q \in K : \E i \in DOMAIN f : f[i] = q
        /\ \A i, j \in DOMAIN f : i < j => f[i] < f[j]
  BY Ascending DEF Enumerates
<1> QED BY <1>1 DEF InOrder, Enumerates

(* The numbers of the ledger are finitely many.                             *)
LEMMA KeysAreFinite ==
  ASSUME NEW K \in SUBSET Seqs PROVE IsFiniteSet(K) /\ K \in SUBSET Nat
<1> DEFINE T == {m.seq : m \in Migrations}
           f == [m \in Migrations |-> m.seq]
<1>1. f \in Surjection(Migrations, T)
  BY DEF Surjection
<1>2. IsFiniteSet(T)
  BY <1>1, FS_Surjection, FinitelyManyFiles, Zenon DEF FinitelyManyFiles
<1>3. K \in SUBSET T
  BY DEF Seqs
<1> HIDE DEF T
<1>4. IsFiniteSet(K)
  BY <1>2, <1>3, FS_Subset
<1> QED BY <1>4, SeqsAreNat

LEMMA FileOfKey ==
  ASSUME NEW files, NEW q \in {m.seq : m \in files}
  PROVE  FileOf(q, files) \in files /\ FileOf(q, files).seq = q
<1>1. \E m \in files : m.seq = q
  OBVIOUS
<1> QED BY <1>1 DEF FileOf
=============================================================================
