-------------------------- MODULE ClickHouseProofs --------------------------
(* Machine-checked proofs about ClickHouse, for every value of its          *)
(* constants.                                                               *)
EXTENDS ClickHouse, LedgerProofs

-----------------------------------------------------------------------------
(* The inductive invariant *)

OnRecord == {"record"} \cup Retrying     \* at a file whose row was written first
AtFile   == {"apply"} \cup OnRecord      \* at a file that is still to do
Busy     == {"stamp"} \cup AtFile        \* past the reads, before the unlock

(* What a call keeps about its arguments and how far it is.                 *)
CallOK(p) ==
  /\ ValidateSequences(call[p].tree)
  /\ todo[p] \subseteq Files(call[p].tree) /\ stamps[p] \subseteq Files(call[p].tree)
  /\ pc[p] \notin Busy => todo[p] = {} /\ stamps[p] = {}
  /\ pc[p] \in AtFile => todo[p] # {}
  /\ pc[p] = "apply" => retry[p].stmt = 1
  /\ succeeded[p] => pc[p] \in {"idle", "unlock"}

(* Whoever runs a file, with the lock or after losing it, has its identity  *)
(* on record, and the statements before the one it is at took effect.       *)
WorkOK(p) ==
  /\ pc[p] \in OnRecord => Identified(ledger[Current(p).seq], Current(p))
  /\ pc[p] \in Retrying => /\ retry[p].stmt \in 1..Current(p).stmts
                           /\ \A k \in 1..(retry[p].stmt - 1) : <<Current(p), k>> \in effects
  /\ pc[p] = "record" => PiecesOf(Current(p)) \subseteq effects

(* A row its file was started under and that is not finished.               *)
Unfinished(row, m) == ~Recorded(row) \/ (Identified(row, m) /\ row.status = StatusRunning)

(* What the holder of the lock still has to do, nobody finished meanwhile.  *)
ClaimOK(p) ==
  lock = p /\ pc[p] \in Busy => \A m \in todo[p] : Unfinished(ledger[m.seq], m)

(* What a call has behind it is applied, and for good.                      *)
Stands(row, m) == Applied(row) /\ row.filename = m.name

DoneOK(p) ==
  pc[p] \in Busy \/ succeeded[p] =>
    \A m \in Files(call[p].tree) \ todo[p] : Stands(ledger[m.seq], m)

ProcOK(p) == CallOK(p) /\ WorkOK(p) /\ ClaimOK(p) /\ DoneOK(p)

(* Whatever took effect, or may still, belongs to a recorded identity.      *)
EffectsOK ==
  \A piece \in effects \cup orphans :
    piece[1].seq \in Seqs /\ Identified(ledger[piece[1].seq], piece[1])

CInv == ClickHouseOK /\ (\A p \in Procs : ProcOK(p)) /\ EffectsOK /\ AppliedMeansComplete

-----------------------------------------------------------------------------
(* Files and pieces *)

LEMMA CallTree ==
  ASSUME ClickHouseOK, NEW p \in Procs
  PROVE  call[p].tree \in Seq(Migrations)
<1>1. call[p].tree \in Trees \cup {<<>>}
  BY DEF ClickHouseOK
<1>2. \A t \in Trees : t \in Seq(Migrations)
  BY ClickHouseAssumption DEF ClickHouseAssumption
<1>3. <<>> \in Seq(Migrations)
  OBVIOUS
<1> QED BY <1>1, <1>2, <1>3

(* The files of a call are migrations with numbers of their own.            *)
LEMMA CallFiles ==
  ASSUME CInv, NEW p \in Procs
  PROVE  /\ Files(call[p].tree) \subseteq Migrations
         /\ \A m \in Files(call[p].tree) : m.seq \in Seqs
         /\ \A m, n \in Files(call[p].tree) : m.seq = n.seq => m = n
<1>1. ClickHouseOK /\ ValidateSequences(call[p].tree)
  BY DEF CInv, ProcOK, CallOK
<1> QED BY <1>1, CallTree, FilesAreMigrations, ValidChain

LEMMA CurrentFile ==
  ASSUME CInv, NEW p \in Procs, pc[p] \in AtFile
  PROVE  /\ Current(p) \in todo[p] /\ Lowest(todo[p], Current(p))
         /\ Current(p) \in Files(call[p].tree)
         /\ Current(p) \in Migrations /\ Current(p).seq \in Seqs
<1>1. todo[p] # {} /\ todo[p] \subseteq Files(call[p].tree)
  BY DEF CInv, ProcOK, CallOK
<1>2. \E m \in todo[p] : Lowest(todo[p], m)
  <2>1. todo[p] \in SUBSET Migrations /\ \A m \in todo[p] : m.seq \in Seqs
    BY <1>1, CallFiles
  <2> QED BY <1>1, <2>1, LowestFile DEF Lowest
<1>3. Current(p) \in todo[p] /\ Lowest(todo[p], Current(p))
  BY <1>2 DEF Current
<1> QED BY <1>1, <1>3, CallFiles

LEMMA PieceInFlight ==
  ASSUME CInv, NEW p \in Procs, pc[p] \in Retrying
  PROVE  /\ Piece(p) \in AllPieces /\ Piece(p)[1] = Current(p) /\ Piece(p)[1].seq \in Seqs
         /\ Identified(ledger[Piece(p)[1].seq], Piece(p)[1])
<1>1. pc[p] \in AtFile /\ pc[p] \in OnRecord
  BY DEF AtFile, OnRecord
<1>2. Current(p) \in Migrations /\ Current(p).seq \in Seqs
  BY <1>1, CurrentFile
<1>3. retry[p].stmt \in 1..Current(p).stmts /\ Identified(ledger[Current(p).seq], Current(p))
  BY <1>1 DEF CInv, ProcOK, WorkOK
<1>4. Piece(p) \in PiecesOf(Current(p)) /\ Piece(p)[1] = Current(p)
  BY <1>3 DEF Piece, PiecesOf
<1> QED BY <1>2, <1>3, <1>4 DEF AllPieces

-----------------------------------------------------------------------------
(* The rows *)

(* A row once written keeps its identity, and stays applied once it is.     *)
Grows ==
  \A q \in Seqs : Recorded(ledger[q]) =>
    /\ Recorded(ledger'[q])
    /\ ledger'[q].filename = ledger[q].filename
    /\ ledger'[q].digest = ledger[q].digest
    /\ ledger[q].status = StatusApplied => ledger'[q].status = StatusApplied

(* Row r takes the place of the row of file m.                              *)
Puts(m, r) == r \in Rows /\ ledger' = [ledger EXCEPT ![m.seq] = r]

LEMMA StampWrite ==
  ASSUME CInv, NEW p \in Procs, pc[p] = "stamp", NEW m \in stamps[p], StampSemantic(m)
  PROVE  \/ ledger' = ledger
         \/ \E r : /\ Puts(m, r) /\ Recorded(ledger[m.seq])
                   /\ r.filename = ledger[m.seq].filename /\ r.digest = ledger[m.seq].digest
                   /\ r.status = ledger[m.seq].status
<1>1. m \in Migrations /\ m.seq \in Seqs
  BY CallFiles DEF CInv, ProcOK, CallOK
<1>2. ledger \in [Seqs -> Rows \cup {NoRow}]
  BY DEF CInv, ClickHouseOK, Records
<1>3. CASE /\ Recorded(ledger[m.seq]) /\ ledger[m.seq].digest = ContentDigest(m)
           /\ ledger[m.seq].semantic = NoDigest
  <2> DEFINE r == [ledger[m.seq] EXCEPT !.semantic = SemanticContentDigest(m)]
  <2>1. ledger[m.seq] \in Rows
    BY <1>1, <1>2, <1>3 DEF Recorded
  <2>2. /\ r \in Rows /\ r.filename = ledger[m.seq].filename /\ r.digest = ledger[m.seq].digest
        /\ r.status = ledger[m.seq].status
    BY <1>1, <2>1 DEF Rows, Tokens, SemanticContentDigest
  <2>3. ledger' = [ledger EXCEPT ![m.seq] = r]
    BY <1>3 DEF StampSemantic
  <2> QED BY <1>3, <2>2, <2>3 DEF Puts
<1>4. CASE ~(/\ Recorded(ledger[m.seq]) /\ ledger[m.seq].digest = ContentDigest(m)
             /\ ledger[m.seq].semantic = NoDigest)
  <2>1. ledger' = [ledger EXCEPT ![m.seq] = ledger[m.seq]]
    BY <1>4 DEF StampSemantic
  <2> QED BY <1>2, <2>1
<1> QED BY <1>3, <1>4

LEMMA StateWrite ==
  ASSUME CInv, NEW p \in Procs, pc[p] \in AtFile,
         NEW status \in {StatusApplied, StatusRunning}, RecordState(Current(p), status),
         Unfinished(ledger[Current(p).seq], Current(p))
  PROVE  \E r : Puts(Current(p), r) /\ Identified(r, Current(p)) /\ r.status = status
<1> DEFINE m == Current(p)
<1>1. m \in Migrations /\ m.seq \in Seqs
  BY CurrentFile
<1>2. ledger \in [Seqs -> Rows \cup {NoRow}]
  BY DEF CInv, ClickHouseOK, Records
<1> HIDE DEF m
<1>3. CASE Recorded(ledger[m.seq])
  <2> DEFINE r == [ledger[m.seq] EXCEPT !.status = status]
  <2>1. ledger[m.seq] \in Rows /\ Identified(ledger[m.seq], m)
    BY <1>1, <1>2, <1>3 DEF Recorded, Unfinished, m
  <2>2. r \in Rows /\ r.filename = m.name /\ r.digest = ContentDigest(m) /\ r.status = status
    BY <2>1 DEF Rows, Identified
  <2>3. ledger' = [ledger EXCEPT ![m.seq] = r]
    BY <1>3 DEF RecordState, m
  <2>4. r # NoRow
    BY <2>2, NoRowAssumption DEF NoRowAssumption
  <2>5. Puts(m, r) /\ Identified(r, m)
    BY <2>2, <2>3, <2>4 DEF Puts, Identified, Recorded
  <2> HIDE DEF r
  <2> QED BY <2>2, <2>5 DEF m
<1>4. CASE ~Recorded(ledger[m.seq])
  <2>1. ledger' = [ledger EXCEPT ![m.seq] = RowOf(m, status)]
    BY <1>4 DEF RecordState, m
  <2>2. RowOf(m, status) \in Rows
    BY <1>1, RowOfType
  <2>3. RowOf(m, status) # NoRow
    BY <2>2, NoRowAssumption DEF NoRowAssumption
  <2>4. Puts(m, RowOf(m, status)) /\ Identified(RowOf(m, status), m)
    BY <2>1, <2>2, <2>3 DEF Puts, Identified, Recorded, RowOf
  <2> QED BY <2>4 DEF RowOf, m
<1> QED BY <1>3, <1>4

(* What the ledger statement of the lock holder does: back-stamps a row,    *)
(* starts a file or finishes one, and nothing else.                         *)
LEMMA WriteEffect ==
  ASSUME CInv, NEW p \in Procs, LedgerWrite(p)
  PROVE  /\ lock = p
         /\ \/ pc[p] = "stamp" /\ ledger' = ledger
            \/ /\ pc[p] = "stamp"
               /\ \E m \in stamps[p] : \E r : /\ Puts(m, r) /\ Recorded(ledger[m.seq])
                                              /\ r.filename = ledger[m.seq].filename
                                              /\ r.digest = ledger[m.seq].digest
                                              /\ r.status = ledger[m.seq].status
            \/ /\ pc[p] \in {"apply", "record"} /\ Unfinished(ledger[Current(p).seq], Current(p))
               /\ \E r : /\ Puts(Current(p), r) /\ Identified(r, Current(p))
                         /\ r.status = IF pc[p] = "apply" THEN StatusRunning ELSE StatusApplied
<1>1. lock = p
  BY DEF LedgerWrite, Executor
<1>2. CASE pc[p] = "stamp" /\ \E m \in stamps[p] : Lowest(stamps[p], m) /\ StampSemantic(m)
  BY <1>1, <1>2, StampWrite
<1>3. ASSUME pc[p] \in {"apply", "record"} PROVE Unfinished(ledger[Current(p).seq], Current(p))
  <2>1. Current(p) \in todo[p] /\ pc[p] \in Busy
    BY <1>3, CurrentFile DEF AtFile, OnRecord, Busy
  <2> QED BY <1>1, <2>1 DEF CInv, ProcOK, ClaimOK
<1>4. CASE pc[p] = "apply" /\ RecordState(Current(p), StatusRunning)
  BY <1>1, <1>3, <1>4, StateWrite DEF AtFile
<1>5. CASE pc[p] = "record" /\ RecordState(Current(p), StatusApplied)
  BY <1>1, <1>3, <1>5, StateWrite DEF AtFile, OnRecord
<1> QED BY <1>2, <1>4, <1>5 DEF LedgerWrite

LEMMA PutAt ==
  ASSUME CInv, NEW m, m.seq \in Seqs, NEW r, Puts(m, r)
  PROVE  /\ ledger' \in Records /\ ledger'[m.seq] = r
         /\ \A q \in Seqs : q # m.seq => ledger'[q] = ledger[q]
         /\ Recorded(r)
BY NoRowAssumption DEF CInv, ClickHouseOK, Records, Puts, Recorded, NoRowAssumption

LEMMA WriteGrows ==
  ASSUME CInv, NEW p \in Procs, LedgerWrite(p)
  PROVE  ledger' \in Records /\ Grows
<1>1. CASE ledger' = ledger
  BY <1>1 DEF CInv, ClickHouseOK, Grows
<1>2. ASSUME pc[p] = "stamp", NEW m \in stamps[p], NEW r, Puts(m, r), Recorded(ledger[m.seq]),
             r.filename = ledger[m.seq].filename, r.digest = ledger[m.seq].digest,
             r.status = ledger[m.seq].status
      PROVE  ledger' \in Records /\ Grows
  <2>1. m.seq \in Seqs
    BY CallFiles DEF CInv, ProcOK, CallOK
  <2> QED BY <1>2, <2>1, PutAt DEF Grows
<1>3. ASSUME pc[p] \in {"apply", "record"}, Unfinished(ledger[Current(p).seq], Current(p)),
             NEW r, Puts(Current(p), r), Identified(r, Current(p))
      PROVE  ledger' \in Records /\ Grows
  <2>1. Current(p).seq \in Seqs
    BY <1>3, CurrentFile DEF AtFile, OnRecord
  <2>2. StatusRunning # StatusApplied
    BY DEF StatusRunning, StatusApplied
  <2> QED BY <1>3, <2>1, <2>2, PutAt DEF Grows, Unfinished, Identified
<1> QED BY <1>1, <1>2, <1>3, WriteEffect

(* Rows change only by the hand of the lock holder.                         *)
LEMMA LedgerStep ==
  ASSUME [Next]_vars
  PROVE  ledger' = ledger \/ \E p \in Procs : LedgerWrite(p)
BY DEF Next, vars, chVars, Begin, EnsureSetup, AcquireLock, LockFails, ReadPending, Stamp,
       RecordRunning, Statement, Ran, Collides, Transient, ExecFails, AskOwner, DropReplica, Wait,
       GiveUp, RecordApplied, Unlocked, UnlockFails, Validate, LedgerFails, SessionLost, Crash,
       LateEffect, GhostMoves

LEMMA StepGrows ==
  ASSUME CInv, [Next]_vars
  PROVE  ledger' \in Records /\ Grows
<1>1. CASE ledger' = ledger
  BY <1>1 DEF CInv, ClickHouseOK, Grows
<1> QED BY <1>1, LedgerStep, WriteGrows

-----------------------------------------------------------------------------
(* ClickHouse and Keeper *)

StoresOK ==
  /\ effects \subseteq AllPieces /\ orphans \subseteq AllPieces \ effects
  /\ ghosts \subseteq Replicated \ effects

(* What takes effect stays, and only a statement in flight or one of a      *)
(* client that is gone does.                                                *)
LEMMA StoresKept ==
  ASSUME CInv, [Next]_vars
  PROVE  /\ StoresOK' /\ effects \subseteq effects'
         /\ \A piece \in effects' \cup orphans' :
              \/ piece \in effects \cup orphans
              \/ \E p \in Procs : pc[p] \in Retrying /\ piece = Piece(p)
<1> DEFINE Goal == /\ StoresOK' /\ effects \subseteq effects'
                   /\ \A piece \in effects' \cup orphans' :
                        \/ piece \in effects \cup orphans
                        \/ \E p \in Procs : pc[p] \in Retrying /\ piece = Piece(p)
<1>1. StoresOK
  BY DEF CInv, ClickHouseOK, StoresOK
<1>2. CASE UNCHANGED chVars
  BY <1>1, <1>2 DEF StoresOK, chVars
<1>3. ASSUME NEW p \in Procs, Ran(p) PROVE Goal
  <2>1. pc[p] \in Retrying /\ Piece(p) \in AllPieces /\ Piece(p) \notin ghosts
    BY <1>3, PieceInFlight DEF Ran, Retrying
  <2>2. effects' = effects \cup {Piece(p)} /\ orphans' = orphans \ {Piece(p)} /\ ghosts' = ghosts
    BY <1>3 DEF Ran
  <2> QED BY <1>1, <2>1, <2>2 DEF StoresOK
<1>4. ASSUME NEW p \in Procs, LeaveOrphan(p), UNCHANGED <<effects, ghosts>> PROVE Goal
  <2>1. pc[p] \in Retrying /\ Piece(p) \in AllPieces
    BY <1>4, PieceInFlight DEF LeaveOrphan, Retrying
  <2> QED BY <1>1, <1>4, <2>1 DEF StoresOK, LeaveOrphan
<1>5. ASSUME NEW p \in Procs, DropReplica(p) PROVE Goal
  BY <1>1, <1>5 DEF DropReplica, StoresOK
<1>6. ASSUME NEW piece \in AllPieces, LateEffect(piece) PROVE Goal
  BY <1>1, <1>6 DEF LateEffect, StoresOK
<1>7. ASSUME NEW piece \in AllPieces, GhostMoves(piece) PROVE Goal
  BY <1>1, <1>7 DEF GhostMoves, StoresOK
<1>8. \/ UNCHANGED chVars
      \/ \E p \in Procs : Ran(p) \/ DropReplica(p) \/ (LeaveOrphan(p) /\ UNCHANGED <<effects, ghosts>>)
      \/ \E piece \in AllPieces : LateEffect(piece) \/ GhostMoves(piece)
  <2>1. ASSUME NEW p \in Procs,
               \/ Begin(p) \/ EnsureSetup(p) \/ AcquireLock(p) \/ LockFails(p) \/ ReadPending(p) \/ Stamp(p)
               \/ RecordRunning(p) \/ RecordApplied(p) \/ Unlocked(p) \/ UnlockFails(p)
               \/ Validate(p) \/ LedgerFails(p)
        PROVE  UNCHANGED chVars
    BY <2>1 DEF chVars, Begin, EnsureSetup, AcquireLock, LockFails, ReadPending, Stamp, RecordRunning,
                RecordApplied, Unlocked, UnlockFails, Validate, LedgerFails
  <2>2. ASSUME NEW p \in Procs, Statement(p) \/ SessionLost(p) \/ Crash(p)
        PROVE  \/ UNCHANGED chVars
               \/ Ran(p) \/ DropReplica(p) \/ (LeaveOrphan(p) /\ UNCHANGED <<effects, ghosts>>)
    BY <2>2 DEF chVars, Statement, Collides, Transient, ExecFails, AskOwner, Wait, GiveUp,
                SessionLost, Crash
  <2> QED BY <2>1, <2>2 DEF Next, vars, chVars
<1> QED BY <1>2, <1>3, <1>4, <1>5, <1>6, <1>7, <1>8

LEMMA EffectsOKKept ==
  ASSUME CInv, [Next]_vars
  PROVE  EffectsOK'
<1> SUFFICES ASSUME NEW piece \in effects' \cup orphans'
             PROVE  piece[1].seq \in Seqs /\ Identified(ledger'[piece[1].seq], piece[1])
  BY DEF EffectsOK
<1>1. piece[1].seq \in Seqs /\ Identified(ledger[piece[1].seq], piece[1])
  <2>1. CASE piece \in effects \cup orphans
    BY <2>1 DEF CInv, EffectsOK
  <2>2. ASSUME NEW p \in Procs, pc[p] \in Retrying, piece = Piece(p)
        PROVE  piece[1].seq \in Seqs /\ Identified(ledger[piece[1].seq], piece[1])
    BY <2>2, PieceInFlight
  <2> QED BY <2>1, <2>2, StoresKept
<1> QED BY <1>1, StepGrows DEF Grows, Identified

(* A row that comes to read applied is the one of a file all of whose       *)
(* statements ran.                                                          *)
LEMMA CompleteKept ==
  ASSUME CInv, [Next]_vars
  PROVE  AppliedMeansComplete'
<1> SUFFICES ASSUME NEW m \in Migrations, m.seq # NoSequence, Applied(ledger'[m.seq]),
                    Identified(ledger'[m.seq], m)
             PROVE  PiecesOf(m) \subseteq effects'
  BY DEF AppliedMeansComplete, Applied, Identified, PiecesOf
<1>1. m.seq \in Seqs /\ effects \subseteq effects'
  BY StoresKept DEF Seqs
<1>2. CASE Applied(ledger[m.seq]) /\ Identified(ledger[m.seq], m)
  BY <1>1, <1>2 DEF CInv, AppliedMeansComplete, Identified
<1>3. CASE ledger' = ledger
  BY <1>2, <1>3
<1>4. ASSUME NEW p \in Procs, LedgerWrite(p) PROVE PiecesOf(m) \subseteq effects'
  <2>1. CASE ledger' = ledger
    BY <1>3, <2>1
  <2>2. ASSUME pc[p] = "stamp", NEW f \in stamps[p], NEW r, Puts(f, r), Recorded(ledger[f.seq]),
               r.filename = ledger[f.seq].filename, r.digest = ledger[f.seq].digest,
               r.status = ledger[f.seq].status
        PROVE  PiecesOf(m) \subseteq effects'
    <3>1. f.seq \in Seqs
      BY CallFiles DEF CInv, ProcOK, CallOK
    <3>2. ledger'[f.seq] = r /\ (f.seq # m.seq => ledger'[m.seq] = ledger[m.seq])
      BY <1>1, <2>2, <3>1, PutAt
    <3>3. Applied(ledger[m.seq]) /\ Identified(ledger[m.seq], m)
      BY <2>2, <3>2 DEF Applied, Identified
    <3> QED BY <1>2, <3>3
  <2>3. ASSUME pc[p] \in {"apply", "record"}, NEW r, Puts(Current(p), r), Identified(r, Current(p)),
               r.status = IF pc[p] = "apply" THEN StatusRunning ELSE StatusApplied
        PROVE  PiecesOf(m) \subseteq effects'
    <3>1. Current(p) \in Migrations /\ Current(p).seq \in Seqs
      BY <2>3, CurrentFile DEF AtFile, OnRecord
    <3>2. /\ ledger'[Current(p).seq] = r
          /\ Current(p).seq # m.seq => ledger'[m.seq] = ledger[m.seq]
      BY <1>1, <2>3, <3>1, PutAt
    <3>3. CASE Current(p).seq # m.seq
      BY <1>2, <3>2, <3>3
    <3>4. CASE Current(p).seq = m.seq
      <4>1. Identified(r, m) /\ r.status = StatusApplied
        BY <3>2, <3>4 DEF Applied
      <4>2. m = Current(p)
        BY <2>3, <3>1, <4>1, OneFilePerRow
      <4>3. pc[p] = "record"
        BY <2>3, <4>1 DEF StatusRunning, StatusApplied
      <4>4. PiecesOf(m) \subseteq effects
        BY <4>2, <4>3 DEF CInv, ProcOK, WorkOK
      <4> QED BY <1>1, <4>4
    <3> QED BY <3>3, <3>4
  <2> QED BY <1>4, <2>1, <2>2, <2>3, WriteEffect
<1> QED BY <1>3, <1>4, LedgerStep

-----------------------------------------------------------------------------
(* The calls *)

LockOK == lock \in Procs \cup {Nobody} /\ leaked \in BOOLEAN /\ (leaked => lock # Nobody)

CallsOK ==
  /\ pc \in [Procs -> {"idle", "validate", "setup", "lock", "pending", "stamp", "apply", "record",
                       "unlock"} \cup Retrying]
  /\ call \in [Procs -> [verb : {"none", "apply", "validate"}, tree : Trees \cup {<<>>}]]
  /\ todo \in [Procs -> SUBSET Migrations] /\ stamps \in [Procs -> SUBSET Migrations]
  /\ retry \in [Procs -> [stmt : Nat, waits : 0..MaxWaits, dropped : BOOLEAN]]
  /\ succeeded \in [Procs -> BOOLEAN]

(* Nothing of process r moves.                                              *)
Rests(r) ==
  /\ pc'[r] = pc[r] /\ call'[r] = call[r] /\ todo'[r] = todo[r] /\ stamps'[r] = stamps[r]
  /\ retry'[r] = retry[r] /\ succeeded'[r] = succeeded[r]

(* What another process, or ClickHouse, does cannot disturb a call: only    *)
(* the holder of the lock writes rows, and rows and effects last.           *)
LEMMA RestingKeeps ==
  ASSUME CInv, NEW r \in Procs, Rests(r), Grows, effects \subseteq effects',
         lock' = r => lock = r /\ ledger' = ledger
  PROVE  ProcOK(r)'
<1>1. Current(r)' = Current(r)
  BY DEF Rests, Current, Lowest
<1>2. CallOK(r)'
  BY DEF CInv, ProcOK, CallOK, Rests
<1>3. WorkOK(r)'
  <2>1. pc[r] \in OnRecord => Current(r).seq \in Seqs /\ Identified(ledger[Current(r).seq], Current(r))
    BY CurrentFile DEF CInv, ProcOK, WorkOK, AtFile
  <2>2. pc[r] \in OnRecord => Identified(ledger'[Current(r).seq], Current(r))
    BY <2>1 DEF Grows, Identified
  <2> QED BY <1>1, <2>2 DEF CInv, ProcOK, WorkOK, Rests
<1>4. ClaimOK(r)'
  BY DEF CInv, ProcOK, ClaimOK, Rests
<1>5. DoneOK(r)'
  <2>1. \A m \in Files(call[r].tree) : m.seq \in Seqs
    BY CallFiles
  <2>2. \A m \in Files(call[r].tree) : Stands(ledger[m.seq], m) => Stands(ledger'[m.seq], m)
    BY <2>1 DEF Grows, Stands, Applied
  <2> QED BY <2>2 DEF CInv, ProcOK, DoneOK, Rests
<1> QED BY <1>2, <1>3, <1>4, <1>5 DEF ProcOK

(* The call returns.                                                        *)
LEMMA ReturnKeeps ==
  ASSUME CInv, NEW p \in Procs, NEW success \in BOOLEAN, Return(p, success),
         success => \A m \in Files(call[p].tree) : Stands(ledger'[m.seq], m)
  PROVE  CallsOK' /\ ProcOK(p)'
<1>1. CallsOK
  BY DEF CInv, ClickHouseOK, CallsOK
<1>2. NoCall \in [verb : {"none", "apply", "validate"}, tree : Trees \cup {<<>>}]
  BY DEF NoCall
<1>3. FromStatement(1) \in [stmt : Nat, waits : 0..MaxWaits, dropped : BOOLEAN]
  BY ClickHouseAssumption DEF FromStatement, ClickHouseAssumption
<1>4. CallsOK'
  BY <1>1, <1>2, <1>3 DEF Return, Goto, CallsOK
<1>5. /\ pc'[p] = "idle" /\ todo'[p] = {} /\ stamps'[p] = {} /\ succeeded'[p] = success
      /\ call'[p] = IF success THEN call[p] ELSE NoCall
  BY <1>1 DEF Return, Goto, CallsOK
<1>6. ValidateSequences(call[p].tree) /\ ValidateSequences(NoCall.tree)
  BY DEF CInv, ProcOK, CallOK, NoCall, ValidateSequences, InTree, Files
<1>7. CallOK(p)'
  BY <1>5, <1>6 DEF CallOK, Busy, AtFile, OnRecord, Retrying
<1>8. WorkOK(p)' /\ ClaimOK(p)' /\ DoneOK(p)'
  BY <1>5 DEF WorkOK, ClaimOK, DoneOK, Busy, AtFile, OnRecord, Retrying
<1> QED BY <1>4, <1>7, <1>8 DEF ProcOK

(* The verdict is known, the unlock is still to come.                       *)
LEMMA UnwindKeeps ==
  ASSUME CInv, NEW p \in Procs, NEW success \in BOOLEAN, Unwind(p, success),
         success => \A m \in Files(call[p].tree) : Stands(ledger'[m.seq], m)
  PROVE  CallsOK' /\ ProcOK(p)'
<1>1. CallsOK
  BY DEF CInv, ClickHouseOK, CallsOK
<1>2. FromStatement(1) \in [stmt : Nat, waits : 0..MaxWaits, dropped : BOOLEAN]
  BY ClickHouseAssumption DEF FromStatement, ClickHouseAssumption
<1>3. CallsOK'
  BY <1>1, <1>2 DEF Unwind, Goto, CallsOK
<1>4. /\ pc'[p] = "unlock" /\ todo'[p] = {} /\ stamps'[p] = {} /\ succeeded'[p] = success
      /\ call'[p] = call[p]
  BY <1>1 DEF Unwind, Goto, CallsOK
<1>5. CallOK(p)'
  BY <1>4 DEF CInv, ProcOK, CallOK, Busy, AtFile, OnRecord, Retrying
<1>6. WorkOK(p)' /\ ClaimOK(p)' /\ DoneOK(p)'
  BY <1>4 DEF WorkOK, ClaimOK, DoneOK, Busy, AtFile, OnRecord, Retrying
<1> QED BY <1>3, <1>5, <1>6 DEF ProcOK

(* On to the next stamp or file, whose rows are still as they were read.    *)
LEMMA ContinueKeeps ==
  ASSUME CInv, NEW p \in Procs, pc[p] \in {"pending"} \cup Busy,
         NEW toStamp \in SUBSET Files(call[p].tree), NEW toApply \in SUBSET Files(call[p].tree),
         Continue(p, toStamp, toApply),
         \A m \in toApply : Unfinished(ledger'[m.seq], m),
         \A m \in Files(call[p].tree) \ toApply : Stands(ledger'[m.seq], m)
  PROVE  CallsOK' /\ ProcOK(p)'
<1>1. CallsOK
  BY DEF CInv, ClickHouseOK, CallsOK
<1>2. FromStatement(1) \in [stmt : Nat, waits : 0..MaxWaits, dropped : BOOLEAN] /\ FromStatement(1).stmt = 1
  BY ClickHouseAssumption DEF FromStatement, ClickHouseAssumption
<1>3. CASE toStamp \cup toApply = {}
  BY <1>3, UnwindKeeps DEF Continue
<1>4. CASE toStamp \cup toApply # {}
  <2>1. /\ Goto(p, IF toStamp # {} THEN "stamp" ELSE "apply")
        /\ stamps' = [stamps EXCEPT ![p] = toStamp] /\ todo' = [todo EXCEPT ![p] = toApply]
        /\ retry' = [retry EXCEPT ![p] = FromStatement(1)]
        /\ UNCHANGED <<call, succeeded>>
    BY <1>4 DEF Continue
  <2>2. toStamp \subseteq Migrations /\ toApply \subseteq Migrations
    BY CallFiles
  <2>3. CallsOK'
    BY <1>1, <1>2, <2>1, <2>2 DEF Goto, CallsOK
  <2>4. /\ pc'[p] = IF toStamp # {} THEN "stamp" ELSE "apply"
        /\ todo'[p] = toApply /\ stamps'[p] = toStamp /\ retry'[p].stmt = 1
        /\ call'[p] = call[p] /\ ~succeeded'[p]
    <3>1. ~succeeded[p]
      BY DEF CInv, ProcOK, CallOK, Busy, AtFile, OnRecord, Retrying
    <3> QED BY <1>1, <1>2, <2>1, <3>1 DEF Goto, CallsOK
  <2>5. CallOK(p)'
    BY <1>4, <2>4 DEF CInv, ProcOK, CallOK, Busy, AtFile, OnRecord, Retrying
  <2>6. WorkOK(p)' /\ ClaimOK(p)' /\ DoneOK(p)'
    BY <2>4 DEF WorkOK, ClaimOK, DoneOK, Busy, AtFile, OnRecord, Retrying
  <2> QED BY <2>3, <2>5, <2>6 DEF ProcOK
<1> QED BY <1>3, <1>4

(* One more step on the same file.                                          *)
LEMMA FileStepKeeps ==
  ASSUME CInv, NEW p \in Procs, pc[p] \in AtFile, NEW where \in OnRecord, Goto(p, where),
         UNCHANGED <<call, todo, stamps, succeeded>>,
         NEW r \in [stmt : Nat, waits : 0..MaxWaits, dropped : BOOLEAN],
         retry' = [retry EXCEPT ![p] = r], Grows,
         lock' = p => lock = p, \A m \in todo[p] : lock = p => Unfinished(ledger'[m.seq], m),
         Identified(ledger'[Current(p).seq], Current(p)),
         where \in Retrying => /\ r.stmt \in 1..Current(p).stmts
                               /\ \A k \in 1..(r.stmt - 1) : <<Current(p), k>> \in effects',
         where = "record" => PiecesOf(Current(p)) \subseteq effects'
  PROVE  CallsOK' /\ ProcOK(p)'
<1>1. CallsOK
  BY DEF CInv, ClickHouseOK, CallsOK
<1>2. CallsOK'
  BY <1>1 DEF Goto, CallsOK, OnRecord
<1>3. /\ pc'[p] = where /\ retry'[p] = r
      /\ call'[p] = call[p] /\ todo'[p] = todo[p] /\ stamps'[p] = stamps[p] /\ succeeded'[p] = succeeded[p]
  BY <1>1 DEF Goto, CallsOK
<1>4. Current(p)' = Current(p)
  BY <1>3 DEF Current, Lowest
<1>5. ~succeeded[p] /\ todo[p] # {} /\ where # "apply" /\ pc[p] \in Busy
  BY DEF CInv, ProcOK, CallOK, AtFile, OnRecord, Busy, Retrying
<1>6. CallOK(p)'
  BY <1>3, <1>5 DEF CInv, ProcOK, CallOK, Busy, AtFile
<1>7. WorkOK(p)'
  BY <1>3, <1>4 DEF WorkOK
<1>8. ClaimOK(p)'
  BY <1>3 DEF ClaimOK
<1>9. DoneOK(p)'
  <2>1. \A m \in Files(call[p].tree) : m.seq \in Seqs
    BY CallFiles
  <2>2. \A m \in Files(call[p].tree) : Stands(ledger[m.seq], m) => Stands(ledger'[m.seq], m)
    BY <2>1 DEF Grows, Stands, Applied
  <2> QED BY <1>3, <1>5, <2>2 DEF CInv, ProcOK, DoneOK
<1> QED BY <1>2, <1>6, <1>7, <1>8, <1>9 DEF ProcOK

-----------------------------------------------------------------------------
(* What was read *)

(* A chain none of whose rows is refused: what has to run is unfinished,    *)
(* the rest is applied under its name.                                      *)
LEMMA PendingIsSound ==
  ASSUME CInv, NEW p \in Procs, ~Refused(call[p].tree)
  PROVE  /\ ToRun(call[p].tree) \subseteq Files(call[p].tree)
         /\ Unstamped(call[p].tree) \subseteq Files(call[p].tree)
         /\ \A m \in ToRun(call[p].tree) : Unfinished(ledger[m.seq], m)
         /\ \A m \in Files(call[p].tree) \ ToRun(call[p].tree) : Stands(ledger[m.seq], m)
<1>1. ASSUME NEW m \in Files(call[p].tree), Recorded(ledger[m.seq]) PROVE Fits(m, ledger[m.seq])
  <2>1. PICK n \in Files(call[p].tree) : n.seq = m.seq /\ Fits(n, ledger[m.seq])
    BY <1>1, CallFiles DEF Refused
  <2> QED BY <2>1, CallFiles
<1> QED BY <1>1 DEF ToRun, Unstamped, Applied, Fits, Unfinished, Stands, Identified

(* A file that is put on record as running is unfinished, and so stay the   *)
(* others; one that is put on record as applied stands.                     *)
LEMMA OthersUnfinished ==
  ASSUME CInv, NEW p \in Procs, pc[p] \in {"apply", "record"}, lock = p,
         NEW r, Puts(Current(p), r), NEW m \in todo[p], m # Current(p)
  PROVE  Unfinished(ledger'[m.seq], m)
<1>1. pc[p] \in AtFile /\ pc[p] \in Busy
  BY DEF AtFile, OnRecord, Busy
<1>2. m \in Files(call[p].tree) /\ Unfinished(ledger[m.seq], m)
  BY <1>1 DEF CInv, ProcOK, CallOK, ClaimOK
<1>3. m.seq \in Seqs /\ m.seq # Current(p).seq /\ Current(p).seq \in Seqs
  BY <1>1, <1>2, CallFiles, CurrentFile
<1> QED BY <1>2, <1>3, PutAt

LEMMA DoneStays ==
  ASSUME CInv, NEW p \in Procs, pc[p] \in Busy \/ succeeded[p], Grows
  PROVE  \A m \in Files(call[p].tree) \ todo[p] : Stands(ledger'[m.seq], m)
<1>1. \A m \in Files(call[p].tree) : m.seq \in Seqs
  BY CallFiles
<1> QED BY <1>1 DEF CInv, ProcOK, DoneOK, Grows, Stands, Applied

-----------------------------------------------------------------------------
(* Every action keeps its own call in order *)

LEMMA StampKeeps ==
  ASSUME CInv, NEW p \in Procs, Stamp(p) PROVE CallsOK' /\ ProcOK(p)'
<1>1. pc[p] = "stamp" /\ pc[p] \in Busy /\ lock = p /\ LedgerWrite(p) /\ Grows
  BY WriteGrows DEF Stamp, Busy, LedgerWrite, Executor
<1> DEFINE rest == {m \in stamps[p] : ~Lowest(stamps[p], m)}
<1>2. rest \in SUBSET Files(call[p].tree) /\ todo[p] \in SUBSET Files(call[p].tree)
  BY DEF CInv, ProcOK, CallOK
<1>3. ASSUME NEW m \in todo[p] PROVE Unfinished(ledger'[m.seq], m)
  <2>1. Unfinished(ledger[m.seq], m) /\ m.seq \in Seqs
    BY <1>1, <1>2, CallFiles DEF CInv, ProcOK, ClaimOK
  <2>2. CASE ledger' = ledger
    BY <2>1, <2>2
  <2>3. ASSUME NEW f \in stamps[p], NEW r, Puts(f, r), Recorded(ledger[f.seq]),
               r.filename = ledger[f.seq].filename, r.digest = ledger[f.seq].digest,
               r.status = ledger[f.seq].status
        PROVE  Unfinished(ledger'[m.seq], m)
    <3>1. f.seq \in Seqs
      BY CallFiles DEF CInv, ProcOK, CallOK
    <3>2. ledger'[f.seq] = r /\ Recorded(r) /\ (f.seq # m.seq => ledger'[m.seq] = ledger[m.seq])
      BY <2>1, <2>3, <3>1, PutAt
    <3> QED BY <2>1, <2>3, <3>2 DEF Unfinished, Identified
  <2> QED BY <1>1, <2>2, <2>3, WriteEffect
<1>4. \A m \in Files(call[p].tree) \ todo[p] : Stands(ledger'[m.seq], m)
  BY <1>1, DoneStays
<1>5. Continue(p, rest, todo[p])
  BY DEF Stamp
<1> HIDE DEF rest
<1> QED BY <1>1, <1>2, <1>3, <1>4, <1>5, ContinueKeeps

LEMMA RecordRunningKeeps ==
  ASSUME CInv, NEW p \in Procs, RecordRunning(p) PROVE CallsOK' /\ ProcOK(p)'
<1>1. /\ pc[p] = "apply" /\ pc[p] \in AtFile /\ pc[p] \in {"apply", "record"} /\ lock = p
      /\ LedgerWrite(p) /\ Grows
  BY WriteGrows DEF RecordRunning, AtFile, LedgerWrite, Executor
<1>2. PICK r : Puts(Current(p), r) /\ Identified(r, Current(p)) /\ r.status = StatusRunning
  BY <1>1, WriteEffect
<1>3. Current(p).seq \in Seqs /\ Current(p) \in todo[p] /\ Current(p) \in Migrations
  BY <1>1, CurrentFile
<1>4. ledger'[Current(p).seq] = r
  BY <1>2, <1>3, PutAt
<1>5. \A m \in todo[p] : Unfinished(ledger'[m.seq], m)
  BY <1>1, <1>2, <1>4, OthersUnfinished DEF Unfinished
<1>6. /\ retry[p] \in [stmt : Nat, waits : 0..MaxWaits, dropped : BOOLEAN]
      /\ retry' = [retry EXCEPT ![p] = retry[p]] /\ retry[p].stmt = 1
  BY <1>1 DEF RecordRunning, callVars, CInv, ClickHouseOK, ProcOK, CallOK
<1>7. Current(p).stmts \in Nat \ {0}
  BY <1>3, UnitsType
<1>8. /\ Goto(p, "exec") /\ "exec" \in OnRecord /\ "exec" # "record" /\ lock' = lock
      /\ UNCHANGED <<call, todo, stamps, succeeded>>
  BY DEF RecordRunning, callVars, OnRecord, Retrying
<1>9. retry[p].stmt \in 1..Current(p).stmts /\ 1..(retry[p].stmt - 1) = {}
  BY <1>6, <1>7
<1>10. Identified(ledger'[Current(p).seq], Current(p))
  BY <1>2, <1>4
<1> QED BY <1>1, <1>5, <1>6, <1>8, <1>9, <1>10, FileStepKeeps

LEMMA RecordAppliedKeeps ==
  ASSUME CInv, NEW p \in Procs, RecordApplied(p) PROVE CallsOK' /\ ProcOK(p)'
<1>1. /\ pc[p] = "record" /\ pc[p] \in AtFile /\ pc[p] \in Busy /\ pc[p] \in {"apply", "record"}
      /\ lock = p /\ LedgerWrite(p) /\ Grows
  BY WriteGrows DEF RecordApplied, AtFile, OnRecord, Busy, LedgerWrite, Executor
<1>2. PICK r : Puts(Current(p), r) /\ Identified(r, Current(p)) /\ r.status = StatusApplied
  BY <1>1, WriteEffect
<1>3. Current(p).seq \in Seqs /\ Current(p) \in todo[p]
  BY <1>1, CurrentFile
<1>4. ledger'[Current(p).seq] = r
  BY <1>2, <1>3, PutAt
<1>5. \A m \in todo[p] \ {Current(p)} : Unfinished(ledger'[m.seq], m)
  BY <1>1, <1>2, OthersUnfinished
<1>6. Stands(ledger'[Current(p).seq], Current(p))
  BY <1>2, <1>4 DEF Stands, Applied, Identified
<1>7. \A m \in Files(call[p].tree) \ (todo[p] \ {Current(p)}) : Stands(ledger'[m.seq], m)
  BY <1>1, <1>6, DoneStays
<1>8. todo[p] \ {Current(p)} \in SUBSET Files(call[p].tree) /\ {} \in SUBSET Files(call[p].tree)
  BY DEF CInv, ProcOK, CallOK
<1>9. Continue(p, {}, todo[p] \ {Current(p)})
  BY DEF RecordApplied
<1> QED BY <1>1, <1>5, <1>7, <1>8, <1>9, ContinueKeeps

LEMMA ReadPendingKeeps ==
  ASSUME CInv, NEW p \in Procs, ReadPending(p) PROVE CallsOK' /\ ProcOK(p)'
<1>1. ledger' = ledger /\ pc[p] = "pending"
  BY DEF ReadPending
<1>2. CASE Refused(call[p].tree)
  BY <1>2, UnwindKeeps DEF ReadPending
<1>3. CASE ~Refused(call[p].tree)
  BY <1>1, <1>3, PendingIsSound, ContinueKeeps DEF ReadPending
<1> QED BY <1>2, <1>3

LEMMA ValidateKeeps ==
  ASSUME CInv, NEW p \in Procs, Validate(p) PROVE CallsOK' /\ ProcOK(p)'
<1> DEFINE verdict == ~Refused(call[p].tree) /\ ToRun(call[p].tree) = {}
<1>1. ledger' = ledger /\ Return(p, verdict) /\ verdict \in BOOLEAN
  BY DEF Validate
<1>2. verdict => \A m \in Files(call[p].tree) : Stands(ledger'[m.seq], m)
  BY <1>1, PendingIsSound
<1> HIDE DEF verdict
<1> QED BY <1>1, <1>2, ReturnKeeps

LEMMA BeginKeeps ==
  ASSUME CInv, NEW p \in Procs, Begin(p) PROVE CallsOK' /\ ProcOK(p)'
<1>1. pc[p] = "idle" /\ todo[p] = {} /\ stamps[p] = {} /\ CallsOK
  BY DEF Begin, CInv, ClickHouseOK, CallsOK, ProcOK, CallOK, Busy, AtFile, OnRecord, Retrying
<1>2. PICK verb \in {"apply", "validate"}, tree \in Trees :
        IF ValidateSequences(tree)
          THEN /\ Goto(p, IF verb = "apply" THEN "setup" ELSE "validate")
               /\ call' = [call EXCEPT ![p] = [verb |-> verb, tree |-> tree]]
               /\ succeeded' = [succeeded EXCEPT ![p] = FALSE]
               /\ UNCHANGED <<todo, stamps, retry>>
          ELSE Return(p, FALSE)
  BY DEF Begin
<1>3. CASE ~ValidateSequences(tree)
  BY <1>2, <1>3, ReturnKeeps
<1>4. CASE ValidateSequences(tree)
  <2>1. /\ pc' = [pc EXCEPT ![p] = IF verb = "apply" THEN "setup" ELSE "validate"]
        /\ call' = [call EXCEPT ![p] = [verb |-> verb, tree |-> tree]]
        /\ succeeded' = [succeeded EXCEPT ![p] = FALSE]
        /\ UNCHANGED <<todo, stamps, retry>>
    BY <1>2, <1>4 DEF Goto
  <2>2. CallsOK'
    BY <1>1, <2>1 DEF CallsOK
  <2>3. /\ pc'[p] \in {"setup", "validate"} /\ call'[p].tree = tree /\ ~succeeded'[p]
        /\ todo'[p] = {} /\ stamps'[p] = {}
    BY <1>1, <2>1 DEF CallsOK
  <2>4. CallOK(p)'
    BY <1>4, <2>3 DEF CallOK, Busy, AtFile, OnRecord, Retrying
  <2>5. WorkOK(p)' /\ ClaimOK(p)' /\ DoneOK(p)'
    BY <2>3 DEF WorkOK, ClaimOK, DoneOK, Busy, AtFile, OnRecord, Retrying
  <2> QED BY <2>2, <2>4, <2>5 DEF ProcOK
<1> QED BY <1>3, <1>4

(* On the way to the lock.                                                  *)
LEMMA WaitingKeeps ==
  ASSUME CInv, NEW p \in Procs, EnsureSetup(p) \/ AcquireLock(p) PROVE CallsOK' /\ ProcOK(p)'
<1>1. CallsOK
  BY DEF CInv, ClickHouseOK, CallsOK
<1>2. /\ pc[p] \in {"setup", "lock"} /\ UNCHANGED callVars
      /\ \E where \in {"lock", "pending"} : Goto(p, where)
  BY DEF EnsureSetup, AcquireLock
<1>3. CallsOK'
  BY <1>1, <1>2 DEF CallsOK, Goto, callVars
<1>4. pc'[p] \in {"lock", "pending"} /\ Current(p)' = Current(p)
  BY <1>1, <1>2 DEF Goto, CallsOK, Current, Lowest, callVars
<1>5. CallOK(p)' /\ ~succeeded[p]
  BY <1>2, <1>4 DEF CInv, ProcOK, CallOK, callVars, Busy, AtFile, OnRecord, Retrying
<1>6. WorkOK(p)' /\ ClaimOK(p)' /\ DoneOK(p)'
  BY <1>2, <1>4, <1>5 DEF callVars, WorkOK, ClaimOK, DoneOK, Busy, AtFile, OnRecord, Retrying
<1> QED BY <1>3, <1>5, <1>6 DEF ProcOK

(* The same statement again, or on the way to it.                           *)
LEMMA RetryKeeps ==
  ASSUME CInv, NEW p \in Procs, pc[p] \in Retrying, NEW where \in Retrying, Goto(p, where),
         UNCHANGED <<ledger, effects, lock, call, todo, stamps, succeeded>>,
         NEW r \in [stmt : Nat, waits : 0..MaxWaits, dropped : BOOLEAN], r.stmt = retry[p].stmt,
         retry' = [retry EXCEPT ![p] = r]
  PROVE  CallsOK' /\ ProcOK(p)'
<1>1. pc[p] \in OnRecord /\ pc[p] \in AtFile /\ pc[p] \in Busy /\ where \in OnRecord /\ where # "record"
  BY DEF OnRecord, AtFile, Busy, Retrying
<1>2. Grows
  BY DEF Grows
<1>3. /\ Identified(ledger[Current(p).seq], Current(p)) /\ retry[p].stmt \in 1..Current(p).stmts
      /\ \A k \in 1..(retry[p].stmt - 1) : <<Current(p), k>> \in effects
      /\ \A m \in todo[p] : lock = p => Unfinished(ledger[m.seq], m)
  BY <1>1 DEF CInv, ProcOK, WorkOK, ClaimOK
<1> QED BY <1>1, <1>2, <1>3, FileStepKeeps

LEMMA RanKeeps ==
  ASSUME CInv, NEW p \in Procs, Ran(p) PROVE CallsOK' /\ ProcOK(p)'
<1>1. /\ pc[p] \in Retrying /\ pc[p] \in OnRecord /\ pc[p] \in AtFile /\ pc[p] \in Busy
      /\ ledger' = ledger /\ lock' = lock /\ effects' = effects \cup {Piece(p)}
      /\ UNCHANGED <<call, todo, stamps, succeeded>>
  BY DEF Ran, OnRecord, AtFile, Busy, Retrying
<1>2. Grows
  BY <1>1 DEF Grows
<1>3. /\ Identified(ledger[Current(p).seq], Current(p)) /\ retry[p].stmt \in 1..Current(p).stmts
      /\ \A k \in 1..(retry[p].stmt - 1) : <<Current(p), k>> \in effects
      /\ \A m \in todo[p] : lock = p => Unfinished(ledger[m.seq], m)
  BY <1>1 DEF CInv, ProcOK, WorkOK, ClaimOK
<1>4. Current(p).stmts \in Nat
  BY <1>1, CurrentFile, UnitsType
<1> DEFINE r == FromStatement(retry[p].stmt + 1)
           where == IF retry[p].stmt = Current(p).stmts THEN "record" ELSE "exec"
<1>5. r \in [stmt : Nat, waits : 0..MaxWaits, dropped : BOOLEAN] /\ r.stmt = retry[p].stmt + 1
  BY <1>3, <1>4, ClickHouseAssumption DEF FromStatement, ClickHouseAssumption
<1>6. retry' = [retry EXCEPT ![p] = r] /\ Goto(p, where)
  BY DEF Ran, CInv, ClickHouseOK
<1>7. where \in OnRecord
  BY DEF OnRecord, Retrying
<1>8. \A k \in 1..retry[p].stmt : <<Current(p), k>> \in effects'
  BY <1>1, <1>3, <1>4 DEF Piece
<1>9. where \in Retrying => /\ r.stmt \in 1..Current(p).stmts
                            /\ \A k \in 1..(r.stmt - 1) : <<Current(p), k>> \in effects'
  BY <1>3, <1>4, <1>5, <1>8 DEF Retrying
<1>10. where = "record" => PiecesOf(Current(p)) \subseteq effects'
  BY <1>8 DEF PiecesOf
<1> HIDE DEF r, where
<1> QED BY <1>1, <1>2, <1>3, <1>5, <1>6, <1>7, <1>9, <1>10, FileStepKeeps

LEMMA StatementKeeps ==
  ASSUME CInv, NEW p \in Procs, Statement(p) PROVE CallsOK' /\ ProcOK(p)'
<1>1. retry \in [Procs -> [stmt : Nat, waits : 0..MaxWaits, dropped : BOOLEAN]]
  BY DEF CInv, ClickHouseOK
<1>2. CASE Ran(p)
  BY <1>2, RanKeeps
<1>3. ASSUME NEW where \in Retrying, pc[p] \in Retrying, Goto(p, where), UNCHANGED callVars,
             UNCHANGED <<ledger, effects, lock>>
      PROVE  CallsOK' /\ ProcOK(p)'
  <2>1. retry' = [retry EXCEPT ![p] = retry[p]] /\ UNCHANGED <<call, todo, stamps, succeeded>>
    BY <1>1, <1>3 DEF callVars
  <2> QED BY <1>1, <1>3, <2>1, RetryKeeps
<1>4. CASE Collides(p) \/ Transient(p)
  BY <1>3, <1>4 DEF Collides, Transient, chVars, Retrying
<1>5. ASSUME Unwind(p, FALSE) PROVE CallsOK' /\ ProcOK(p)'
  BY <1>5, UnwindKeeps
<1>6. CASE ExecFails(p) \/ GiveUp(p)
  BY <1>5, <1>6 DEF ExecFails, GiveUp
<1>7. CASE AskOwner(p)
  <2>1. CASE ~retry[p].dropped /\ retry' = [retry EXCEPT ![p].dropped = TRUE] /\ Goto(p, "drop")
             /\ UNCHANGED <<call, todo, stamps, succeeded>>
    <3> DEFINE r == [retry[p] EXCEPT !.dropped = TRUE]
    <3>1. /\ r \in [stmt : Nat, waits : 0..MaxWaits, dropped : BOOLEAN] /\ r.stmt = retry[p].stmt
          /\ retry' = [retry EXCEPT ![p] = r]
      BY <1>1, <2>1
    <3> HIDE DEF r
    <3> QED BY <1>7, <2>1, <3>1, RetryKeeps DEF AskOwner, chVars, Retrying
  <2> QED BY <1>3, <1>5, <1>7, <2>1 DEF AskOwner, chVars, Retrying
<1>8. CASE DropReplica(p)
  BY <1>3, <1>5, <1>8 DEF DropReplica, Retrying
<1>9. CASE Wait(p)
  <2> DEFINE r == [retry[p] EXCEPT !.waits = retry[p].waits + 1]
  <2>1. retry[p].waits + 1 \in 0..MaxWaits
    BY <1>1, <1>9, ClickHouseAssumption DEF Wait, ClickHouseAssumption
  <2>2. r \in [stmt : Nat, waits : 0..MaxWaits, dropped : BOOLEAN] /\ r.stmt = retry[p].stmt
    BY <1>1, <2>1
  <2>3. retry' = [retry EXCEPT ![p] = r]
    BY <1>1, <1>9 DEF Wait
  <2> HIDE DEF r
  <2> QED BY <1>9, <2>2, <2>3, RetryKeeps DEF Wait, chVars, Retrying
<1> QED BY <1>2, <1>4, <1>6, <1>7, <1>8, <1>9 DEF Statement

(* The call ends, with a verdict only where it is known.                    *)
LEMMA EndsKeep ==
  ASSUME CInv, NEW p \in Procs,
         LockFails(p) \/ Unlocked(p) \/ UnlockFails(p) \/ LedgerFails(p) \/ Crash(p)
  PROVE  CallsOK' /\ ProcOK(p)'
<1>1. CASE Return(p, FALSE)
  BY <1>1, ReturnKeeps
<1>2. CASE Unwind(p, FALSE)
  BY <1>2, UnwindKeeps
<1>3. CASE Unlocked(p)
  <2>1. /\ Return(p, succeeded[p]) /\ succeeded[p] \in BOOLEAN /\ ledger' = ledger /\ todo[p] = {}
    BY <1>3 DEF Unlocked, CInv, ClickHouseOK, ProcOK, CallOK, Busy, AtFile, OnRecord, Retrying
  <2>2. succeeded[p] => \A m \in Files(call[p].tree) : Stands(ledger'[m.seq], m)
    BY <2>1 DEF CInv, ProcOK, DoneOK
  <2> QED BY <2>1, <2>2, ReturnKeeps
<1> QED BY <1>1, <1>2, <1>3 DEF LockFails, UnlockFails, LedgerFails, Crash

-----------------------------------------------------------------------------
(* Every step keeps the invariant *)

Acts(p) ==
  \/ Begin(p) \/ EnsureSetup(p) \/ AcquireLock(p) \/ LockFails(p) \/ ReadPending(p) \/ Stamp(p)
  \/ RecordRunning(p) \/ Statement(p) \/ RecordApplied(p) \/ Unlocked(p) \/ UnlockFails(p)
  \/ Validate(p) \/ LedgerFails(p) \/ Crash(p)

(* A step is of one process, of a session that ends, or of ClickHouse.      *)
LEMMA StepOf ==
  ASSUME [Next]_vars
  PROVE  \/ UNCHANGED <<pc, callVars>> /\ (UNCHANGED <<ledger, lock>> \/ lock' = Nobody)
         \/ \E p \in Procs : Acts(p)
BY DEF Next, vars, Acts, SessionLost, LateEffect, GhostMoves, callVars

LEMMA ActorWrites ==
  ASSUME NEW p \in Procs, Acts(p) PROVE ledger' = ledger \/ lock = p
BY DEF Acts, Begin, EnsureSetup, AcquireLock, LockFails, ReadPending, Stamp, RecordRunning,
       Statement, Ran, Collides, Transient, ExecFails, AskOwner, DropReplica, Wait, GiveUp,
       RecordApplied, Unlocked, UnlockFails, Validate, LedgerFails, Crash, LedgerWrite, Executor

LEMMA ActorKeeps ==
  ASSUME CInv, NEW p \in Procs, Acts(p) PROVE CallsOK' /\ ProcOK(p)'
BY BeginKeeps, WaitingKeeps, EndsKeep, ReadPendingKeeps, StampKeeps, RecordRunningKeeps,
   StatementKeeps, RecordAppliedKeeps, ValidateKeeps DEF Acts

(* The other processes are not touched, whatever a process does.            *)
LEMMA OthersRest ==
  ASSUME CInv, NEW p \in Procs, Acts(p), NEW r \in Procs, r # p
  PROVE  Rests(r) /\ (lock' = r => lock = r)
<1>0. Nobody # r
  BY ClickHouseAssumption DEF ClickHouseAssumption
<1>14. CallsOK
  BY DEF CInv, ClickHouseOK, CallsOK
<1> USE <1>14 DEF Rests, CallsOK
<1>1. ASSUME NEW s, Return(p, s) PROVE Rests(r)
  BY <1>1 DEF Return, Goto
<1>2. ASSUME NEW s, Unwind(p, s) PROVE Rests(r)
  BY <1>2 DEF Unwind, Goto
<1>3. ASSUME NEW a, NEW b, Continue(p, a, b) PROVE Rests(r)
  BY <1>2, <1>3 DEF Continue, Goto
<1>4. CASE Begin(p)
  BY <1>1, <1>4 DEF Begin, Goto
<1>5. CASE EnsureSetup(p) \/ AcquireLock(p)
  BY <1>5 DEF EnsureSetup, AcquireLock, Goto, callVars
<1>6. CASE LockFails(p) \/ Unlocked(p) \/ UnlockFails(p)
  <2>1. Rests(r)
    BY <1>1, <1>6 DEF LockFails, Unlocked, UnlockFails
  <2>2. lock' = r => lock = r
    BY <1>0, <1>6 DEF LockFails, Unlocked, UnlockFails
  <2> QED BY <2>1, <2>2
<1>7. CASE ReadPending(p) \/ Stamp(p) \/ RecordApplied(p)
  BY <1>2, <1>3, <1>7 DEF ReadPending, Stamp, RecordApplied
<1>8. CASE RecordRunning(p)
  BY <1>8 DEF RecordRunning, Goto, callVars
<1>9. CASE Ran(p) \/ Collides(p) \/ Transient(p) \/ Wait(p)
  BY <1>9 DEF Ran, Collides, Transient, Wait, Goto, callVars
<1>10. CASE ExecFails(p) \/ GiveUp(p)
  BY <1>2, <1>10 DEF ExecFails, GiveUp
<1>11. CASE AskOwner(p) \/ DropReplica(p)
  BY <1>2, <1>11 DEF AskOwner, DropReplica, Goto, callVars
<1>12. CASE Validate(p) \/ LedgerFails(p)
  BY <1>1, <1>2, <1>12 DEF Validate, LedgerFails
<1>13. CASE Crash(p)
  BY <1>0, <1>1, <1>13 DEF Crash
<1> QED
  BY <1>4, <1>5, <1>6, <1>7, <1>8, <1>9, <1>10, <1>11, <1>12, <1>13 DEF Acts, Statement

LEMMA LockKept ==
  ASSUME CInv, [Next]_vars PROVE LockOK'
<1>1. LockOK /\ Nobody \notin Procs
  BY ClickHouseAssumption DEF CInv, ClickHouseOK, LockOK, ClickHouseAssumption
<1>2. CASE UNCHANGED <<lock, leaked>>
  BY <1>1, <1>2 DEF LockOK
<1>3. ASSUME NEW p \in Procs,
             \/ AcquireLock(p) \/ LockFails(p) \/ Unlocked(p) \/ UnlockFails(p)
             \/ SessionLost(p) \/ Crash(p)
      PROVE  LockOK'
  <2>1. CASE AcquireLock(p)
    BY <1>1, <2>1 DEF LockOK, AcquireLock
  <2>2. CASE LockFails(p)
    <3>1. (lock' = p /\ leaked' = TRUE) \/ UNCHANGED <<lock, leaked>>
      BY <2>2, Zenon DEF LockFails
    <3>2. CASE lock' = p /\ leaked' = TRUE
      BY <1>1, <3>2 DEF LockOK
    <3> QED BY <1>2, <3>1, <3>2
  <2>3. CASE Unlocked(p)
    BY <1>1, <2>3 DEF LockOK, Unlocked
  <2>4. CASE UnlockFails(p)
    BY <1>1, <2>4 DEF LockOK, UnlockFails
  <2>5. CASE SessionLost(p)
    BY <1>1, <2>5 DEF LockOK, SessionLost
  <2>6. CASE Crash(p)
    BY <1>1, <2>6 DEF LockOK, Crash
  <2> QED BY <1>3, <2>1, <2>2, <2>3, <2>4, <2>5, <2>6
<1> QED
  BY <1>2, <1>3
  DEF Next, vars, Begin, EnsureSetup, ReadPending, Stamp, RecordRunning, Statement, Ran, Collides,
      Transient, ExecFails, AskOwner, DropReplica, Wait, GiveUp, RecordApplied, Validate,
      LedgerFails, LateEffect, GhostMoves

(* Who loses the lock writes no more, and nobody writes without it.         *)
LEMMA AllKeep ==
  ASSUME CInv, [Next]_vars PROVE CallsOK' /\ \A r \in Procs : ProcOK(r)'
<1>1. Grows /\ effects \subseteq effects'
  BY StepGrows, StoresKept
<1>2. CASE UNCHANGED <<pc, callVars>> /\ (UNCHANGED <<ledger, lock>> \/ lock' = Nobody)
  <2>1. CallsOK'
    BY <1>2 DEF CInv, ClickHouseOK, CallsOK, callVars
  <2>2. ASSUME NEW r \in Procs PROVE ProcOK(r)'
    <3>1. Nobody # r
      BY ClickHouseAssumption DEF ClickHouseAssumption
    <3>2. Rests(r) /\ (lock' = r => lock = r /\ ledger' = ledger)
      BY <1>2, <3>1 DEF Rests, callVars
    <3> QED BY <1>1, <3>2, RestingKeeps
  <2> QED BY <2>1, <2>2
<1>3. ASSUME NEW p \in Procs, Acts(p) PROVE CallsOK' /\ \A r \in Procs : ProcOK(r)'
  <2>1. CallsOK' /\ ProcOK(p)'
    BY <1>3, ActorKeeps
  <2>2. ASSUME NEW r \in Procs, r # p PROVE ProcOK(r)'
    <3>1. Rests(r) /\ (lock' = r => lock = r)
      BY <1>3, <2>2, OthersRest
    <3>2. lock' = r => lock = r /\ ledger' = ledger
      BY <1>3, <2>2, <3>1, ActorWrites
    <3> QED BY <1>1, <3>1, <3>2, RestingKeeps
  <2> QED BY <2>1, <2>2
<1> QED BY <1>2, <1>3, StepOf

LEMMA StepCInv == ASSUME CInv, [Next]_vars PROVE CInv'
<1>1. ledger' \in Records
  BY StepGrows
<1>2. ClickHouseOK'
  BY <1>1, StoresKept, LockKept, AllKeep DEF ClickHouseOK, StoresOK, LockOK, CallsOK
<1> QED BY <1>2, AllKeep, EffectsOKKept, CompleteKept DEF CInv

-----------------------------------------------------------------------------
(* What an earlier release left                                             *)

LEMMA InitCInv == ASSUME Init PROVE CInv
<1>1. PICK h \in Histories :
        /\ ledger = [q \in Seqs |-> IF \E m \in h : m.seq = q
                                      THEN LegacyRow(CHOOSE m \in h : m.seq = q) ELSE NoRow]
        /\ effects = UNION {PiecesOf(m) : m \in h}
  BY DEF Init
<1>2. h \subseteq Migrations /\ (\A m \in h : m.seq \in Seqs) /\ \A m, n \in h : m.seq = n.seq => m = n
  BY ClickHouseAssumption DEF ClickHouseAssumption, Seqs
<1>3. ASSUME NEW m \in h
      PROVE  ledger[m.seq] = LegacyRow(m) /\ LegacyRow(m) \in Rows /\ Identified(ledger[m.seq], m)
  <2>1. (CHOOSE n \in h : n.seq = m.seq) = m
    BY <1>2
  <2>2. ledger[m.seq] = LegacyRow(m)
    BY <1>1, <1>2, <2>1
  <2>3. LegacyRow(m) \in Rows
    BY <1>2 DEF LegacyRow, Rows, Names, Digests, ContentDigest
  <2>4. LegacyRow(m) # NoRow
    BY <2>3, NoRowAssumption DEF NoRowAssumption
  <2> QED BY <2>2, <2>3, <2>4 DEF Identified, Recorded, LegacyRow
<1>4. ASSUME NEW q \in Seqs, \A m \in h : m.seq # q PROVE ledger[q] = NoRow
  BY <1>1, <1>4
<1>5. ledger \in Records
  <2>1. \A q \in Seqs : ledger[q] \in Rows \cup {NoRow}
    BY <1>3, <1>4
  <2> QED BY <1>1, <2>1 DEF Records
<1>6. effects \subseteq AllPieces
  BY <1>1, <1>2 DEF AllPieces
<1>7. ClickHouseOK
  <2>1. NoCall \in [verb : {"none", "apply", "validate"}, tree : Trees \cup {<<>>}]
    BY DEF NoCall
  <2>2. FromStatement(1) \in [stmt : Nat, waits : 0..MaxWaits, dropped : BOOLEAN]
    BY ClickHouseAssumption DEF FromStatement, ClickHouseAssumption
  <2> QED BY <1>5, <1>6, <2>1, <2>2 DEF Init, ClickHouseOK
<1>8. ASSUME NEW p \in Procs PROVE ProcOK(p)
  <2>1. /\ pc[p] = "idle" /\ call[p] = NoCall /\ todo[p] = {} /\ stamps[p] = {} /\ ~succeeded[p]
    BY DEF Init
  <2>2. ValidateSequences(NoCall.tree)
    BY DEF NoCall, ValidateSequences, InTree, Files
  <2>3. CallOK(p)
    BY <2>1, <2>2 DEF CallOK, Busy, AtFile, OnRecord, Retrying
  <2>4. WorkOK(p) /\ ClaimOK(p) /\ DoneOK(p)
    BY <2>1 DEF WorkOK, ClaimOK, DoneOK, Busy, AtFile, OnRecord, Retrying
  <2> QED BY <2>3, <2>4 DEF ProcOK
<1>9. EffectsOK
  <2>1. ASSUME NEW piece \in effects PROVE piece[1] \in h
    <3>1. PICK m \in h : piece \in PiecesOf(m)
      BY <1>1
    <3> QED BY <3>1 DEF PiecesOf
  <2> QED BY <1>2, <1>3, <2>1 DEF Init, EffectsOK
<1>10. AppliedMeansComplete
  <2> SUFFICES ASSUME NEW m \in Migrations, m.seq # NoSequence, Identified(ledger[m.seq], m)
               PROVE  PiecesOf(m) \subseteq effects
    BY DEF AppliedMeansComplete, Applied, Identified
  <2>1. m.seq \in Seqs
    BY DEF Seqs
  <2>2. PICK n \in h : n.seq = m.seq
    BY <1>4, <2>1 DEF Identified, Recorded
  <2>3. n = m
    BY <1>2, <1>3, <2>2, OneFilePerRow
  <2> QED BY <1>1, <2>3
<1> QED BY <1>7, <1>8, <1>9, <1>10 DEF CInv

-----------------------------------------------------------------------------
(* Theorems *)

(* CInv is an inductive invariant of ClickHouse: it holds at the start and  *)
(* every step keeps it.                                                     *)
THEOREM ClickHouseInvariance == Spec => []CInv
<1>1. Init => CInv
  BY InitCInv
<1>2. CInv /\ [Next]_vars => CInv'
  BY StepCInv
<1> QED BY <1>1, <1>2, PTL DEF Spec

(* Type correctness: rows, statements, lock and calls stay in range.        *)
THEOREM ClickHouseOKAlways == Spec => []ClickHouseOK
<1>1. CInv => ClickHouseOK
  BY DEF CInv
<1> QED BY <1>1, ClickHouseInvariance, PTL

(* Nothing takes effect in ClickHouse before the identity of its file is on *)
(* record, for any number of processes, replicas, files and failures.       *)
THEOREM EffectsAreRecordedAlways == Spec => []EffectsAreRecorded
<1>1. CInv => EffectsAreRecorded
  BY DEF CInv, EffectsOK, EffectsAreRecorded, Identified
<1> QED BY <1>1, ClickHouseInvariance, PTL

(* A row reads applied only if every statement of its file took effect.     *)
THEOREM AppliedMeansCompleteAlways == Spec => []AppliedMeansComplete
<1>1. CInv => AppliedMeansComplete
  BY DEF CInv
<1> QED BY <1>1, ClickHouseInvariance, PTL

(* A call that returned nil shipped only files that are applied.            *)
THEOREM ClickHouseSuccessAlways == Spec => []SuccessMeansApplied
<1>1. ASSUME CInv PROVE SuccessMeansApplied
  <2> SUFFICES ASSUME NEW p \in Procs, succeeded[p], pc[p] = "idle", NEW m \in Files(call[p].tree)
               PROVE  Stands(ledger[m.seq], m)
    BY DEF SuccessMeansApplied, Stands
  <2>1. todo[p] = {}
    BY <1>1 DEF CInv, ProcOK, CallOK, Busy, AtFile, OnRecord, Retrying
  <2> QED BY <1>1, <2>1 DEF CInv, ProcOK, DoneOK
<1> QED BY <1>1, ClickHouseInvariance, PTL

(* No step reopens an applied row or gives it another identity, not even    *)
(* that of a migrator that lost its lock session half-way.                  *)
THEOREM AppliedIsFinalAlways == Spec => AppliedIsFinal
<1>1. ASSUME CInv, [Next]_vars
      PROVE  [\A q \in Seqs : Applied(ledger[q]) =>
                /\ Applied(ledger'[q])
                /\ ledger'[q].filename = ledger[q].filename
                /\ ledger'[q].digest = ledger[q].digest]_vars
  BY <1>1, StepGrows DEF Grows, Applied
<1> QED BY <1>1, ClickHouseInvariance, PTL DEF Spec, AppliedIsFinal
=============================================================================
