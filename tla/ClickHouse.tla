----------------------------- MODULE ClickHouse -----------------------------
(***************************************************************************)
(* ApplyMigrations and ValidateAllApplied of the ClickHouse migrator. Rows *)
(* and lock live in Postgres, tables in ClickHouse and their replicas in   *)
(* Keeper; nothing is atomic across the three. A process that lost its     *)
(* lock session cannot write the ledger any more, but its statements still *)
(* reach ClickHouse; a statement whose client is gone may still run later. *)
(*                                                                         *)
(* One app and one target database: other apps only make a caller wait for *)
(* the lock. Statements are idempotent, as the README asks of migrations.  *)
(* Every file of Ledger has pieces of its own here (notx is TRUE for all). *)
(***************************************************************************)
EXTENDS Ledger

CONSTANTS Procs, Nobody,
          Trees,        \* migration trees a process may ship
          Histories,    \* sets of files applied before semantic digests were kept
          Replicated,   \* statements that register a replica in Keeper
          MaxWaits      \* backoffs within maxRetryDuration: 1+2+4+8+16 s

PiecesOf(m) == {m} \X (1..m.stmts)
AllPieces == UNION {PiecesOf(m) : m \in Migrations}

ClickHouseAssumption ==
  /\ Nobody \notin Procs
  /\ \A t \in Trees : t \in Seq(Migrations)
  /\ \A h \in Histories : /\ h \subseteq {m \in Migrations : m.seq # NoSequence}
                          /\ \A m, n \in h : m.seq = n.seq => m = n
  /\ Replicated \subseteq AllPieces
  /\ MaxWaits \in Nat
ASSUME ClickHouseAssumption

VARIABLES
  ledger,     \* the scope's rows of public.migrations
  effects,    \* the statements that took effect in ClickHouse
  ghosts,     \* replicas registered in Keeper that no table owns
  orphans,    \* statements that may still run though nobody waits for them
  lock,       \* whose session holds the target's advisory lock
  leaked,     \* whether that session is back in its pool
  pc, call, todo, stamps,
  succeeded,  \* whether its last call returned nil, or is about to
  retry       \* the statement a process is at, its waits, droppedStaleReplica

chVars == <<effects, ghosts, orphans>>
callVars == <<call, todo, stamps, retry, succeeded>>
vars == <<ledger, chVars, lock, leaked, pc, callVars>>

NoCall == [verb |-> "none", tree |-> <<>>]
FromStatement(k) == [stmt |-> k, waits |-> 0, dropped |-> FALSE]
Retrying == {"exec", "owner", "drop", "backoff"}

ClickHouseOK ==
  /\ ledger \in Records
  /\ effects \subseteq AllPieces /\ orphans \subseteq AllPieces \ effects
  /\ ghosts \subseteq Replicated \ effects
  /\ lock \in Procs \cup {Nobody}
  /\ leaked \in BOOLEAN /\ (leaked => lock # Nobody)
  /\ pc \in [Procs -> {"idle", "validate", "setup", "lock", "pending", "stamp", "apply", "record",
                       "unlock"} \cup Retrying]
  /\ call \in [Procs -> [verb : {"none", "apply", "validate"}, tree : Trees \cup {<<>>}]]
  /\ todo \in [Procs -> SUBSET Migrations] /\ stamps \in [Procs -> SUBSET Migrations]
  /\ retry \in [Procs -> [stmt : Nat, waits : 0..MaxWaits, dropped : BOOLEAN]]
  /\ succeeded \in [Procs -> BOOLEAN]

LegacyRow(m) == [filename |-> m.name, digest |-> ContentDigest(m), semantic |-> NoDigest,
                 status |-> StatusApplied]

Init ==
  /\ \E h \in Histories :
       /\ ledger = [q \in Seqs |-> IF \E m \in h : m.seq = q
                                     THEN LegacyRow(CHOOSE m \in h : m.seq = q) ELSE NoRow]
       /\ effects = UNION {PiecesOf(m) : m \in h}
  /\ ghosts \in SUBSET (Replicated \ effects)
  /\ orphans = {}
  /\ lock = Nobody /\ leaked = FALSE
  /\ pc = [p \in Procs |-> "idle"]
  /\ call = [p \in Procs |-> NoCall]
  /\ todo = [p \in Procs |-> {}] /\ stamps = [p \in Procs |-> {}]
  /\ retry = [p \in Procs |-> FromStatement(1)]
  /\ succeeded = [p \in Procs |-> FALSE]

-----------------------------------------------------------------------------
(* pending(): what the rows say of a tree *)

Applied(row) == Recorded(row) /\ row.status = StatusApplied

(* Mutant: an incomplete migration may have changed since it started.       *)
FitsByName(m, row) == row.filename = m.name /\ row.status \in {StatusApplied, StatusRunning}

Fits(m, row) ==
  /\ row.filename = m.name
  /\ row.status \in {StatusApplied, StatusRunning}
  /\ row.status = StatusRunning => row.digest = ContentDigest(m)

(* A row without a file, under another name, or half-done with other SQL.   *)
Refused(tree) ==
  \E q \in Seqs : /\ Recorded(ledger[q])
                  /\ ~\E m \in Files(tree) : m.seq = q /\ Fits(m, ledger[q])

(* Mutant: a running row counts as applied.                                 *)
Unrecorded(tree) == Pending(tree, ledger)

ToRun(tree) == {m \in Files(tree) : ~Applied(ledger[m.seq])}

Unstamped(tree) ==
  {m \in Files(tree) : /\ Recorded(ledger[m.seq])
                       /\ ledger[m.seq].digest = ContentDigest(m)
                       /\ ledger[m.seq].semantic = NoDigest}

-----------------------------------------------------------------------------
(* Helpers *)

Lowest(files, m) == m \in files /\ \A n \in files : m.seq <= n.seq
Current(p) == CHOOSE m \in todo[p] : Lowest(todo[p], m)
Piece(p) == <<Current(p), retry[p].stmt>>

Goto(p, where) == pc' = [pc EXCEPT ![p] = where]

(* Only a success keeps its arguments, for the properties.                  *)
Return(p, success) ==
  /\ Goto(p, "idle")
  /\ succeeded' = [succeeded EXCEPT ![p] = success]
  /\ call' = IF success THEN call ELSE [call EXCEPT ![p] = NoCall]
  /\ todo' = [todo EXCEPT ![p] = {}] /\ stamps' = [stamps EXCEPT ![p] = {}]
  /\ retry' = [retry EXCEPT ![p] = FromStatement(1)]

(* The deferred unlock runs before the call returns.                        *)
Unwind(p, success) ==
  /\ Goto(p, "unlock")
  /\ succeeded' = [succeeded EXCEPT ![p] = success]
  /\ todo' = [todo EXCEPT ![p] = {}] /\ stamps' = [stamps EXCEPT ![p] = {}]
  /\ retry' = [retry EXCEPT ![p] = FromStatement(1)]
  /\ UNCHANGED call

(* First the stamps, then the files, then unlock.                           *)
Continue(p, toStamp, toApply) ==
  IF toStamp \cup toApply = {} THEN Unwind(p, TRUE)
  ELSE /\ Goto(p, IF toStamp # {} THEN "stamp" ELSE "apply")
       /\ stamps' = [stamps EXCEPT ![p] = toStamp] /\ todo' = [todo EXCEPT ![p] = toApply]
       /\ retry' = [retry EXCEPT ![p] = FromStatement(1)]
       /\ UNCHANGED <<call, succeeded>>

(* Mutant: the tracker writes through the pool.                             *)
AnyConnection(p) == TRUE

(* Once locked, the tracker reads and writes on the lock session only.      *)
Executor(p) == lock = p

(* The ledger statement a process is at. RecordState changes nothing but    *)
(* the status of a row that exists.                                         *)
RecordState(m, status) ==
  ledger' = [ledger EXCEPT ![m.seq] = IF Recorded(@) THEN [@ EXCEPT !.status = status]
                                                     ELSE RowOf(m, status)]
StampSemantic(m) ==
  ledger' = [ledger EXCEPT ![m.seq] =
               IF Recorded(@) /\ @.digest = ContentDigest(m) /\ @.semantic = NoDigest
                 THEN [@ EXCEPT !.semantic = SemanticContentDigest(m)] ELSE @]

LedgerWrite(p) ==
  /\ Executor(p)
  /\ \/ pc[p] = "stamp" /\ \E m \in stamps[p] : Lowest(stamps[p], m) /\ StampSemantic(m)
     \/ pc[p] = "apply" /\ RecordState(Current(p), StatusRunning)
     \/ pc[p] = "record" /\ RecordState(Current(p), StatusApplied)

(* Nobody waits for the statement in flight any more (a second effect of    *)
(* one that took effect would change nothing).                              *)
LeaveOrphan(p) == pc[p] = "exec" /\ orphans' = orphans \cup ({Piece(p)} \ effects)

-----------------------------------------------------------------------------
(* ApplyMigrations *)

Begin(p) ==
  /\ pc[p] = "idle"
  /\ \E verb \in {"apply", "validate"}, tree \in Trees :
       IF ValidateSequences(tree)
         THEN /\ Goto(p, IF verb = "apply" THEN "setup" ELSE "validate")
              /\ call' = [call EXCEPT ![p] = [verb |-> verb, tree |-> tree]]
              /\ succeeded' = [succeeded EXCEPT ![p] = FALSE]
              /\ UNCHANGED <<todo, stamps, retry>>
         ELSE Return(p, FALSE)
  /\ UNCHANGED <<ledger, chVars, lock, leaked>>

(* Tables that do not exist yet hold no rows.                               *)
EnsureSetup(p) ==
  /\ pc[p] = "setup" /\ Goto(p, "lock")
  /\ UNCHANGED <<ledger, chVars, lock, leaked, callVars>>

(* A session that leaked the lock is granted it again.                      *)
AcquireLock(p) ==
  /\ pc[p] = "lock" /\ lock \in {Nobody, p}
  /\ lock' = p
  /\ Goto(p, "pending")
  /\ UNCHANGED <<ledger, chVars, leaked, callVars>>

(* The server may have granted it before the error; Close pools the session.*)
LockFails(p) ==
  /\ pc[p] = "lock"
  /\ \/ lock = Nobody /\ lock' = p /\ leaked' = TRUE
     \/ UNCHANGED <<lock, leaked>>
  /\ Return(p, FALSE)
  /\ UNCHANGED <<ledger, chVars>>

ReadPending(p) ==
  /\ pc[p] = "pending" /\ Executor(p)
  /\ IF Refused(call[p].tree) THEN Unwind(p, FALSE)
     ELSE Continue(p, Unstamped(call[p].tree), ToRun(call[p].tree))
  /\ UNCHANGED <<ledger, chVars, lock, leaked>>

Stamp(p) ==
  /\ pc[p] = "stamp" /\ LedgerWrite(p)
  /\ Continue(p, {m \in stamps[p] : ~Lowest(stamps[p], m)}, todo[p])
  /\ UNCHANGED <<chVars, lock, leaked>>

RecordRunning(p) ==
  /\ pc[p] = "apply" /\ LedgerWrite(p)
  /\ Goto(p, "exec")
  /\ UNCHANGED <<chVars, lock, leaked, callVars>>

RecordApplied(p) ==
  /\ pc[p] = "record" /\ LedgerWrite(p)
  /\ Continue(p, {}, todo[p] \ {Current(p)})
  /\ UNCHANGED <<chVars, lock, leaked>>

Unlocked(p) ==
  /\ pc[p] = "unlock" /\ lock = p
  /\ lock' = IF leaked THEN p ELSE Nobody     \* it was taken twice
  /\ Return(p, succeeded[p])
  /\ UNCHANGED <<ledger, chVars, leaked>>

(* The session is pooled whatever became of the lock.                       *)
UnlockFails(p) ==
  /\ pc[p] = "unlock"
  /\ leaked' = (leaked \/ lock = p)
  /\ Return(p, FALSE)
  /\ UNCHANGED <<ledger, chVars, lock>>

-----------------------------------------------------------------------------
(* execStatements *)

Ran(p) ==
  /\ pc[p] = "exec" /\ Piece(p) \notin ghosts
  /\ effects' = effects \cup {Piece(p)} /\ orphans' = orphans \ {Piece(p)}
  /\ retry' = [retry EXCEPT ![p] = FromStatement(@.stmt + 1)]
  /\ Goto(p, IF retry[p].stmt = Current(p).stmts THEN "record" ELSE "exec")
  /\ UNCHANGED <<ledger, ghosts, lock, leaked, call, todo, stamps, succeeded>>

(* REPLICA_ALREADY_EXISTS: of a ghost, or of another writer's new table.    *)
Collides(p) ==
  /\ pc[p] = "exec" /\ Piece(p) \in ghosts \cup (effects \cap Replicated)
  /\ Goto(p, "owner")
  /\ UNCHANGED <<ledger, chVars, lock, leaked, callVars>>

Transient(p) ==
  /\ pc[p] = "exec" /\ Goto(p, "backoff")
  /\ UNCHANGED <<ledger, chVars, lock, leaked, callVars>>

(* A permanent error; a lost connection leaves the statement to the server. *)
ExecFails(p) ==
  /\ pc[p] = "exec"
  /\ LeaveOrphan(p) \/ UNCHANGED orphans
  /\ Unwind(p, FALSE)
  /\ UNCHANGED <<ledger, effects, ghosts, lock, leaked>>

(* Mutant: nobody remembers that the replica was dropped.                   *)
AskOwnerForgetful(p) ==
  /\ pc[p] = "owner"
  /\ Goto(p, IF Piece(p) \in effects THEN "backoff" ELSE "drop")
  /\ UNCHANGED <<ledger, chVars, lock, leaked, callVars>>

(* A live owner: wait. None, or no right to ask: drop the replica, once.    *)
AskOwner(p) ==
  /\ pc[p] = "owner"
  /\ \/ /\ Piece(p) \in effects
        /\ Goto(p, "backoff") /\ UNCHANGED callVars
     \/ /\ ~retry[p].dropped
        /\ retry' = [retry EXCEPT ![p].dropped = TRUE]
        /\ Goto(p, "drop") /\ UNCHANGED <<call, todo, stamps, succeeded>>
     \/ Unwind(p, FALSE)
  /\ UNCHANGED <<ledger, chVars, lock, leaked>>

(* ClickHouse refuses to drop the replica of a live table.                  *)
DropReplica(p) ==
  /\ pc[p] = "drop"
  /\ \/ /\ Piece(p) \notin effects
        /\ ghosts' = ghosts \ {Piece(p)}
        /\ Goto(p, "exec") /\ UNCHANGED callVars
     \/ /\ ghosts' \in {ghosts, ghosts \ {Piece(p)}}
        /\ Unwind(p, FALSE)
  /\ UNCHANGED <<ledger, effects, orphans, lock, leaked>>

(* Mutant: the statement that was waited for is taken for done.             *)
SkipAfterWait(p) ==
  /\ pc[p] = "backoff"
  /\ retry' = [retry EXCEPT ![p] = FromStatement(@.stmt + 1)]
  /\ Goto(p, IF retry[p].stmt = Current(p).stmts THEN "record" ELSE "exec")
  /\ UNCHANGED <<ledger, chVars, lock, leaked, call, todo, stamps, succeeded>>

Wait(p) ==
  /\ pc[p] = "backoff" /\ retry[p].waits < MaxWaits
  /\ retry' = [retry EXCEPT ![p].waits = @ + 1]
  /\ Goto(p, "exec")
  /\ UNCHANGED <<ledger, chVars, lock, leaked, call, todo, stamps, succeeded>>

(* The time is over (sooner if statements are slow), or the context ended.  *)
GiveUp(p) ==
  /\ pc[p] = "backoff" /\ Unwind(p, FALSE)
  /\ UNCHANGED <<ledger, chVars, lock, leaked>>

-----------------------------------------------------------------------------
(* ValidateAllApplied: one read, through the pool.                          *)

Validate(p) ==
  /\ pc[p] = "validate"
  /\ Return(p, ~Refused(call[p].tree) /\ ToRun(call[p].tree) = {})
  /\ UNCHANGED <<ledger, chVars, lock, leaked>>

-----------------------------------------------------------------------------
(* Failures *)

(* A Postgres statement fails, or cannot be sent: the session is gone.      *)
LedgerFails(p) ==
  /\ \/ pc[p] \in {"setup", "validate"} /\ Return(p, FALSE)
     \/ pc[p] \in {"pending", "stamp", "apply", "record"} /\ Unwind(p, FALSE)
  /\ UNCHANGED <<ledger, chVars, lock, leaked>>

(* The lock session ends, after the statement in flight or without it.      *)
SessionLost(p) ==
  /\ lock = p
  /\ lock' = Nobody /\ leaked' = FALSE
  /\ LedgerWrite(p) \/ UNCHANGED ledger
  /\ UNCHANGED <<chVars, pc, callVars>>

Crash(p) ==
  /\ pc[p] # "idle"
  /\ lock' = (IF lock = p THEN Nobody ELSE lock) /\ leaked' = (leaked /\ lock # p)
  /\ LedgerWrite(p) \/ UNCHANGED ledger
  /\ LeaveOrphan(p) \/ UNCHANGED orphans
  /\ Return(p, FALSE)
  /\ UNCHANGED <<effects, ghosts>>

LateEffect(piece) ==
  /\ piece \in orphans \ ghosts
  /\ effects' = effects \cup {piece} /\ orphans' = orphans \ {piece}
  /\ UNCHANGED <<ledger, ghosts, lock, leaked, pc, callVars>>

(* A table dropped elsewhere leaves its replica to a delayed cleanup.       *)
GhostMoves(piece) ==
  /\ piece \in Replicated \ effects
  /\ ghosts' = IF piece \in ghosts THEN ghosts \ {piece} ELSE ghosts \cup {piece}
  /\ UNCHANGED <<ledger, effects, orphans, lock, leaked, pc, callVars>>

-----------------------------------------------------------------------------
Statement(p) ==
  Ran(p) \/ Collides(p) \/ Transient(p) \/ ExecFails(p) \/ AskOwner(p) \/ DropReplica(p)
  \/ Wait(p) \/ GiveUp(p)

Next ==
  \/ \E p \in Procs :
       \/ Begin(p) \/ EnsureSetup(p) \/ AcquireLock(p) \/ LockFails(p) \/ ReadPending(p) \/ Stamp(p)
       \/ RecordRunning(p) \/ Statement(p) \/ RecordApplied(p) \/ Unlocked(p) \/ UnlockFails(p)
       \/ Validate(p) \/ LedgerFails(p) \/ SessionLost(p) \/ Crash(p)
  \/ \E piece \in AllPieces : LateEffect(piece) \/ GhostMoves(piece)

Spec == Init /\ [][Next]_vars

(* A statement returns and a wait ends, one way or the other.               *)
FairSpec == Spec /\ \A p \in Procs : WF_vars(Statement(p))

-----------------------------------------------------------------------------
(* Properties *)

(* Whatever is in ClickHouse, even of a run that lost its lock or its       *)
(* client, is of a file whose identity the ledger has (clickhouse.go:364-   *)
(* 374, 464-482): a half-done migration can always be told and refused.     *)
EffectsAreRecorded ==
  \A piece \in effects :
    LET row == ledger[piece[1].seq] IN
      Recorded(row) /\ row.filename = piece[1].name /\ row.digest = ContentDigest(piece[1])

(* A row reads applied only if every statement of the file it identifies    *)
(* took effect (clickhouse.go:366-374), however often it was retried.       *)
AppliedMeansComplete ==
  \A m \in Migrations :
    m.seq # NoSequence /\ Applied(ledger[m.seq])
      /\ ledger[m.seq].filename = m.name /\ ledger[m.seq].digest = ContentDigest(m)
    => PiecesOf(m) \subseteq effects

(* A migrator that lost its lock session half-way can neither reopen a row  *)
(* another one finished nor change its identity (tracker.go:43-53, 79-85).  *)
AppliedIsFinal ==
  [][\A q \in Seqs : Applied(ledger[q]) =>
       /\ Applied(ledger'[q])
       /\ ledger'[q].filename = ledger[q].filename
       /\ ledger'[q].digest = ledger[q].digest]_vars

(* A call that returned nil, apply or startup gate, shipped only files that *)
(* are applied under their names (clickhouse.go:379-432), and for good.     *)
SuccessMeansApplied ==
  \A p \in Procs : succeeded[p] /\ pc[p] = "idle" =>
    \A m \in Files(call[p].tree) : Applied(ledger[m.seq]) /\ ledger[m.seq].filename = m.name

(* Retries end (clickhouse.go:275-337): a replica that comes back after it  *)
(* was dropped, or a table that never appears, does not hold the lock for   *)
(* ever.                                                                    *)
RetriesEnd == \A p \in Procs : pc[p] \in Retrying ~> pc[p] \notin Retrying
=============================================================================
