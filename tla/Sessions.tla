------------------------------ MODULE Sessions ------------------------------
(***************************************************************************)
(* The server sessions behind the migration lock. A session advisory lock  *)
(* belongs to the session that took it, may be taken again by that session *)
(* and ends with it. The library pins one pooled connection while it holds *)
(* the lock; what it returns to the pool keeps whatever state it carries.  *)
(*                                                                         *)
(* Callers are goroutines that run an apply. Several may share a Postgres  *)
(* (or Tracker) object, hence its lockMu and lockConn; several objects may *)
(* share a database/sql pool, hence its connections. Any connection may    *)
(* drop, any statement may fail before or after it took effect, any wait   *)
(* but that for a mutex may be cancelled, any process may die.             *)
(***************************************************************************)
EXTENDS Integers, FiniteSets

CONSTANTS Callers, Objects, Pools,
          ObjectOf,   \* the migrator object of a caller
          PoolOf,     \* the pool of an object
          PoolSize,   \* SetMaxOpenConns
          Trackers,   \* objects of coremigrate.Tracker, the others are Postgres
          Backends,   \* sessions a pool may have at the server, dying ones included
          None

SharingAssumption ==
  /\ ObjectOf \in [Callers -> Objects]
  /\ PoolOf \in [Objects -> Pools]
  /\ PoolSize \in [Pools -> Nat \ {0}]
  /\ Trackers \subseteq Objects
  /\ Backends \in Nat
  /\ \A p \in Pools : PoolSize[p] < Backends
  /\ None \notin Callers \cup (Pools \X (1..Backends))
ASSUME SharingAssumption

Connections == Pools \X (1..Backends)
Keys == {"setup", "target"}
Key(o) == IF o \in Trackers THEN "target" ELSE "setup"

VARIABLES
  session,    \* a connection: idle in its pool, lent, closing (the server still runs it), gone
  holder,     \* the connection that holds each advisory key
  depth,      \* how many times it took it
  path,       \* the search_path of a session
  mu,         \* the caller inside an object's lockMu
  lockConn,   \* an object's pinned connection
  uses,       \* the connection a caller uses or has pinned
  pc

vars == <<session, holder, depth, path, mu, lockConn, uses, pc>>

Obj(c) == ObjectOf[c]
Pinned == {"work", "noTx", "unlock"}

(* The types, and what lockConn is: the connection of the one caller of the *)
(* object that is past lock(), or nil.                                      *)
SessionsOK ==
  /\ session \in [Connections -> {"idle", "lent", "closing", "gone"}]
  /\ holder \in [Keys -> Connections \cup {None}]
  /\ depth \in [Keys -> Nat]
  /\ path \in [Connections -> {"default", "schema"}]
  /\ mu \in [Objects -> Callers \cup {None}]
  /\ lockConn \in [Objects -> Connections \cup {None}]
  /\ uses \in [Callers -> Connections \cup {None}]
  /\ pc \in [Callers -> {"idle", "setup", "settingUp", "check", "lock", "connect", "granting",
                         "work", "noTx", "unlock"}]
  /\ \A c \in Callers : pc[c] \in Pinned => lockConn[Obj(c)] = uses[c]
  /\ \A o \in Objects : lockConn[o] # None => \E c \in Callers : Obj(c) = o /\ pc[c] \in Pinned

Init ==
  /\ session = [s \in Connections |-> "gone"]
  /\ holder = [k \in Keys |-> None]
  /\ depth = [k \in Keys |-> 0]
  /\ path = [s \in Connections |-> "default"]
  /\ mu = [o \in Objects |-> None]
  /\ lockConn = [o \in Objects |-> None]
  /\ uses = [c \in Callers |-> None]
  /\ pc = [c \in Callers |-> "idle"]

-----------------------------------------------------------------------------
(* The pool *)

Pool(c) == PoolOf[Obj(c)]
Alive(s) == session[s] \in {"idle", "lent"}
InUse(s) == \E c \in Callers : uses[c] = s

(* A connection counts against the pool until its borrower lets go of it.   *)
Open(p) == {s \in Connections : s[1] = p /\ (Alive(s) \/ InUse(s))}
IdleIn(p) == {s \in Connections : s[1] = p /\ session[s] = "idle"}

(* What db.Conn may hand out: an idle connection, else a new one.           *)
Free(p) ==
  IF IdleIn(p) # {} THEN IdleIn(p)
  ELSE {s \in Connections : /\ s[1] = p /\ session[s] = "gone" /\ ~InUse(s)
                            /\ Cardinality(Open(p)) < PoolSize[p]}

GiveBack(s) == session' = [session EXCEPT ![s] = IF @ = "lent" THEN "idle" ELSE @]
Discard(s)  == session' = [session EXCEPT ![s] = IF @ = "lent" THEN "closing" ELSE @]

(* Mutant: sql.Conn.Close instead of discardMigrationConn.                  *)
CloseOnly(o, s) == GiveBack(s)

(* What becomes of a connection after a lock or unlock that failed: a       *)
(* Postgres discards it, a Tracker closes its sql.Conn.                     *)
Dispose(o, s) == IF o \in Trackers THEN GiveBack(s) ELSE Discard(s)

Goto(c, where) == pc' = [pc EXCEPT ![c] = where]
LetGo(c) == uses' = [uses EXCEPT ![c] = None]

-----------------------------------------------------------------------------
(* Advisory locks at the server *)

Grantable(k, s) == Alive(s) /\ holder[k] \in {None, s}

TakeKey(k, s) ==
  /\ Grantable(k, s)
  /\ holder' = [holder EXCEPT ![k] = s]
  /\ depth' = [depth EXCEPT ![k] = @ + 1]

ReleaseKey(k, s) ==
  /\ Alive(s) /\ holder[k] = s
  /\ holder' = [holder EXCEPT ![k] = IF depth[k] = 1 THEN None ELSE s]
  /\ depth' = [depth EXCEPT ![k] = @ - 1]

-----------------------------------------------------------------------------
(* Before the lock: every statement borrows a connection from the pool.     *)

Begin(c) ==
  /\ pc[c] = "idle"
  /\ Goto(c, "setup")
  /\ UNCHANGED <<session, holder, depth, path, mu, lockConn, uses>>

SetupConn(c) ==
  /\ pc[c] = "setup"
  /\ \E s \in Free(Pool(c)) : /\ session' = [session EXCEPT ![s] = "lent"]
                              /\ uses' = [uses EXCEPT ![c] = s]
  /\ Goto(c, "settingUp")
  /\ UNCHANGED <<holder, depth, path, mu, lockConn>>

(* pg_advisory_xact_lock, CREATE TABLE IF NOT EXISTS, COMMIT.               *)
Setup(c) ==
  /\ pc[c] = "settingUp" /\ Grantable("setup", uses[c])
  /\ GiveBack(uses[c]) /\ LetGo(c) /\ Goto(c, "check")
  /\ UNCHANGED <<holder, depth, path, mu, lockConn>>

SetupFails(c) ==
  /\ pc[c] = "settingUp"
  /\ GiveBack(uses[c]) /\ LetGo(c) /\ Goto(c, "idle")
  /\ UNCHANGED <<holder, depth, path, mu, lockConn>>

(* The reads before the lock: nothing pending ends the call.                *)
Check(c) ==
  /\ pc[c] = "check"
  /\ \E s \in Free(Pool(c)) : session' = [session EXCEPT ![s] = "idle"]
  /\ Goto(c, "lock") \/ Goto(c, "idle")
  /\ UNCHANGED <<holder, depth, path, mu, lockConn, uses>>

(* The context ends while a caller waits for a connection.                  *)
Cancelled(c) ==
  /\ pc[c] \in {"setup", "check", "connect"}
  /\ mu' = [mu EXCEPT ![Obj(c)] = IF @ = c THEN None ELSE @]
  /\ Goto(c, "idle")
  /\ UNCHANGED <<session, holder, depth, path, lockConn, uses>>

-----------------------------------------------------------------------------
(* lock(): lockMu is held until the server has answered.                    *)

(* Mutant: without the question whether the lock is held already.           *)
EnterLockUnasked(c) ==
  /\ pc[c] = "lock" /\ mu[Obj(c)] = None
  /\ mu' = [mu EXCEPT ![Obj(c)] = c]
  /\ Goto(c, "connect")
  /\ UNCHANGED <<session, holder, depth, path, lockConn, uses>>

EnterLock(c) ==
  /\ pc[c] = "lock" /\ mu[Obj(c)] = None
  /\ IF lockConn[Obj(c)] = None
       THEN mu' = [mu EXCEPT ![Obj(c)] = c] /\ Goto(c, "connect")
       ELSE UNCHANGED mu /\ Goto(c, "idle")
  /\ UNCHANGED <<session, holder, depth, path, lockConn, uses>>

LockConn(c) ==
  /\ pc[c] = "connect"
  /\ \E s \in Free(Pool(c)) : /\ session' = [session EXCEPT ![s] = "lent"]
                              /\ uses' = [uses EXCEPT ![c] = s]
  /\ Goto(c, "granting")
  /\ UNCHANGED <<holder, depth, path, mu, lockConn>>

(* Mutant: the lock is taken through the pool and its connection not kept.  *)
GrantedThroughPool(c) ==
  /\ pc[c] = "granting" /\ TakeKey(Key(Obj(c)), uses[c])
  /\ GiveBack(uses[c])
  /\ lockConn' = [lockConn EXCEPT ![Obj(c)] = uses[c]]
  /\ mu' = [mu EXCEPT ![Obj(c)] = None]
  /\ Goto(c, "work")
  /\ UNCHANGED <<path, uses>>

Granted(c) ==
  /\ pc[c] = "granting" /\ TakeKey(Key(Obj(c)), uses[c])
  /\ lockConn' = [lockConn EXCEPT ![Obj(c)] = uses[c]]
  /\ mu' = [mu EXCEPT ![Obj(c)] = None]
  /\ Goto(c, "work")
  /\ UNCHANGED <<session, path, uses>>

(* An error; the server may have granted the lock all the same.             *)
LockFails(c) ==
  /\ pc[c] = "granting"
  /\ TakeKey(Key(Obj(c)), uses[c]) \/ UNCHANGED <<holder, depth>>
  /\ Dispose(Obj(c), uses[c]) /\ LetGo(c)
  /\ mu' = [mu EXCEPT ![Obj(c)] = None]
  /\ Goto(c, "idle")
  /\ UNCHANGED <<path, lockConn>>

-----------------------------------------------------------------------------
(* Under the lock: the recheck and the files, on the pinned session only.   *)

Work(c) ==
  /\ pc[c] = "work" /\ Alive(uses[c])
  /\ Goto(c, "unlock")
  /\ UNCHANGED <<session, holder, depth, path, mu, lockConn, uses>>

WorkFails(c) ==
  /\ pc[c] = "work" /\ ~Alive(uses[c])
  /\ Goto(c, "unlock")
  /\ UNCHANGED <<session, holder, depth, path, mu, lockConn, uses>>

(* A no-transaction file (the last of its call) sets the search_path of the *)
(* session; the deferred restore runs even if setting it failed.            *)
SetPath(c) ==
  /\ pc[c] = "work" /\ Obj(c) \notin Trackers /\ Alive(uses[c])
  /\ path' = [path EXCEPT ![uses[c]] = "schema"] \/ UNCHANGED path
  /\ Goto(c, "noTx")
  /\ UNCHANGED <<session, holder, depth, mu, lockConn, uses>>

RestorePath(c) ==
  /\ pc[c] = "noTx" /\ Alive(uses[c])
  /\ path' = [path EXCEPT ![uses[c]] = "default"]
  /\ Goto(c, "unlock")
  /\ UNCHANGED <<session, holder, depth, mu, lockConn, uses>>

RestoreFails(c) ==
  /\ pc[c] = "noTx"
  /\ Discard(uses[c])
  /\ Goto(c, "unlock")
  /\ UNCHANGED <<holder, depth, path, mu, lockConn, uses>>

-----------------------------------------------------------------------------
(* unlock(), deferred: one statement inside lockMu, not to be cancelled.    *)

(* Mutant: lockConn is not reset.                                           *)
LeaveUnlockPinned(c) ==
  /\ LetGo(c) /\ Goto(c, "idle")
  /\ UNCHANGED <<path, mu, lockConn>>

LeaveUnlock(c) ==
  /\ lockConn' = [lockConn EXCEPT ![Obj(c)] = None]
  /\ LetGo(c) /\ Goto(c, "idle")
  /\ UNCHANGED <<path, mu>>

Unlocked(c) ==
  /\ pc[c] = "unlock" /\ mu[Obj(c)] = None
  /\ ReleaseKey(Key(Obj(c)), uses[c])
  /\ GiveBack(uses[c])
  /\ LeaveUnlock(c)

(* An error, or the answer that the lock was not held.                      *)
UnlockFails(c) ==
  /\ pc[c] = "unlock" /\ mu[Obj(c)] = None
  /\ ReleaseKey(Key(Obj(c)), uses[c]) \/ UNCHANGED <<holder, depth>>
  /\ Dispose(Obj(c), uses[c])
  /\ LeaveUnlock(c)

-----------------------------------------------------------------------------
(* The environment *)

(* A connection drops; the server runs its session on until it notices.     *)
ConnectionLost(s) ==
  /\ session[s] = "lent"
  /\ session' = [session EXCEPT ![s] = "closing"]
  /\ UNCHANGED <<holder, depth, path, mu, lockConn, uses, pc>>

ProcessDies(p) ==
  /\ session' = [s \in Connections |-> IF s[1] = p /\ Alive(s) THEN "closing" ELSE session[s]]
  /\ mu' = [o \in Objects |-> IF PoolOf[o] = p THEN None ELSE mu[o]]
  /\ lockConn' = [o \in Objects |-> IF PoolOf[o] = p THEN None ELSE lockConn[o]]
  /\ uses' = [c \in Callers |-> IF Pool(c) = p THEN None ELSE uses[c]]
  /\ pc' = [c \in Callers |-> IF Pool(c) = p THEN "idle" ELSE pc[c]]
  /\ UNCHANGED <<holder, depth, path>>

(* The server ends a session, and with it its locks and settings.           *)
SessionEnds(s) ==
  /\ session[s] = "closing"
  /\ session' = [session EXCEPT ![s] = "gone"]
  /\ holder' = [k \in Keys |-> IF holder[k] = s THEN None ELSE holder[k]]
  /\ depth' = [k \in Keys |-> IF holder[k] = s THEN 0 ELSE depth[k]]
  /\ path' = [path EXCEPT ![s] = "default"]
  /\ UNCHANGED <<mu, lockConn, uses, pc>>

-----------------------------------------------------------------------------
Pending(c) == \/ SetupConn(c) \/ Check(c) \/ LockConn(c)        \* once a connection is free
              \/ EnterLock(c) \/ Unlocked(c) \/ UnlockFails(c)   \* once the mutex is free
              \/ Setup(c) \/ Granted(c)                         \* once the lock is free
              \/ Work(c) \/ WorkFails(c) \/ SetPath(c) \/ RestorePath(c) \/ RestoreFails(c)
Fails(c) == SetupFails(c) \/ LockFails(c)

Next ==
  \/ \E c \in Callers : Begin(c) \/ Pending(c) \/ Fails(c) \/ Cancelled(c)
  \/ \E s \in Connections : ConnectionLost(s) \/ SessionEnds(s)
  \/ \E p \in Pools : ProcessDies(p)

Spec == Init /\ [][Next]_vars

(* A caller runs its code, and its driver notices a dead connection; pool,  *)
(* mutex and lock serve those that queue; the server ends dead sessions.    *)
(* Nobody has to cancel, fail on a live session or begin a call.            *)
Fairness ==
  /\ \A c \in Callers : SF_vars(Pending(c) \/ (Fails(c) /\ ~Alive(uses[c])))
  /\ \A s \in Connections : WF_vars(SessionEnds(s))
FairSpec == Spec /\ Fairness

-----------------------------------------------------------------------------
(* Properties *)

(* What goes back to the pool carries nothing of a migration (postgres.go:  *)
(* 224-249, notx.go:154-172): no idle connection holds an advisory lock,    *)
(* which would stop every migrator until it is closed, or the search_path   *)
(* of a schema, which would send the application's queries there.           *)
PooledSessionsAreClean ==
  \A s \in Connections : session[s] = "idle" =>
    path[s] = "default" /\ \A k \in Keys : holder[k] # s

(* Only one caller works under a key on a session that can still reach the  *)
(* database (postgres.go:201-222, tracker.go:95-97): the server lets a      *)
(* session take its own lock again, so a shared session would let two in.   *)
WorkIsExclusive ==
  \A c, d \in Callers :
    /\ pc[c] \in {"work", "noTx"} /\ pc[d] \in {"work", "noTx"}
    /\ Alive(uses[c]) /\ Alive(uses[d])
    /\ Key(Obj(c)) = Key(Obj(d))
    => c = d

(* tracker.go:120-122 says that closing the connection releases the session *)
(* lock even if pg_advisory_unlock fails. Closing a sql.Conn returns its    *)
(* session to the pool (postgres.go:224-227 says so), lock included.        *)
ClosingReleases ==
  [][\A c \in Callers : pc[c] = "unlock" /\ pc'[c] = "idle" /\ session'[uses[c]] = "idle" =>
       \A k \in Keys : holder'[k] # uses[c]]_vars

(* Every call returns (postgres.go:205-249, 391-394), also when callers     *)
(* share an object or a pool of one connection: nobody waits for a          *)
(* connection, a mutex or a lock that a waiter holds.                       *)
EveryCallReturns == \A c \in Callers : pc[c] # "idle" ~> pc[c] = "idle"
=============================================================================
