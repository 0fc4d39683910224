---------------------------- MODULE SessionsProofs ----------------------------
(* Machine-checked proofs about Sessions: any number of callers, objects,   *)
(* pools and connections.                                                   *)
EXTENDS Sessions, TLAPS

-----------------------------------------------------------------------------
(* The inductive invariant *)

Borrowing == {"settingUp", "granting"} \cup Pinned
Locking   == {"connect", "granting"}

(* Who uses which connection: a lent one has exactly one user, an idle one  *)
(* has none.                                                                *)
Lending ==
  /\ \A c \in Callers : uses[c] # None <=> pc[c] \in Borrowing
  /\ \A c \in Callers : uses[c] # None => uses[c][1] = Pool(c)
  /\ \A c, d \in Callers : uses[c] # None /\ uses[c] = uses[d] => c = d
  /\ \A s \in Connections : session[s] = "idle" => ~InUse(s)
  /\ \A s \in Connections : session[s] = "lent" => InUse(s)

(* Who is inside lockMu: one caller of the object, and none while another   *)
(* one has the object's connection pinned.                                  *)
Mutex ==
  /\ \A c \in Callers : pc[c] \in Locking => mu[Obj(c)] = c /\ lockConn[Obj(c)] = None
  /\ \A o \in Objects : mu[o] # None => Obj(mu[o]) = o /\ pc[mu[o]] \in Locking

(* Who holds the advisory locks: a caller past lock(), as long as its       *)
(* session lives.                                                           *)
Locks ==
  /\ \A c \in Callers : pc[c] \in Pinned /\ Alive(uses[c]) => holder[Key(Obj(c))] = uses[c]
  /\ \A k \in Keys : holder[k] = None <=> depth[k] = 0
  /\ \A k \in Keys : holder[k] # None => session[holder[k]] # "gone"

(* What a session carries, where no Tracker shares the pools: nothing but   *)
(* what the call that has it pinned put there, and the lock only once.      *)
Clean ==
  /\ \A k \in Keys : holder[k] # None /\ Alive(holder[k]) =>
       /\ k = "setup" /\ depth[k] = 1
       /\ \E c \in Callers : uses[c] = holder[k] /\ pc[c] \in Pinned
  /\ \A s \in Connections : path[s] = "schema" =>
       /\ session[s] # "gone"
       /\ Alive(s) => \E c \in Callers : uses[c] = s /\ pc[c] = "noTx"

SInv == SessionsOK /\ Lending /\ Mutex /\ Locks

-----------------------------------------------------------------------------
(* Borrowing and letting go *)

(* What the pool hands out is used by nobody.                               *)
LEMMA FreeIsUnused ==
  ASSUME SInv, NEW p, NEW s \in Free(p)
  PROVE  s \in Connections /\ s[1] = p /\ ~InUse(s) /\ session[s] \in {"idle", "gone"}
BY DEF SInv, Lending, Free, IdleIn

(* A caller that has no connection is lent one.                             *)
LEMMA BorrowKeeps ==
  ASSUME SInv, NEW c \in Callers, pc[c] \notin Borrowing, NEW s \in Free(Pool(c)),
         session' = [session EXCEPT ![s] = "lent"], uses' = [uses EXCEPT ![c] = s],
         NEW where \in Borrowing, Goto(c, where)
  PROVE  Lending'
<1>1. /\ session \in [Connections -> {"idle", "lent", "closing", "gone"}]
      /\ uses \in [Callers -> Connections \cup {None}] /\ c \in DOMAIN pc
      /\ None \notin Connections
  BY SharingAssumption DEF SInv, SessionsOK, SharingAssumption, Connections
<1>2. s \in Connections /\ s[1] = Pool(c) /\ ~InUse(s)
  BY FreeIsUnused
<1>3. /\ uses'[c] = s /\ \A d \in Callers \ {c} : uses'[d] = uses[d]
      /\ pc'[c] = where /\ \A d \in Callers \ {c} : pc'[d] = pc[d]
      /\ session'[s] = "lent" /\ \A r \in Connections \ {s} : session'[r] = session[r]
  BY <1>1, <1>2 DEF Goto, SInv, SessionsOK
<1>4. \A d \in Callers : uses[d] # s
  BY <1>2 DEF InUse
<1>5. uses[c] = None
  BY DEF SInv, Lending
<1>6. \A r \in Connections : InUse(r)' <=> InUse(r) \/ r = s
  BY <1>1, <1>2, <1>3, <1>5 DEF InUse
<1> HIDE DEF InUse
<1> QED BY <1>1, <1>2, <1>3, <1>4, <1>6 DEF SInv, Lending, Pool, Obj

(* A caller lets go of its connection, which ends up pooled or discarded.   *)
LEMMA LetGoKeeps ==
  ASSUME SInv, NEW c \in Callers, pc[c] \in Borrowing, GiveBack(uses[c]) \/ Discard(uses[c]), LetGo(c),
         NEW where, where \notin Borrowing, Goto(c, where)
  PROVE  Lending'
<1> DEFINE s == uses[c]
<1>1. /\ session \in [Connections -> {"idle", "lent", "closing", "gone"}]
      /\ uses \in [Callers -> Connections \cup {None}] /\ c \in DOMAIN pc
      /\ None \notin Connections
  BY SharingAssumption DEF SInv, SessionsOK, SharingAssumption, Connections
<1>2. s \in Connections /\ s # None
  BY <1>1 DEF SInv, Lending
<1>3. /\ uses'[c] = None /\ \A d \in Callers \ {c} : uses'[d] = uses[d]
      /\ pc'[c] = where /\ \A d \in Callers \ {c} : pc'[d] = pc[d]
      /\ session'[s] # "lent" /\ \A r \in Connections \ {s} : session'[r] = session[r]
  BY <1>1, <1>2 DEF Goto, LetGo, GiveBack, Discard, SInv, SessionsOK
<1>4. \A r \in Connections : InUse(r)' <=> InUse(r) /\ r # s
  <2>1. \A d \in Callers : uses[d] = s => d = c
    BY <1>2 DEF SInv, Lending
  <2> QED BY <1>1, <1>2, <1>3, <2>1 DEF InUse
<1> HIDE DEF InUse, s
<1> QED BY <1>1, <1>2, <1>3, <1>4 DEF SInv, Lending, Pool, Obj

-----------------------------------------------------------------------------
(* Every step keeps each part of the invariant *)

LEMMA SessionsOKKept ==
  ASSUME SInv, [Next]_vars
  PROVE  SessionsOK'
<1> USE SharingAssumption DEF SharingAssumption, SInv, SessionsOK, Obj, Goto, Pinned
<1>1. ASSUME NEW c \in Callers, Begin(c) PROVE SessionsOK'
  BY <1>1 DEF Begin, Lending, Borrowing, Mutex, Locking, Key, Keys, Alive
<1>2. ASSUME NEW c \in Callers, SetupConn(c) PROVE SessionsOK'
  BY <1>2 DEF SetupConn, Free, IdleIn, Lending, Borrowing, Mutex, Locking, Key, Keys, Alive, InUse
<1>3. ASSUME NEW c \in Callers, Setup(c) PROVE SessionsOK'
  BY <1>3 DEF Setup, GiveBack, LetGo, Lending, Borrowing, Mutex, Locking, Key, Keys, Alive
<1>4. ASSUME NEW c \in Callers, SetupFails(c) PROVE SessionsOK'
  BY <1>4 DEF SetupFails, GiveBack, LetGo, Lending, Borrowing, Mutex, Locking, Key, Keys, Alive
<1>5. ASSUME NEW c \in Callers, Check(c) PROVE SessionsOK'
  BY <1>5 DEF Check, Free, IdleIn, Lending, Borrowing, Mutex, Locking, Key, Keys, Alive
<1>6. ASSUME NEW c \in Callers, Cancelled(c) PROVE SessionsOK'
  BY <1>6 DEF Cancelled, Lending, Borrowing, Mutex, Locking, Key, Keys, Alive
<1>7. ASSUME NEW c \in Callers, EnterLock(c) PROVE SessionsOK'
  BY <1>7 DEF EnterLock, Lending, Borrowing, Mutex, Locking, Key, Keys, Alive
<1>8. ASSUME NEW c \in Callers, LockConn(c) PROVE SessionsOK'
  BY <1>8 DEF LockConn, Free, IdleIn, Lending, Borrowing, Mutex, Locking, Key, Keys, Alive, InUse
<1>9. ASSUME NEW c \in Callers, Granted(c) PROVE SessionsOK'
  BY <1>9 DEF Granted, TakeKey, Grantable, Lending, Borrowing, Mutex, Locking, Key, Keys, Alive
<1>10. ASSUME NEW c \in Callers, LockFails(c) PROVE SessionsOK'
  BY <1>10
  DEF LockFails, TakeKey, Grantable, Dispose, GiveBack, Discard, LetGo, Lending, Borrowing,
      Mutex, Locking, Key, Keys, Alive
<1>11. ASSUME NEW c \in Callers, Work(c) PROVE SessionsOK'
  BY <1>11 DEF Work, Lending, Borrowing, Mutex, Locking, Key, Keys, Alive
<1>12. ASSUME NEW c \in Callers, WorkFails(c) PROVE SessionsOK'
  BY <1>12 DEF WorkFails, Lending, Borrowing, Mutex, Locking, Key, Keys, Alive
<1>13. ASSUME NEW c \in Callers, SetPath(c) PROVE SessionsOK'
  BY <1>13 DEF SetPath, Lending, Borrowing, Mutex, Locking, Key, Keys, Alive
<1>14. ASSUME NEW c \in Callers, RestorePath(c) PROVE SessionsOK'
  BY <1>14 DEF RestorePath, Lending, Borrowing, Mutex, Locking, Key, Keys, Alive
<1>15. ASSUME NEW c \in Callers, RestoreFails(c) PROVE SessionsOK'
  BY <1>15 DEF RestoreFails, Discard, Lending, Borrowing, Mutex, Locking, Key, Keys, Alive
<1>16. ASSUME NEW c \in Callers, Unlocked(c) PROVE SessionsOK'
  <2>1. (session \in [Connections -> {"idle", "lent", "closing", "gone"}])'
    BY <1>16
    DEF Unlocked, ReleaseKey, GiveBack, LeaveUnlock, LetGo, Locks, Lending, Borrowing, Mutex,
        Locking, Key, Keys, Alive
  <2>0. Key(Obj(c)) \in Keys /\ uses[c] # None
    BY <1>16 DEF Unlocked, Key, Keys, Lending, Borrowing
  <2>2. (holder \in [Keys -> Connections \cup {None}] /\ depth \in [Keys -> Nat])'
    <3>1. CASE UNCHANGED <<holder, depth>>
      BY <3>1
    <3>2. CASE ReleaseKey(Key(Obj(c)), uses[c])
      <4>1. depth[Key(Obj(c))] - 1 \in Nat
        BY <2>0, <3>2 DEF ReleaseKey, Locks
      <4> QED BY <2>0, <3>2, <4>1 DEF ReleaseKey
    <3> QED BY <1>16, <3>1, <3>2 DEF Unlocked
  <2>3. (path \in [Connections -> {"default", "schema"}] /\ mu \in [Objects -> Callers \cup {None}])'
    BY <1>16
    DEF Unlocked, ReleaseKey, GiveBack, LeaveUnlock, LetGo, Locks, Lending, Borrowing, Mutex,
        Locking, Key, Keys, Alive
  <2>4. (lockConn \in [Objects -> Connections \cup {None}] /\ uses \in [Callers -> Connections \cup {None}])'
    BY <1>16
    DEF Unlocked, ReleaseKey, GiveBack, LeaveUnlock, LetGo, Locks, Lending, Borrowing, Mutex,
        Locking, Key, Keys, Alive
  <2>5. (pc \in [Callers -> {"idle", "setup", "settingUp", "check", "lock", "connect", "granting",
                         "work", "noTx", "unlock"}])'
    BY <1>16
    DEF Unlocked, ReleaseKey, GiveBack, LeaveUnlock, LetGo, Locks, Lending, Borrowing, Mutex,
        Locking, Key, Keys, Alive
  <2>6. (\A d \in Callers : pc[d] \in Pinned => lockConn[Obj(d)] = uses[d])'
    BY <1>16
    DEF Unlocked, ReleaseKey, GiveBack, LeaveUnlock, LetGo, Locks, Lending, Borrowing, Mutex,
        Locking, Key, Keys, Alive
  <2>7. (\A o \in Objects : lockConn[o] # None => \E d \in Callers : Obj(d) = o /\ pc[d] \in Pinned)'
    BY <1>16
    DEF Unlocked, ReleaseKey, GiveBack, LeaveUnlock, LetGo, Locks, Lending, Borrowing, Mutex,
        Locking, Key, Keys, Alive
  <2> QED BY <2>1, <2>2, <2>3, <2>4, <2>5, <2>6, <2>7 DEF SessionsOK
<1>17. ASSUME NEW c \in Callers, UnlockFails(c) PROVE SessionsOK'
  <2>1. (session \in [Connections -> {"idle", "lent", "closing", "gone"}])'
    BY <1>17
    DEF UnlockFails, ReleaseKey, Dispose, GiveBack, Discard, LeaveUnlock, LetGo, Locks, Lending,
        Borrowing, Mutex, Locking, Key, Keys, Alive
  <2>0. Key(Obj(c)) \in Keys /\ uses[c] # None
    BY <1>17 DEF UnlockFails, Key, Keys, Lending, Borrowing
  <2>2. (holder \in [Keys -> Connections \cup {None}] /\ depth \in [Keys -> Nat])'
    <3>1. CASE UNCHANGED <<holder, depth>>
      BY <3>1
    <3>2. CASE ReleaseKey(Key(Obj(c)), uses[c])
      <4>1. depth[Key(Obj(c))] - 1 \in Nat
        BY <2>0, <3>2 DEF ReleaseKey, Locks
      <4> QED BY <2>0, <3>2, <4>1 DEF ReleaseKey
    <3> QED BY <1>17, <3>1, <3>2 DEF UnlockFails
  <2>3. (path \in [Connections -> {"default", "schema"}] /\ mu \in [Objects -> Callers \cup {None}])'
    BY <1>17
    DEF UnlockFails, ReleaseKey, Dispose, GiveBack, Discard, LeaveUnlock, LetGo, Locks, Lending,
        Borrowing, Mutex, Locking, Key, Keys, Alive
  <2>4. (lockConn \in [Objects -> Connections \cup {None}] /\ uses \in [Callers -> Connections \cup {None}])'
    BY <1>17
    DEF UnlockFails, ReleaseKey, Dispose, GiveBack, Discard, LeaveUnlock, LetGo, Locks, Lending,
        Borrowing, Mutex, Locking, Key, Keys, Alive
  <2>5. (pc \in [Callers -> {"idle", "setup", "settingUp", "check", "lock", "connect", "granting",
                         "work", "noTx", "unlock"}])'
    BY <1>17
    DEF UnlockFails, ReleaseKey, Dispose, GiveBack, Discard, LeaveUnlock, LetGo, Locks, Lending,
        Borrowing, Mutex, Locking, Key, Keys, Alive
  <2>6. (\A d \in Callers : pc[d] \in Pinned => lockConn[Obj(d)] = uses[d])'
    BY <1>17
    DEF UnlockFails, ReleaseKey, Dispose, GiveBack, Discard, LeaveUnlock, LetGo, Locks, Lending,
        Borrowing, Mutex, Locking, Key, Keys, Alive
  <2>7. (\A o \in Objects : lockConn[o] # None => \E d \in Callers : Obj(d) = o /\ pc[d] \in Pinned)'
    BY <1>17
    DEF UnlockFails, ReleaseKey, Dispose, GiveBack, Discard, LeaveUnlock, LetGo, Locks, Lending,
        Borrowing, Mutex, Locking, Key, Keys, Alive
  <2> QED BY <2>1, <2>2, <2>3, <2>4, <2>5, <2>6, <2>7 DEF SessionsOK
<1>18. ASSUME NEW s \in Connections, ConnectionLost(s) PROVE SessionsOK'
  BY <1>18 DEF ConnectionLost, Lending, Borrowing, Mutex, Locking, Key, Keys, Alive
<1>19. ASSUME NEW s \in Connections, SessionEnds(s) PROVE SessionsOK'
  BY <1>19 DEF SessionEnds, Lending, Borrowing, Mutex, Locking, Key, Keys, Alive
<1>20. ASSUME NEW p \in Pools, ProcessDies(p) PROVE SessionsOK'
  <2>1. (session \in [Connections -> {"idle", "lent", "closing", "gone"}])'
    BY <1>20 DEF ProcessDies, Lending, Borrowing, Mutex, Locking, Key, Keys, Alive, Pool
  <2>2. (holder \in [Keys -> Connections \cup {None}] /\ depth \in [Keys -> Nat])'
    BY <1>20 DEF ProcessDies, Lending, Borrowing, Mutex, Locking, Key, Keys, Alive, Pool
  <2>3. (path \in [Connections -> {"default", "schema"}] /\ mu \in [Objects -> Callers \cup {None}])'
    BY <1>20 DEF ProcessDies, Lending, Borrowing, Mutex, Locking, Key, Keys, Alive, Pool
  <2>4. (lockConn \in [Objects -> Connections \cup {None}] /\ uses \in [Callers -> Connections \cup {None}])'
    BY <1>20 DEF ProcessDies, Lending, Borrowing, Mutex, Locking, Key, Keys, Alive, Pool
  <2>5. (pc \in [Callers -> {"idle", "setup", "settingUp", "check", "lock", "connect", "granting",
                         "work", "noTx", "unlock"}])'
    BY <1>20 DEF ProcessDies, Lending, Borrowing, Mutex, Locking, Key, Keys, Alive, Pool
  <2>6. (\A d \in Callers : pc[d] \in Pinned => lockConn[Obj(d)] = uses[d])'
    BY <1>20 DEF ProcessDies, Lending, Borrowing, Mutex, Locking, Key, Keys, Alive, Pool
  <2>7. (\A o \in Objects : lockConn[o] # None => \E d \in Callers : Obj(d) = o /\ pc[d] \in Pinned)'
    BY <1>20 DEF ProcessDies, Lending, Borrowing, Mutex, Locking, Key, Keys, Alive, Pool
  <2> QED BY <2>1, <2>2, <2>3, <2>4, <2>5, <2>6, <2>7 DEF SessionsOK
<1>21. CASE UNCHANGED vars
  BY <1>21 DEF vars, Locks, Lending, Borrowing, Mutex, Locking, Key, Keys, Alive
<1> QED BY <1>1, <1>2, <1>3, <1>4, <1>5, <1>6, <1>7, <1>8, <1>9, <1>10, <1>11, <1>12, <1>13, <1>14, <1>15, <1>16, <1>17, <1>18, <1>19, <1>20, <1>21 DEF Next, Pending, Fails

LEMMA LendingKept ==
  ASSUME SInv, [Next]_vars
  PROVE  Lending'
<1> USE SharingAssumption DEF SharingAssumption, SInv, SessionsOK, Obj, Goto, Pinned
<1>1. ASSUME NEW c \in Callers, Begin(c) PROVE Lending'
  BY <1>1 DEF Begin, Lending, Borrowing, InUse
<1>2. ASSUME NEW c \in Callers, SetupConn(c) PROVE Lending'
  BY <1>2, BorrowKeeps DEF SetupConn, Borrowing, Lending
<1>3. ASSUME NEW c \in Callers, Setup(c) PROVE Lending'
  BY <1>3, LetGoKeeps DEF Setup, Borrowing
<1>4. ASSUME NEW c \in Callers, SetupFails(c) PROVE Lending'
  BY <1>4, LetGoKeeps DEF SetupFails, Borrowing
<1>5. ASSUME NEW c \in Callers, Check(c) PROVE Lending'
  BY <1>5 DEF Check, Free, IdleIn, Lending, Borrowing, InUse
<1>6. ASSUME NEW c \in Callers, Cancelled(c) PROVE Lending'
  BY <1>6 DEF Cancelled, Lending, Borrowing, InUse
<1>7. ASSUME NEW c \in Callers, EnterLock(c) PROVE Lending'
  BY <1>7 DEF EnterLock, Lending, Borrowing, InUse
<1>8. ASSUME NEW c \in Callers, LockConn(c) PROVE Lending'
  BY <1>8, BorrowKeeps DEF LockConn, Borrowing, Lending
<1>9. ASSUME NEW c \in Callers, Granted(c) PROVE Lending'
  BY <1>9 DEF Granted, TakeKey, Grantable, Lending, Borrowing, InUse
<1>10. ASSUME NEW c \in Callers, LockFails(c) PROVE Lending'
  BY <1>10, LetGoKeeps DEF LockFails, Dispose, Borrowing
<1>11. ASSUME NEW c \in Callers, Work(c) PROVE Lending'
  BY <1>11 DEF Work, Lending, Borrowing, InUse
<1>12. ASSUME NEW c \in Callers, WorkFails(c) PROVE Lending'
  BY <1>12 DEF WorkFails, Lending, Borrowing, InUse
<1>13. ASSUME NEW c \in Callers, SetPath(c) PROVE Lending'
  BY <1>13 DEF SetPath, Lending, Borrowing, InUse
<1>14. ASSUME NEW c \in Callers, RestorePath(c) PROVE Lending'
  BY <1>14 DEF RestorePath, Lending, Borrowing, InUse
<1>15. ASSUME NEW c \in Callers, RestoreFails(c) PROVE Lending'
  BY <1>15 DEF RestoreFails, Discard, Lending, Borrowing, InUse
<1>16. ASSUME NEW c \in Callers, Unlocked(c) PROVE Lending'
  BY <1>16, LetGoKeeps DEF Unlocked, LeaveUnlock, Borrowing
<1>17. ASSUME NEW c \in Callers, UnlockFails(c) PROVE Lending'
  BY <1>17, LetGoKeeps DEF UnlockFails, Dispose, LeaveUnlock, Borrowing
<1>18. ASSUME NEW s \in Connections, ConnectionLost(s) PROVE Lending'
  BY <1>18 DEF ConnectionLost, Lending, Borrowing, InUse
<1>19. ASSUME NEW s \in Connections, SessionEnds(s) PROVE Lending'
  BY <1>19 DEF SessionEnds, Lending, Borrowing, InUse
<1>20. ASSUME NEW p \in Pools, ProcessDies(p) PROVE Lending'
  <2>1. /\ \A s \in Connections : session'[s] \in {"idle", "lent"} => session'[s] = session[s] /\ s[1] # p
        /\ \A c \in Callers : uses'[c] = IF Pool(c) = p THEN None ELSE uses[c]
        /\ \A c \in Callers : pc'[c] = IF Pool(c) = p THEN "idle" ELSE pc[c]
    BY <1>20 DEF ProcessDies, Alive
  <2>2. (/\ \A c \in Callers : uses[c] # None <=> pc[c] \in Borrowing
         /\ \A c \in Callers : uses[c] # None => uses[c][1] = Pool(c)
         /\ \A c, d \in Callers : uses[c] # None /\ uses[c] = uses[d] => c = d)'
    BY <2>1 DEF Lending, Borrowing, Pool
  <2>3. (\A s \in Connections : session[s] = "idle" => ~InUse(s))'
    BY <2>1 DEF Lending, InUse, Connections
  <2>4. ASSUME NEW s \in Connections, session'[s] = "lent" PROVE InUse(s)'
    <3>1. PICK c \in Callers : uses[c] = s
      BY <2>1, <2>4 DEF Lending, InUse
    <3>2. s # None
      BY DEF Connections
    <3>3. Pool(c) # p
      BY <2>1, <2>4, <3>1, <3>2 DEF Lending
    <3> QED BY <2>1, <3>1, <3>3 DEF InUse
  <2> QED BY <2>2, <2>3, <2>4 DEF Lending
<1>21. CASE UNCHANGED vars
  BY <1>21 DEF vars, Lending, Borrowing, InUse
<1> QED BY <1>1, <1>2, <1>3, <1>4, <1>5, <1>6, <1>7, <1>8, <1>9, <1>10, <1>11, <1>12, <1>13, <1>14, <1>15, <1>16, <1>17, <1>18, <1>19, <1>20, <1>21 DEF Next, Pending, Fails

LEMMA MutexKept ==
  ASSUME SInv, [Next]_vars
  PROVE  Mutex'
<1> USE SharingAssumption DEF SharingAssumption, SInv, SessionsOK, Obj, Goto, Pinned
<1>1. ASSUME NEW c \in Callers, Begin(c) PROVE Mutex'
  BY <1>1 DEF Begin, Mutex, Locking
<1>2. ASSUME NEW c \in Callers, SetupConn(c) PROVE Mutex'
  BY <1>2 DEF SetupConn, Free, IdleIn, Mutex, Locking, InUse
<1>3. ASSUME NEW c \in Callers, Setup(c) PROVE Mutex'
  BY <1>3 DEF Setup, GiveBack, LetGo, Mutex, Locking
<1>4. ASSUME NEW c \in Callers, SetupFails(c) PROVE Mutex'
  BY <1>4 DEF SetupFails, GiveBack, LetGo, Mutex, Locking
<1>5. ASSUME NEW c \in Callers, Check(c) PROVE Mutex'
  BY <1>5 DEF Check, Free, IdleIn, Mutex, Locking
<1>6. ASSUME NEW c \in Callers, Cancelled(c) PROVE Mutex'
  BY <1>6 DEF Cancelled, Mutex, Locking
<1>7. ASSUME NEW c \in Callers, EnterLock(c) PROVE Mutex'
  BY <1>7 DEF EnterLock, Mutex, Locking
<1>8. ASSUME NEW c \in Callers, LockConn(c) PROVE Mutex'
  BY <1>8 DEF LockConn, Free, IdleIn, Mutex, Locking, InUse
<1>9. ASSUME NEW c \in Callers, Granted(c) PROVE Mutex'
  BY <1>9 DEF Granted, TakeKey, Grantable, Mutex, Locking
<1>10. ASSUME NEW c \in Callers, LockFails(c) PROVE Mutex'
  BY <1>10 DEF LockFails, TakeKey, Grantable, Dispose, GiveBack, Discard, LetGo, Mutex, Locking
<1>11. ASSUME NEW c \in Callers, Work(c) PROVE Mutex'
  BY <1>11 DEF Work, Mutex, Locking
<1>12. ASSUME NEW c \in Callers, WorkFails(c) PROVE Mutex'
  BY <1>12 DEF WorkFails, Mutex, Locking
<1>13. ASSUME NEW c \in Callers, SetPath(c) PROVE Mutex'
  BY <1>13 DEF SetPath, Mutex, Locking
<1>14. ASSUME NEW c \in Callers, RestorePath(c) PROVE Mutex'
  BY <1>14 DEF RestorePath, Mutex, Locking
<1>15. ASSUME NEW c \in Callers, RestoreFails(c) PROVE Mutex'
  BY <1>15 DEF RestoreFails, Discard, Mutex, Locking
<1>16. ASSUME NEW c \in Callers, Unlocked(c) PROVE Mutex'
  BY <1>16 DEF Unlocked, ReleaseKey, GiveBack, LeaveUnlock, LetGo, Mutex, Locking
<1>17. ASSUME NEW c \in Callers, UnlockFails(c) PROVE Mutex'
  BY <1>17
  DEF UnlockFails, ReleaseKey, Dispose, GiveBack, Discard, LeaveUnlock, LetGo, Mutex, Locking
<1>18. ASSUME NEW s \in Connections, ConnectionLost(s) PROVE Mutex'
  BY <1>18 DEF ConnectionLost, Mutex, Locking
<1>19. ASSUME NEW s \in Connections, SessionEnds(s) PROVE Mutex'
  BY <1>19 DEF SessionEnds, Mutex, Locking
<1>20. ASSUME NEW p \in Pools, ProcessDies(p) PROVE Mutex'
  BY <1>20 DEF ProcessDies, Mutex, Locking, Pool
<1>21. CASE UNCHANGED vars
  BY <1>21 DEF vars, Mutex, Locking
<1> QED BY <1>1, <1>2, <1>3, <1>4, <1>5, <1>6, <1>7, <1>8, <1>9, <1>10, <1>11, <1>12, <1>13, <1>14, <1>15, <1>16, <1>17, <1>18, <1>19, <1>20, <1>21 DEF Next, Pending, Fails

LEMMA LocksKept ==
  ASSUME SInv, [Next]_vars
  PROVE  Locks'
<1> USE SharingAssumption DEF SharingAssumption, SInv, SessionsOK, Obj, Goto, Pinned
<1>1. ASSUME NEW c \in Callers, Begin(c) PROVE Locks'
  BY <1>1 DEF Begin, Locks, Lending, Borrowing, InUse, Key, Keys, Alive
<1>2. ASSUME NEW c \in Callers, SetupConn(c) PROVE Locks'
  BY <1>2 DEF SetupConn, Free, IdleIn, Locks, Lending, Borrowing, InUse, Key, Keys, Alive
<1>3. ASSUME NEW c \in Callers, Setup(c) PROVE Locks'
  BY <1>3 DEF Setup, GiveBack, LetGo, Locks, Lending, Borrowing, InUse, Key, Keys, Alive
<1>4. ASSUME NEW c \in Callers, SetupFails(c) PROVE Locks'
  BY <1>4 DEF SetupFails, GiveBack, LetGo, Locks, Lending, Borrowing, InUse, Key, Keys, Alive
<1>5. ASSUME NEW c \in Callers, Check(c) PROVE Locks'
  BY <1>5 DEF Check, Free, IdleIn, Locks, Lending, Borrowing, InUse, Key, Keys, Alive
<1>6. ASSUME NEW c \in Callers, Cancelled(c) PROVE Locks'
  BY <1>6 DEF Cancelled, Locks, Lending, Borrowing, InUse, Key, Keys, Alive
<1>7. ASSUME NEW c \in Callers, EnterLock(c) PROVE Locks'
  BY <1>7 DEF EnterLock, Locks, Lending, Borrowing, InUse, Key, Keys, Alive
<1>8. ASSUME NEW c \in Callers, LockConn(c) PROVE Locks'
  BY <1>8 DEF LockConn, Free, IdleIn, Locks, Lending, Borrowing, InUse, Key, Keys, Alive
<1>9. ASSUME NEW c \in Callers, Granted(c) PROVE Locks'
  BY <1>9 DEF Granted, TakeKey, Grantable, Locks, Lending, Borrowing, InUse, Key, Keys, Alive
<1>10. ASSUME NEW c \in Callers, LockFails(c) PROVE Locks'
  BY <1>10
  DEF LockFails, TakeKey, Grantable, Dispose, GiveBack, Discard, LetGo, Locks, Lending,
      Borrowing, InUse, Key, Keys, Alive
<1>11. ASSUME NEW c \in Callers, Work(c) PROVE Locks'
  BY <1>11 DEF Work, Locks, Lending, Borrowing, InUse, Key, Keys, Alive
<1>12. ASSUME NEW c \in Callers, WorkFails(c) PROVE Locks'
  BY <1>12 DEF WorkFails, Locks, Lending, Borrowing, InUse, Key, Keys, Alive
<1>13. ASSUME NEW c \in Callers, SetPath(c) PROVE Locks'
  BY <1>13 DEF SetPath, Locks, Lending, Borrowing, InUse, Key, Keys, Alive
<1>14. ASSUME NEW c \in Callers, RestorePath(c) PROVE Locks'
  BY <1>14 DEF RestorePath, Locks, Lending, Borrowing, InUse, Key, Keys, Alive
<1>15. ASSUME NEW c \in Callers, RestoreFails(c) PROVE Locks'
  BY <1>15 DEF RestoreFails, Discard, Locks, Lending, Borrowing, InUse, Key, Keys, Alive
<1>16. ASSUME NEW c \in Callers, Unlocked(c) PROVE Locks'
  BY <1>16
  DEF Unlocked, ReleaseKey, GiveBack, LeaveUnlock, LetGo, Locks, Lending, Borrowing, InUse, Key,
      Keys, Alive
<1>17. ASSUME NEW c \in Callers, UnlockFails(c) PROVE Locks'
  BY <1>17
  DEF UnlockFails, ReleaseKey, Dispose, GiveBack, Discard, LeaveUnlock, LetGo, Locks, Lending,
      Borrowing, InUse, Key, Keys, Alive
<1>18. ASSUME NEW s \in Connections, ConnectionLost(s) PROVE Locks'
  BY <1>18 DEF ConnectionLost, Locks, Lending, Borrowing, InUse, Key, Keys, Alive
<1>19. ASSUME NEW s \in Connections, SessionEnds(s) PROVE Locks'
  BY <1>19 DEF SessionEnds, Locks, Lending, Borrowing, InUse, Key, Keys, Alive
<1>20. ASSUME NEW p \in Pools, ProcessDies(p) PROVE Locks'
  BY <1>20 DEF ProcessDies, Locks, Lending, Borrowing, InUse, Key, Keys, Alive, Pool
<1>21. CASE UNCHANGED vars
  BY <1>21 DEF vars, Locks, Lending, Borrowing, InUse, Key, Keys, Alive
<1> QED BY <1>1, <1>2, <1>3, <1>4, <1>5, <1>6, <1>7, <1>8, <1>9, <1>10, <1>11, <1>12, <1>13, <1>14, <1>15, <1>16, <1>17, <1>18, <1>19, <1>20, <1>21 DEF Next, Pending, Fails

LEMMA CleanKept ==
  ASSUME SInv, Clean, Trackers = {}, [Next]_vars
  PROVE  Clean'
<1> USE SharingAssumption DEF SharingAssumption, SInv, SessionsOK, Obj, Goto, Pinned
<1>1. ASSUME NEW c \in Callers, Begin(c) PROVE Clean'
  BY <1>1 DEF Begin, Clean, Locks, Lending, Borrowing, InUse, Key, Keys, Alive
<1>2. ASSUME NEW c \in Callers, SetupConn(c) PROVE Clean'
  BY <1>2 DEF SetupConn, Free, IdleIn, Clean, Locks, Lending, Borrowing, InUse, Key, Keys, Alive
<1>3. ASSUME NEW c \in Callers, Setup(c) PROVE Clean'
  BY <1>3 DEF Setup, GiveBack, LetGo, Clean, Locks, Lending, Borrowing, InUse, Key, Keys, Alive
<1>4. ASSUME NEW c \in Callers, SetupFails(c) PROVE Clean'
  BY <1>4
  DEF SetupFails, GiveBack, LetGo, Clean, Locks, Lending, Borrowing, InUse, Key, Keys, Alive
<1>5. ASSUME NEW c \in Callers, Check(c) PROVE Clean'
  BY <1>5 DEF Check, Free, IdleIn, Clean, Locks, Lending, Borrowing, InUse, Key, Keys, Alive
<1>6. ASSUME NEW c \in Callers, Cancelled(c) PROVE Clean'
  BY <1>6 DEF Cancelled, Clean, Locks, Lending, Borrowing, InUse, Key, Keys, Alive
<1>7. ASSUME NEW c \in Callers, EnterLock(c) PROVE Clean'
  BY <1>7 DEF EnterLock, Clean, Locks, Lending, Borrowing, InUse, Key, Keys, Alive
<1>8. ASSUME NEW c \in Callers, LockConn(c) PROVE Clean'
  BY <1>8 DEF LockConn, Free, IdleIn, Clean, Locks, Lending, Borrowing, InUse, Key, Keys, Alive
<1>9. ASSUME NEW c \in Callers, Granted(c) PROVE Clean'
  BY <1>9
  DEF Granted, TakeKey, Grantable, Clean, Locks, Lending, Borrowing, InUse, Key, Keys, Alive
<1>10. ASSUME NEW c \in Callers, LockFails(c) PROVE Clean'
  BY <1>10, SMTT(30)
  DEF LockFails, TakeKey, Grantable, Dispose, GiveBack, Discard, LetGo, Clean, Locks, Lending,
      Borrowing, InUse, Key, Keys, Alive
<1>11. ASSUME NEW c \in Callers, Work(c) PROVE Clean'
  BY <1>11 DEF Work, Clean, Locks, Lending, Borrowing, InUse, Key, Keys, Alive
<1>12. ASSUME NEW c \in Callers, WorkFails(c) PROVE Clean'
  BY <1>12 DEF WorkFails, Clean, Locks, Lending, Borrowing, InUse, Key, Keys, Alive
<1>13. ASSUME NEW c \in Callers, SetPath(c) PROVE Clean'
  BY <1>13 DEF SetPath, Clean, Locks, Lending, Borrowing, InUse, Key, Keys, Alive
<1>14. ASSUME NEW c \in Callers, RestorePath(c) PROVE Clean'
  BY <1>14 DEF RestorePath, Clean, Locks, Lending, Borrowing, InUse, Key, Keys, Alive
<1>15. ASSUME NEW c \in Callers, RestoreFails(c) PROVE Clean'
  BY <1>15 DEF RestoreFails, Discard, Clean, Locks, Lending, Borrowing, InUse, Key, Keys, Alive
<1>16. ASSUME NEW c \in Callers, Unlocked(c) PROVE Clean'
  BY <1>16
  DEF Unlocked, ReleaseKey, GiveBack, LeaveUnlock, LetGo, Clean, Locks, Lending, Borrowing,
      InUse, Key, Keys, Alive
<1>17. ASSUME NEW c \in Callers, UnlockFails(c) PROVE Clean'
  <2>1. UNCHANGED path /\ session'[uses[c]] \notin {"idle", "lent"} /\ uses[c] \in Connections
    BY <1>17 DEF UnlockFails, Dispose, Discard, LeaveUnlock, Lending, Borrowing, InUse
  <2>2. \A s \in Connections \ {uses[c]} : session'[s] = session[s]
    BY <1>17 DEF UnlockFails, Dispose, Discard
  <2>3. \A d \in Callers \ {c} : uses'[d] = uses[d] /\ pc'[d] = pc[d]
    BY <1>17 DEF UnlockFails, LeaveUnlock, LetGo
  <2>4. ASSUME NEW k \in Keys, holder'[k] # None, Alive(holder[k])' PROVE holder'[k] # uses[c]
    BY <2>1, <2>4 DEF Alive
  <2>5. \A k \in Keys : holder[k] # uses[c] => holder'[k] = holder[k] /\ depth'[k] = depth[k]
    BY <1>17, <2>1 DEF UnlockFails, ReleaseKey, Keys
  <2>6. \A k \in Keys : holder'[k] \in {holder[k], None}
    BY <1>17 DEF UnlockFails, ReleaseKey, Keys
  <2>7. ASSUME NEW k \in Keys, holder'[k] # None, Alive(holder[k])'
        PROVE  /\ k = "setup" /\ depth'[k] = 1
               /\ \E d \in Callers : uses'[d] = holder'[k] /\ pc'[d] \in Pinned
    <3>1. holder'[k] = holder[k] /\ depth'[k] = depth[k] /\ holder[k] # uses[c] /\ holder[k] \in Connections
      BY <2>4, <2>5, <2>6, <2>7
    <3>2. Alive(holder[k])
      BY <2>2, <2>7, <3>1 DEF Alive
    <3> QED BY <2>3, <2>7, <3>1, <3>2 DEF Clean
  <2>8. ASSUME NEW s \in Connections, path'[s] = "schema"
        PROVE  /\ session'[s] # "gone"
               /\ Alive(s)' => \E d \in Callers : uses'[d] = s /\ pc'[d] = "noTx"
    <3>1. CASE s = uses[c]
      BY <1>17, <2>1, <2>8, <3>1 DEF UnlockFails, Dispose, Discard, Clean, Alive
    <3>2. CASE s # uses[c]
      BY <2>1, <2>2, <2>3, <2>8, <3>2 DEF Clean, Alive
    <3> QED BY <3>1, <3>2
  <2> QED BY <2>7, <2>8 DEF Clean
<1>18. ASSUME NEW s \in Connections, ConnectionLost(s) PROVE Clean'
  BY <1>18 DEF ConnectionLost, Clean, Locks, Lending, Borrowing, InUse, Key, Keys, Alive
<1>19. ASSUME NEW s \in Connections, SessionEnds(s) PROVE Clean'
  BY <1>19 DEF SessionEnds, Clean, Locks, Lending, Borrowing, InUse, Key, Keys, Alive
<1>20. ASSUME NEW p \in Pools, ProcessDies(p) PROVE Clean'
  BY <1>20 DEF ProcessDies, Clean, Locks, Lending, Borrowing, InUse, Key, Keys, Alive, Pool
<1>21. CASE UNCHANGED vars
  BY <1>21 DEF vars, Clean, Locks, Lending, Borrowing, InUse, Key, Keys, Alive
<1> QED BY <1>1, <1>2, <1>3, <1>4, <1>5, <1>6, <1>7, <1>8, <1>9, <1>10, <1>11, <1>12, <1>13, <1>14, <1>15, <1>16, <1>17, <1>18, <1>19, <1>20, <1>21 DEF Next, Pending, Fails

-----------------------------------------------------------------------------
(* The theorems *)

LEMMA InitSInv == ASSUME Init PROVE SInv /\ Clean
<1>1. None \notin Connections /\ None \notin Callers
  BY SharingAssumption DEF SharingAssumption, Connections
<1>2. SessionsOK
  BY SharingAssumption, <1>1 DEF Init, SessionsOK, SharingAssumption, Obj, Pinned, Keys
<1>3. Lending
  BY <1>1 DEF Init, Lending, Borrowing, Pinned, InUse
<1>4. Mutex /\ Locks /\ Clean
  BY <1>1 DEF Init, Mutex, Locking, Locks, Clean, Pinned, Keys, Alive
<1> QED BY <1>2, <1>3, <1>4 DEF SInv

(* Every reachable state has one user per lent connection, one caller in    *)
(* each lockMu, and locks held by those past lock().                        *)
THEOREM SessionsInvariance == Spec => []SInv
<1>1. Init => SInv
  BY InitSInv
<1>2. SInv /\ [Next]_vars => SInv'
  BY SessionsOKKept, LendingKept, MutexKept, LocksKept DEF SInv
<1> QED BY <1>1, <1>2, PTL DEF Spec

(* Every object's pinned connection is that of its one caller past lock().  *)
THEOREM SessionsOKAlways == Spec => []SessionsOK
<1>1. SInv => SessionsOK
  BY DEF SInv
<1> QED BY <1>1, SessionsInvariance, PTL

(* However many goroutines share a migrator and however many migrators      *)
(* share a pool, one caller works under a key on a live session.            *)
THEOREM WorkIsExclusiveAlways == Spec => []WorkIsExclusive
<1>1. SInv => WorkIsExclusive
  <2>1. SUFFICES ASSUME SInv, NEW c \in Callers, NEW d \in Callers,
                        pc[c] \in {"work", "noTx"}, pc[d] \in {"work", "noTx"},
                        Alive(uses[c]), Alive(uses[d]), Key(Obj(c)) = Key(Obj(d))
                 PROVE  c = d
    BY DEF WorkIsExclusive
  <2>2. uses[c] = holder[Key(Obj(c))] /\ uses[d] = holder[Key(Obj(d))]
    BY <2>1 DEF SInv, Locks, Pinned
  <2>3. uses[c] # None /\ uses[c] = uses[d]
    BY <2>1, <2>2 DEF SInv, Lending, Borrowing, Pinned
  <2> QED BY <2>1, <2>3 DEF SInv, Lending
<1> QED BY <1>1, SessionsInvariance, PTL

(* Where no Tracker shares the pools, no connection goes back to a pool     *)
(* with a lock or a search_path on it, whatever fails on the way.           *)
THEOREM PooledSessionsAreCleanAlways ==
  ASSUME Trackers = {} PROVE Spec => []PooledSessionsAreClean
<1>1. Init => SInv /\ Clean
  BY InitSInv
<1>2. SInv /\ Clean /\ [Next]_vars => (SInv /\ Clean)'
  BY SessionsOKKept, LendingKept, MutexKept, LocksKept, CleanKept DEF SInv
<1>3. SInv /\ Clean => PooledSessionsAreClean
  <2>1. SUFFICES ASSUME SInv, Clean, NEW s \in Connections, session[s] = "idle"
                 PROVE  path[s] = "default" /\ \A k \in Keys : holder[k] # s
    BY DEF PooledSessionsAreClean
  <2>2. ~InUse(s) /\ Alive(s) /\ s # None
    BY <2>1, SharingAssumption DEF SInv, Lending, Alive, SharingAssumption, Connections
  <2> QED BY <2>1, <2>2 DEF SInv, SessionsOK, Clean, InUse
<1> QED BY <1>1, <1>2, <1>3, PTL DEF Spec
=============================================================================
