------------------------------- MODULE Rollout -------------------------------
(***************************************************************************)
(* What the apply path promises to those who see neither processes, locks  *)
(* nor retries: in every scope each number goes its way alone and once,    *)
(*                                                                         *)
(*     absent ---- Land ----> applied                                      *)
(*     absent --- Claim ----> running --- Finish ---> applied              *)
(*                            running ---- Fail ----> failed               *)
(*                                                                         *)
(* A transactional file lands in one step. A no-transaction file claims    *)
(* its number first and then runs statement by statement, at most one of   *)
(* them in the whole database; when its runner is gone it stays as it is,  *)
(* and nothing lands in its scope any more. Migrator implements this.      *)
(***************************************************************************)
EXTENDS Ledger

CONSTANT Scopes

VARIABLES
  status,    \* what the ledger says of each number of each scope
  effects,   \* the pieces of DDL each number left in its schema
  active     \* the number some process is running statement by statement

rolloutVars == <<status, effects, active>>

Absent == "absent"
Phases == {Absent, StatusRunning, StatusFailed, StatusApplied}

Start ==
  /\ effects \in [Scopes -> [Seqs -> {<<>>} \cup {Units(m) : m \in Migrations}]]
  /\ status = [s \in Scopes |-> [q \in Seqs |-> IF effects[s][q] = <<>> THEN Absent ELSE StatusApplied]]
  /\ active = {}

Unfinished(s) == \E q \in Seqs : status[s][q] \in {StatusRunning, StatusFailed}
Becomes(s, q, phase) == status' = [status EXCEPT ![s][q] = phase]
Shows(s, q, pieces) == effects' = [effects EXCEPT ![s][q] = pieces]

(* A runner may be gone by the end of a step that leaves work to do.        *)
MayEnd(s, q) == active' \in {{<<s, q>>}, {}}

Land(s, m) ==
  /\ ~m.notx
  /\ status[s][m.seq] = Absent /\ ~Unfinished(s) /\ active = {}
  /\ Becomes(s, m.seq, StatusApplied)
  /\ Shows(s, m.seq, Units(m))
  /\ UNCHANGED active

Claim(s, m) ==
  /\ m.notx
  /\ status[s][m.seq] = Absent /\ ~Unfinished(s) /\ active = {}
  /\ Becomes(s, m.seq, StatusRunning)
  /\ MayEnd(s, m.seq)
  /\ UNCHANGED effects

Progress(s, m) ==
  /\ active = {<<s, m.seq>>} /\ status[s][m.seq] = StatusRunning
  /\ \E k \in 1..m.stmts :
       /\ effects[s][m.seq] = SubSeq(Units(m), 1, k - 1)
       /\ Shows(s, m.seq, SubSeq(Units(m), 1, k))
  /\ MayEnd(s, m.seq)
  /\ UNCHANGED status

Fail(s, m) ==
  /\ active = {<<s, m.seq>>} /\ status[s][m.seq] = StatusRunning
  /\ Becomes(s, m.seq, StatusFailed)
  /\ active' = {}
  /\ UNCHANGED effects

Finish(s, m) ==
  /\ active = {<<s, m.seq>>} /\ status[s][m.seq] = StatusRunning
  /\ effects[s][m.seq] = Units(m)
  /\ Becomes(s, m.seq, StatusApplied)
  /\ active' = {}
  /\ UNCHANGED effects

Abandon == active # {} /\ active' = {} /\ UNCHANGED <<status, effects>>

Advance ==
  \/ \E s \in Scopes, m \in Migrations :
       m.seq \in Seqs /\ (Land(s, m) \/ Claim(s, m) \/ Progress(s, m) \/ Fail(s, m) \/ Finish(s, m))
  \/ Abandon

RolloutSpec == Start /\ [][Advance]_rolloutVars
=============================================================================
