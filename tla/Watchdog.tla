------------------------------ MODULE Watchdog ------------------------------
(***************************************************************************)
(* watchdog.rs: the pure decision that drives the engine's actual state    *)
(* toward the desired one, and the counters it is taken on.                *)
(***************************************************************************)
EXTENDS Naturals

CONSTANTS ProbeFailThreshold, \* Params::probe_fail_threshold (3 in the build)
          MaxRestarts         \* Params::max_restarts (5 in the build)

ASSUME ParamsAssumption ==
  /\ ProbeFailThreshold \in Nat \ {0}
  /\ MaxRestarts \in Nat

Desired == {"Connected", "Disconnected"}

Counters == [probe_fails : Nat, restarts : Nat]

\* Mistakes decide could contain: a budget one too large; a restart of an engine
\* that heals itself; a start that failed on the first attempt overlooked.
decide_OverBudget(desired, state, c) ==
  IF desired = "Connected" /\ state \in {"Crashed", "Disconnected", "Idle"}
  THEN IF c.restarts > MaxRestarts THEN "GiveUp" ELSE "Restart"
  ELSE "None"

decide_FightsRecovery(desired, state, c) ==
  IF desired = "Connected" /\ state \in {"Crashed", "Disconnected", "Idle", "Reconnecting"}
  THEN IF c.restarts >= MaxRestarts THEN "GiveUp" ELSE "Restart"
  ELSE "None"

decide_CrashedOnly(desired, state, c) ==
  IF desired = "Connected" /\ state = "Crashed"
  THEN IF c.restarts >= MaxRestarts THEN "GiveUp" ELSE "Restart"
  ELSE "None"

\* What the watchdog does this tick: "None", "Restart" or "GiveUp".
decide(desired, state, c) ==
  IF desired = "Disconnected" THEN "None"
  ELSE IF state = "Failed" THEN "GiveUp"
  ELSE IF \/ state \in {"Crashed", "Disconnected", "Idle"}
          \/ state = "Connected" /\ c.probe_fails >= ProbeFailThreshold
  THEN IF c.restarts >= MaxRestarts THEN "GiveUp" ELSE "Restart"
  ELSE "None"

record_probe(c, ok) ==
  [c EXCEPT !.probe_fails = IF ok THEN 0 ELSE @ + 1]

\* A restart uses up one unit of the budget and clears the streak (App::tick).
note_restart(c) == [probe_fails |-> 0, restarts |-> c.restarts + 1]

\* The user asked for, or ended, a session: a new budget.
note_healthy == [probe_fails |-> 0, restarts |-> 0]
=============================================================================
