---------------------------- MODULE Supervision ----------------------------
(***************************************************************************)
(* What the wrapper promises its user, without the engine, the threads and *)
(* the windows: the course of one VPN session and of its budget of         *)
(* automatic restarts.  App implements it (AppImplementsSupervision).      *)
(*                                                                         *)
(*   gone     no wrapper runs                                              *)
(*   off      no connection is wanted                                      *)
(*   first    wanted, and not yet connected since the user asked for it    *)
(*   up       wanted, and the tunnel is believed up                        *)
(*   exposed  wanted and down after it was up, and traffic leaves the PC   *)
(*   guarded  wanted and down after it was up, behind the kill switch      *)
(***************************************************************************)
EXTENDS Naturals

CONSTANT MaxRestarts   \* restarts the watchdog has for one session

VARIABLES session,  \* where the session is in its course
          budget,   \* restarts that are left
          guard     \* the user wants a dropped tunnel guarded

supervisionVars == <<session, budget, guard>>

Wanted == {"first", "up", "exposed", "guarded"}

Init == session = "gone" /\ budget = MaxRestarts /\ guard \in BOOLEAN

\* A wrapper starts; it may find an engine that is connected already.
Launch ==
  /\ session = "gone"
  /\ session' \in {"off", "up"}
  /\ UNCHANGED <<budget, guard>>

\* The wrapper exits or dies; the next one is as good as new.
Quit ==
  /\ session # "gone"
  /\ session' = "gone" /\ budget' = MaxRestarts /\ guard' \in BOOLEAN

\* The user asks for a connection: nothing is blocked before it was up once.
TurnOn ==
  /\ session # "gone"
  /\ session' = "first" /\ budget' = MaxRestarts
  /\ UNCHANGED guard

\* The user ends the session: nothing stays blocked.
TurnOff ==
  /\ session # "gone"
  /\ session' = "off" /\ budget' = MaxRestarts
  /\ UNCHANGED guard

\* Where a session can be after a look at the tunnel.  A guarded session leaves
\* the kill switch only for a tunnel that is up again, or if the user no longer
\* wants one; a dropped one gets it, unless the filters cannot be installed.
Seen ==
  {"up"} \cup (IF session = "first" THEN {"first"} ELSE {})
         \cup (IF guard THEN {"guarded"} ELSE {"exposed"})
         \cup (IF session # "guarded" THEN {"exposed"} ELSE {})

\* The watchdog looks at the tunnel and lets it be.
Watch ==
  /\ session \in Wanted
  /\ session' \in Seen
  /\ UNCHANGED <<budget, guard>>

\* The watchdog spends one restart.
Retry ==
  /\ session \in Wanted /\ budget > 0
  /\ session' \in Seen
  /\ budget' = budget - 1
  /\ UNCHANGED guard

\* The watchdog ends the session: nothing stays blocked, no restart is refunded.
GiveUp ==
  /\ session \in Wanted
  /\ session' = "off"
  /\ UNCHANGED <<budget, guard>>

\* New settings or exclusions are put into force.  This may take down a tunnel
\* that is up and never lifts the kill switch by itself.
Reapply ==
  /\ session # "gone"
  /\ session' \in {session} \cup (IF session = "up" THEN {"exposed"} ELSE {})
  /\ guard' \in BOOLEAN
  /\ UNCHANGED budget

Next == \/ Launch \/ Quit
        \/ TurnOn \/ TurnOff \/ Reapply
        \/ Watch \/ Retry \/ GiveUp

Spec == Init /\ [][Next]_supervisionVars
=============================================================================
