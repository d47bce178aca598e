----------------------------- MODULE AppProofs -----------------------------
(***************************************************************************)
(* Theorems about the whole wrapper, for every value of the constants: it  *)
(* uses Engine only as its protocol allows, so what EngineProofs proves of *)
(* any caller holds of it; it is type correct, with the counters inside    *)
(* their limits; the kill switch is engaged only while a session is wanted *)
(* and down; and a wrapper that wants no connection runs no engine.        *)
(***************************************************************************)
EXTENDS App, EngineProofs

\* A wrapper that does not run has no memory: what a later one starts from.
DownIsBlank ==
  ~up => /\ desired = "Disconnected" /\ ~session_connected
         /\ tracker = FreshTracker /\ counters = note_healthy
         /\ killswitch = Lifted
         /\ probe = ProbeIdle /\ refresh = "idle"
         /\ ~dialog /\ menu = "closed"

\* While a connection is wanted the streak of failed probes is still short:
\* the tick that completes it ends the session or starts a new engine.
StreakShort == desired = "Connected" => counters.probe_fails < ProbeFailThreshold

\* The steps that only the engine, the operating system and the threads take.
ThreadStep ==
  \/ RefreshWorkerDone \/ ProbeStarts \/ ProbeEnds \/ TtlElapses

\* The handlers that change neither the engine nor the tracker.
UiOnlyStep == MenuDismiss \/ OpenDialog \/ DialogCancel \/ ClickRefresh

-----------------------------------------------------------------------------
(* The wrapper follows the protocol of Engine. *)

\* Starting the engine, whatever fails, is a step of the component or none.
LEMMA StartEngineIsEngineStep ==
  ASSUME NEW s \in Settings, NEW t, up, StartEngine(s, t)
  PROVE  [EngineNext]_engineVars
BY DEF StartEngine, WriteConfigFails, EngineNext, engineVars

\* So is applying edited settings.
LEMMA ApplyIsEngineStep ==
  ASSUME NEW s \in Settings, up, Apply(s)
  PROVE  [EngineNext]_engineVars
BY StartEngineIsEngineStep DEF Apply, engineVars

\* So is a tick of the watchdog.
LEMMA TickIsEngineStep ==
  ASSUME TypeOK, Tick
  PROVE  [EngineNext]_engineVars
<1>1. up /\ cfg \in Settings
  BY DEF Tick, TypeOK, AppTypeOK
<1>2. ASSUME Poll(TRUE), MaybeShred PROVE EngineNext
  BY <1>1, <1>2 DEF MaybeShred, Shreds, EngineNext
<1>3. CASE WatchdogNone
  BY <1>2, <1>3 DEF WatchdogNone
<1>4. CASE WatchdogRestart
  BY <1>1, <1>2, <1>4 DEF WatchdogRestart, EngineNext
<1>5. CASE WatchdogGiveUp
  BY <1>1, <1>5 DEF WatchdogGiveUp, EngineNext, Shreds
<1> QED
  BY <1>3, <1>4, <1>5 DEF Tick

\* Every step of the wrapper is a step of the component Engine or leaves it
\* alone.
LEMMA AppStepIsEngineStep ==
  TypeOK /\ DownIsBlank /\ [Next]_vars => [EngineNext]_engineVars
<1> SUFFICES ASSUME TypeOK, DownIsBlank, [Next]_vars
             PROVE  [EngineNext]_engineVars
  OBVIOUS
<1>1. cfg \in Settings /\ SplitToggled \in Settings
  BY AppAssumption DEF TypeOK, AppTypeOK, SplitToggled
<1>2. CASE Launch
  BY <1>2 DEF Launch, EngineNext
<1>3. CASE MenuExit
  BY <1>3 DEF MenuExit, EngineNext
<1>4. CASE WrapperCrash
  BY <1>4 DEF WrapperCrash, EngineNext
<1>5. CASE WrapperCrashInStart
  BY <1>1, <1>5 DEF WrapperCrashInStart, EngineNext
<1>6. CASE Tick
  BY <1>6, TickIsEngineStep
<1>7. ASSUME up, Connect PROVE [EngineNext]_engineVars
  BY <1>1, <1>7, StartEngineIsEngineStep DEF Connect, ConnectRefused, ConnectAttempt, engineVars
<1>8. ASSUME up, Disconnect PROVE [EngineNext]_engineVars
  BY <1>8 DEF Disconnect, EngineNext, Shreds
<1>9. CASE ClickToggle
  BY <1>7, <1>8, <1>9 DEF ClickToggle, MainWindowEnabled
<1>10. CASE MenuConnect \/ MenuDisconnect
  BY <1>7, <1>8, <1>10 DEF MenuConnect, MenuDisconnect, DownIsBlank
<1>11. CASE ClickSplit \/ MenuSplit
  BY <1>1, <1>11, ApplyIsEngineStep
  DEF ClickSplit, MenuSplit, MainWindowEnabled, DownIsBlank
<1>12. CASE DialogOk
  BY <1>12, ApplyIsEngineStep DEF DialogOk, DownIsBlank
<1>13. CASE OpenMenu
  BY <1>13 DEF OpenMenu, EngineNext, Shreds
<1>14. CASE FinishRefresh
  BY <1>1, <1>14, StartEngineIsEngineStep DEF FinishRefresh, DownIsBlank, engineVars
<1>15. CASE UiOnlyStep \/ ThreadStep \/ UNCHANGED vars
  BY <1>15 DEF UiOnlyStep, ThreadStep, MenuDismiss, OpenDialog, DialogCancel,
               ClickRefresh, RefreshWorkerDone, ProbeStarts, ProbeEnds,
               TtlElapses, vars
<1>16. ASSUME NEW st \in Streams, ReaderStep(st) PROVE EngineNext
  BY <1>16 DEF ReaderStep, EngineNext
<1>17. ASSUME NEW p \in Pids, EngineStep(p) PROVE EngineNext
  BY <1>17 DEF EngineStep, EngineNext
<1> QED
  BY <1>2, <1>3, <1>4, <1>5, <1>6, <1>9, <1>10, <1>11, <1>12, <1>13, <1>14, <1>15,
     <1>16, <1>17
  DEF Next, UserStep, UiOnlyStep, ThreadStep

-----------------------------------------------------------------------------
(* A wrapper that is gone has forgotten everything. *)

\* A wrapper starts blank and ends blank; in between it is up.
LEMMA DownIsBlankStep == DownIsBlank /\ [Next]_vars => DownIsBlank'
<1> SUFFICES ASSUME DownIsBlank, [Next]_vars PROVE DownIsBlank'
  OBVIOUS
<1>1. CASE Launch
  BY <1>1 DEF Launch, AdoptExisting, DownIsBlank
<1>2. CASE MenuExit \/ WrapperCrash \/ WrapperCrashInStart
  BY <1>2 DEF MenuExit, WrapperCrash, WrapperCrashInStart, Forget, DownIsBlank
<1>3. ASSUME up, up' = up PROVE DownIsBlank'
  BY <1>3 DEF DownIsBlank
<1>4. CASE Tick
  BY <1>3, <1>4
  DEF Tick, WatchdogNone, WatchdogRestart, WatchdogGiveUp, Poll, Start, Stop
<1>5. ASSUME NEW s, NEW t, StartEngine(s, t) PROVE up' = up
  BY <1>5 DEF StartEngine, WriteConfigFails, Start, engineVars
<1>6. CASE ClickToggle \/ MenuConnect \/ MenuDisconnect
  BY <1>3, <1>5, <1>6
  DEF ClickToggle, MenuConnect, MenuDisconnect, MainWindowEnabled, Connect,
      ConnectRefused, ConnectAttempt, engineVars, Disconnect, Stop, DownIsBlank
<1>7. CASE ClickSplit \/ MenuSplit \/ DialogOk
  BY <1>3, <1>5, <1>7
  DEF ClickSplit, MenuSplit, DialogOk, MainWindowEnabled, Apply, engineVars, DownIsBlank
<1>8. CASE OpenMenu
  BY <1>3, <1>8 DEF OpenMenu, Poll
<1>9. CASE FinishRefresh
  BY <1>3, <1>5, <1>9 DEF FinishRefresh, engineVars, DownIsBlank
<1>10. CASE UiOnlyStep \/ ThreadStep
  <2>1. up' = up
    BY <1>10 DEF UiOnlyStep, ThreadStep, MenuDismiss, OpenDialog, DialogCancel,
                ClickRefresh, RefreshWorkerDone, ProbeStarts, ProbeEnds,
                TtlElapses, engineVars
  <2>2. CASE up
    BY <1>3, <2>1, <2>2
  <2>3. CASE ~up
    BY <1>10, <2>1, <2>3
    DEF UiOnlyStep, ThreadStep, MenuDismiss, OpenDialog, DialogCancel, ClickRefresh,
        RefreshWorkerDone, ProbeStarts, ProbeEnds, TtlElapses, MainWindowEnabled,
        DownIsBlank, ProbeIdle, sessionVars, threadVars, uiVars
  <2> QED
    BY <2>2, <2>3
<1>11. ASSUME NEW st \in Streams, ReaderStep(st) PROVE DownIsBlank'
  BY <1>11 DEF ReaderStep, ReadLine, appVars, DownIsBlank
<1>12. ASSUME NEW q \in Pids, EngineStep(q) PROVE DownIsBlank'
  <2>1. up' = up
    BY <1>12 DEF EngineStep, ProcessStep, Boots, Connects, LosesEndpoint,
                FailsFatally, Dies, StrangerAppears, Moves
  <2> QED
    BY <1>12, <2>1 DEF EngineStep, appVars, DownIsBlank
<1>13. CASE UNCHANGED vars
  BY <1>13 DEF vars, engineVars, appVars, DownIsBlank
<1> QED
  BY <1>1, <1>2, <1>4, <1>6, <1>7, <1>8, <1>9, <1>10, <1>11, <1>12, <1>13
  DEF Next, UserStep, UiOnlyStep, ThreadStep

-----------------------------------------------------------------------------
(* Types and the limits of the counters. *)

\* The tracker stays a tracker through ingestion and a process exit.
LEMMA SeenType == TypeOK => Seen \in Tracker
<1> SUFFICES ASSUME TypeOK PROVE Seen \in Tracker
  OBVIOUS
<1>1. tracker \in Tracker /\ engine.lines \in Unread
  BY DEF TypeOK, AppTypeOK, EngineTypeOK
<1>2. ingest_all(tracker, engine.lines) \in Tracker
  BY <1>1 DEF ingest_all, Tracker, Unread, ConnState
<1>3. ASSUME NEW t \in Tracker, NEW r PROVE on_process_exit(t, r) \in Tracker
  BY DEF on_process_exit, Tracker, ConnState
<1> QED
  BY <1>2, <1>3 DEF Seen

\* Reconciling the kill switch keeps it a kill switch; it is engaged afterwards
\* only if it is wanted then.
LEMMA UpdateKillswitchEffect ==
  ASSUME TypeOK, UpdateKillswitch
  PROVE  /\ cfg' = cfg /\ saved' = saved
         /\ killswitch' \in [engaged : BOOLEAN, permit : SUBSET Addrs]
         /\ killswitch'.engaged => KillswitchWanted'
<1>1. killswitch \in [engaged : BOOLEAN, permit : SUBSET Addrs] /\ cfg \in AppConfig
  BY AppAssumption DEF TypeOK, AppTypeOK
<1>2. endpoint_ips(cfg) \in SUBSET Addrs
  BY <1>1 DEF endpoint_ips, AppConfig
<1>3. Lifted \in [engaged : BOOLEAN, permit : SUBSET Addrs] /\ ~Lifted.engaged
  BY DEF Lifted
<1>4. cfg' = cfg /\ saved' = saved /\ killswitch' \in sync(KillswitchWanted', endpoint_ips(cfg))
  BY DEF UpdateKillswitch, settingsVars
<1>5. CASE KillswitchWanted'
  <2>1. killswitch' \in {[engaged |-> TRUE, permit |-> endpoint_ips(cfg)], killswitch}
    BY <1>4, <1>5 DEF sync
  <2>2. [engaged |-> TRUE, permit |-> endpoint_ips(cfg)]
          \in [engaged : BOOLEAN, permit : SUBSET Addrs]
    BY <1>2
  <2> QED
    BY <1>1, <1>4, <1>5, <2>1, <2>2
<1>6. CASE ~KillswitchWanted'
  <2>1. IF killswitch.engaged THEN killswitch' = Lifted ELSE killswitch' = killswitch
    BY <1>4, <1>6 DEF sync
  <2>2. ~killswitch'.engaged /\ killswitch' \in [engaged : BOOLEAN, permit : SUBSET Addrs]
    BY <1>1, <1>3, <2>1
  <2> QED
    BY <1>4, <2>2
<1> QED
  BY <1>5, <1>6

\* A tick keeps the counters inside their limits.
LEMMA TickCounters ==
  ASSUME TypeOK, StreakShort, Tick
  PROVE  /\ counters' \in [probe_fails : 0 .. ProbeFailThreshold, restarts : 0 .. MaxRestarts]
         /\ StreakShort'
<1> USE ParamsAssumption
<1>1. counters \in [probe_fails : 0 .. ProbeFailThreshold, restarts : 0 .. MaxRestarts]
      /\ desired \in Desired
  BY DEF TypeOK, AppTypeOK
<1>2. /\ Counted \in [probe_fails : 0 .. ProbeFailThreshold, restarts : 0 .. MaxRestarts]
      /\ Seen.state # "Connected" => Counted = counters
  BY <1>1 DEF Counted, record_probe, StreakShort, Probing
<1>3. CASE WatchdogNone
  BY <1>1, <1>2, <1>3 DEF WatchdogNone, decide, StreakShort, Desired
<1>4. CASE WatchdogRestart
  BY <1>1, <1>2, <1>4 DEF WatchdogRestart, decide, note_restart, StreakShort
<1>5. CASE WatchdogGiveUp
  BY <1>1, <1>2, <1>5 DEF WatchdogGiveUp, StreakShort
<1> QED
  BY <1>3, <1>4, <1>5 DEF Tick

\* Starting the engine keeps the types of the tracker and of the clock.
LEMMA StartEngineType ==
  ASSUME TypeOK, NEW s, NEW t \in Tracker, StartEngine(s, t)
  PROVE  tracker' \in Tracker /\ engine_started_at' \in {"none", "fresh", "aged"}
<1>1. on_start \in Tracker
  BY DEF on_start, Tracker, ConnState
<1> QED
  BY <1>1 DEF StartEngine, TypeOK, AppTypeOK

\* Every step keeps the types of the wrapper's own state.
LEMMA AppTypeStep ==
  TypeOK /\ DownIsBlank /\ StreakShort /\ [Next]_vars => AppTypeOK' /\ StreakShort'
<1> SUFFICES ASSUME TypeOK, DownIsBlank, StreakShort, [Next]_vars
             PROVE  AppTypeOK' /\ StreakShort'
  OBVIOUS
<1> USE ParamsAssumption
<1>1. AppTypeOK /\ SplitToggled \in Settings
  BY AppAssumption DEF TypeOK, AppTypeOK, SplitToggled
<1>2. note_healthy \in [probe_fails : 0 .. ProbeFailThreshold, restarts : 0 .. MaxRestarts]
      /\ note_healthy.probe_fails < ProbeFailThreshold
  BY DEF note_healthy
<1>3. FreshTracker \in Tracker /\ on_start \in Tracker
      /\ \A st \in ConnState : [tracker EXCEPT !.state = st] \in Tracker
  BY <1>1 DEF FreshTracker, on_start, Tracker, ConnState, AppTypeOK
<1>4. ProbeIdle \in [active : BOOLEAN, busy : BOOLEAN, result : {"none", "ok", "fail"}]
      /\ Lifted \in [engaged : BOOLEAN, permit : SUBSET Addrs]
  BY DEF ProbeIdle, Lifted
<1>5. CASE Launch
  BY <1>1, <1>2, <1>3, <1>5
  DEF Launch, AdoptExisting, AppTypeOK, StreakShort, DownIsBlank, settingsVars,
      threadVars, uiVars, Desired, ConnState
<1>6. ASSUME NEW s \in Settings, Forget(s) PROVE AppTypeOK' /\ StreakShort'
  BY <1>2, <1>3, <1>4, <1>6 DEF Forget, AppTypeOK, StreakShort, Desired
<1>7. CASE MenuExit \/ WrapperCrash \/ WrapperCrashInStart
  BY <1>1, <1>6, <1>7 DEF MenuExit, WrapperCrash, WrapperCrashInStart, AppTypeOK
<1>8. CASE Tick
  <2>1. UpdateKillswitch /\ refresh' = refresh /\ dialog' = dialog /\ menu' = menu
    BY <1>8 DEF Tick, uiVars
  <2>2. probe' \in [active : BOOLEAN, busy : BOOLEAN, result : {"none", "ok", "fail"}]
    <3>1. Probing \in BOOLEAN
      BY DEF Probing
    <3> QED
      BY <1>1, <1>8, <3>1 DEF Tick, AppTypeOK
  <2>3. session_connected' \in BOOLEAN
    BY <1>8 DEF Tick
  <2>4. /\ desired' \in Desired /\ tracker' \in Tracker
        /\ engine_started_at' \in {"none", "fresh", "aged"}
    BY <1>1, <1>3, <1>8, SeenType
    DEF Tick, WatchdogNone, WatchdogRestart, WatchdogGiveUp, MaybeShred, AppTypeOK, Desired
  <2> QED
    BY <1>1, <1>8, <2>1, <2>2, <2>3, <2>4, TickCounters, UpdateKillswitchEffect
    DEF AppTypeOK
<1>9. CASE ConnectAttempt /\ menu' \in {"closed", "connect", "disconnect"}
  BY <1>1, <1>2, <1>9, StartEngineType, UpdateKillswitchEffect
  DEF ConnectAttempt, AppTypeOK, StreakShort, Desired, threadVars
<1>10. CASE Disconnect /\ menu' \in {"closed", "connect", "disconnect"}
  BY <1>1, <1>2, <1>3, <1>10, UpdateKillswitchEffect
  DEF Disconnect, AppTypeOK, StreakShort, Desired, ConnState, threadVars
<1>11. CASE ConnectRefused /\ menu' \in {"closed", "connect", "disconnect"}
  BY <1>1, <1>11 DEF ConnectRefused, AppTypeOK, StreakShort, settingsVars,
                     sessionVars, threadVars
<1>12. CASE ClickToggle \/ MenuConnect \/ MenuDisconnect
  BY <1>1, <1>9, <1>10, <1>11, <1>12
  DEF ClickToggle, MenuConnect, MenuDisconnect, Connect, AppTypeOK
<1>13. ASSUME NEW s \in Settings, Apply(s), dialog' \in BOOLEAN,
              menu' \in {"closed", "connect", "disconnect"}
       PROVE  AppTypeOK' /\ StreakShort'
  BY <1>1, <1>13, StartEngineType
  DEF Apply, AppTypeOK, StreakShort, sessionVars, threadVars
<1>14. CASE ClickSplit \/ MenuSplit \/ DialogOk
  BY <1>1, <1>13, <1>14 DEF ClickSplit, MenuSplit, DialogOk, AppTypeOK, uiVars
<1>15. CASE OpenMenu
  BY <1>1, <1>15 DEF OpenMenu, AppTypeOK, StreakShort, settingsVars, sessionVars,
                     threadVars
<1>16. CASE FinishRefresh
  BY <1>1, <1>16, StartEngineType
  DEF FinishRefresh, AppTypeOK, StreakShort, settingsVars, sessionVars, uiVars
<1>17. CASE UiOnlyStep
  BY <1>1, <1>17
  DEF UiOnlyStep, MenuDismiss, OpenDialog, DialogCancel, ClickRefresh, AppTypeOK,
      StreakShort, settingsVars, sessionVars, threadVars, uiVars
<1>18. CASE ThreadStep
  BY <1>1, <1>18
  DEF ThreadStep, RefreshWorkerDone, ProbeStarts, ProbeEnds, TtlElapses, AppTypeOK,
      StreakShort, settingsVars, sessionVars, threadVars, uiVars
<1>19. CASE UNCHANGED appVars
  BY <1>1, <1>19 DEF appVars, AppTypeOK, StreakShort
<1> QED
  BY <1>5, <1>7, <1>8, <1>12, <1>14, <1>15, <1>16, <1>17, <1>18, <1>19
  DEF Next, UserStep, UiOnlyStep, ThreadStep, ReaderStep, EngineStep, vars

\* What every reachable state satisfies.
WrapperInv == TypeOK /\ DownIsBlank /\ StreakShort

\* The machine starts typed and blank.
LEMMA WrapperInvInit == Init => WrapperInv
<1> SUFFICES ASSUME Init PROVE WrapperInv
  OBVIOUS
<1> USE ParamsAssumption
<1>1. EngineTypeOK
  <2>1. EmptyPipe \in [Streams -> Seq(Line)]
    BY DEF EmptyPipe
  <2>2. Dead \in Process
    BY DEF Dead, Process
  <2> QED
    BY <2>1, <2>2, NoHandlesType DEF Init, EngineInit, EngineTypeOK
<1>2. FreshTracker \in Tracker
  BY DEF FreshTracker, Tracker, ConnState
<1>3. /\ note_healthy \in [probe_fails : 0 .. ProbeFailThreshold, restarts : 0 .. MaxRestarts]
      /\ Lifted \in [engaged : BOOLEAN, permit : SUBSET Addrs]
      /\ ProbeIdle \in [active : BOOLEAN, busy : BOOLEAN, result : {"none", "ok", "fail"}]
  BY DEF note_healthy, Lifted, ProbeIdle
<1>4. AppTypeOK
  BY <1>2, <1>3 DEF Init, AppTypeOK, Desired
<1>5. DownIsBlank /\ StreakShort
  BY DEF Init, DownIsBlank, StreakShort
<1> QED
  BY <1>1, <1>4, <1>5 DEF WrapperInv, TypeOK

\* Every step keeps the invariant.
LEMMA WrapperInvStep == WrapperInv /\ [Next]_vars => WrapperInv'
BY AppTypeStep, AppStepIsEngineStep, EngineNextType, DownIsBlankStep
DEF WrapperInv, TypeOK

LEMMA WrapperInvariance == Spec => []WrapperInv
BY WrapperInvInit, WrapperInvStep, PTL DEF Spec

\* The wrapper only ever holds values of its types; in particular the restart
\* budget is never overdrawn and the streak of failed probes never exceeds its
\* threshold.
THEOREM TypeCorrect == Spec => []TypeOK
BY WrapperInvariance, PTL DEF WrapperInv

\* The wrapper is one of the callers Engine is made for.
THEOREM AppImplementsEngine == Spec => EngineSpec
<1>1. Init => EngineInit
  BY DEF Init
<1>2. WrapperInv /\ [Next]_vars => [EngineNext]_engineVars
  BY AppStepIsEngineStep DEF WrapperInv
<1> QED
  BY <1>1, <1>2, WrapperInvariance, PTL DEF Spec, EngineSpec

-----------------------------------------------------------------------------
(* The kill switch. *)

\* Starting the engine makes the tracker at most forget that it is connected.
LEMMA StartEngineTracker ==
  ASSUME NEW s, StartEngine(s, tracker)
  PROVE  /\ up' = up
         /\ tracker'.state = "Connected" => tracker.state = "Connected"
BY DEF StartEngine, WriteConfigFails, Start, on_start, engineVars

\* Every step keeps the kill switch confined: connect, disconnect and tick
\* reconcile it with what they changed, and no other handler that leaves it
\* alone disturbs the reasons it is engaged for.
LEMMA KsStep ==
  WrapperInv /\ KsOnlyWhileWantedDown /\ [Next]_vars => KsOnlyWhileWantedDown'
<1> SUFFICES ASSUME WrapperInv, KsOnlyWhileWantedDown, [Next]_vars
             PROVE  KsOnlyWhileWantedDown'
  OBVIOUS
<1>1. TypeOK /\ DownIsBlank
  BY DEF WrapperInv
<1>2. ASSUME up, up' = up, UpdateKillswitch PROVE KsOnlyWhileWantedDown'
  BY <1>1, <1>2, UpdateKillswitchEffect DEF KsOnlyWhileWantedDown, KillswitchWanted
<1>3. ASSUME up' = up, killswitch' = killswitch, UNCHANGED sessionVars,
             tracker'.state = "Connected" => tracker.state = "Connected"
      PROVE  KsOnlyWhileWantedDown'
  BY <1>3 DEF KsOnlyWhileWantedDown, sessionVars
<1>4. CASE Launch
  BY <1>1, <1>4 DEF Launch, AdoptExisting, DownIsBlank, Lifted, KsOnlyWhileWantedDown
<1>5. CASE MenuExit \/ WrapperCrash \/ WrapperCrashInStart
  BY <1>5 DEF MenuExit, WrapperCrash, WrapperCrashInStart, Forget, Lifted,
              KsOnlyWhileWantedDown
<1>6. CASE Tick
  BY <1>2, <1>6
  DEF Tick, WatchdogNone, WatchdogRestart, WatchdogGiveUp, Poll, Start, Stop
<1>7. CASE ClickToggle \/ MenuConnect \/ MenuDisconnect
  BY <1>1, <1>2, <1>3, <1>7, StartEngineTracker
  DEF ClickToggle, MenuConnect, MenuDisconnect, MainWindowEnabled, Connect,
      ConnectRefused, ConnectAttempt, Disconnect, Stop, engineVars, DownIsBlank
<1>8. ASSUME NEW s, Apply(s) PROVE KsOnlyWhileWantedDown'
  <2>1. up' = up /\ (tracker'.state = "Connected" => tracker.state = "Connected")
    BY <1>8, StartEngineTracker DEF Apply, engineVars
  <2> QED
    BY <1>3, <1>8, <2>1 DEF Apply
<1>9. CASE ClickSplit \/ MenuSplit \/ DialogOk
  BY <1>8, <1>9 DEF ClickSplit, MenuSplit, DialogOk
<1>10. CASE OpenMenu
  BY <1>3, <1>10 DEF OpenMenu, Poll
<1>11. CASE FinishRefresh
  <2>1. up' = up /\ (tracker'.state = "Connected" => tracker.state = "Connected")
    BY <1>11, StartEngineTracker DEF FinishRefresh, engineVars
  <2> QED
    BY <1>3, <1>11, <2>1 DEF FinishRefresh
<1>12. CASE UiOnlyStep \/ ThreadStep
  BY <1>3, <1>12
  DEF UiOnlyStep, ThreadStep, MenuDismiss, OpenDialog, DialogCancel, ClickRefresh,
      RefreshWorkerDone, ProbeStarts, ProbeEnds, TtlElapses, engineVars
<1>13. ASSUME NEW st \in Streams, ReaderStep(st) PROVE KsOnlyWhileWantedDown'
  BY <1>3, <1>13 DEF ReaderStep, ReadLine, appVars, sessionVars
<1>14. ASSUME NEW q \in Pids, EngineStep(q) PROVE KsOnlyWhileWantedDown'
  <2>1. up' = up
    BY <1>1, <1>14, ProcessStepFrame DEF EngineStep, TypeOK
  <2> QED
    BY <1>3, <1>14, <2>1 DEF EngineStep, appVars, sessionVars
<1>15. CASE UNCHANGED vars
  BY <1>3, <1>15 DEF vars, engineVars, appVars, sessionVars
<1> QED
  BY <1>4, <1>5, <1>6, <1>7, <1>9, <1>10, <1>11, <1>12, <1>13, <1>14, <1>15
  DEF Next, UserStep, UiOnlyStep, ThreadStep

\* The kill switch is engaged only while a session that was connected once is
\* wanted and believed down.
THEOREM KillSwitchConfined == Spec => []KsOnlyWhileWantedDown
<1>1. Init => KsOnlyWhileWantedDown
  BY DEF Init, KsOnlyWhileWantedDown, Lifted
<1> QED
  BY <1>1, KsStep, WrapperInvariance, PTL DEF Spec

-----------------------------------------------------------------------------
(* Off means off. *)

\* A start happens only for a connection that is wanted, and what ends the
\* want stops the engine.
LEMMA OffStep ==
  ASSUME TracksEngine, WrapperInv, EngineAccountedFor, OffMeansStopped, [Next]_vars
  PROVE  OffMeansStopped'
<1>1. TypeOK /\ DownIsBlank /\ EngineTypeOK
  BY DEF WrapperInv, TypeOK
<1>2. ASSUME up' = up, procs' = procs, desired' = desired PROVE OffMeansStopped'
  BY <1>2 DEF OffMeansStopped, IsEngine
<1>3. ASSUME desired' = "Connected" PROVE OffMeansStopped'
  BY <1>3 DEF OffMeansStopped
<1>4. ASSUME up, Stop PROVE OffMeansStopped'
  BY <1>1, <1>4, KilledLeavesNoEngine DEF Stop, OffMeansStopped, IsEngine
<1>5. CASE Launch
  <2>1. CASE engine'.adopted_pid # NoPid
    BY <1>3, <1>5, <2>1 DEF Launch
  <2>2. CASE engine'.adopted_pid = NoPid
    <3>1. ~pid_is_engine(pidfile)
      BY <1>5, <2>2 DEF Launch, AdoptExisting, NoHandles, pid_is_engine
    <3>2. \A p \in Pids : ~IsEngine(p)
      BY <3>1, EngineAssumption DEF EngineAccountedFor, pid_is_engine, IsEngine
    <3> QED
      BY <1>5, <3>2 DEF Launch, AdoptExisting, OffMeansStopped, IsEngine
  <2> QED
    BY <2>1, <2>2
<1>6. CASE MenuExit \/ WrapperCrash \/ WrapperCrashInStart
  BY <1>6 DEF MenuExit, WrapperCrash, WrapperCrashInStart, Drop, Crash, CrashInStart,
              OffMeansStopped
<1>7. CASE Tick
  <2>1. CASE WatchdogNone
    BY <1>2, <2>1 DEF WatchdogNone, Poll
  <2>2. CASE WatchdogRestart
    BY <1>1, <1>3, <2>2 DEF WatchdogRestart, decide, TypeOK, AppTypeOK, Desired
  <2>3. CASE WatchdogGiveUp
    BY <1>4, <1>7, <2>3 DEF Tick, WatchdogGiveUp
  <2> QED
    BY <1>7, <2>1, <2>2, <2>3 DEF Tick
<1>8. CASE ClickToggle \/ MenuConnect \/ MenuDisconnect
  BY <1>1, <1>2, <1>3, <1>4, <1>8
  DEF ClickToggle, MenuConnect, MenuDisconnect, MainWindowEnabled, Connect,
      ConnectRefused, ConnectAttempt, Disconnect, engineVars, sessionVars, DownIsBlank
<1>9. ASSUME NEW s, Apply(s) PROVE OffMeansStopped'
  BY <1>2, <1>3, <1>9 DEF Apply, engineVars, sessionVars
<1>10. CASE ClickSplit \/ MenuSplit \/ DialogOk
  BY <1>9, <1>10 DEF ClickSplit, MenuSplit, DialogOk
<1>11. CASE OpenMenu
  BY <1>2, <1>11 DEF OpenMenu, Poll, sessionVars
<1>12. CASE FinishRefresh
  BY <1>2, <1>3, <1>12 DEF FinishRefresh, engineVars, sessionVars
<1>13. CASE UiOnlyStep \/ ThreadStep
  BY <1>2, <1>13
  DEF UiOnlyStep, ThreadStep, MenuDismiss, OpenDialog, DialogCancel, ClickRefresh,
      RefreshWorkerDone, ProbeStarts, ProbeEnds, TtlElapses, engineVars, sessionVars
<1>14. ASSUME NEW st \in Streams, ReaderStep(st) PROVE OffMeansStopped'
  BY <1>2, <1>14 DEF ReaderStep, ReadLine, appVars
<1>15. ASSUME NEW q \in Pids, EngineStep(q) PROVE OffMeansStopped'
  <2>1. /\ up' = up /\ desired' = desired
        /\ \A p \in Pids : IsEngine(p)' => IsEngine(p)
    BY <1>1, <1>15, ProcessStepFrame DEF EngineStep, appVars, IsEngine, EngineTypeOK
  <2> QED
    BY <2>1 DEF OffMeansStopped
<1>16. CASE UNCHANGED vars
  BY <1>2, <1>16 DEF vars, engineVars, appVars
<1> QED
  BY <1>5, <1>6, <1>7, <1>8, <1>10, <1>11, <1>12, <1>13, <1>14, <1>15, <1>16
  DEF Next, UserStep, UiOnlyStep, ThreadStep

\* As long as no engine process is lost, a wrapper that wants no connection
\* runs beside no engine process.
THEOREM OffStaysOff == TracksEngine => (Spec => []OffMeansStopped)
<1> SUFFICES ASSUME TracksEngine PROVE Spec => []OffMeansStopped
  OBVIOUS
<1>1. Init => OffMeansStopped
  BY DEF Init, EngineInit, OffMeansStopped
<1>2. WrapperInv /\ EngineAccountedFor /\ OffMeansStopped /\ [Next]_vars
        => OffMeansStopped'
  BY OffStep
<1>3. Spec => []EngineAccountedFor
  BY AppImplementsEngine, EnginesStayAccountedFor
<1> QED
  BY <1>1, <1>2, <1>3, WrapperInvariance, PTL DEF Spec
=============================================================================
