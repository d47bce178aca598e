--------------------------- MODULE SessionProofs ---------------------------
(***************************************************************************)
(* Theorems about one session of the wrapper: the engine it owns runs the  *)
(* settings in memory, the plaintext config goes with the last connection  *)
(* that was wanted and is timed until then, the kill switch gives way to a *)
(* live engine only, dead engines are dealt with, and the course of the    *)
(* session implements Supervision.  A condition on what may happen, where  *)
(* a theorem has one, is stated first.                                     *)
(***************************************************************************)
EXTENDS AppProofs, SequenceTheorems

\* Saving the settings and writing the engine config succeed.
WritesSucceed == {"save_err", "write_err"} \cap Events = {}

\* The wrapper neither exits nor dies.
WrapperStays == {"crash", "crash_in_start", "exit"} \cap Events = {}

-----------------------------------------------------------------------------
(* The engine runs the current settings. *)

\* An engine is owned only while one is wanted; while it boots it has read no
\* settings and will find the current ones, and afterwards it has read those.
OwnedIsCurrent ==
  engine.owned # NoPid =>
    /\ desired = "Connected"
    /\ procs[engine.owned].conf \in {cfg, NoConfig}
    /\ procs[engine.owned].phase = "booting" =>
         config_file \in {cfg, NoConfig} /\ procs[engine.owned].conf = NoConfig

\* Only who wants a connection starts an engine, with the settings then current.
LEMMA StartIsCurrent ==
  ASSUME TypeOK, NEW s, Start(s), cfg' = s, desired' = "Connected"
  PROVE  OwnedIsCurrent'
<1>1. procs \in [Pids -> Process] /\ Killed \in [Pids -> Process]
  BY DEF TypeOK, EngineTypeOK, Killed, Process, Dead
<1>2. CASE engine' = NoHandles
  BY <1>2 DEF NoHandles, OwnedIsCurrent
<1>3. ASSUME NEW p \in Pids, engine' = [NoHandles EXCEPT !.owned = p],
             procs' = Spawned(p)
      PROVE  OwnedIsCurrent'
  <2>1. engine'.owned = p
    BY <1>3 DEF NoHandles
  <2>2. procs'[p] = [phase |-> "booting", conf |-> NoConfig]
    BY <1>1, <1>3 DEF Spawned
  <2>3. config_file' = s
    BY DEF Start
  <2> QED
    BY <2>1, <2>2, <2>3 DEF OwnedIsCurrent
<1> QED
  BY <1>2, <1>3 DEF Start, Spawnable

LEMMA StartEngineIsCurrent ==
  ASSUME WritesSucceed, TypeOK, NEW s, NEW t, StartEngine(s, t), cfg' = s,
         desired' = "Connected"
  PROVE  OwnedIsCurrent'
BY StartIsCurrent DEF StartEngine, WriteConfigFails, WritesSucceed

\* Forgetting handles, shredding and draining change nothing an engine reads.
LEMMA OwnedFrame ==
  ASSUME OwnedIsCurrent, NoPid \notin Pids,
         engine'.owned \in {engine.owned, NoPid}, procs' = procs,
         config_file' \in {config_file, NoConfig}, cfg' = cfg, desired' = desired
  PROVE  OwnedIsCurrent'
BY DEF OwnedIsCurrent

LEMMA OwnedStep ==
  ASSUME WritesSucceed, WrapperInv, OwnedIsCurrent, [Next]_vars
  PROVE  OwnedIsCurrent'
<1> USE EngineAssumption
<1>1. TypeOK /\ DownIsBlank /\ EngineTypeOK /\ desired \in Desired
  BY DEF WrapperInv, TypeOK, AppTypeOK
<1>2. ASSUME engine' = NoHandles \/ engine' = [NoHandles EXCEPT !.requested_stop = TRUE]
      PROVE  OwnedIsCurrent'
  BY <1>2 DEF NoHandles, OwnedIsCurrent
<1>3. ASSUME UNCHANGED <<engineVars, desired, cfg>> PROVE OwnedIsCurrent'
  BY <1>3 DEF engineVars, OwnedIsCurrent
<1>4. /\ Polled.owned \in {engine.owned, NoPid}
      /\ [Polled EXCEPT !.lines = NoLines].owned \in {engine.owned, NoPid}
  BY <1>1 DEF Polled, EngineTypeOK
<1>5. CASE Launch
  <2>1. engine'.owned = NoPid
    BY <1>5 DEF Launch, AdoptExisting, NoHandles
  <2> QED
    BY <2>1 DEF OwnedIsCurrent
<1>6. CASE MenuExit \/ WrapperCrash \/ WrapperCrashInStart
  BY <1>2, <1>6 DEF MenuExit, WrapperCrash, WrapperCrashInStart, Drop, Crash, CrashInStart
<1>7. CASE Tick
  <2>1. cfg' = cfg
    BY <1>7 DEF Tick, UpdateKillswitch, settingsVars
  <2>2. CASE WatchdogNone
    BY <1>4, <2>1, <2>2, OwnedFrame DEF WatchdogNone, Poll, MaybeShred, Shred
  <2>3. CASE WatchdogRestart
    <3>1. desired' = "Connected" /\ Start(cfg)
      BY <1>1, <2>3 DEF WatchdogRestart, decide, WritesSucceed, Desired
    <3> QED
      BY <1>1, <2>1, <3>1, StartIsCurrent
  <2>4. CASE WatchdogGiveUp
    BY <1>2, <2>4 DEF WatchdogGiveUp, Stop
  <2> QED
    BY <1>7, <2>2, <2>3, <2>4 DEF Tick
<1>8. CASE ConnectRefused
  BY <1>3, <1>8 DEF ConnectRefused, settingsVars, sessionVars
<1>9. CASE ConnectAttempt
  <2>1. cfg' = cfg
    BY <1>9 DEF ConnectAttempt, UpdateKillswitch, settingsVars
  <2> QED
    BY <1>1, <1>9, <2>1, StartEngineIsCurrent DEF ConnectAttempt
<1>10. CASE Disconnect
  BY <1>2, <1>10 DEF Disconnect, Stop
<1>11. ASSUME NEW s, Apply(s) PROVE OwnedIsCurrent'
  <2>1. cfg' = s /\ desired' = desired
    BY <1>11 DEF Apply, sessionVars
  <2>2. CASE desired = "Connected"
    BY <1>1, <1>11, <2>1, <2>2, StartEngineIsCurrent DEF Apply, WritesSucceed
  <2>3. CASE desired # "Connected"
    BY <1>11, <2>3 DEF Apply, engineVars, OwnedIsCurrent
  <2> QED
    BY <2>2, <2>3
<1>12. CASE OpenMenu
  <2>1. UNCHANGED <<procs, config_file, cfg, desired>> /\ engine' = Polled
    BY <1>12 DEF OpenMenu, Poll, settingsVars, sessionVars
  <2> QED
    BY <1>4, <2>1, OwnedFrame
<1>13. CASE FinishRefresh
  <2>1. cfg' = cfg /\ desired' = desired
    BY <1>13 DEF FinishRefresh, settingsVars, sessionVars
  <2>2. CASE refresh = "ok" /\ cfg.split /\ desired = "Connected"
    BY <1>1, <1>13, <2>1, <2>2, StartEngineIsCurrent DEF FinishRefresh
  <2>3. CASE ~(refresh = "ok" /\ cfg.split /\ desired = "Connected")
    BY <1>3, <1>13, <2>1, <2>3 DEF FinishRefresh
  <2> QED
    BY <2>2, <2>3
<1>14. CASE UiOnlyStep \/ ThreadStep
  BY <1>3, <1>14
  DEF UiOnlyStep, ThreadStep, MenuDismiss, OpenDialog, DialogCancel, ClickRefresh,
      RefreshWorkerDone, ProbeStarts, ProbeEnds, TtlElapses, settingsVars, sessionVars
<1>15. ASSUME NEW st \in Streams, ReaderStep(st) PROVE OwnedIsCurrent'
  <2>1. engine'.owned = engine.owned
    BY <1>1, <1>15 DEF ReaderStep, ReadLine, EngineTypeOK
  <2> QED
    BY <1>15, <2>1, OwnedFrame DEF ReaderStep, ReadLine, appVars
<1>16. ASSUME NEW q \in Pids, EngineStep(q) PROVE OwnedIsCurrent'
  <2>1. UNCHANGED <<engine, config_file, cfg, desired>>
    BY <1>16 DEF EngineStep, ProcessStep, Boots, Connects, LosesEndpoint, FailsFatally,
                 Dies, StrangerAppears, Moves, appVars
  <2> SUFFICES ASSUME engine.owned # NoPid PROVE OwnedIsCurrent'
    BY <2>1 DEF OwnedIsCurrent
  <2>2. procs \in [Pids -> Process] /\ engine.owned \in Pids
    BY <1>1 DEF EngineTypeOK
  <2>3. CASE q # engine.owned
    <3>1. procs'[engine.owned] = procs[engine.owned]
      BY <1>16, <2>2, <2>3
      DEF EngineStep, ProcessStep, Boots, Connects, LosesEndpoint, FailsFatally,
          Dies, StrangerAppears, Moves
    <3> QED
      BY <2>1, <3>1 DEF OwnedIsCurrent
  <2>4. CASE q = engine.owned
    <3> DEFINE Reads == /\ procs'[q].phase # "booting"
                        /\ \/ procs'[q].conf \in {procs[q].conf, NoConfig}
                           \/ procs[q].phase = "booting" /\ procs'[q].conf = config_file
    <3> SUFFICES Reads
      BY <2>1, <2>4 DEF OwnedIsCurrent
    <3>1. q \in Pids /\ procs[q] = [phase |-> procs[q].phase, conf |-> procs[q].conf]
      BY <2>2, <2>4 DEF Process
    <3>2. CASE Boots(q)
      <4>1. procs[q].phase = "booting"
        BY <3>2 DEF Boots
      <4>2. CASE config_file = NoConfig
        <5>1. procs'[q] = [procs[q] EXCEPT !.phase = "failing"]
          BY <2>2, <3>1, <3>2, <4>2 DEF Boots
        <5> QED
          BY <3>1, <5>1
      <4>3. CASE config_file # NoConfig
        <5>1. procs'[q] = [phase |-> "connecting", conf |-> config_file]
          BY <2>2, <3>1, <3>2, <4>3 DEF Boots
        <5> QED
          BY <4>1, <5>1
      <4> QED
        BY <4>2, <4>3
    <3>3. ASSUME NEW ph, ph # "booting", Moves(q, ph) PROVE Reads
      BY <2>2, <3>1, <3>3 DEF Moves
    <3>4. CASE Connects(q) \/ LosesEndpoint(q) \/ FailsFatally(q)
      BY <3>3, <3>4 DEF Connects, LosesEndpoint, FailsFatally
    <3>5. CASE Dies(q)
      BY <2>2, <3>5 DEF Dies, Dead
    <3> QED
      BY <1>16, <2>4, <3>2, <3>4, <3>5 DEF EngineStep, ProcessStep, StrangerAppears
  <2> QED
    BY <2>3, <2>4
<1>17. CASE UNCHANGED vars
  BY <1>3, <1>17 DEF vars, appVars
<1> QED
  BY <1>5, <1>6, <1>7, <1>8, <1>9, <1>10, <1>11, <1>12, <1>13, <1>14, <1>15, <1>16, <1>17
  DEF Next, UserStep, UiOnlyStep, ThreadStep, ClickToggle, MenuConnect, MenuDisconnect,
      Connect, ClickSplit, MenuSplit, DialogOk

\* As long as settings can be saved and the config written, an engine past its
\* boot runs the settings in memory and one that boots will read them, whichever
\* of dialog, tray, geoip thread and watchdog acted last.
THEOREM EngineIsCurrent == WritesSucceed => (Spec => []EngineRunsCurrentSettings)
<1> SUFFICES ASSUME WritesSucceed PROVE Spec => []EngineRunsCurrentSettings
  OBVIOUS
<1>1. Init => OwnedIsCurrent
  BY DEF Init, EngineInit, NoHandles, OwnedIsCurrent
<1>2. WrapperInv /\ OwnedIsCurrent /\ [Next]_vars => OwnedIsCurrent'
  BY OwnedStep
<1>3. OwnedIsCurrent => EngineRunsCurrentSettings
  BY DEF OwnedIsCurrent, EngineRunsCurrentSettings
<1> QED
  BY <1>1, <1>2, <1>3, WrapperInvariance, PTL DEF Spec

-----------------------------------------------------------------------------
(* The plaintext config. *)

WrapperGoes == MenuExit \/ WrapperCrash \/ WrapperCrashInStart

\* Where a step leaves the plaintext config: with a session that goes on, shredded,
\* there in spite of a shred, or as it was found.
ConfigAccounted ==
  \/ up' /\ desired' = "Connected"
  \/ config_file' = NoConfig
  \/ config_file' = config_file /\ shred_failed'
  \/ desired = "Disconnected" /\ UNCHANGED <<config_file, shred_failed>>
  \/ WrapperGoes

\* What ends the want of a connection tries to shred the config; only who wants
\* one writes it.
LEMMA ConfigStep ==
  ASSUME WrapperInv, [Next]_vars
  PROVE  ConfigAccounted
<1>1. TypeOK /\ DownIsBlank /\ EngineTypeOK /\ desired \in Desired
  BY DEF WrapperInv, TypeOK, AppTypeOK
<1>2. ASSUME up' = up, desired' = desired,
             Shred \/ UNCHANGED <<config_file, shred_failed>>
      PROVE  ConfigAccounted
  BY <1>1, <1>2 DEF ConfigAccounted, Shred, DownIsBlank, Desired
<1>3. ASSUME up, up' = up, desired' = "Connected" PROVE ConfigAccounted
  BY <1>3 DEF ConfigAccounted
<1>4. ASSUME Shred PROVE ConfigAccounted
  BY <1>4 DEF ConfigAccounted, Shred
<1>5. CASE Launch
  BY <1>1, <1>5 DEF Launch, AdoptExisting, DownIsBlank, ConfigAccounted
<1>6. CASE WrapperGoes
  BY <1>6 DEF ConfigAccounted
<1>7. CASE Tick
  <2>1. CASE WatchdogNone
    BY <1>2, <2>1 DEF WatchdogNone, Poll, MaybeShred
  <2>2. CASE WatchdogRestart
    <3>1. up' = up /\ desired' = "Connected"
      BY <1>1, <2>2 DEF WatchdogRestart, decide, Desired, Poll, Start
    <3> QED
      BY <1>3, <1>7, <3>1 DEF Tick
  <2>3. CASE WatchdogGiveUp
    BY <1>4, <2>3 DEF WatchdogGiveUp
  <2> QED
    BY <1>7, <2>1, <2>2, <2>3 DEF Tick
<1>8. ASSUME NEW s, NEW t, StartEngine(s, t) PROVE up' = up
  BY <1>8 DEF StartEngine, WriteConfigFails, Start, engineVars
<1>9. ASSUME up, Connect PROVE ConfigAccounted
  BY <1>2, <1>3, <1>8, <1>9
  DEF Connect, ConnectRefused, ConnectAttempt, engineVars, sessionVars
<1>10. CASE Disconnect
  BY <1>4, <1>10 DEF Disconnect
<1>11. ASSUME NEW s, Apply(s) PROVE ConfigAccounted
  BY <1>1, <1>2, <1>3, <1>8, <1>11 DEF Apply, engineVars, sessionVars, DownIsBlank
<1>12. CASE OpenMenu
  BY <1>2, <1>12 DEF OpenMenu, Poll, sessionVars
<1>13. CASE FinishRefresh
  BY <1>1, <1>2, <1>3, <1>8, <1>13 DEF FinishRefresh, engineVars, sessionVars, DownIsBlank
<1>14. CASE UiOnlyStep \/ ThreadStep
  BY <1>2, <1>14
  DEF UiOnlyStep, ThreadStep, MenuDismiss, OpenDialog, DialogCancel, ClickRefresh,
      RefreshWorkerDone, ProbeStarts, ProbeEnds, TtlElapses, engineVars, sessionVars
<1>15. ASSUME NEW st \in Streams, ReaderStep(st) PROVE ConfigAccounted
  BY <1>2, <1>15 DEF ReaderStep, ReadLine, appVars
<1>16. ASSUME NEW q \in Pids, EngineStep(q) PROVE ConfigAccounted
  BY <1>1, <1>2, <1>16, ProcessStepFrame DEF EngineStep, appVars
<1>17. CASE UNCHANGED vars
  BY <1>2, <1>17 DEF vars, engineVars, appVars
<1>18. CASE ClickToggle \/ MenuConnect \/ MenuDisconnect
  BY <1>1, <1>9, <1>10, <1>18
  DEF ClickToggle, MenuConnect, MenuDisconnect, MainWindowEnabled, DownIsBlank
<1>19. CASE ClickSplit \/ MenuSplit \/ DialogOk
  BY <1>11, <1>19 DEF ClickSplit, MenuSplit, DialogOk
<1> QED
  BY <1>5, <1>6, <1>7, <1>12, <1>13, <1>14, <1>15, <1>16, <1>17, <1>18, <1>19
  DEF Next, UserStep, UiOnlyStep, ThreadStep, WrapperGoes

\* Whatever an earlier life of the wrapper left on disk: the step that ends a
\* session shreds it, so that what is there afterwards is a file the shred failed
\* on, and a wrapper that is off writes none.
THEOREM EndingShreds == Spec => OffWritesNoPlaintext
<1>1. WrapperInv /\ [Next]_vars
        => [up' /\ desired' = "Disconnected"
              => \/ config_file' = NoConfig
                 \/ /\ config_file' = config_file
                    /\ desired = "Disconnected" \/ shred_failed']_vars
  BY ConfigStep
  DEF ConfigAccounted, WrapperGoes, MenuExit, Drop, WrapperCrash, Crash,
      WrapperCrashInStart, CrashInStart
<1> QED
  BY <1>1, WrapperInvariance, PTL DEF Spec, OffWritesNoPlaintext

\* A config that no shred has failed on belongs to a connection that is wanted.
ConfigIsWanted ==
  config_file # NoConfig => shred_failed \/ (up /\ desired = "Connected")

\* In one life of the wrapper, the plaintext config that is on disk while no
\* connection is wanted is one that a shred has failed on, whatever else failed.
\* What an exit or a crash leaves is not covered.
THEOREM OffShreds == WrapperStays => (Spec => []OffMeansNoPlaintext)
<1> SUFFICES ASSUME WrapperStays PROVE Spec => []OffMeansNoPlaintext
  OBVIOUS
<1>1. Init => ConfigIsWanted
  BY DEF Init, EngineInit, ConfigIsWanted
<1>2. WrapperInv /\ ConfigIsWanted /\ [Next]_vars => ConfigIsWanted'
  <2>1. ~WrapperGoes
    BY DEF WrapperStays, WrapperGoes, MenuExit, WrapperCrash, WrapperCrashInStart,
           Crash, CrashInStart
  <2> QED
    BY <2>1, ConfigStep DEF ConfigAccounted, ConfigIsWanted
<1>3. ConfigIsWanted => OffMeansNoPlaintext
  BY DEF ConfigIsWanted, OffMeansNoPlaintext
<1> QED
  BY <1>1, <1>2, <1>3, WrapperInvariance, PTL DEF Spec

\* The clock of the plaintext config starts with each engine and is cleared only
\* with the engine or by an attempt to shred the config.
LEMMA TimedStep ==
  ASSUME WrapperInv, PlaintextIsTimed, [Next]_vars
  PROVE  PlaintextIsTimed'
<1> USE EngineAssumption
<1>1. TypeOK /\ EngineTypeOK
  BY DEF WrapperInv, TypeOK
<1>2. ASSUME engine'.owned = NoPid \/ Shred \/ engine_started_at' # "none"
      PROVE  PlaintextIsTimed'
  BY <1>2 DEF PlaintextIsTimed, Shred
<1>3. ASSUME engine'.owned \in {engine.owned, NoPid},
             UNCHANGED <<config_file, shred_failed, engine_started_at>>
      PROVE  PlaintextIsTimed'
  BY <1>3 DEF PlaintextIsTimed
<1>4. NoHandles.owned = NoPid /\ [NoHandles EXCEPT !.requested_stop = TRUE].owned = NoPid
  BY DEF NoHandles
<1>5. /\ Polled.owned \in {engine.owned, NoPid}
      /\ [Polled EXCEPT !.lines = NoLines].owned = Polled.owned
  BY <1>1 DEF Polled, EngineTypeOK
<1>6. ASSUME NEW s, NEW t, StartEngine(s, t) PROVE PlaintextIsTimed'
  BY <1>2, <1>3, <1>6 DEF StartEngine, WriteConfigFails, engineVars
<1>7. CASE Launch
  BY <1>2, <1>7 DEF Launch, AdoptExisting, NoHandles
<1>8. CASE WrapperGoes
  BY <1>2, <1>4, <1>8
  DEF WrapperGoes, MenuExit, WrapperCrash, WrapperCrashInStart, Drop, Crash, CrashInStart
<1>9. CASE Tick
  <2>1. ASSUME Poll(TRUE), MaybeShred PROVE PlaintextIsTimed'
    BY <1>2, <1>3, <1>5, <2>1 DEF Poll, MaybeShred
  <2>2. CASE WatchdogNone
    BY <2>1, <2>2 DEF WatchdogNone
  <2>3. CASE WatchdogRestart
    BY <1>2, <2>1, <2>3 DEF WatchdogRestart
  <2>4. CASE WatchdogGiveUp
    BY <1>2, <2>4 DEF WatchdogGiveUp
  <2> QED
    BY <1>9, <2>2, <2>3, <2>4 DEF Tick
<1>10. CASE ConnectRefused \/ ConnectAttempt
  BY <1>3, <1>6, <1>10 DEF ConnectRefused, ConnectAttempt, engineVars
<1>11. CASE Disconnect
  BY <1>2, <1>11 DEF Disconnect
<1>12. ASSUME NEW s, Apply(s) PROVE PlaintextIsTimed'
  BY <1>3, <1>6, <1>12 DEF Apply, engineVars
<1>13. CASE OpenMenu
  BY <1>3, <1>5, <1>13 DEF OpenMenu, Poll
<1>14. CASE FinishRefresh
  BY <1>3, <1>6, <1>14 DEF FinishRefresh, engineVars
<1>15. CASE UiOnlyStep \/ ThreadStep
  BY <1>2, <1>3, <1>15
  DEF UiOnlyStep, ThreadStep, MenuDismiss, OpenDialog, DialogCancel, ClickRefresh,
      RefreshWorkerDone, ProbeStarts, ProbeEnds, TtlElapses, engineVars
<1>16. ASSUME NEW st \in Streams, ReaderStep(st) PROVE PlaintextIsTimed'
  <2>1. engine'.owned = engine.owned
    BY <1>1, <1>16 DEF ReaderStep, ReadLine, EngineTypeOK
  <2> QED
    BY <1>3, <1>16, <2>1 DEF ReaderStep, ReadLine, appVars
<1>17. ASSUME NEW q \in Pids, EngineStep(q) PROVE PlaintextIsTimed'
  BY <1>1, <1>3, <1>17, ProcessStepFrame DEF EngineStep, appVars
<1>18. CASE UNCHANGED vars
  BY <1>3, <1>18 DEF vars, engineVars, appVars
<1>19. CASE ClickToggle \/ MenuConnect \/ MenuDisconnect
  BY <1>10, <1>11, <1>19 DEF ClickToggle, MenuConnect, MenuDisconnect, Connect
<1>20. CASE ClickSplit \/ MenuSplit \/ DialogOk
  BY <1>12, <1>20 DEF ClickSplit, MenuSplit, DialogOk
<1> QED
  BY <1>7, <1>8, <1>9, <1>13, <1>14, <1>15, <1>16, <1>17, <1>18, <1>19, <1>20
  DEF Next, UserStep, UiOnlyStep, ThreadStep, WrapperGoes

\* With failing writes, spawns and shreds, crashes and relaunches: whatever config
\* a wrapper's own engine was given, the clock that shreds it is running or a shred
\* of it has failed.
THEOREM PlaintextHasItsTime == Spec => []PlaintextIsTimed
<1>1. Init => PlaintextIsTimed
  BY DEF Init, EngineInit, PlaintextIsTimed
<1>2. WrapperInv /\ PlaintextIsTimed /\ [Next]_vars => PlaintextIsTimed'
  BY TimedStep
<1> QED
  BY <1>1, <1>2, WrapperInvariance, PTL DEF Spec

-----------------------------------------------------------------------------
(* The kill switch gives way to a live engine. *)

\* Polling loses no live process.
LEMMA PollKeepsRunning ==
  ASSUME EngineTypeOK, Running, procs' = procs,
         engine' \in {Polled, [Polled EXCEPT !.lines = NoLines]}
  PROVE  Running'
<1>1. /\ engine'.owned = Polled.owned /\ engine'.adopted_pid = Polled.adopted_pid
  BY DEF EngineTypeOK, Polled
<1>2. CASE engine.owned # NoPid
  <2>1. pid_alive(engine.owned) /\ Polled.owned = engine.owned
    BY <1>2 DEF EngineTypeOK, Polled, Running
  <2> QED
    BY <1>1, <1>2, <2>1 DEF Running, pid_alive
<1>3. CASE engine.owned = NoPid
  <2>1. /\ pid_alive(engine.adopted_pid) /\ Polled.owned = NoPid
        /\ Polled.adopted_pid = engine.adopted_pid
    BY <1>3 DEF EngineTypeOK, Polled, Running, pid_alive
  <2> QED
    BY <1>1, <2>1 DEF Running, pid_alive
<1> QED
  BY <1>2, <1>3

\* A tick that ends in the belief that the tunnel is up, after one that did not
\* begin in it, has seen a running engine and left it alone.
LEMMA TickBelieves ==
  ASSUME WrapperInv, Tick, tracker.state # "Connected", desired' = "Connected",
         tracker'.state = "Connected"
  PROVE  Running'
<1>1. EngineTypeOK /\ StreakShort /\ counters.probe_fails \in Nat
  BY ParamsAssumption DEF WrapperInv, TypeOK, AppTypeOK
<1>2. on_start.state # "Connected"
  BY DEF on_start
<1>3. Seen.state = "Connected"
  BY <1>2 DEF Tick, WatchdogNone, WatchdogRestart, WatchdogGiveUp
<1>4. Running
  BY <1>3 DEF Seen, TerminalState, on_process_exit, ingest_all
<1>5. Counted = counters
  BY DEF Counted, Probing
<1>6. CASE WatchdogNone
  BY <1>1, <1>4, <1>6, PollKeepsRunning DEF WatchdogNone, Poll
<1>7. ~WatchdogRestart
  <2>1. SUFFICES ASSUME WatchdogRestart PROVE FALSE
    OBVIOUS
  <2>2. counters.probe_fails < ProbeFailThreshold
    BY <1>1, <2>1 DEF WatchdogRestart, StreakShort
  <2>3. ~(counters.probe_fails >= ProbeFailThreshold)
    BY <1>1, <2>2, ParamsAssumption
  <2>4. decide(desired, "Connected", counters) # "Restart"
    BY <2>3 DEF decide
  <2> QED
    BY <1>3, <1>5, <2>1, <2>4 DEF WatchdogRestart
<1>8. ~WatchdogGiveUp
  BY DEF WatchdogGiveUp
<1> QED
  BY <1>6, <1>7, <1>8 DEF Tick

\* While the settings ask for it, the tick is the only handler that lifts the kill
\* switch in a session that goes on.
LEMMA KsLiftStep ==
  ASSUME WrapperInv, KsOnlyWhileWantedDown, [Next]_vars,
         killswitch.engaged, ~killswitch'.engaged, cfg.killswitch /\ cfg.tun
  PROVE  Running' \/ ~session_connected' \/ desired' = "Disconnected"
<1>1. TypeOK /\ DownIsBlank /\ tracker.state # "Connected"
  BY DEF WrapperInv, KsOnlyWhileWantedDown
<1>2. killswitch' # killswitch
  OBVIOUS
<1>3. CASE Launch
  BY <1>1, <1>3 DEF Launch, AdoptExisting, DownIsBlank, Lifted
<1>4. CASE MenuExit \/ WrapperCrash \/ WrapperCrashInStart
  BY <1>4 DEF MenuExit, WrapperCrash, WrapperCrashInStart, Forget
<1>5. CASE Tick
  <2>1. cfg.killswitch /\ cfg.tun /\ UpdateKillswitch
    BY <1>1, <1>5 DEF Tick
  <2>2. cfg' = cfg /\ killswitch' \in sync(KillswitchWanted', endpoint_ips(cfg))
    BY <2>1 DEF UpdateKillswitch, settingsVars
  <2>3. ~KillswitchWanted'
    BY <1>2, <2>2 DEF sync
  <2>4. desired' \in Desired
    BY <1>1, <1>5 DEF Tick, WatchdogNone, WatchdogRestart, WatchdogGiveUp, TypeOK,
                      AppTypeOK, Desired
  <2>5. CASE desired' = "Connected" /\ session_connected'
    BY <1>1, <1>5, <2>1, <2>2, <2>3, <2>5, TickBelieves DEF KillswitchWanted
  <2> QED
    BY <2>4, <2>5 DEF Desired
<1>6. CASE ClickToggle \/ MenuConnect \/ MenuDisconnect
  BY <1>2, <1>6
  DEF ClickToggle, MenuConnect, MenuDisconnect, Connect, ConnectRefused,
      ConnectAttempt, Disconnect
<1>7. ~(ClickSplit \/ MenuSplit \/ DialogOk)
  BY <1>2 DEF ClickSplit, MenuSplit, DialogOk, Apply
<1>8. ~(OpenMenu \/ FinishRefresh)
  BY <1>2 DEF OpenMenu, FinishRefresh
<1>9. ~(UiOnlyStep \/ ThreadStep)
  BY <1>2
  DEF UiOnlyStep, ThreadStep, MenuDismiss, OpenDialog, DialogCancel, ClickRefresh,
      RefreshWorkerDone, ProbeStarts, ProbeEnds, TtlElapses
<1>10. ~UNCHANGED appVars
  BY <1>2 DEF appVars
<1> QED
  BY <1>3, <1>4, <1>5, <1>6, <1>7, <1>8, <1>9, <1>10
  DEF Next, UserStep, UiOnlyStep, ThreadStep, ReaderStep, EngineStep, vars

\* While the settings ask for it, the kill switch is never lifted over a dead
\* engine in a session that goes on, whatever was edited, restarted or read before.
THEOREM KsOutlastsDeadEngine == Spec => KsLiftedOverLiveEngine
<1>1. WrapperInv /\ KsOnlyWhileWantedDown /\ [Next]_vars
        => [killswitch.engaged /\ ~killswitch'.engaged
              => \/ Running'
                 \/ ~session_connected' \/ desired' = "Disconnected"
                 \/ ~(cfg.killswitch /\ cfg.tun)]_vars
  BY KsLiftStep
<1> QED
  BY <1>1, WrapperInvariance, KillSwitchConfined, PTL DEF Spec, KsLiftedOverLiveEngine

-----------------------------------------------------------------------------
(* The watchdog spares live engines. *)

\* A wrapper that believes its engine gone has let go of it, and it never holds
\* two engines.
GoneMeansReleased ==
  /\ engine.owned # NoPid => engine.adopted_pid = NoPid
  /\ tracker.state \in TerminalState \cup {"Idle"} =>
       engine.owned = NoPid /\ engine.adopted_pid = NoPid

\* Polling releases an engine that does not run.
LEMMA PollReleases ==
  ASSUME EngineTypeOK, GoneMeansReleased
  PROVE  /\ Polled.owned # NoPid => Polled.adopted_pid = NoPid
         /\ ~Running => Polled.owned = NoPid /\ Polled.adopted_pid = NoPid
         /\ engine.owned = NoPid => Polled.owned = NoPid
         /\ engine.adopted_pid = NoPid => Polled.adopted_pid = NoPid
<1>1. /\ Polled.owned = IF pid_alive(engine.owned) THEN engine.owned ELSE NoPid
      /\ Polled.adopted_pid =
           IF engine.owned # NoPid \/ pid_alive(engine.adopted_pid)
           THEN engine.adopted_pid ELSE NoPid
  BY DEF EngineTypeOK, Polled
<1> QED
  BY <1>1 DEF GoneMeansReleased, Running, pid_alive

\* A tracker that is believed gone after the lines were read is one of an engine
\* that does not run.
LEMMA SeenGone ==
  ASSUME EngineTypeOK, GoneMeansReleased, Running
  PROVE  Seen.state \notin TerminalState \cup {"Idle"}
<1>1. engine.lines.state \in {"None", "Connected", "Reconnecting"}
  BY DEF EngineTypeOK, Unread
<1>2. Seen = ingest_all(tracker, engine.lines)
  BY DEF Seen
<1>3. tracker.state \notin TerminalState \cup {"Idle"}
  BY DEF GoneMeansReleased, Running, pid_alive
<1> QED
  BY <1>1, <1>2, <1>3 DEF ingest_all, TerminalState

LEMMA GoneStep ==
  ASSUME WrapperInv, GoneMeansReleased, [Next]_vars
  PROVE  GoneMeansReleased'
<1> USE EngineAssumption
<1>1. TypeOK /\ DownIsBlank /\ EngineTypeOK
  BY DEF WrapperInv, TypeOK
<1>2. ASSUME engine' = NoHandles \/ engine' = [NoHandles EXCEPT !.requested_stop = TRUE]
      PROVE  GoneMeansReleased'
  BY <1>2 DEF NoHandles, GoneMeansReleased
<1>3. ASSUME engine' = engine, tracker' = tracker PROVE GoneMeansReleased'
  BY <1>3 DEF GoneMeansReleased
<1>4. ASSUME NEW p \in Pids, engine' = [NoHandles EXCEPT !.owned = p],
             tracker' = on_start
      PROVE  GoneMeansReleased'
  BY <1>4 DEF NoHandles, on_start, TerminalState, GoneMeansReleased
<1>5. ASSUME NEW s, NEW t, Start(s), engine'.owned # NoPid => tracker' = on_start
      PROVE  GoneMeansReleased'
  <2>1. ASSUME NEW p \in Spawnable, engine' = [NoHandles EXCEPT !.owned = p]
        PROVE  GoneMeansReleased'
    <3>1. p \in Pids /\ engine'.owned = p
      BY <2>1 DEF Spawnable, NoHandles
    <3> QED
      BY <1>4, <1>5, <2>1, <3>1
  <2> QED
    BY <1>2, <1>5, <2>1 DEF Start
<1>6. ASSUME NEW s, StartEngine(s, tracker) PROVE GoneMeansReleased'
  BY <1>3, <1>5, <1>6 DEF StartEngine, WriteConfigFails, engineVars
<1>7. CASE Launch
  <2>1. engine'.owned = NoPid
    BY <1>7 DEF Launch, AdoptExisting, NoHandles
  <2>2. engine'.adopted_pid # NoPid => tracker'.state = "Connected"
    BY <1>1, <1>7 DEF Launch, TypeOK, AppTypeOK, Tracker
  <2> QED
    BY <2>1, <2>2 DEF GoneMeansReleased, TerminalState
<1>8. CASE MenuExit \/ WrapperCrash \/ WrapperCrashInStart
  BY <1>2, <1>8 DEF MenuExit, WrapperCrash, WrapperCrashInStart, Drop, Crash, CrashInStart
<1>9. ASSUME Poll(TRUE), tracker' = Seen PROVE GoneMeansReleased'
  <2>1. engine'.owned = Polled.owned /\ engine'.adopted_pid = Polled.adopted_pid
    BY <1>1, <1>9 DEF Poll, Polled, EngineTypeOK
  <2> QED
    BY <1>1, <1>9, <2>1, PollReleases, SeenGone DEF GoneMeansReleased
<1>10. CASE Tick
  <2>1. CASE WatchdogNone
    BY <1>9, <2>1 DEF WatchdogNone
  <2>2. CASE WatchdogRestart
    BY <1>5, <1>9, <2>2 DEF WatchdogRestart
  <2>3. CASE WatchdogGiveUp
    BY <1>2, <2>3 DEF WatchdogGiveUp, Stop
  <2> QED
    BY <1>10, <2>1, <2>2, <2>3 DEF Tick
<1>11. CASE ConnectRefused
  BY <1>3, <1>11 DEF ConnectRefused, engineVars
<1>12. CASE ConnectAttempt
  BY <1>6, <1>12 DEF ConnectAttempt
<1>13. CASE Disconnect
  BY <1>2, <1>13 DEF Disconnect, Stop
<1>14. ASSUME NEW s, Apply(s) PROVE GoneMeansReleased'
  BY <1>3, <1>6, <1>14 DEF Apply, engineVars
<1>15. CASE OpenMenu
  BY <1>1, <1>15, PollReleases DEF OpenMenu, Poll, GoneMeansReleased
<1>16. CASE FinishRefresh
  BY <1>3, <1>6, <1>16 DEF FinishRefresh, engineVars
<1>17. CASE UiOnlyStep \/ ThreadStep
  BY <1>3, <1>17
  DEF UiOnlyStep, ThreadStep, MenuDismiss, OpenDialog, DialogCancel, ClickRefresh,
      RefreshWorkerDone, ProbeStarts, ProbeEnds, TtlElapses, engineVars
<1>18. ASSUME NEW st \in Streams, ReaderStep(st) PROVE GoneMeansReleased'
  <2>1. engine'.owned = engine.owned /\ engine'.adopted_pid = engine.adopted_pid
    BY <1>1, <1>18 DEF ReaderStep, ReadLine, EngineTypeOK
  <2> QED
    BY <1>18, <2>1 DEF ReaderStep, appVars, GoneMeansReleased
<1>19. ASSUME NEW q \in Pids, EngineStep(q) PROVE GoneMeansReleased'
  BY <1>1, <1>3, <1>19, ProcessStepFrame DEF EngineStep, appVars
<1>20. CASE UNCHANGED vars
  BY <1>3, <1>20 DEF vars, engineVars, appVars
<1> QED
  BY <1>7, <1>8, <1>10, <1>11, <1>12, <1>13, <1>14, <1>15, <1>16, <1>17, <1>18, <1>19,
     <1>20
  DEF Next, UserStep, UiOnlyStep, ThreadStep, ClickToggle, MenuConnect, MenuDisconnect,
      Connect, ClickSplit, MenuSplit, DialogOk

\* Only a tick's restart takes from the budget.
LEMMA OnlyTicksRestart ==
  ASSUME TypeOK, [Next]_vars, Restarts
  PROVE  Tick /\ WatchdogRestart
<1>1. counters.restarts \in Nat /\ note_healthy.restarts = 0
  BY ParamsAssumption DEF TypeOK, AppTypeOK, note_healthy
<1>2. counters'.restarts # counters.restarts /\ counters' # note_healthy
  BY <1>1 DEF Restarts
<1>3. ~WatchdogNone /\ ~WatchdogGiveUp
  <2>1. Counted.restarts = counters.restarts
    BY DEF Counted, record_probe, TypeOK, AppTypeOK
  <2>2. counters' # Counted
    BY <1>2, <2>1
  <2> QED
    BY <2>2 DEF WatchdogNone, WatchdogGiveUp
<1>4. ~(Launch \/ MenuExit \/ WrapperCrash \/ WrapperCrashInStart)
  BY <1>2 DEF Launch, MenuExit, WrapperCrash, WrapperCrashInStart, Forget
<1>5. ~(ConnectRefused \/ ConnectAttempt \/ Disconnect)
  BY <1>2 DEF ConnectRefused, ConnectAttempt, Disconnect, sessionVars
<1>6. ~\E s \in Settings \cup {SplitToggled} : Apply(s)
  BY <1>2 DEF Apply, sessionVars
<1>7. ~(OpenMenu \/ FinishRefresh \/ UiOnlyStep \/ ThreadStep \/ UNCHANGED appVars)
  BY <1>2
  DEF OpenMenu, FinishRefresh, UiOnlyStep, ThreadStep, MenuDismiss, OpenDialog,
      DialogCancel, ClickRefresh, RefreshWorkerDone, ProbeStarts, ProbeEnds,
      TtlElapses, appVars, sessionVars
<1>8. Tick
  BY <1>4, <1>5, <1>6, <1>7
  DEF Next, UserStep, UiOnlyStep, ThreadStep, ClickToggle, MenuConnect, MenuDisconnect,
      Connect, ClickSplit, MenuSplit, DialogOk, ReaderStep, EngineStep, vars
<1> QED
  BY <1>3, <1>8 DEF Tick

LEMMA SpareStep ==
  ASSUME WrapperInv, GoneMeansReleased, [Next]_vars, Restarts, Running
  PROVE  /\ ingest_all(tracker, engine.lines).state = "Connected"
         /\ probe.result = "fail"
<1>1. TypeOK /\ EngineTypeOK /\ StreakShort
  BY DEF WrapperInv, TypeOK
<1>2. /\ desired = "Connected" /\ Seen.state = "Connected"
      /\ Counted.probe_fails >= ProbeFailThreshold
  <2>1. decide(desired, Seen.state, Counted) = "Restart" /\ desired \in Desired
    BY <1>1, OnlyTicksRestart DEF WatchdogRestart, TypeOK, AppTypeOK
  <2>2. Seen.state \notin TerminalState \cup {"Idle"}
    BY <1>1, SeenGone
  <2> QED
    BY <2>1, <2>2 DEF decide, Desired, TerminalState
<1>3. /\ counters.probe_fails \in Nat /\ counters.probe_fails < ProbeFailThreshold
      /\ probe.result \in {"none", "ok", "fail"}
  BY <1>1, <1>2, ParamsAssumption DEF StreakShort, TypeOK, AppTypeOK
<1>4. Counted # counters
  BY <1>2, <1>3, ParamsAssumption
<1>5. Counted = record_probe(counters, probe.result = "ok") /\ probe.result # "none"
  BY <1>4 DEF Counted
<1>6. probe.result # "ok"
  <2>1. SUFFICES ASSUME probe.result = "ok" PROVE FALSE
    OBVIOUS
  <2>2. Counted.probe_fails = 0
    BY <1>1, <1>5, <2>1 DEF record_probe, TypeOK, AppTypeOK
  <2> QED
    BY <1>2, <2>2, ParamsAssumption
<1> QED
  BY <1>2, <1>3, <1>5, <1>6 DEF Seen

\* The watchdog restarts a live engine only on the word of a failed probe, and
\* only one that has said it is connected: it never fights an engine that is
\* connecting or healing itself.
THEOREM WatchdogSparesLiveEngine == Spec => LiveEngineSpared
<1>1. Init => GoneMeansReleased
  BY DEF Init, EngineInit, NoHandles, GoneMeansReleased
<1>2. WrapperInv /\ GoneMeansReleased /\ [Next]_vars => GoneMeansReleased'
  BY GoneStep
<1>3. WrapperInv /\ GoneMeansReleased /\ [Next]_vars
        => [Restarts /\ Running =>
              /\ ingest_all(tracker, engine.lines).state = "Connected"
              /\ probe.result = "fail"]_vars
  BY SpareStep
<1> QED
  BY <1>1, <1>2, <1>3, WrapperInvariance, PTL DEF Spec, LiveEngineSpared

-----------------------------------------------------------------------------
(* The watchdog deals with dead engines. *)

\* Of an engine that does not run the tracker makes a state that is final.
LEMMA SeenDead ==
  ASSUME TypeOK, ~Running
  PROVE  Seen.state \in TerminalState
<1>1. ingest_all(tracker, engine.lines) \in Tracker
  BY DEF TypeOK, AppTypeOK, EngineTypeOK, Tracker, Unread, ingest_all, ConnState
<1> QED
  BY <1>1 DEF Seen, on_process_exit, TerminalState, Tracker

\* A tick over a dead engine spends one restart of the session's budget or ends
\* the session, for any threshold and budget.  With the budget, which TypeCorrect
\* bounds, this is why a session without a live engine does not last.
THEOREM DeadEngineIsDealtWith == Spec => DeadEngineNotOverlooked
<1>1. WrapperInv /\ [Next]_vars
        => [Tick /\ desired = "Connected" /\ ~Running
              => Restarts \/ desired' = "Disconnected"]_vars
  <2> SUFFICES ASSUME WrapperInv, Tick, desired = "Connected", ~Running
               PROVE  Restarts \/ desired' = "Disconnected"
    OBVIOUS
  <2>1. TypeOK
    BY DEF WrapperInv
  <2>2. Seen.state \in TerminalState
    BY <2>1, SeenDead
  <2>3. decide(desired, Seen.state, Counted) # "None"
    BY <2>2 DEF decide, TerminalState
  <2>4. CASE WatchdogRestart
    <3>1. Counted.restarts = counters.restarts /\ counters.restarts \in Nat
      BY <2>1, ParamsAssumption DEF Counted, record_probe, TypeOK, AppTypeOK
    <3>2. counters'.restarts = Counted.restarts + 1
      BY <2>4 DEF WatchdogRestart, note_restart
    <3> QED
      BY <3>1, <3>2 DEF Restarts
  <2>5. CASE WatchdogGiveUp
    BY <2>5 DEF WatchdogGiveUp
  <2> QED
    BY <2>3, <2>4, <2>5 DEF Tick, WatchdogNone
<1> QED
  BY <1>1, WrapperInvariance, PTL DEF Spec, DeadEngineNotOverlooked

-----------------------------------------------------------------------------
(* The tracker follows the engine. *)

\* What the wrapper ought to believe of an engine in a phase.
Expected(phase) == CASE phase = "up" -> "Connected"
                     [] phase = "recovering" -> "Reconnecting"
                     [] OTHER -> "Connecting"

LastOf(q) == q[Len(q)]

Silent == \A st \in Streams : pipe[st] = <<>>

\* The newest word of an engine is in the one pipe that holds lines, else in the
\* channel, else it is the tracker's state.
NewestWordIs(state) ==
  /\ \A st \in Streams : pipe[st] # <<>> =>
       /\ classify(LastOf(pipe[st])) = state
       /\ \A other \in Streams \ {st} : pipe[other] = <<>>
  /\ Silent =>
       IF engine.lines.state # "None" THEN engine.lines.state = state
                                      ELSE tracker.state = state

\* An engine that has not connected has said nothing; from then on each line it
\* prints tells its phase, and is the last to be read unless it crosses another.
WordInv ==
  engine.owned # NoPid /\ procs[engine.owned].phase \in EnginePhase \ {"failing"} =>
    /\ ~crossed => NewestWordIs(Expected(procs[engine.owned].phase))
    /\ procs[engine.owned].phase \in {"booting", "connecting"} => Silent

\* Taking the first of several lines leaves the last one the last.
LEMMA TailKeepsLast ==
  ASSUME NEW S, NEW q \in Seq(S), q # <<>>
  PROVE  IF Tail(q) # <<>> THEN LastOf(Tail(q)) = LastOf(q) ELSE LastOf(q) = Head(q)
<1>1. /\ Tail(q) \in Seq(S) /\ Len(Tail(q)) = Len(q) - 1 /\ Len(q) \in Nat \ {0}
      /\ \A i \in 1 .. Len(Tail(q)) : Tail(q)[i] = q[i + 1]
  BY HeadTailProperties, EmptySeq
<1>2. CASE Tail(q) # <<>>
  <2>1. Len(Tail(q)) \in Nat \ {0}
    BY <1>1, <1>2, EmptySeq
  <2>2. Tail(q)[Len(Tail(q))] = q[Len(Tail(q)) + 1]
    BY <1>1, <2>1
  <2> QED
    BY <1>1, <1>2, <2>1, <2>2 DEF LastOf
<1>3. CASE Tail(q) = <<>>
  <2>1. Len(Tail(q)) = 0
    BY <1>3, EmptySeq, Zenon
  <2>2. Len(q) - 1 = 0 /\ Len(q) \in Nat
    BY <1>1, <2>1, Zenon
  <2>3. \A n \in Nat : n - 1 = 0 => n = 1
    OBVIOUS
  <2>4. Len(q) = 1
    BY <2>2, <2>3, Zenon
  <2> QED
    BY <1>3, <2>4 DEF LastOf
<1> QED
  BY <1>2, <1>3

\* A line that goes from the pipe into the channel stays the newest word, if it
\* was.
LEMMA ReadKeepsWord ==
  ASSUME EngineTypeOK, NEW state \in {"Connecting", "Connected", "Reconnecting"},
         NEW st \in Streams, ReadLine(st), NewestWordIs(state), tracker' = tracker
  PROVE  NewestWordIs(state)'
<1>1. /\ pipe[st] \in Seq(Line) /\ pipe[st] # <<>> /\ pipe'[st] = Tail(pipe[st])
      /\ \A other \in Streams \ {st} : pipe'[other] = <<>>
      /\ engine'.lines.state = ingest(engine.lines, Head(pipe[st])).state
  BY DEF ReadLine, EngineTypeOK, NewestWordIs
<1>2. classify(LastOf(pipe[st])) = state
  BY <1>1 DEF NewestWordIs
<1>3. CASE Tail(pipe[st]) # <<>>
  <2>1. LastOf(Tail(pipe[st])) = LastOf(pipe[st])
    BY <1>1, <1>3, TailKeepsLast
  <2> QED
    BY <1>1, <1>2, <1>3, <2>1 DEF NewestWordIs, Silent
<1>4. CASE Tail(pipe[st]) = <<>>
  <2>1. Head(pipe[st]) = LastOf(pipe[st])
    BY <1>1, <1>4, TailKeepsLast
  <2>2. state \in {"Connected", "Reconnecting"}
    BY <1>2 DEF classify
  <2>3. engine'.lines.state = state
    BY <1>1, <1>2, <2>1, <2>2 DEF ingest
  <2>4. \A other \in Streams : pipe'[other] = <<>>
    BY <1>1, <1>4
  <2> QED
    BY <2>2, <2>3, <2>4 DEF NewestWordIs
<1> QED
  BY <1>3, <1>4

\* What the engine prints is the newest word, if no other stream holds a line.
LEMMA PrintIsNewest ==
  ASSUME EngineTypeOK, NEW line \in Line, engine.owned # NoPid,
         Prints(engine.owned, line), ~crossed'
  PROVE  NewestWordIs(classify(line))'
<1>1. PICK st \in Streams :
        /\ pipe' = [pipe EXCEPT ![st] = Append(@, line)]
        /\ crossed' = \E other \in Streams \ {st} : pipe[other] # <<>>
  BY DEF Prints
<1>2. \A other \in Streams \ {st} : pipe'[other] = <<>>
  BY <1>1 DEF EngineTypeOK
<1>3. pipe[st] \in Seq(Line) /\ pipe'[st] = Append(pipe[st], line)
  BY <1>1 DEF EngineTypeOK
<1>4. pipe'[st] # <<>> /\ LastOf(pipe'[st]) = line
  BY <1>3 DEF LastOf
<1> QED
  BY <1>2, <1>4 DEF NewestWordIs, Silent

\* A tick takes what the channel has over into the tracker.
LEMMA DrainKeepsWord ==
  ASSUME EngineTypeOK, WordInv, Poll(TRUE), tracker' = Seen
  PROVE  WordInv'
<1>1. engine'.owned = Polled.owned /\ engine'.lines = NoLines
  BY DEF Poll, Polled, EngineTypeOK
<1>2. /\ Polled.owned = IF pid_alive(engine.owned) THEN engine.owned ELSE NoPid
      /\ UNCHANGED <<procs, pipe, crossed>>
  BY DEF Poll, Polled, EngineTypeOK
<1>3. CASE engine'.owned = NoPid
  BY <1>3 DEF WordInv
<1>4. CASE engine'.owned # NoPid
  <2>1. engine'.owned = engine.owned /\ engine.owned # NoPid /\ Running
    BY <1>1, <1>2, <1>4 DEF Running, pid_alive
  <2>2. tracker' = ingest_all(tracker, engine.lines)
    BY <2>1 DEF Seen
  <2>3. ASSUME NEW state, NewestWordIs(state) PROVE NewestWordIs(state)'
    BY <1>1, <1>2, <2>2, <2>3 DEF NewestWordIs, Silent, ingest_all, NoLines
  <2> QED
    BY <1>2, <2>1, <2>3 DEF WordInv, Silent
<1> QED
  BY <1>3, <1>4

\* Each line tells the phase the engine is in when it prints it.
LEMMA EngineTellsPhase ==
  ASSUME EngineTypeOK, WordInv, NEW q \in Pids, ProcessStep(q), tracker' = tracker
  PROVE  WordInv'
<1>1. engine' = engine /\ procs \in [Pids -> Process]
  BY DEF ProcessStep, Boots, Connects, LosesEndpoint, FailsFatally, Dies,
         StrangerAppears, Moves, EngineTypeOK
<1> SUFFICES ASSUME engine.owned # NoPid PROVE WordInv'
  BY <1>1 DEF WordInv
<1>2. engine.owned \in Pids
  BY DEF EngineTypeOK
<1>3. ASSUME UNCHANGED <<pipe, crossed>>,
             procs'[engine.owned].phase = procs[engine.owned].phase
      PROVE  WordInv'
  BY <1>1, <1>3 DEF WordInv, NewestWordIs, Silent
<1>4. CASE q # engine.owned
  BY <1>1, <1>2, <1>3, <1>4
  DEF ProcessStep, Boots, Connects, LosesEndpoint, FailsFatally, Dies, StrangerAppears,
      Moves, Prints
<1>5. CASE q = engine.owned
  <2>1. ASSUME NEW phase, Moves(q, phase) PROVE procs'[q].phase = phase
    BY <1>1, <2>1 DEF Moves, Process
  <2>2. CASE Boots(q)
    <3>1. CASE config_file = NoConfig
      <4>1. procs'[q].phase = "failing"
        BY <1>1, <2>2, <3>1 DEF Boots, Process
      <4> QED
        BY <1>1, <1>5, <4>1 DEF WordInv
    <3>2. CASE config_file # NoConfig
      <4>1. procs'[q].phase = "connecting" /\ UNCHANGED <<pipe, crossed>>
            /\ procs[q].phase = "booting"
        BY <1>1, <2>2, <3>2 DEF Boots
      <4>2. Expected(procs'[q].phase) = Expected(procs[q].phase)
        BY <4>1 DEF Expected
      <4> QED
        BY <1>1, <1>5, <4>1, <4>2 DEF WordInv, NewestWordIs, Silent, EnginePhase
    <3> QED
      BY <3>1, <3>2
  <2>3. ASSUME NEW line \in Line, NEW phase \in {"up", "recovering"}, Prints(q, line),
               Moves(q, phase), classify(line) = Expected(phase)
        PROVE  WordInv'
    <3>1. procs'[q].phase = phase
      BY <2>1, <2>3
    <3>2. ~crossed' => NewestWordIs(Expected(phase))'
      BY <1>5, <2>3, PrintIsNewest
    <3> QED
      BY <1>1, <1>5, <3>1, <3>2 DEF WordInv
  <2>4. CASE Connects(q)
    <3>1. {"successfully connected to endpoint"} \in Line
          /\ classify({"successfully connected to endpoint"}) = Expected("up")
      BY DEF Line, Phrase, classify, Expected
    <3> QED
      BY <2>3, <2>4, <3>1 DEF Connects
  <2>5. CASE LosesEndpoint(q)
    <3>1. {"waiting recovery"} \in Line /\ classify({"waiting recovery"}) = Expected("recovering")
      BY DEF Line, Phrase, classify, Expected
    <3> QED
      BY <2>3, <2>5, <3>1 DEF LosesEndpoint
  <2>6. CASE FailsFatally(q)
    <3>1. procs'[q].phase = "failing"
      BY <2>1, <2>6 DEF FailsFatally
    <3> QED
      BY <1>1, <1>5, <3>1 DEF WordInv
  <2>7. CASE Dies(q)
    BY <1>1, <1>5, <2>7 DEF Dies, Dead, WordInv, EnginePhase
  <2> QED
    BY <1>5, <2>2, <2>4, <2>5, <2>6, <2>7 DEF ProcessStep, StrangerAppears
<1> QED
  BY <1>4, <1>5

LEMMA WordStep ==
  ASSUME WrapperInv, WordInv, [Next]_vars
  PROVE  WordInv'
<1> USE EngineAssumption
<1>1. TypeOK /\ EngineTypeOK
  BY DEF WrapperInv, TypeOK
<1>2. ASSUME engine'.owned = NoPid PROVE WordInv'
  BY <1>2 DEF WordInv
<1>3. /\ NoHandles.owned = NoPid
      /\ [NoHandles EXCEPT !.requested_stop = TRUE].owned = NoPid
  BY DEF NoHandles
<1>4. ASSUME engine'.owned = engine.owned, engine'.lines = engine.lines,
             UNCHANGED <<procs, pipe, crossed, tracker>>
      PROVE  WordInv'
  BY <1>4 DEF WordInv, NewestWordIs, Silent
<1>5. ASSUME NEW s, Start(s), engine'.owned # NoPid => tracker' = on_start
      PROVE  WordInv'
  <2> SUFFICES ASSUME engine'.owned # NoPid PROVE WordInv'
    BY <1>2
  <2>1. PICK p \in Spawnable : engine' = [NoHandles EXCEPT !.owned = p] /\ procs' = Spawned(p)
    BY <1>3, <1>5 DEF Start
  <2>2. engine'.owned = p /\ engine'.lines = NoLines /\ p \in Pids
    BY <2>1 DEF NoHandles, Spawnable
  <2>3. procs'[p].phase = "booting"
    BY <2>1, <2>2 DEF Spawned, Killed
  <2>4. pipe' = EmptyPipe /\ tracker'.state = "Connecting"
    BY <1>5 DEF Start, on_start
  <2> QED
    BY <2>2, <2>3, <2>4 DEF WordInv, NewestWordIs, Silent, Expected, EmptyPipe, NoLines
<1>6. ASSUME NEW s, StartEngine(s, tracker) PROVE WordInv'
  BY <1>4, <1>5, <1>6 DEF StartEngine, WriteConfigFails, engineVars
<1>7. CASE Launch \/ MenuExit \/ WrapperCrash \/ WrapperCrashInStart
  <2>1. engine'.owned = NoPid
    BY <1>7 DEF Launch, AdoptExisting, MenuExit, WrapperCrash, WrapperCrashInStart, Drop,
                Crash, CrashInStart, NoHandles
  <2> QED
    BY <1>2, <2>1
<1>8. CASE Tick
  <2>1. CASE WatchdogNone
    BY <1>1, <2>1, DrainKeepsWord DEF WatchdogNone
  <2>2. CASE WatchdogRestart
    BY <1>1, <1>5, <2>2, DrainKeepsWord DEF WatchdogRestart
  <2>3. CASE WatchdogGiveUp
    BY <1>2, <1>3, <2>3 DEF WatchdogGiveUp, Stop
  <2> QED
    BY <1>8, <2>1, <2>2, <2>3 DEF Tick
<1>9. CASE ConnectRefused
  BY <1>4, <1>9 DEF ConnectRefused, engineVars
<1>10. CASE ConnectAttempt
  BY <1>6, <1>10 DEF ConnectAttempt
<1>11. CASE Disconnect
  BY <1>2, <1>3, <1>11 DEF Disconnect, Stop
<1>12. ASSUME NEW s, Apply(s) PROVE WordInv'
  BY <1>4, <1>6, <1>12 DEF Apply, engineVars
<1>13. CASE OpenMenu
  <2>1. engine' = Polled /\ UNCHANGED <<procs, pipe, crossed, tracker>>
    BY <1>13 DEF OpenMenu, Poll
  <2>2. engine'.owned \in {engine.owned, NoPid} /\ engine'.lines = engine.lines
    BY <1>1, <2>1 DEF Polled, EngineTypeOK
  <2> QED
    BY <1>2, <1>4, <2>1, <2>2
<1>14. CASE FinishRefresh
  BY <1>4, <1>6, <1>14 DEF FinishRefresh, engineVars
<1>15. CASE UiOnlyStep \/ ThreadStep
  BY <1>4, <1>15
  DEF UiOnlyStep, ThreadStep, MenuDismiss, OpenDialog, DialogCancel, ClickRefresh,
      RefreshWorkerDone, ProbeStarts, ProbeEnds, TtlElapses, engineVars
<1>16. ASSUME NEW st \in Streams, ReaderStep(st) PROVE WordInv'
  <2>1. /\ engine'.owned = engine.owned /\ UNCHANGED <<procs, crossed, tracker>>
        /\ ReadLine(st) /\ pipe[st] # <<>>
    BY <1>1, <1>16 DEF ReaderStep, ReadLine, EngineTypeOK, appVars
  <2>2. Expected(procs[engine.owned].phase) \in {"Connecting", "Connected", "Reconnecting"}
    BY DEF Expected
  <2> QED
    BY <1>1, <2>1, <2>2, ReadKeepsWord DEF WordInv, Silent
<1>17. ASSUME NEW q \in Pids, EngineStep(q) PROVE WordInv'
  BY <1>1, <1>17, EngineTellsPhase DEF EngineStep, appVars
<1>18. CASE UNCHANGED vars
  BY <1>4, <1>18 DEF vars, engineVars, appVars
<1> QED
  BY <1>7, <1>8, <1>9, <1>10, <1>11, <1>12, <1>13, <1>14, <1>15, <1>16, <1>17, <1>18
  DEF Next, UserStep, UiOnlyStep, ThreadStep, ClickToggle, MenuConnect, MenuDisconnect,
      Connect, ClickSplit, MenuSplit, DialogOk

\* Through any number of streams: once every line was ingested the tracker says
\* the phase the engine is in, whatever was started, stopped or restarted in between
\* and however long the pipes, unless the newest line could overtake an older one.
THEOREM TrackerFollowsEngine == Spec => []BeliefMatchesEngine
<1>1. Init => WordInv
  BY DEF Init, EngineInit, NoHandles, WordInv
<1>2. WrapperInv /\ WordInv /\ [Next]_vars => WordInv'
  BY WordStep
<1>3. WordInv => BeliefMatchesEngine
  BY DEF WordInv, NewestWordIs, Silent, BeliefMatchesEngine, EmptyPipe, NoLines, Expected
<1> QED
  BY <1>1, <1>2, <1>3, WrapperInvariance, PTL DEF Spec

-----------------------------------------------------------------------------
(* The wrapper implements Supervision: the course of the session its user  *)
(* sees is the one promised there.                                         *)

\* What the refinement mapping needs of a reachable state.
RefinementInv == WrapperInv /\ KsOnlyWhileWantedDown

RefinementNext == [Promise!Next]_(Promise!supervisionVars)

\* The counter of restarts stays inside the budget.
LEMMA RestartsInBudget == WrapperInv => counters.restarts \in 0 .. MaxRestarts
BY DEF WrapperInv, TypeOK, AppTypeOK

\* Nothing the session is read off has changed.
LEMMA SessionUntouched ==
  ASSUME up' = up, UNCHANGED sessionVars, cfg' = cfg, killswitch' = killswitch,
         tracker' = tracker
  PROVE  UNCHANGED Promise!supervisionVars
BY DEF Promise!supervisionVars, Session, KsOnlyForTheSession, sessionVars

\* Starting the engine with whatever settings, or not being able to, takes down
\* a tunnel that is up and touches nothing else of the session.
LEMMA RestartIsReapply ==
  ASSUME RefinementInv, up, up' = up, UNCHANGED sessionVars, cfg' \in AppConfig,
         killswitch' = killswitch,
         tracker' = tracker \/ tracker' = on_start
  PROVE  Promise!Reapply
<1>1. tracker' = tracker \/ tracker'.state = "Connecting"
  BY DEF on_start
<1>2. Session # "gone" /\ Session' \in {Session} \cup (IF Session = "up" THEN {"exposed"} ELSE {})
  BY <1>1 DEF RefinementInv, KsOnlyWhileWantedDown, Session, KsOnlyForTheSession,
              sessionVars
<1>3. (cfg.killswitch /\ cfg.tun)' \in BOOLEAN
  BY DEF AppConfig
<1> QED
  BY <1>2, <1>3 DEF Promise!Reapply, sessionVars

\* A start ends with the tracker as it was or as on_start leaves it.
LEMMA StartEngineOutcome ==
  ASSUME NEW s, NEW t, StartEngine(s, t)
  PROVE  up' = up /\ (tracker' = t \/ tracker' = on_start)
BY DEF StartEngine, WriteConfigFails, Start, engineVars

\* The kill switch stays on while it is wanted.
LEMMA UpdateKeepsWanted ==
  ASSUME UpdateKillswitch, KillswitchWanted', killswitch.engaged
  PROVE  killswitch' = killswitch
BY DEF UpdateKillswitch, sync

\* What a tick that goes on with the session leaves is what Watch and Retry
\* allow.
LEMMA TickSeen ==
  ASSUME RefinementInv, up, up' = up, desired = "Connected", desired' = "Connected",
         session_connected => session_connected', UpdateKillswitch
  PROVE  /\ Session \in Promise!Wanted /\ Session' \in Promise!Seen
         /\ (cfg.killswitch /\ cfg.tun)' = (cfg.killswitch /\ cfg.tun)
<1>1. /\ cfg' = cfg
      /\ killswitch'.engaged => KillswitchWanted'
  BY UpdateKillswitchEffect DEF RefinementInv, WrapperInv
<1>2. Session \in Promise!Wanted
  BY DEF RefinementInv, KsOnlyWhileWantedDown, Session, KsOnlyForTheSession,
         Promise!Wanted
<1>3. CASE killswitch'.engaged
  <2>1. KillswitchWanted' /\ cfg.killswitch /\ cfg.tun
    BY <1>1, <1>3 DEF KillswitchWanted
  <2>2. Session' = "guarded"
    BY <1>3, <2>1 DEF Session, KsOnlyForTheSession, KillswitchWanted
  <2> QED
    BY <1>1, <1>2, <2>1, <2>2 DEF Promise!Seen
<1>4. CASE ~killswitch'.engaged /\ ~session_connected'
  <2>1. Session' = "first" /\ Session = "first"
    BY <1>4 DEF RefinementInv, KsOnlyWhileWantedDown, Session
  <2> QED
    BY <1>1, <1>2, <2>1 DEF Promise!Seen
<1>5. CASE ~killswitch'.engaged /\ session_connected' /\ tracker'.state = "Connected"
  <2>1. Session' = "up"
    BY <1>5 DEF Session
  <2> QED
    BY <1>1, <1>2, <2>1 DEF Promise!Seen
<1>6. CASE ~killswitch'.engaged /\ session_connected' /\ tracker'.state # "Connected"
  <2>1. Session' = "exposed"
    BY <1>6 DEF Session
  <2>2. CASE killswitch.engaged
    <3>1. ~KillswitchWanted'
      BY <1>6, <2>2, UpdateKeepsWanted
    <3>2. ~(cfg.killswitch /\ cfg.tun)
      BY <1>1, <1>6, <3>1 DEF KillswitchWanted
    <3> QED
      BY <1>1, <1>2, <2>1, <3>2 DEF Promise!Seen
  <2>3. CASE ~killswitch.engaged
    <3>1. Session # "guarded"
      BY <2>3 DEF Session
    <3> QED
      BY <1>1, <1>2, <2>1, <3>1 DEF Promise!Seen
  <2> QED
    BY <2>2, <2>3
<1> QED
  BY <1>3, <1>4, <1>5, <1>6

\* A tick is Watch, Retry or GiveUp of a wanted session, and none of the
\* user's business otherwise.
LEMMA TickRefines ==
  ASSUME RefinementInv, Tick PROVE RefinementNext
<1> USE ParamsAssumption
<1>1. up /\ up' = up /\ UpdateKillswitch
  BY DEF Tick, WatchdogNone, WatchdogRestart, WatchdogGiveUp, Poll, Start, Stop
<1>2. cfg' = cfg /\ (killswitch'.engaged => KillswitchWanted')
  BY <1>1, UpdateKillswitchEffect DEF RefinementInv, WrapperInv
<1>3. session_connected => session_connected'
  BY DEF Tick
<1>4. Counted.restarts = counters.restarts
  BY DEF Counted, record_probe, RefinementInv, WrapperInv, TypeOK, AppTypeOK
<1>5. counters.restarts \in 0 .. MaxRestarts /\ desired \in Desired
  BY RestartsInBudget DEF RefinementInv, WrapperInv, TypeOK, AppTypeOK
<1>6. CASE desired = "Disconnected"
  <2>1. desired' = "Disconnected" /\ counters' = Counted
    BY <1>6 DEF Tick, WatchdogNone, WatchdogRestart, WatchdogGiveUp, decide
  <2>2. ~killswitch.engaged /\ ~killswitch'.engaged
    BY <1>2, <1>6, <2>1 DEF RefinementInv, KsOnlyWhileWantedDown, KillswitchWanted
  <2>3. Session = "off" /\ Session' = "off"
    BY <1>1, <1>6, <2>1, <2>2 DEF Session
  <2> QED
    BY <1>2, <1>4, <2>1, <2>3 DEF RefinementNext, Promise!supervisionVars
<1>7. CASE desired = "Connected" /\ WatchdogNone
  <2>1. desired' = "Connected" /\ counters' = Counted
    BY <1>7 DEF WatchdogNone
  <2>2. Promise!Watch
    BY <1>1, <1>3, <1>4, <1>7, <2>1, TickSeen DEF Promise!Watch
  <2> QED
    BY <2>2 DEF RefinementNext, Promise!Next
<1>8. CASE desired = "Connected" /\ WatchdogRestart
  <2>1. desired' = "Connected" /\ counters'.restarts = counters.restarts + 1
    BY <1>4, <1>8 DEF WatchdogRestart, note_restart
  <2>2. counters.restarts < MaxRestarts
    BY <1>4, <1>5, <1>8 DEF WatchdogRestart, decide
  <2>3. /\ MaxRestarts - counters.restarts > 0
        /\ MaxRestarts - counters'.restarts = (MaxRestarts - counters.restarts) - 1
    BY <1>5, <2>1, <2>2
  <2>4. Promise!Retry
    BY <1>1, <1>3, <1>8, <2>1, <2>3, TickSeen DEF Promise!Retry
  <2> QED
    BY <2>4 DEF RefinementNext, Promise!Next
<1>9. CASE desired = "Connected" /\ WatchdogGiveUp
  <2>1. desired' = "Disconnected" /\ counters' = Counted
    BY <1>9 DEF WatchdogGiveUp
  <2>2. ~killswitch'.engaged
    BY <1>2, <2>1 DEF KillswitchWanted
  <2>3. Session' = "off" /\ Session \in Promise!Wanted
    BY <1>1, <1>9, <2>1, <2>2
    DEF Session, KsOnlyForTheSession, RefinementInv, KsOnlyWhileWantedDown,
        Promise!Wanted
  <2>4. Promise!GiveUp
    BY <1>2, <1>4, <2>1, <2>3 DEF Promise!GiveUp
  <2> QED
    BY <2>4 DEF RefinementNext, Promise!Next
<1> QED
  BY <1>5, <1>6, <1>7, <1>8, <1>9 DEF Tick, Desired

\* Every step of the wrapper is a step of Supervision or changes nothing the
\* user sees.
LEMMA StepRefines == RefinementInv /\ [Next]_vars => RefinementNext
<1> SUFFICES ASSUME RefinementInv, [Next]_vars PROVE RefinementNext
  OBVIOUS
<1>1. /\ TypeOK /\ DownIsBlank
      /\ cfg \in AppConfig /\ Settings \subseteq AppConfig
      /\ SplitToggled \in AppConfig
  BY AppAssumption DEF RefinementInv, WrapperInv, TypeOK, AppTypeOK, SplitToggled
<1>2. ASSUME Promise!Reapply PROVE RefinementNext
  BY <1>2 DEF RefinementNext, Promise!Next
<1>3. ASSUME UNCHANGED Promise!supervisionVars PROVE RefinementNext
  BY <1>3 DEF RefinementNext
<1>4. CASE Launch
  <2>1. Session = "gone" /\ Session' \in {"off", "up"}
    BY <1>1, <1>4
    DEF Launch, AdoptExisting, DownIsBlank, Lifted, FreshTracker, Session,
        KsOnlyForTheSession
  <2>2. Promise!Launch
    BY <1>4, <2>1 DEF Launch, settingsVars, Promise!Launch
  <2> QED
    BY <2>2 DEF RefinementNext, Promise!Next
<1>5. ASSUME NEW s \in Settings, Forget(s), up, ~up' PROVE RefinementNext
  <2>1. Session # "gone" /\ Session' = "gone"
    BY <1>5 DEF Session
  <2>2. MaxRestarts - counters'.restarts = MaxRestarts
    BY <1>5, ParamsAssumption DEF Forget, note_healthy
  <2>3. (cfg.killswitch /\ cfg.tun)' \in BOOLEAN
    BY <1>1, <1>5 DEF Forget, AppConfig
  <2>4. Promise!Quit
    BY <2>1, <2>2, <2>3 DEF Promise!Quit
  <2> QED
    BY <2>4 DEF RefinementNext, Promise!Next
<1>6. CASE MenuExit \/ WrapperCrash \/ WrapperCrashInStart
  <2>1. saved \in Settings
    BY <1>1 DEF TypeOK, AppTypeOK
  <2> QED
    BY <1>5, <1>6, <2>1
    DEF MenuExit, WrapperCrash, WrapperCrashInStart, Drop, Crash, CrashInStart
<1>7. CASE Tick
  BY <1>7, TickRefines
<1>8. ASSUME up, ConnectAttempt PROVE RefinementNext
  <2>1. up' = up /\ cfg' = cfg /\ ~killswitch'.engaged
    BY <1>1, <1>8, StartEngineOutcome, UpdateKillswitchEffect
    DEF ConnectAttempt, KillswitchWanted
  <2>2. Session # "gone" /\ Session' = "first"
    BY <1>1, <1>8, <2>1 DEF ConnectAttempt, Session
  <2>3. MaxRestarts - counters'.restarts = MaxRestarts
    BY <1>8, ParamsAssumption DEF ConnectAttempt, note_healthy
  <2>4. Promise!TurnOn
    BY <2>1, <2>2, <2>3 DEF Promise!TurnOn
  <2> QED
    BY <2>4 DEF RefinementNext, Promise!Next
<1>9. ASSUME up, Disconnect PROVE RefinementNext
  <2>1. up' = up /\ cfg' = cfg /\ ~killswitch'.engaged
    BY <1>1, <1>9, UpdateKillswitchEffect DEF Disconnect, Stop, KillswitchWanted
  <2>2. Session # "gone" /\ Session' = "off"
    BY <1>9, <2>1 DEF Disconnect, Session
  <2>3. MaxRestarts - counters'.restarts = MaxRestarts
    BY <1>9, ParamsAssumption DEF Disconnect, note_healthy
  <2>4. Promise!TurnOff
    BY <2>1, <2>2, <2>3 DEF Promise!TurnOff
  <2> QED
    BY <2>4 DEF RefinementNext, Promise!Next
<1>10. ASSUME ConnectRefused PROVE RefinementNext
  BY <1>3, <1>10, SessionUntouched DEF ConnectRefused, engineVars, settingsVars
<1>11. CASE ClickToggle \/ MenuConnect \/ MenuDisconnect
  BY <1>1, <1>8, <1>9, <1>10, <1>11
  DEF ClickToggle, MenuConnect, MenuDisconnect, MainWindowEnabled, Connect, DownIsBlank
<1>12. ASSUME NEW s \in AppConfig, up, Apply(s) PROVE RefinementNext
  <2>1. up' = up /\ (tracker' = tracker \/ tracker' = on_start)
    BY <1>12, StartEngineOutcome DEF Apply, engineVars
  <2> QED
    BY <1>2, <1>12, <2>1, RestartIsReapply DEF Apply
<1>13. CASE ClickSplit \/ MenuSplit \/ DialogOk
  BY <1>1, <1>12, <1>13
  DEF ClickSplit, MenuSplit, DialogOk, MainWindowEnabled, DownIsBlank
<1>14. CASE OpenMenu
  BY <1>3, <1>14, SessionUntouched DEF OpenMenu, Poll, settingsVars
<1>15. CASE FinishRefresh
  <2>1. up' = up /\ (tracker' = tracker \/ tracker' = on_start)
    BY <1>15, StartEngineOutcome DEF FinishRefresh, engineVars
  <2>2. up
    BY <1>1, <1>15 DEF FinishRefresh, DownIsBlank
  <2> QED
    BY <1>1, <1>2, <1>15, <2>1, <2>2, RestartIsReapply DEF FinishRefresh, settingsVars
<1>16. CASE UiOnlyStep \/ ThreadStep
  BY <1>3, <1>16, SessionUntouched
  DEF UiOnlyStep, ThreadStep, MenuDismiss, OpenDialog, DialogCancel, ClickRefresh,
      RefreshWorkerDone, ProbeStarts, ProbeEnds, TtlElapses, engineVars, settingsVars
<1>17. ASSUME NEW st \in Streams, ReaderStep(st) PROVE RefinementNext
  BY <1>3, <1>17, SessionUntouched DEF ReaderStep, ReadLine, appVars, sessionVars
<1>18. ASSUME NEW q \in Pids, EngineStep(q) PROVE RefinementNext
  <2>1. up' = up
    BY <1>1, <1>18, ProcessStepFrame DEF EngineStep, TypeOK
  <2> QED
    BY <1>3, <1>18, <2>1, SessionUntouched DEF EngineStep, appVars, sessionVars
<1>19. CASE UNCHANGED vars
  BY <1>3, <1>19, SessionUntouched DEF vars, engineVars, appVars, sessionVars
<1> QED
  BY <1>4, <1>6, <1>7, <1>11, <1>13, <1>14, <1>15, <1>16, <1>17, <1>18, <1>19
  DEF Next, UserStep, UiOnlyStep, ThreadStep

\* The session the user sees follows Supervision, whatever the engine, the
\* threads, the dialogs and a crash of the wrapper do: the detailed
\* specification implements the abstract one.
THEOREM SessionAsPromised == Spec => AppImplementsSupervision
<1>1. Init => Promise!Init
  <2> SUFFICES ASSUME Init PROVE Promise!Init
    OBVIOUS
  <2>1. Session = "gone"
    BY DEF Init, EngineInit, Session
  <2>2. MaxRestarts - counters.restarts = MaxRestarts
    BY ParamsAssumption DEF Init, note_healthy
  <2>3. (cfg.killswitch /\ cfg.tun) \in BOOLEAN
    OBVIOUS
  <2> QED
    BY <2>1, <2>2, <2>3 DEF Promise!Init
<1>2. Spec => []RefinementInv
  BY WrapperInvariance, KillSwitchConfined, PTL DEF RefinementInv
<1>3. RefinementInv /\ [Next]_vars => [Promise!Next]_(Promise!supervisionVars)
  BY StepRefines DEF RefinementNext
<1> QED
  BY <1>1, <1>2, <1>3, PTL DEF Spec, AppImplementsSupervision, Promise!Spec
=============================================================================
