-------------------------------- MODULE App --------------------------------
(***************************************************************************)
(* The wrapper as a whole: app.rs, its callers in ui/window.rs and         *)
(* ui/tray.rs, the probe worker, and the kill switch.                      *)
(*                                                                         *)
(* Every handler of the UI thread is one action and contains every call    *)
(* the handler makes.  Between two handlers the engine, the reader         *)
(* threads, the probe thread, the geoip thread and the clock move.  The    *)
(* settings dialog and the tray menu pump messages of their own, so the    *)
(* timer, the tray and the geoip message are handled while they are open;  *)
(* commands of the main window are not.                                    *)
(***************************************************************************)
EXTENDS Engine, Watchdog

CONSTANTS Addrs,         \* endpoint addresses the settings may name
          LiteralAddrs   \* those written as an IPv4 address, not a host name

\* The fields of AppConfig whose values change what a handler does.
AppConfig == [killswitch : BOOLEAN,   \* killswitch_enabled
              tun        : BOOLEAN,   \* listener_mode # "socks"
              addr       : Addrs,     \* server.addresses
              split      : BOOLEAN]   \* geoip.enabled

ASSUME AppAssumption ==
  /\ Settings \subseteq AppConfig
  /\ \A s \in Settings : [s EXCEPT !.split = ~@] \in Settings

VARIABLES cfg, saved,         \* settings in memory and in settings.enc
          desired, tracker, counters, session_connected,
          engine_started_at,  \* "none", or how long ago: "fresh", "aged"
          killswitch,         \* the installed WFP filters
          probe,              \* the probe worker and its result channel
          refresh,            \* "idle", "running", or the result not yet taken
          dialog, menu        \* the modal settings dialog, the tray menu

appVars == <<cfg, saved, desired, tracker, counters, session_connected,
             engine_started_at, killswitch, probe, refresh, dialog, menu>>
vars == <<engineVars, appVars>>

settingsVars == <<cfg, saved>>
sessionVars == <<desired, counters, session_connected>>
threadVars == <<probe, refresh>>
uiVars == <<dialog, menu>>

ProbeIdle == [active |-> FALSE, busy |-> FALSE, result |-> "none"]
Lifted == [engaged |-> FALSE, permit |-> {}]

AppTypeOK ==
  /\ cfg \in Settings /\ saved \in Settings
  /\ desired \in Desired
  /\ tracker \in Tracker
  /\ counters \in [probe_fails : 0 .. ProbeFailThreshold, restarts : 0 .. MaxRestarts]
  /\ session_connected \in BOOLEAN
  /\ engine_started_at \in {"none", "fresh", "aged"}
  /\ killswitch \in [engaged : BOOLEAN, permit : SUBSET Addrs]
  /\ probe \in [active : BOOLEAN, busy : BOOLEAN, result : {"none", "ok", "fail"}]
  /\ refresh \in {"idle", "running", "ok", "err"}
  /\ dialog \in BOOLEAN
  /\ menu \in {"closed", "connect", "disconnect"}

TypeOK == EngineTypeOK /\ AppTypeOK

\* A machine the wrapper has been configured on and is not running on.
Init ==
  /\ EngineInit
  /\ cfg \in Settings /\ saved = cfg
  /\ desired = "Disconnected"
  /\ tracker = FreshTracker
  /\ counters = note_healthy
  /\ session_connected = FALSE
  /\ engine_started_at = "none"
  /\ killswitch = Lifted
  /\ probe = ProbeIdle
  /\ refresh = "idle"
  /\ dialog = FALSE /\ menu = "closed"

-----------------------------------------------------------------------------
(* The kill switch. *)

\* Host names are skipped, and only IPv4 addresses get a permit filter.
endpoint_ips(s) == {s.addr} \cap LiteralAddrs

\* A mistake: engaged on a first attempt too.
KillswitchWanted_FirstAttempt ==
  /\ cfg.killswitch /\ cfg.tun
  /\ desired = "Connected" /\ tracker.state # "Connected"

KillswitchWanted ==
  /\ cfg.killswitch /\ cfg.tun
  /\ desired = "Connected" /\ session_connected
  /\ tracker.state # "Connected"

\* A mistake: the arm that engages is missing.
sync_NeverEngages(should, ips) == IF should THEN {killswitch} ELSE {Lifted}

\* KillSwitch::sync: filters are installed or removed on a change only.
sync(should, ips) ==
  IF should /\ ~killswitch.engaged
  THEN {[engaged |-> TRUE, permit |-> ips]}
       \cup (IF "wfp_err" \in Events THEN {killswitch} ELSE {})
  ELSE IF ~should /\ killswitch.engaged THEN {Lifted} ELSE {killswitch}

\* The last step of connect, disconnect and tick: it sees what they assigned.
UpdateKillswitch ==
  /\ UNCHANGED settingsVars
  /\ killswitch' \in sync(KillswitchWanted', endpoint_ips(cfg))

-----------------------------------------------------------------------------
(* Starting the engine. *)

\* write_engine_config failed: the old engine keeps running on its old config.
WriteConfigFails ==
  "write_err" \in Events /\ UNCHANGED engineVars

\* A mistake: an engine that replaces another one does not start the clock.
StartEngine_NoClock(s, t) ==
  \/ /\ WriteConfigFails
     /\ tracker' = t
     /\ UNCHANGED engine_started_at
  \/ /\ Start(s)
     /\ tracker' = IF engine'.owned # NoPid THEN on_start ELSE t
     /\ engine_started_at' = IF engine.owned = NoPid /\ engine'.owned # NoPid
                             THEN "fresh" ELSE engine_started_at

\* A mistake: the tracker is not told of the new engine.
StartEngine_KeepsBelief(s, t) ==
  /\ WriteConfigFails \/ Start(s)
  /\ tracker' = t
  /\ engine_started_at' = IF engine'.owned \notin {engine.owned, NoPid}
                          THEN "fresh" ELSE engine_started_at

\* start_engine with the settings s; t is the tracker as the caller left it.
StartEngine(s, t) ==
  \/ /\ WriteConfigFails
     /\ tracker' = t
     /\ UNCHANGED engine_started_at
  \/ /\ Start(s)
     /\ IF engine'.owned # NoPid
        THEN tracker' = on_start /\ engine_started_at' = "fresh"
        ELSE tracker' = t /\ UNCHANGED engine_started_at

\* A mistake: shredding waits for a connection instead of the engine's boot.
MaybeShred_WhenConnected ==
  IF Running' /\ engine_started_at = "aged" /\ tracker'.state = "Connected"
  THEN Shred /\ engine_started_at' = "none"
  ELSE UNCHANGED <<config_file, shred_failed, engine_started_at>>

\* maybe_shred_engine_config, for the engine as the rest of the tick leaves it.
\* The clock is cleared whether or not the file is gone: there is no second try.
MaybeShred ==
  IF Running' /\ engine_started_at = "aged"
  THEN Shred /\ engine_started_at' = "none"
  ELSE UNCHANGED <<config_file, shred_failed, engine_started_at>>

-----------------------------------------------------------------------------
(* The timer: service_tick and tick. *)

TerminalState == {"Failed", "Crashed", "Disconnected"}

\* A mistake: the process status is read before the lines, not after.
Seen_StatusFirst ==
  ingest_all(IF ~Running /\ tracker.state \notin TerminalState
             THEN on_process_exit(tracker, engine.requested_stop) ELSE tracker,
             engine.lines)

\* Steps 1 and 2: the tracker after the unread lines and a process exit.
Seen ==
  LET t == ingest_all(tracker, engine.lines) IN
  IF ~Running /\ t.state \notin TerminalState
  THEN on_process_exit(t, engine.requested_stop) ELSE t

Probing == desired = "Connected" /\ tracker.state = "Connected"

\* A mistake: the probe result is not passed to the tick.
Counted_WithoutProbe == counters

\* Step 3: the probe result counts if the engine still looks connected.
Counted ==
  IF Probing /\ probe.result # "none" /\ Seen.state = "Connected"
  THEN record_probe(counters, probe.result = "ok") ELSE counters

WatchdogNone ==
  /\ decide(desired, Seen.state, Counted) = "None"
  /\ desired' = desired /\ counters' = Counted /\ tracker' = Seen
  /\ Poll(TRUE) /\ MaybeShred

WatchdogRestart ==
  /\ decide(desired, Seen.state, Counted) = "Restart"
  /\ desired' = desired /\ counters' = note_restart(Counted)
  /\ \/ "write_err" \in Events /\ tracker' = Seen /\ Poll(TRUE) /\ MaybeShred
     \/ /\ Start(cfg)
        /\ IF engine'.owned # NoPid
           THEN tracker' = on_start /\ engine_started_at' = "fresh"
           ELSE tracker' = Seen /\ UNCHANGED engine_started_at

\* A mistake: the latch-off leaves the config behind.
WatchdogGiveUp_NoShred ==
  /\ decide(desired, Seen.state, Counted) = "GiveUp"
  /\ desired' = "Disconnected" /\ counters' = Counted /\ tracker' = Seen
  /\ Stop /\ engine_started_at' = "none" /\ UNCHANGED <<config_file, shred_failed>>

WatchdogGiveUp ==
  /\ decide(desired, Seen.state, Counted) = "GiveUp"
  /\ desired' = "Disconnected" /\ counters' = Counted /\ tracker' = Seen
  /\ Stop /\ Shred /\ engine_started_at' = "none"

Tick ==
  /\ up
  /\ probe' = [probe EXCEPT !.active = Probing,
                            !.result = IF Probing THEN "none" ELSE @]
  /\ session_connected' = (session_connected \/ Seen.state = "Connected")
  /\ WatchdogNone \/ WatchdogRestart \/ WatchdogGiveUp
  /\ UpdateKillswitch
  /\ UNCHANGED <<refresh, uiVars>>

-----------------------------------------------------------------------------
(* The user: the main window, the tray menu and the settings dialog. *)

\* No engine executable: an error, and nothing happens.
ConnectRefused ==
  /\ "no_exe" \in Events
  /\ UNCHANGED <<engineVars, settingsVars, sessionVars, tracker,
                 engine_started_at, killswitch, threadVars, dialog>>

\* A mistake: a new attempt goes on with the old session.
ConnectAttempt_SameSession ==
  /\ desired' = "Connected" /\ UNCHANGED session_connected
  /\ counters' = note_healthy
  /\ StartEngine(cfg, tracker)
  /\ UpdateKillswitch
  /\ UNCHANGED <<threadVars, dialog>>

ConnectAttempt ==
  /\ desired' = "Connected"
  /\ session_connected' = FALSE
  /\ counters' = note_healthy
  /\ StartEngine(cfg, tracker)
  /\ UpdateKillswitch
  /\ UNCHANGED <<threadVars, dialog>>

Connect == ConnectRefused \/ ConnectAttempt

Disconnect ==
  /\ desired' = "Disconnected"
  /\ session_connected' = FALSE
  /\ Stop
  /\ tracker' = [tracker EXCEPT !.state = "Disconnected"]
  /\ engine_started_at' = "none" /\ Shred
  /\ counters' = note_healthy
  /\ UpdateKillswitch
  /\ UNCHANGED <<threadVars, dialog>>

\* A mistake: saved settings are not applied to the running engine.
Apply_SaveOnly(s) ==
  /\ cfg' = s /\ saved' = s
  /\ UNCHANGED <<engineVars, tracker, engine_started_at, sessionVars, killswitch,
                 threadVars>>

\* save_settings for the settings s, then start_engine if the user wants to be
\* connected: apply_settings and set_split_enabled.  s is in memory either way.
Apply(s) ==
  /\ cfg' = s
  /\ \/ /\ "save_err" \in Events
        /\ UNCHANGED <<engineVars, saved, tracker, engine_started_at>>
     \/ /\ saved' = s
        /\ IF desired = "Connected"
           THEN StartEngine(s, tracker)
           ELSE UNCHANGED <<engineVars, tracker, engine_started_at>>
  /\ UNCHANGED <<sessionVars, killswitch, threadVars>>

SplitToggled == [cfg EXCEPT !.split = ~@]

toggle_is_active == tracker.state \in {"Connecting", "Connected", "Reconnecting", "Crashed"}

MainWindowEnabled == up /\ ~dialog /\ menu = "closed"

ClickToggle ==
  /\ MainWindowEnabled
  /\ IF toggle_is_active THEN Disconnect ELSE Connect
  /\ UNCHANGED menu

ClickSplit ==
  /\ MainWindowEnabled /\ "split" \in Events
  /\ Apply(SplitToggled)
  /\ UNCHANGED uiVars

\* The menu is built from the engine's status now and acted on later.
OpenMenu ==
  /\ up /\ menu = "closed" /\ "menu" \in Events
  /\ menu' = IF Running THEN "disconnect" ELSE "connect"
  /\ Poll(FALSE)
  /\ UNCHANGED <<config_file, shred_failed, settingsVars, sessionVars, tracker,
                 engine_started_at, killswitch, threadVars, dialog>>

MenuDismiss ==
  /\ menu # "closed"
  /\ menu' = "closed"
  /\ UNCHANGED <<engineVars, settingsVars, sessionVars, tracker,
                 engine_started_at, killswitch, threadVars, dialog>>

MenuConnect == menu = "connect" /\ Connect /\ menu' = "closed"

MenuDisconnect == menu = "disconnect" /\ Disconnect /\ menu' = "closed"

MenuSplit ==
  /\ menu # "closed" /\ "split" \in Events
  /\ Apply(SplitToggled)
  /\ menu' = "closed" /\ UNCHANGED dialog

OpenDialog ==
  /\ MainWindowEnabled /\ "dialog" \in Events
  /\ dialog' = TRUE
  /\ UNCHANGED <<engineVars, settingsVars, sessionVars, tracker,
                 engine_started_at, killswitch, threadVars, menu>>

DialogCancel ==
  /\ dialog /\ menu = "closed"
  /\ dialog' = FALSE
  /\ UNCHANGED <<engineVars, settingsVars, sessionVars, tracker,
                 engine_started_at, killswitch, threadVars, menu>>

\* The dialog's copy of the settings, as edited, replaces the live ones.
DialogOk ==
  /\ dialog /\ menu = "closed"
  /\ \E s \in Settings : Apply(s)
  /\ dialog' = FALSE /\ UNCHANGED menu

-----------------------------------------------------------------------------
(* The geoip refresh, its worker thread and its completion message. *)

ClickRefresh ==
  /\ MainWindowEnabled /\ "geoip" \in Events
  /\ refresh = "idle"
  /\ refresh' = "running"
  /\ UNCHANGED <<engineVars, settingsVars, sessionVars, tracker,
                 engine_started_at, killswitch, probe, uiVars>>

RefreshWorkerDone ==
  /\ refresh = "running"
  /\ refresh' \in {"ok", "err"}
  /\ UNCHANGED <<engineVars, settingsVars, sessionVars, tracker,
                 engine_started_at, killswitch, probe, uiVars>>

FinishRefresh ==
  /\ refresh \in {"ok", "err"}
  /\ refresh' = "idle"
  /\ IF refresh = "ok" /\ cfg.split /\ desired = "Connected"
     THEN StartEngine(cfg, tracker)
     ELSE UNCHANGED <<engineVars, tracker, engine_started_at>>
  /\ UNCHANGED <<settingsVars, sessionVars, killswitch, probe, uiVars>>

-----------------------------------------------------------------------------
(* The probe worker: a cadence, and a request that may take seconds. *)

ProbeStarts ==
  /\ up /\ "probe" \in Events
  /\ probe.active /\ ~probe.busy
  /\ probe' = [probe EXCEPT !.busy = TRUE]
  /\ UNCHANGED <<engineVars, settingsVars, sessionVars, tracker,
                 engine_started_at, killswitch, refresh, uiVars>>

\* latest() keeps the last result of the channel only.
ProbeEnds ==
  /\ probe.busy
  /\ \E r \in {"ok", "fail"} : probe' = [probe EXCEPT !.busy = FALSE, !.result = r]
  /\ UNCHANGED <<engineVars, settingsVars, sessionVars, tracker,
                 engine_started_at, killswitch, refresh, uiVars>>

\* ENGINE_CONFIG_TTL passes.
TtlElapses ==
  /\ engine_started_at = "fresh"
  /\ engine_started_at' = "aged"
  /\ UNCHANGED <<engineVars, settingsVars, sessionVars, tracker,
                 killswitch, threadVars, uiVars>>

-----------------------------------------------------------------------------
(* The life of the wrapper. *)

\* App::new, once the settings are unlocked.
Launch ==
  /\ AdoptExisting
  /\ IF engine'.adopted_pid # NoPid
     THEN /\ tracker' = [tracker EXCEPT !.state = "Connected"]
          /\ desired' = "Connected"
          /\ session_connected' = TRUE
     ELSE UNCHANGED <<tracker, desired, session_connected>>
  /\ UNCHANGED <<settingsVars, counters, engine_started_at, killswitch,
                 threadVars, uiVars>>

\* What is left in memory of a wrapper that is gone: nothing; the kill switch
\* filters go with the session that installed them.
Forget(s) ==
  /\ cfg' = s /\ saved' = s
  /\ desired' = "Disconnected"
  /\ tracker' = FreshTracker
  /\ counters' = note_healthy
  /\ session_connected' = FALSE
  /\ engine_started_at' = "none"
  /\ killswitch' = Lifted
  /\ probe' = ProbeIdle /\ refresh' = "idle"
  /\ dialog' = FALSE /\ menu' = "closed"

MenuExit == menu # "closed" /\ "exit" \in Events /\ Drop /\ Forget(saved)

WrapperCrash == Crash /\ Forget(saved)

\* Any handler that starts the engine: a click, a tick or a refresh on the
\* settings in memory, or an edit that was saved first.
WrapperCrashInStart ==
  \/ CrashInStart(cfg) /\ Forget(saved)
  \/ \E s \in Settings :
       /\ desired = "Connected" /\ (dialog \/ s = SplitToggled)
       /\ CrashInStart(s) /\ Forget(s)

-----------------------------------------------------------------------------
(* The engine and the reader threads. *)

\* Filters that block the endpoint keep an engine from reaching it.
Reachable(s) == killswitch.engaged => s.addr \in killswitch.permit

EngineStep(p) ==
  /\ ProcessStep(p)
  /\ procs'[p].phase = "up" => Reachable(procs[p].conf)
  /\ UNCHANGED appVars

ReaderStep(st) == ReadLine(st) /\ UNCHANGED appVars

UserStep ==
  \/ ClickToggle \/ ClickSplit
  \/ OpenMenu \/ MenuDismiss \/ MenuConnect \/ MenuDisconnect \/ MenuSplit
  \/ OpenDialog \/ DialogCancel \/ DialogOk
  \/ ClickRefresh

Next ==
  \/ Launch \/ MenuExit \/ WrapperCrash \/ WrapperCrashInStart
  \/ UserStep
  \/ Tick \/ TtlElapses
  \/ RefreshWorkerDone \/ FinishRefresh
  \/ ProbeStarts \/ ProbeEnds
  \/ \E st \in Streams : ReaderStep(st)
  \/ \E p \in Pids : EngineStep(p)

Spec == Init /\ [][Next]_vars

-----------------------------------------------------------------------------
(***************************************************************************)
(* Fairness.  The 2 s timer fires in the main loop and in the loops of the *)
(* dialog and the menu; the reader, probe and geoip threads run; time      *)
(* passes.  Nothing is assumed of the user, the engine or the network.     *)
(***************************************************************************)
Fairness ==
  /\ WF_vars(Tick)
  /\ WF_vars(TtlElapses)
  /\ WF_vars(ProbeStarts) /\ WF_vars(ProbeEnds)
  /\ WF_vars(RefreshWorkerDone) /\ WF_vars(FinishRefresh)
  /\ \A st \in Streams : WF_vars(ReaderStep(st))

FairSpec == Spec /\ Fairness

-----------------------------------------------------------------------------
(* Safety. *)

\* The kill switch blocks traffic only while a session that was connected once
\* is wanted and down: never on a first attempt, never for a user who has
\* disconnected or was given up on, never with the tunnel believed up.
KsOnlyWhileWantedDown ==
  killswitch.engaged =>
    /\ up /\ desired = "Connected" /\ session_connected
    /\ tracker.state # "Connected"

\* While the wrapper runs and no connection is wanted there is no engine
\* process, whichever of user, watchdog, dialog or geoip thread acted last.
OffMeansStopped ==
  up /\ desired = "Disconnected" => \A p \in Pids : ~IsEngine(p)

\* While no connection is wanted a plaintext config is on disk only if the
\* wrapper tried to shred this very file and failed (shred.rs is best effort).
OffMeansNoPlaintext ==
  up /\ desired = "Disconnected" => config_file = NoConfig \/ shred_failed

\* The step that ends a session shreds the plaintext config, whoever wrote it:
\* what is still there afterwards has outlived a shred.  Without a session none
\* is written.
OffWritesNoPlaintext ==
  [][up' /\ desired' = "Disconnected"
       => \/ config_file' = NoConfig
          \/ config_file' = config_file /\ (desired = "Disconnected" \/ shred_failed')]_vars

\* A plaintext config that an engine of this wrapper was given has its time
\* running or has had it: whichever handler started the engine and however often,
\* a config with no clock is one the shred has failed on, which the code does not
\* try again (app.rs, maybe_shred_engine_config).
PlaintextIsTimed ==
  engine.owned # NoPid /\ config_file # NoConfig
    => engine_started_at # "none" \/ shred_failed

\* Once every line the engine printed was ingested, the tracker agrees with the
\* phase of a spawned engine that is neither dead nor about to exit, unless the
\* last line it printed could overtake an older one: the two reader threads of
\* engine.rs keep no order between standard output and standard error.
BeliefMatchesEngine ==
  LET p == engine.owned IN
  /\ up /\ p # NoPid /\ pipe = EmptyPipe /\ engine.lines = NoLines /\ ~crossed
  /\ procs[p].phase \in EnginePhase \ {"failing"}
  => tracker.state = CASE procs[p].phase = "up" -> "Connected"
                       [] procs[p].phase = "recovering" -> "Reconnecting"
                       [] OTHER -> "Connecting"

\* An engine that got past its boot runs the settings now in memory, and one
\* that is booting will read them, unless their file was shredded already.
EngineRunsCurrentSettings ==
  up /\ engine.owned # NoPid =>
    CASE procs[engine.owned].phase = "booting" -> config_file \in {cfg, NoConfig}
      [] OTHER -> procs[engine.owned].conf \in {cfg, NoConfig}

Restarts == counters'.restarts > counters.restarts

\* The watchdog restarts a live engine only if the last thing it heard from it
\* is that it is connected and a probe has just failed: never one that is
\* connecting or healing itself.
LiveEngineSpared ==
  [][Restarts /\ Running =>
       /\ ingest_all(tracker, engine.lines).state = "Connected"
       /\ probe.result = "fail"]_vars

\* The kill switch is not lifted over a dead engine: while the session goes on
\* it gives way only to an engine that is running, or to settings that no longer
\* ask for it.
KsLiftedOverLiveEngine ==
  [][killswitch.engaged /\ ~killswitch'.engaged
       => \/ Running'
          \/ ~session_connected' \/ desired' = "Disconnected"
          \/ ~(cfg.killswitch /\ cfg.tun)]_vars

\* No look at a dead engine leaves things as they are, whatever the tracker made
\* of its last lines and whichever start has failed before: the watchdog spends a
\* restart on it or ends the session (watchdog.rs).
DeadEngineNotOverlooked ==
  [][Tick /\ desired = "Connected" /\ ~Running
       => Restarts \/ desired' = "Disconnected"]_vars

-----------------------------------------------------------------------------
(***************************************************************************)
(* What all this is for: the session as its user sees it (Supervision).    *)
(***************************************************************************)
KsOnlyForTheSession ==
  desired = "Connected" /\ session_connected /\ tracker.state # "Connected"

\* "blocked" would be a session the user does not want to be cut off by.
Session ==
  IF ~up THEN "gone"
  ELSE IF killswitch.engaged
  THEN IF KsOnlyForTheSession THEN "guarded" ELSE "blocked"
  ELSE IF desired = "Disconnected" THEN "off"
  ELSE IF ~session_connected THEN "first"
  ELSE IF tracker.state = "Connected" THEN "up" ELSE "exposed"

Promise == INSTANCE Supervision WITH
  session <- Session,
  budget  <- MaxRestarts - counters.restarts,
  guard   <- cfg.killswitch /\ cfg.tun

\* Whatever the engine, the threads and the windows do meanwhile, the user sees
\* a session that follows Supervision: the budget of restarts only shrinks
\* between two wishes of the user, a first attempt is never blocked, a guarded
\* session is not exposed behind the user's back (docs/security.md, Kill
\* switch).
AppImplementsSupervision == Promise!Spec

-----------------------------------------------------------------------------
(* Liveness. *)

UserQuiet == <>[][~UserStep]_vars

\* With the user's hands off, an engine that is wanted and not running is
\* started again or given up on.
DeadEngineDealtWith ==
  UserQuiet =>
    (up /\ desired = "Connected" /\ ~Running
       ~> Running \/ desired = "Disconnected" \/ ~up)

\* With the user's hands off, a plaintext config is shredded in the end: it does
\* not stay on disk without even a failed attempt on it.
PlaintextShredded ==
  UserQuiet => (config_file # NoConfig ~> config_file = NoConfig \/ shred_failed)

\* Once probes stop succeeding, the tunnel is not believed up for ever.
DeadEgressNoticed ==
  <>[][probe'.result # "ok"]_vars =>
    []<>(tracker.state # "Connected" \/ desired = "Disconnected")

\* A tunnel that stays down in a session that was connected once gets the kill
\* switch.
KsFollowsDrop == up /\ KillswitchWanted ~> killswitch.engaged \/ ~KillswitchWanted

-----------------------------------------------------------------------------
(* What the repository says of the program and the program does not do. *)

\* docs/troubleshooting.md: a fatal error is not retried.  The watchdog never
\* restarts an engine that printed a fatal line.
FatalNotRetried ==
  [][Restarts => /\ engine.lines.fatal = "None"
                 /\ \A st \in Streams : \A i \in DOMAIN pipe[st] :
                      classify(pipe[st][i]) \notin FailReason]_vars

\* win/wfp.rs: the endpoint is permitted so the engine can re-establish the
\* tunnel.  When a tick has reconciled the kill switch, an engaged one permits
\* the literal endpoint of the settings in force.
KsPermitsEndpoint ==
  [][Tick /\ killswitch'.engaged => endpoint_ips(cfg') \subseteq killswitch'.permit]_vars
=============================================================================
