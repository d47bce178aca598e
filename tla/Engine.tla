------------------------------- MODULE Engine -------------------------------
(***************************************************************************)
(* engine.rs, pidfile.rs, win/proc.rs and the plaintext config of          *)
(* toml_writer.rs: how the wrapper owns, finds again and stops the engine  *)
(* process trusttunnel_client.exe, which outlives a crash of the wrapper;  *)
(* and shred.rs, which the plaintext config is deleted with.               *)
(*                                                                         *)
(* The wrapper is one process that is up or not.  Processes are Pids with  *)
(* a phase; "other" is a live process that is not the engine and got a     *)
(* reused pid.  The engine itself is external: it reads the config file    *)
(* once at boot, prints marker lines and may drop, fail or die at any      *)
(* time.  terminate_pid is taken to be immediate.                          *)
(***************************************************************************)
EXTENDS EngineState, Sequences

CONSTANTS Pids,      \* process identifiers
          NoPid,     \* None: no handle, no PID file
          Settings,  \* values of AppConfig a config file can be rendered from
          NoConfig,  \* no readable config on disk; a process that read none
          Streams,   \* the piped output streams of the engine
          MaxPipe,   \* bound: unread lines per pipe before the engine blocks
          Events     \* the optional happenings a run includes, by name

ASSUME EngineAssumption ==
  /\ NoPid \notin Pids
  /\ NoConfig \notin Settings
  /\ MaxPipe \in Nat \ {0}

VARIABLES up,          \* the wrapper process is running
          engine,      \* struct Engine
          procs,       \* the process table
          pipe,        \* lines printed and not yet taken by a reader thread
          pidfile,     \* engine.pid
          config_file, \* the plaintext config the engine boots from
          crossed,     \* history: the newest line was printed while an older
                       \* one was still unread in another stream
          shred_failed \* history: the config on disk has outlived a shred

engineVars == <<up, engine, procs, pipe, pidfile, config_file, crossed, shred_failed>>

EnginePhase == {"booting", "connecting", "up", "recovering", "failing"}

Process == [phase : EnginePhase \cup {"dead", "other"},
            conf  : Settings \cup {NoConfig}]

Dead  == [phase |-> "dead", conf |-> NoConfig]
Other == [phase |-> "other", conf |-> NoConfig]

\* Engine::new: nothing spawned, nothing adopted.
NoHandles == [owned |-> NoPid, adopted_pid |-> NoPid,
              requested_stop |-> FALSE, lines |-> NoLines]

EmptyPipe == [st \in Streams |-> <<>>]

EngineTypeOK ==
  /\ up \in BOOLEAN
  /\ engine \in [owned : Pids \cup {NoPid}, adopted_pid : Pids \cup {NoPid},
                 requested_stop : BOOLEAN, lines : Unread]
  /\ procs \in [Pids -> Process]
  /\ pipe \in [Streams -> Seq(Line)]
  /\ pidfile \in Pids \cup {NoPid}
  /\ config_file \in Settings \cup {NoConfig}
  /\ crossed \in BOOLEAN
  /\ shred_failed \in BOOLEAN

EngineInit ==
  /\ up = FALSE
  /\ engine = NoHandles
  /\ procs = [p \in Pids |-> Dead]
  /\ pipe = EmptyPipe
  /\ pidfile = NoPid
  /\ config_file = NoConfig
  /\ crossed = FALSE /\ shred_failed = FALSE

-----------------------------------------------------------------------------
(* What the methods of Engine compute. *)

\* The process has not exited; its image name is not looked at.
pid_alive(p) == p # NoPid /\ procs[p].phase # "dead"

\* The process is alive and its image has the engine's name (taken not to change
\* between two lives of the wrapper).
pid_is_engine(p) == p # NoPid /\ procs[p].phase \in EnginePhase

\* Engine::status() = Running.
Running ==
  IF engine.owned # NoPid THEN pid_alive(engine.owned)
                          ELSE pid_alive(engine.adopted_pid)

\* A mistake: an adopted process is forgotten when it is asked after.
Polled_OwnedOnly ==
  [engine EXCEPT !.owned = IF pid_alive(@) THEN @ ELSE NoPid, !.adopted_pid = NoPid]

\* Engine::status() also forgets the handle of a process that is gone.
Polled ==
  [engine EXCEPT
     !.owned = IF pid_alive(@) THEN @ ELSE NoPid,
     !.adopted_pid = IF engine.owned # NoPid \/ pid_alive(@) THEN @ ELSE NoPid]

\* Engine::stop kills whatever it has a handle of.
Killed == [p \in Pids |-> IF p \in {engine.owned, engine.adopted_pid}
                          THEN Dead ELSE procs[p]]

Spawnable == {p \in Pids : Killed[p] = Dead}

Spawned(p) == [Killed EXCEPT ![p] = [phase |-> "booting", conf |-> NoConfig]]

-----------------------------------------------------------------------------
(* The methods. *)

\* pidfile::clear: an error is ignored, and the file stays.
Cleared ==
  \/ pidfile' = NoPid
  \/ "pidfile_err" \in Events /\ UNCHANGED pidfile

\* shred_file: every error is ignored.  A file overwritten and not removed is no
\* config; one that could be neither overwritten nor removed is still the old.
Shred ==
  \/ config_file' = NoConfig /\ shred_failed' = FALSE
  \/ /\ "shred_err" \in Events /\ config_file # NoConfig
     /\ config_file' = config_file /\ shred_failed' = TRUE

\* A mistake: an adopted engine is not stopped.
Stop_OwnedOnly ==
  /\ engine' = [NoHandles EXCEPT !.requested_stop = TRUE]
  /\ procs' = [p \in Pids |-> IF p = engine.owned THEN Dead ELSE procs[p]]
  /\ pipe' = EmptyPipe /\ crossed' = FALSE /\ Cleared
  /\ UNCHANGED up

Stop ==
  /\ engine' = [NoHandles EXCEPT !.requested_stop = TRUE]
  /\ procs' = Killed
  /\ pipe' = EmptyPipe /\ crossed' = FALSE
  /\ Cleared
  /\ UNCHANGED up

\* Mistakes start could contain: the old channel kept for the new engine; the
\* old engine not stopped first.
Start_KeepsLines(s) ==
  /\ config_file' = s /\ shred_failed' = FALSE /\ pipe' = EmptyPipe /\ crossed' = FALSE
  /\ \E p \in Spawnable :
       /\ engine' = [NoHandles EXCEPT !.owned = p, !.lines = engine.lines]
       /\ procs' = Spawned(p) /\ pidfile' = p
  /\ UNCHANGED up

Start_WithoutStop(s) ==
  /\ config_file' = s /\ shred_failed' = FALSE /\ pipe' = EmptyPipe /\ crossed' = FALSE
  /\ \E p \in {q \in Pids : procs[q] = Dead} :
       /\ engine' = [NoHandles EXCEPT !.owned = p]
       /\ procs' = [procs EXCEPT ![p] = [phase |-> "booting", conf |-> NoConfig]]
       /\ pidfile' = p
  /\ UNCHANGED up

\* Engine::start after write_engine_config(s): stops what runs, then spawns.
\* Afterwards owned tells whether the spawn worked; writing the PID file is
\* best effort.
Start(s) ==
  /\ config_file' = s /\ shred_failed' = FALSE
  /\ pipe' = EmptyPipe /\ crossed' = FALSE
  /\ \/ /\ "spawn_err" \in Events
        /\ engine' = NoHandles
        /\ procs' = Killed
        /\ Cleared
     \/ \E p \in Spawnable :
          /\ engine' = [NoHandles EXCEPT !.owned = p]
          /\ procs' = Spawned(p)
          /\ \/ pidfile' = p
             \/ "pidfile_err" \in Events /\ pidfile' \in {pidfile, NoPid}
  /\ UNCHANGED up

\* A mistake: the PID file is removed once it served.
AdoptExisting_ClearsPidfile ==
  /\ ~up /\ up' = TRUE
  /\ engine' = [NoHandles EXCEPT
                  !.adopted_pid = IF pid_is_engine(pidfile) THEN pidfile ELSE NoPid]
  /\ pidfile' = NoPid
  /\ UNCHANGED <<procs, pipe, config_file, crossed, shred_failed>>

\* A new wrapper looks for an engine an earlier one left behind.
AdoptExisting ==
  /\ ~up
  /\ up' = TRUE
  /\ engine' = [NoHandles EXCEPT
                  !.adopted_pid = IF pid_is_engine(pidfile) THEN pidfile ELSE NoPid]
  /\ IF pid_is_engine(pidfile) THEN UNCHANGED pidfile ELSE Cleared
  /\ UNCHANGED <<procs, pipe, config_file, crossed, shred_failed>>

\* status() and the draining of the line channel, by whoever calls them.
Poll(drain) ==
  /\ engine' = IF drain THEN [Polled EXCEPT !.lines = NoLines] ELSE Polled
  /\ UNCHANGED <<up, procs, pipe, pidfile, crossed>>

\* Drop for Engine: a clean exit of the wrapper.
Drop ==
  /\ up
  /\ up' = FALSE
  /\ engine' = NoHandles
  /\ procs' = Killed
  /\ pipe' = EmptyPipe /\ crossed' = FALSE
  /\ Cleared
  /\ UNCHANGED <<config_file, shred_failed>>

\* The wrapper dies between two handlers; the OS closes its pipes.
Crash ==
  /\ up /\ "crash" \in Events
  /\ up' = FALSE
  /\ engine' = NoHandles
  /\ pipe' = EmptyPipe /\ crossed' = FALSE
  /\ UNCHANGED <<procs, pidfile, config_file, shred_failed>>

\* The wrapper dies inside start: after writing the config, after stopping the
\* old engine, or after spawning the new one and before writing its PID file.
CrashInStart(s) ==
  /\ up /\ "crash_in_start" \in Events
  /\ up' = FALSE
  /\ engine' = NoHandles
  /\ pipe' = EmptyPipe /\ crossed' = FALSE
  /\ config_file' = s /\ shred_failed' = FALSE
  /\ \/ UNCHANGED <<procs, pidfile>>
     \/ procs' = Killed /\ Cleared
     \/ \E p \in Spawnable : procs' = Spawned(p) /\ Cleared

\* One line moves from a pipe into the channel of the UI thread.
ReadLine(st) ==
  /\ pipe[st] # <<>>
  /\ engine' = [engine EXCEPT !.lines = ingest(@, Head(pipe[st]))]
  /\ pipe' = [pipe EXCEPT ![st] = Tail(@)]
  /\ UNCHANGED <<up, procs, pidfile, config_file, crossed, shred_failed>>

-----------------------------------------------------------------------------
(* The engine process and the operating system (external). *)

\* Only a process the wrapper spawned itself has its output piped to it.
Prints(p, line) ==
  IF p = engine.owned
  THEN \E st \in Streams : /\ Len(pipe[st]) < MaxPipe
                           /\ pipe' = [pipe EXCEPT ![st] = Append(@, line)]
                           /\ crossed' = \E other \in Streams \ {st} : pipe[other] # <<>>
  ELSE UNCHANGED <<pipe, crossed>>

Moves(p, phase) ==
  /\ procs' = [procs EXCEPT ![p].phase = phase]
  /\ UNCHANGED <<up, engine, pidfile, config_file, shred_failed>>

Boots(p) ==
  /\ procs[p].phase = "booting"
  /\ IF config_file = NoConfig
     THEN /\ procs' = [procs EXCEPT ![p].phase = "failing"]
          /\ Prints(p, {"failed parsing configuration"})
     ELSE /\ procs' = [procs EXCEPT ![p] = [phase |-> "connecting", conf |-> config_file]]
          /\ UNCHANGED <<pipe, crossed>>
  /\ UNCHANGED <<up, engine, pidfile, config_file, shred_failed>>

Connects(p) ==
  /\ procs[p].phase \in {"connecting", "recovering"}
  /\ Prints(p, {"successfully connected to endpoint"})
  /\ Moves(p, "up")

LosesEndpoint(p) ==
  /\ procs[p].phase = "up" /\ "drop" \in Events
  /\ Prints(p, {"waiting recovery"})
  /\ Moves(p, "recovering")

FailsFatally(p) ==
  /\ procs[p].phase \in {"connecting", "up", "recovering"} /\ "fatal" \in Events
  /\ Prints(p, {"error:", "auth"})
  /\ Moves(p, "failing")

Dies(p) ==
  /\ procs[p].phase \in EnginePhase
  /\ procs' = [procs EXCEPT ![p] = Dead]
  /\ UNCHANGED <<up, engine, pipe, pidfile, config_file, crossed, shred_failed>>

\* A pid is reused once no handle keeps it; one stranger at a time is enough.
StrangerAppears(p) ==
  /\ "stranger" \in Events
  /\ procs[p] = Dead /\ p # engine.owned
  /\ \A q \in Pids : procs[q] # Other
  /\ procs' = [procs EXCEPT ![p] = Other]
  /\ UNCHANGED <<up, engine, pipe, pidfile, config_file, crossed, shred_failed>>

ProcessStep(p) ==
  \/ Boots(p) \/ Connects(p) \/ LosesEndpoint(p) \/ FailsFatally(p)
  \/ Dies(p) \/ StrangerAppears(p)

-----------------------------------------------------------------------------
(***************************************************************************)
(* The component alone: its methods in any order.  App calls them in the   *)
(* order app.rs does.                                                      *)
(***************************************************************************)
Shreds == Shred \/ UNCHANGED <<config_file, shred_failed>>

EngineNext ==
  \/ AdoptExisting
  \/ up /\ \E s \in Settings : Start(s)
  \/ up /\ Stop /\ Shreds
  \/ up /\ (\E drain \in BOOLEAN : Poll(drain)) /\ Shreds
  \/ Drop
  \/ Crash
  \/ \E s \in Settings : CrashInStart(s)
  \/ \E st \in Streams : ReadLine(st)
  \/ \E p \in Pids : ProcessStep(p)

EngineSpec == EngineInit /\ [][EngineNext]_engineVars

-----------------------------------------------------------------------------
(* Properties of the component. *)

IsEngine(p) == procs[p].phase \in EnginePhase

\* Every engine process that exists is one the wrapper can stop: a running
\* wrapper holds its handle, and the PID file names it for the next wrapper
\* should this one die (engine.rs: the engine is independent and rediscovered
\* via the PID file).
EngineAccountedFor ==
  \A p \in Pids : IsEngine(p) =>
    /\ pidfile = p
    /\ up => p \in {engine.owned, engine.adopted_pid}

\* The PID file never leads the next wrapper to an engine the present one is not
\* in charge of, even after a start that failed half way or a PID file that
\* could not be written (pidfile.rs: rediscovery of an engine).
PidfileLeadsToHandle ==
  up /\ pidfile # NoPid /\ IsEngine(pidfile)
    => pidfile \in {engine.owned, engine.adopted_pid}

\* Never two engines at once: they would fight over the Wintun adapter and the
\* config file (main.rs, the single-instance guard).
SingleEngine == \A p, q \in Pids : IsEngine(p) /\ IsEngine(q) => p = q
=============================================================================
