# Verification of the TrustTunnel Windows wrapper

TLA+ models, TLC runs and TLAPS proofs for the tray program in `src/`
(Rust, Win32). The program does no networking of its own: it supervises
`trusttunnel_client.exe`, the *engine*, which does. What it has to get right is
supervision: one engine and never two, restarts that end, a kill switch that is
engaged exactly when it should be, plaintext credentials that do not stay on
disk, a settings file that its password always opens, a split-tunnel list that
lets nothing foreign past the VPN, and settings that are what the user entered.

## 1. The system

All state changes of the wrapper happen on one UI thread, in handlers called by
the Windows message loop. Around it move:

- the **engine process**, which outlives a crash of the wrapper;
- one **reader thread** per output stream of the engine, feeding a channel;
- the **probe thread**, which fetches a URL through the tunnel every so often;
- a **geoip thread** per refresh, which posts a message when it is done;
- the **clock**: a 2 s timer and the 1.5 s lifetime of the plaintext config;
- the **user**, through the main window, the tray menu and modal dialogs. Both
  the menu and the dialogs pump messages, so timer, tray and completion
  messages are handled while they are open.

### Inventory

| Component (source) | State it keeps | Operations | Interacts with | What is hard | Correct when |
|---|---|---|---|---|---|
| App, `app.rs` | settings, desired, tracker, counters, `session_connected`, TTL clock, geoip channel | `new`, `service_tick`/`tick`, `connect`, `disconnect`, `set_split_enabled`, `apply_settings`, geoip begin/finish | everything below | handlers interleave with threads and with each other's modal loops; each failure path leaves a different part done | off means stopped and shredded; the engine runs the current settings; a dead engine is dealt with |
| Engine, `engine.rs`, `pidfile.rs`, `win/proc.rs` | handle or adopted pid, `requested_stop`, line channel; PID file | `adopt_existing`, `status`, `next_line`, `start`, `stop`, `Drop`, reader threads | OS process table, PID file | wrapper crash at any point, failed spawns, lost PID file, reused pids | every engine can be found and stopped; never two |
| Engine output, `engine_state.rs` | state, fatal reason | `classify`, `ingest`, `on_start`, `on_process_exit` | reader channel | lines arrive late, or belong to the previous engine | belief agrees with the engine |
| Watchdog, `watchdog.rs` | probe streak, restart count | `decide`, `record_probe`, `note_healthy` | App's tick | limits, resets, states nobody thought of | restarts are bounded; a live engine is spared |
| Probe, `probe.rs` | gate, result channel | `set_active`, `latest`, the loop | App's tick | a result older than the state it is counted in | dead egress is noticed |
| Kill switch, `killswitch.rs`, `win/wfp.rs` | filters of a dynamic WFP session | `sync`, `engage`, `install`, `disengage` | tick, connect, disconnect | it is a function of five fields that many handlers change; filters are added one by one without a transaction | confined to a wanted session that is down; not lifted over a dead engine; all or nothing |
| Plaintext config, `toml_writer.rs`, `shred.rs` | `trusttunnel_client.toml` | `render`, `write_atomic`, `shred_file` | App, engine boot | shredded by a clock; crashes, full disks and power loss between two primitives | a reader finds it whole or not at all; gone soon, and gone when off |
| Settings file and passwords, `secret.rs`, `ui/dialog.rs` | `settings.enc`, legacy `settings.toml`, live key, settings in memory, stack of modal dialogs | unlock, create, migrate, save, edit, change password | App (save, apply), tray toggle below the dialogs | overlapping modal flows; data read before a prompt and used after it; crashes in the migration | the live key opens the file; nothing is lost |
| Settings dialog, `ui/dialog.rs`, `config.rs` | working copy, controls of two pages | populate, read, import, advanced, OK, cancel | App (apply), import, tray toggle | one copy edited through two sets of controls; values no control can show | what was entered last is stored; opening changes nothing |
| Window and tray, `ui/window.rs`, `ui/tray.rs` | open menu, enabled controls | commands, messages, menu | App | a menu built from a status that is old when acted on | covered by App's properties |
| GeoIP, `geoip/*` | cached CIDR list | `refresh`, `parse_country_cidrs`, `count_to_prefix`, `load_cached` | a thread, App's completion handler | arithmetic of prefixes; a worker that overlaps edits, restarts and crashes; completion after disconnect | nothing foreign goes direct; a failed refresh keeps the old list; the engine has the newest list |
| Bootstrap, `bootstrap.rs` | extracted binaries, version marker | `ensure_engine` | App::new | five writes without a transaction; the executable may be in use; upgrades | the marker vouches for the binaries |
| Import, `import.rs` | none | `import_into` | settings dialog, `render` | partial files, two listeners, values the controls do not offer | only present fields overwrite; an export imports as itself |

`PROJECT.json` lists the same components with what is modelled of each, and the
hazards, each at its line with the properties that would catch it.

## 2. The modules

| Module | Models | Uses |
|---|---|---|
| `EngineState` | lines, `classify`, the tracker, the channel of unread lines | |
| `Watchdog` | `decide` and the counters, as operators | |
| `Engine` | the engine component: process table, PID file, config file, pipes, the methods of `Engine`, the engine and the OS as environment; `EngineSpec` calls the methods in any order | `EngineState` |
| `App` | the wrapper as a whole, one action per handler | `Engine`, `Watchdog` |
| `Supervision` | abstract: the course of one session as the user is promised it | |
| `Vault` | settings file, unlock, migration, password change, stack of modal dialogs | |
| `AtomicFile` | abstract: a file that is replaced at once or not at all | |
| `Files` | `write_atomic`, `shred_file`, `ensure_engine`, primitive by primitive | `AtomicFile`, twice |
| `GeoIp` | parsing and prefix arithmetic, the cache, the refresh worker, when an engine gets the list | |
| `Dialog` | the controls of both pages, import, `render` | |
| `Wfp` | the dynamic session and its filters, call by call; the platform's arbitration | |
| `EngineProofs`, `AppProofs`, `SessionProofs`, `VaultProofs`, `FilesProofs`, `GeoIpProofs`, `DialogProofs`, `WfpProofs` | the theorems | the module each is about |
| `MCApp`, `MCVault`, `MCFiles`, `MCGeoIp`, `MCDialog`, `MCWfp` | instances for TLC | |

**`App` implements `Engine`.** `EngineSpec` is the abstract specification of
the engine component: any caller, any order. `App` extends it with the caller
the program really has; that every step of `App` is a step of `EngineSpec` or
leaves its variables alone is a theorem (`AppImplementsEngine`), and through it
what is proved of `EngineSpec` holds of the program.

**`App` implements `Supervision`.** Three variables, no engine: where the
session is (`off`, `first`, `up`, `exposed`, `guarded`, `gone`), the restarts
left, and whether the user wants a dropped tunnel guarded. The mapping reads
them off `desired`, `session_connected`, the tracker, the kill switch, the
counters and the settings. An engaged kill switch outside a wanted session maps
to "blocked", a place `Supervision` does not have. Checked in the run `settings`
and proved (`SessionAsPromised`).

**`Files` implements `AtomicFile`** for the engine config and for
`settings.enc` (`WritesAreAtomic`), proved as `FilesAreAtomic`. The temporary file, the primitives, failed
calls and lost power are below the abstraction. A file that is being shredded
counts as its old content while a loss of power may still bring that back.

The other modules are about one component each and meet `App` at an action:
`App.sync` is `Wfp` from `Engage` to its last call; `App.RefreshWorkerDone` and
`App.FinishRefresh` are `GeoIp`'s worker and completion; `App.DialogOk` and
`Vault.SettingsOk` take an arbitrary edit, of which `Dialog` has the details;
`Vault` and `App` write files in one step, which `Files` takes apart.

### State

| Model | Code |
|---|---|
| `up` | the wrapper process runs (single instance, `main.rs`) |
| `engine` = `[owned, adopted_pid, requested_stop, lines]` | `struct Engine`; `lines` is what the channel's unread lines will do to the tracker |
| `procs[p]` | the process with pid `p`: phase, and the settings the engine read at boot; `"other"` is a stranger with a reused pid |
| `pipe[st]` | lines printed and not yet taken by the reader thread of stream `st` |
| `pidfile`, `config_file` | `engine.pid`; the plaintext config, as the settings it was rendered from |
| `cfg`, `saved` | `App::cfg`; the contents of `settings.enc` |
| `desired`, `tracker`, `counters`, `session_connected` | the fields of the same names |
| `engine_started_at` | `None`, younger than the TTL, older |
| `killswitch` = `[engaged, permit]` | the installed filters and the permitted addresses |
| `probe`, `refresh` | worker threads and their result channels |
| `dialog`, `menu` | the modal settings dialog; the tray menu, with the entry it offers |
| `disk`, `medium` (`Files`) | what a reader finds now; what is certain to survive a loss of power |
| `ui`, `running`, `unlocked`, `version`, `held` (`Files`) | the calls the UI thread has still to make, the release that runs and is installed, an engine that keeps its executable open |
| `cache`, `refreshing`, `job`, `geoip_rx`, `posted` (`GeoIp`) | the cache file of each country, the flag, the worker thread, its channel, its message in the queue |
| `working`, `page`, `advanced` (`Dialog`) | the copy the dialog edits; the texts in the controls of either page |
| `session`, `sublayer`, `added`, `filters` (`Wfp`) | the engine handle, the calls `install` has made, the filters in force |
| `settings_enc`, `legacy`, `vault`, `pc`, `frames`, `change_pw_vault` (`Vault`) | the two files, the live key as its password, where `unlock_or_create` is, the modal dialogs on the stack, the thread-local pointer |

A line of engine output is the set of marker phrases in it. `ingest` only
assigns, so a queue of unread lines is represented by what it amounts to: the
last state and the last fatal reason.

### Actions

An action is a whole handler. `Tick` contains draining the lines, asking for
the process status, counting the probe result, the watchdog's decision with the
restart or give-up it leads to, shredding and reconciling the kill switch, in
the code's order and with every failure on the way. `ClickToggle`, `ClickSplit`,
`MenuConnect`, `MenuDisconnect`, `MenuSplit`, `DialogOk`, `FinishRefresh`,
`Launch` and `MenuExit` are likewise complete. `CrashInStart` is the one place
where a handler is cut: the wrapper dies after writing the config, after
stopping the old engine, or between spawning the new one and writing its pid.

What the code does at best effort may fail in the model too, and the failure is
as silent: `Shred` may leave the file (`shred_err`), and its callers clear the
clock all the same; `Cleared` may leave the PID file (`pidfile_err`), as
`pidfile::write` may leave the old pid in it.

In `Vault`, the dialog on top of the stack runs the message loop; a dialog
below it that was ended returns when it is on top again (`Unwind`). Password
prompts have no owner window, so the settings dialog stays usable below them,
which is what makes flows overlap.

In `Files` the UI thread is in at most one operation, and an operation is a list
of calls, each a list of primitives (`create`, `write`, `sync`, `rename`,
`overwrite`, `remove`). A primitive that fails ends its call and the operation
goes on, which is what `?` inside `write_atomic` and `let _ =` elsewhere amount
to. In `GeoIp` the worker's steps are the points at which the UI thread can see
a difference: download, rename, send, post. In `Dialog` a field stands for its
kind: text, trimmed text, drop-down, drop-down with "(none)", check box, number
with a minimum, number, list of numbers, text that keeps its value when emptied.

Six variables are history: `shred_failed` (the config on disk has outlived a
shred) and `crossed` (the newest line was printed while an older one was unread
in another stream) in `Engine`, `meant` (what the user gave last for each field)
and `edits` in `Dialog`, `spoilt` in `Files` (a write of a binary failed or was
lost), `engine.stale` in `GeoIp` (the engine was adopted, or a start that should
have replaced it failed). No guard of the program reads them; `edits` is a bound.

`Events` (`FileEvents`, `GeoEvents`) selects the optional happenings of a run by name: spawn, write, save,
PID file, shred and WFP errors, missing executable, crashes, strangers, drops, fatal
errors, probes, dialog, split, menu, geoip, exit, reopening the dialog. The
others always happen. Definitions called "A mistake" are variants of a mapped
definition with a plausible bug in it, one per checked property; they are used
by no specification and document that the property would notice.

## 3. The runs

| Run | States | Shows |
|---|---|---|
| `supervise` | 1.7 M | Tick, toggle, threads and a failing engine, with two unread lines and two restarts: types, kill switch confined and not lifted over a dead engine, belief equals engine, live engine spared, no dead engine overlooked, the PID file never leads to an engine that is not in hand |
| `crash_restart` | 931 k | Crashes, exits, relaunches, stale menus, failing saves and shreds, reused pids: no engine lost, doubled, or running while off; the end of a session removes the plaintext unless that shred fails |
| `settings` | 1.6 M | Every edit by every route against restarts, an engine with two output streams, failing shreds: the engine never runs stale settings; belief equals engine unless lines crossed; off leaves no plaintext, and one on disk has its time running, unless a shred failed; `App` implements `Supervision` |
| `liveness` | 56 k | Dead engines are dealt with, plaintext is shredded or a shred of it has failed, dead egress is noticed, the kill switch follows a drop |
| `vault` | 84 k | First run, migration, unlock, edits, overlapping password changes, failed saves, crashes: the live key opens the file; neither an unreadable file nor the old settings are lost |
| `files` | 604 k | Every primitive may fail, the wrapper may die and the power go at each: both vault files are atomic, the version marker vouches for the binaries |
| `geoip` | 20 k | The worker against edits, restarts, exits and crashes: nothing foreign goes direct but through a row that is not aligned, a failed refresh keeps the old list, the engine has the newest list, a refresh ends |
| `dialog` | 392 k | Four edits, imports or tray toggles with any page changes, OK and Cancel between them: nothing entered is lost, opening is harmless, an export imports as itself |
| `wfp` | 351 | Any call fails, the wrapper dies between any two: engaged is fail-closed with the endpoint open, off is open |
| `fatal_race`, `ks_endpoint`, `change_password` | | Counterexamples; see section 6 |

Properties worth reading for what they say:

- `BeliefMatchesEngine` relates the tracker to the engine's real phase across
  pipe, channel and restarts. It fails if one old line reaches a new engine, or
  if a handler starts an engine and keeps what it believed of the old one. Lines
  that crossed between stdout and stderr are its exception (`crossed`, finding
  22): without it the run `settings` violates it.
- `LiveEngineSpared`: the watchdog restarts a live engine only if the last
  thing it heard is "connected" and a probe has just failed.
- `KsLiftedOverLiveEngine`: within a session the kill switch gives way only to
  a running engine, or to settings that no longer ask for it. It fails if status
  is read before the lines.
- `DeadEngineNotOverlooked` and `PlaintextIsTimed` are what the liveness
  properties `DeadEngineDealtWith` and `PlaintextShredded` rest on, as safety: no
  tick leaves a dead engine as it is, and no config is on disk without a clock.
- `OffMeansNoPlaintext`, `OffWritesNoPlaintext`, `PlaintextIsTimed` and
  `PlaintextShredded` make one exception, a file whose own shred failed
  (`shred_failed`, finding 21); the next config written ends it. So nothing but
  a failed file operation leaves the plaintext.
- `EngineRunsCurrentSettings`: past its boot the engine has the settings now in
  memory, whichever handler started it.
- `VaultOpensFile`: what is saved next can be opened with the password that
  opens the file now.

- `AppImplementsSupervision`: a guarded session leaves the kill switch only for
  a tunnel that is up, for a user who no longer wants the guard, or by ending;
  a first attempt is never blocked; the budget is not refilled on the way.
- `WritesAreAtomic`: a write takes effect at once or not at all, whatever fails
  or dies, and only a shred makes a file disappear. It fails without the `sync`.
- `MarkerVouches`: over any upgrades and deaths half way through an extraction,
  a marker of the running release means binaries of that release, unless a write
  of one failed or was lost. That exception is finding 11.
- `EngineExclusionsCurrent`: whichever of edit, toggle, restart and completion
  came last. It fails if the message is posted before the result is sent.
- `NothingEnteredIsLost`: what the user last typed, picked or imported for a
  field is what OK stores. It fails if an import does not read the page first.
- `CacheIsTheCountrys` and `ListCovers` take a block for what a CIDR block is, all
  addresses with the first bits in common. An aligned row, one that starts at a
  multiple of the largest power of two within its count, lets nothing foreign
  through; one that is not is finding 20, and the properties bound what it does.
- `FailClosed` and `NeverLockedOut` are about verdicts on connection attempts,
  not about which filters are there. The second fails if an install that fails
  does not close the session, or the session is not dynamic.

### Bounds

- **Pids**: two. One engine, and one more
  process that is a second engine, an orphan or a stranger; `SingleEngine`
  being an invariant, a third adds only a further dead pid.
- **`Streams`** two in `settings`, one elsewhere; **`MaxPipe`** 2 in
  `supervise`, 1 elsewhere: stdout and stderr are read by equal threads into one
  channel. Two streams are what lines need to overtake each other; two lines are
  the shortest queue in which a later line overrides an earlier one. In the
  proofs both are arbitrary.
- **`shred_err`** is in `crash_restart`, `settings` and `liveness`, the runs with
  properties of the plaintext; **`pidfile_err`** in `supervise`.
- **`ProbeFailThreshold`** 1 or 2, **`MaxRestarts`** 1 or 2 (3 and 5 in the
  code): with 2 the streak and the budget have a first, a middle and a last
  value. Arbitrary in the proofs.
- **Settings**: the fields that change what a handler does. `AnyEdit` varies all
  of them over two addresses; `OneServer` only split tunneling.
- **`Vault`**: two passwords, contents of two values times the split toggle,
  three frames: the settings dialog and two password flows above it.
- **`Files`**: two contents, of which one replaces the other, and two releases,
  so one upgrade. All write and fail in the same way, whatever they hold.
- **`GeoIp`**: sixteen addresses and two countries. The editions of the registry
  have ranges that are powers of two, ranges that are not, adjacent ranges, two
  rows that are not aligned (one of them right after a foreign one), rows
  that delegate nothing, and editions in which a country has no row. The edit of
  the country during the download needs two countries and no more. With four
  bits the prefix does not saturate; `count_to_prefix` is applied to counts of
  one to six. In the proofs the width and the registry are arbitrary.
- **`Dialog`**: four edits: an entry on each page, an import over them and an
  entry after it. The imported files are a full export with the other listener,
  one with values no list offers and a certificate that is too long, one with
  both listeners and two more such values (the empty one and the text the list
  shows for it), and a partial one with a setting of the wrong listener. In the
  proofs the texts, the files and the number of edits are arbitrary.
- **`Wfp`**: endpoint lists of up to three addresses, with an IPv6 address,
  repetitions and the empty list; one address that is no endpoint.

Symmetry over pids, passwords and file contents is used in runs of safety properties only.
Deadlock is checked in all runs.

### Fairness

`FairSpec` assumes weak fairness of the tick, the TTL clock, the probe, the
geoip worker and its message, and the reader threads. That is what the code's
scheduling gives: the timer is a `SetTimer` of the main window whose messages
are also dispatched by the loops of menu and dialogs, the threads are ordinary
OS threads that loop until their channel closes, and time passes. Nothing is
assumed of the user, the engine or the network. The engine may stay silent for
ever, which is why nothing promises that a connecting engine gets anywhere.
`DeadEngineDealtWith` and `PlaintextShredded` have the user's hands off from
some point as their premise: a user who clicks faster than the timer ticks can
put off both.

`GeoSpec` assumes that the worker thread goes on and that its message is
dispatched: the request has a timeout of 120 s (`geoip/ripe.rs`), every path of
the thread ends in `PostMessageW`, and every modal loop of the program
dispatches messages. The queue is taken to be reliable; see finding 14 for what
depends on it. `FilesSpec`, `DialogSpec`, `WfpSpec` and `VaultSpec` state no
fairness and carry safety properties only.

## 4. The proofs

All for every value of the constants, with the named assumptions only.

| Theorem | Says | Assumes |
|---|---|---|
| `EngineTypeCorrect` | `EngineSpec => []EngineTypeOK` | |
| `EnginesStayAccountedFor` | every engine can be stopped now and found later | `TracksEngine` |
| `NeverTwoEngines` | never two engine processes | `TracksEngine` |
| `PidfileNeverMisleads` | the PID file leads to the engine in hand or to none | |
| `TypeCorrect` | `Spec => []TypeOK`, counters within their limits | |
| `AppImplementsEngine` | `Spec => EngineSpec` | |
| `KillSwitchConfined` | `Spec => []KsOnlyWhileWantedDown` | |
| `OffStaysOff` | `Spec => []OffMeansStopped` | `TracksEngine` |
| `EngineIsCurrent` | `Spec => []EngineRunsCurrentSettings` | `WritesSucceed` |
| `OffShreds` | `Spec => []OffMeansNoPlaintext` | `WrapperStays` |
| `EndingShreds` | `Spec => OffWritesNoPlaintext` | |
| `PlaintextHasItsTime` | `Spec => []PlaintextIsTimed` | |
| `KsOutlastsDeadEngine` | `Spec => KsLiftedOverLiveEngine` | |
| `DeadEngineIsDealtWith` | `Spec => DeadEngineNotOverlooked` | |
| `WatchdogSparesLiveEngine` | `Spec => LiveEngineSpared` | |
| `TrackerFollowsEngine` | `Spec => []BeliefMatchesEngine` | |
| `SessionAsPromised` | `Spec => AppImplementsSupervision` | |
| `VaultTypeCorrect` | `VaultSpec => []VaultTypeOK` | |
| `NextSaveOpens` | `VaultSpec => []VaultOpensFile` | `OneSettingsDialog` |
| `UnreadableFileSurvives` | `VaultSpec => UnreadableFileKept` | |
| `LegacySurvives` | `VaultSpec => LegacyNotLost` | |
| `FilesTypeCorrect` | `FilesSpec => []FilesTypeOK` | |
| `MarkerIsTrusted` | `FilesSpec => []MarkerVouches` | |
| `FilesAreAtomic` | `FilesSpec => WritesAreAtomic` | |
| `RefreshTypeCorrect` | `GeoSpec => []GeoTypeOK` | |
| `ExclusionsAreCurrent` | `GeoSpec => []EngineExclusionsCurrent` | |
| `TheOldListIsKept` | `GeoSpec => OldListKept` | |
| `NoForeignAddress` | `GeoSpec => []CacheIsTheCountrys` | |
| `ListIsOneEdition` | `GeoSpec => []ListCovers` | `RegistryAssumption` |
| `DialogTypeCorrect` | `DialogSpec => []DialogTypeOK` | `InputAssumption` |
| `NothingIsLost` | `DialogSpec => []NothingEnteredIsLost` | `InputAssumption` |
| `OpeningChangesNothing` | `DialogSpec => []OpeningIsHarmless` | `InputAssumption` |
| `ExportImportsAsItself` | `DialogSpec => []ExportIsImport` | `InputAssumption` |
| `SwitchTypeCorrect` | `WfpSpec => []WfpTypeOK` | |
| `EngagedFailsClosed` | `WfpSpec => []FailClosed` | |
| `NobodyIsLockedOut` | `WfpSpec => []NeverLockedOut` | |

`TracksEngine` says that the wrapper does not die inside `start` and that the
PID file can be written. Without it the statements are false: an engine spawned
and not yet recorded is an orphan. `WritesSucceed` excludes failing saves and
config writes, after which the old engine keeps its old settings;
`WrapperStays` an exit or a crash, which leave the config on disk for the next
wrapper (`EndingShreds` is what holds with them). Each is what the runs of the
same property exclude too. `OneSettingsDialog` excludes the reopening
described under finding 8. `RegistryAssumption` says that no row of the registry
delegates more addresses than there are; of one that did, no prefix could cover
half. `InputAssumption` says what the controls and the parser let through: a
drop-down list is left on one of its options, an imported file has only the
fields of `ImportedToml`, and its `mtu_size` and ports are numbers. Each module's ASSUME on its own constants
(`FilesAssumption`, `GeoAssumption`, `WfpAssumption`, ...) says no more than that
special values are not ordinary ones and that bounds are numbers; TLC evaluates
them in the runs.

- **Engine.** `EngineAccountedFor` is inductive over the types: each method
  either kills what it has a handle of or records what it spawned, and the
  environment creates no engine. Two engines would both be what the one PID
  file names, so `NeverTwoEngines` follows. The theorems about `App` use these
  through `AppImplementsEngine`.
- **App.** `TypeOK` is not inductive. That the counters stay in range needs
  `StreakShort` (while a connection is wanted the streak is short of the
  threshold, for the tick that completes it ends the session or starts anew),
  and that a fresh wrapper starts within the types needs `DownIsBlank` (a wrapper
  that is not running has no memory). `WrapperInv` is the three together.
- **Kill switch.** A step that engages is one that ends in `UpdateKillswitch`;
  every other step leaves alone, or only strengthens, what the switch depends
  on: applying settings makes the tracker "connecting", never "connected".
- **OffStaysOff.** Uses that an off wrapper holds no handle together with
  `EngineAccountedFor`: an engine nobody holds does not exist.
- **The session (`SessionProofs`).** Five invariants over `WrapperInv`.
  `OwnedIsCurrent`: an engine is owned only while a connection is wanted, it has
  read nothing before the end of its boot, and the config it will read is of the
  settings in memory; a changed setting with no connection wanted then has no
  engine to be stale in. `ConfigIsWanted`: a config on disk belongs to a
  connection that is wanted; it follows from `ConfigAccounted`, what any step
  does to the config, which is `EndingShreds` too. `PlaintextIsTimed` is inductive
  as it stands. `GoneMeansReleased`: a tracker that believes the engine gone goes
  with empty handles, so a tick that restarts over a running engine does it for a
  probe, and by `StreakShort` one that has just failed.
  `WordInv`: the newest word of the engine is the last line of the pipe, else
  what the channel holds, else the tracker's state, and it tells the engine's
  phase; no fold over the pipe is needed, since each line overrides the one
  before it. With several streams it says so of lines that did not cross, and
  then only one stream has any.
- **KsOutlastsDeadEngine.** `TickBelieves`: only a tick can come to believe the
  tunnel up, and one that does has seen the process alive and, the probe streak
  being short, has not restarted it.
- **DeadEngineIsDealtWith.** `SeenDead`: of an engine that does not run, whatever
  lines it left, the tracker makes a final state, and `decide` has an answer to
  each of those.
- **SessionAsPromised.** `RefinementInv` is `WrapperInv` with
  `KsOnlyWhileWantedDown`: without the latter a step could start from "blocked".
  One lemma per action of `App` names the step of `Supervision` it maps to: a
  tick is `Watch`, `Retry` or `GiveUp` by its decision, every handler that only
  restarts the engine is `Reapply` (`RestartIsReapply`).
- **Files.** `FilesInv` says at which primitives an operation can be and what
  the files hold at each: the temporary file holds what was asked for once it is
  written, and its durable copy too once it is synced (`WritePoint`); an
  extraction leaves the old marker until both binaries are there, or one of
  their writes was lost (`ExtractionPoint`); the marker on the medium is the
  one a reader finds or a torn one, so a loss of power never brings back an older
  one. `Vouched` is `MarkerVouches` at any time, not
  only after an extraction. For the refinement, one lemma per kind of operation
  shows that each step is a step of `AtomicFile` or a stutter (`AtomicStep`), for
  either of the two files: only a rename replaces, a shred loses the content
  when the junk is synced or the file removed, and a loss of power can only
  finish or undo a shred, since of a file that is not under one both copies agree.
- **GeoIp.** An engine may have an old list only while the message that restarts
  it is on its way: `RestartComing` is the three places that message can be
  (result to be sent, message to be posted, message posted), and `GeoInv` is the
  types, what the worker carries at each of its steps, and "the exclusions are
  current or a restart is coming". No step looks into a list, so these theorems
  hold for any registry.
- **What is in a list.** `ListsInv`: every list in a cache, or about to be renamed
  into one, is one edition parsed for the country of its file. The rest is
  arithmetic. `halvings` is defined by recursion, and what a recursive function
  computes for every argument takes an induction, which no prover here can
  instantiate from the library; `LeastNatural` (a nonempty set of naturals has a
  least element, from the well-founded order) does it instead: the least number
  without the property cannot exist. So `HalvingsExist` shows that there is such
  a function, and `HalvingsAreLog` that it is the binary logarithm, rounded
  down. `DoublePower` gets the powers of two as numbers of subsets. Then a block
  is no longer than its row, longer than half of it, and as long for a power of
  two (`BlockOfCount`); it has the row's start in it and reaches back before it
  by less than its own length, `Masked`, so never past the row's end
  (`BlockOfRow`); and that of an aligned row begins where the row does
  (`BlockOfAlignedRow`).
- **Dialog.** `NothingEnteredIsLost` speaks of a closed dialog only.
  `DialogInv` says the same of an open one: what OK would make the settings now
  (`WouldBe`, the settings page read over the working copy) is what the user
  gave last, for every field of both pages. It needs that every control holds a
  text it can have (`ControlsOK`), that `WouldBe` is settings the controls can
  show (`ValueOK`, `HeldValue`: a value that is shown and read comes back), and
  that the working copy is so but for the protocol, the fallback and the
  certificate of a file, which the next reading of the page makes good
  (`WorkingOK`). `OpeningIsHarmless` is then `HeldValue` for every field.
  `ExportIsImport` follows from what is left out of an engine config
  (`Written`): the empty fields, which are empty in a fresh installation too, and
  those of the other listener, which `Present` leaves out again.
- **Wfp.** `FailClosed` is not inductive: half way through an install the
  filters say anything. `WfpInv` says that the filters in force are exactly what
  the calls made so far have added, that a closed session has made none, and
  that a session is open exactly while the switch is on or being installed;
  the verdicts follow from the weights once `added` is complete.
- **Vault.** `VaultInv` adds to the types what each frame on the stack has in
  hand and what is known of the file at each point of the wrapper's life;
  `KeyInv` adds that the settings dialog is the outermost frame and that the
  pointer to the live vault is set while any frame is there. Without the shape
  of the stack the agreement of key and file is not inductive: a flow that
  outlives its dialog would re-key the file alone.

**Only model-checked**: the liveness properties `DeadEngineDealtWith`,
`PlaintextShredded`, `DeadEgressNoticed`, `KsFollowsDrop` and `RefreshEnds`,
because the prover does not treat fairness (`ENABLED`). Every invariant and
action property of the passing runs is a theorem, under the assumption in the
third column where there is one.

## 5. Abstractions, and what is not modelled

- `terminate_pid` is immediate for an adopted process too; the image name and
  the path of the engine do not change between two lives of the wrapper. The
  branch of `status` for an error of `try_wait` (`engine.rs:88`) is left out: it
  cannot fail for a process whose handle is owned.
- In `App` a shred removes the file or leaves it: one that was overwritten and
  not removed holds no credentials and counts as removed. `Files` has the
  primitives, with the overwriting as one of them, while the code writes it in
  pieces of 64 KiB, which no property tells apart.
- In `App` a configuration has one endpoint address and the fields on which
  handlers branch; `Dialog` has one field of each kind; `Wfp` has the addresses.
  Quoting and escaping (`quote`), TOML syntax, `last_error` and all wording and
  drawing are left out.
- In `App` and `Vault` the tick, the restart and a save are each atomic with
  respect to a crash, except for `CrashInStart` and the write and shred of the
  migration. `Files` is what justifies this for the files.
- `Files`: creations, renames and removals are durable in order and at once,
  data when it is synced; data that was not is kept or lost as a whole file. The
  two licence files are left out. One temporary name stands for the name with
  the process id. `settings.enc` may be written before `App::new`, as
  `unlock_or_create` does.
- `GeoIp` keeps of the engine its exclusions only. A comment or a short line of
  the registry is a row of another type. That an exclusion "start/prefix" means
  all addresses with those first bits, host bits in the start ignored, is the
  usual reading and the engine's (external); an engine that refused such an
  entry would make finding 20 a different one. A cache torn by a loss of power is not
  modelled (finding 13).
- `Dialog`: the file picker, the engine path with its Browse button and the
  password button are left out, as is leaving the program from the tray while
  the dialog is open (`App` has it).
- `Wfp`: filters of other programs are left out; the platform decides by the
  heaviest matching filter and removes the filters of a dynamic session when it
  closes, as its documentation says.
- `App` and `Vault` are separate: `saved` in `App` is the contents, `Vault`
  adds keys and dialogs and leaves out the engine.
- A sealed file is its password and contents. Ciphers, salt, nonce, cost
  parameters and damaged files are not modelled.
- `EngineRunsCurrentSettings` is checked without failing saves and config
  writes: after one, the old engine runs on and no document promises otherwise.
- Not modelled: the three URLs of the probe, ACLs (one best-effort call without
  state), the surfacing of the first instance's window, string helpers, build
  and CI.

## 6. Findings

Runs of kind "violation" show 1, 3 and 6; the others follow from the lines
quoted in `PROJECT.json`.

1. **A fatal error can be retried** (`fatal_race`). The tick sees the exit
   before the reader thread delivered the fatal line, calls it a crash, and the
   restart drops the channel with the line in it.
2. **Plaintext stays between sessions.** Exit within the TTL,
   or a crash, leaves the engine config; the next start does not remove it.
3. **An edited endpoint is not permitted** (`ks_endpoint`). An engaged kill
   switch keeps the permits of the endpoint it was engaged for.
4. **The restart budget is never refilled** but by the
   user's own connect and disconnect.
5. **A stranger is supervised and terminated** when the pid of an
   adopted engine is reused.
6. **A password change undoes a save** (`change_password`): contents read
   before the prompts are sealed after them.
7. After a give-up from *Crashed* the window says "recovering" and the first
   click disconnects.
8. A second settings dialog below a password prompt of the first clears the
   pointer to the live vault: the file is re-keyed and the next save is not.
9. A crash between writing `settings.enc` and shredding `settings.toml` leaves
   the plaintext for ever.
10. `refresh_hours` is stored and never read.
11. **The version marker can lie.** It is written whether or not the binaries
    could be; old or torn ones then count as up to date for ever.
12. A write that fails or a wrapper that dies before the rename leaves the
    temporary file, for the engine config with the credentials in it.
13. The geoip cache is renamed without a sync: a loss of power can tear it.
14. `PostMessageW` of the refresh is not checked: if the message is lost, no
    refresh can be started again.
15. A range of addresses that is no power of two is covered only in part; the
    comment says "enclosing". (Rows that are not aligned: 20.)
16. A certificate of more than 8191 characters is cut when the page is read.
17. An imported protocol or log level the lists do not offer becomes the first
    option.
18. OK in the dialog undoes a split toggle made in the tray meanwhile.
19. A wrapper that dies between replacing the cache and restarting the engine
    leaves the adopted engine with the old exclusions.
20. **A row that is not aligned sends foreign addresses direct**: 768 addresses
    from 10.0.1.0 become 10.0.1.0/23, which begins at 10.0.0.0 and ends
    after the row's first third.
21. **A failed shred is not tried again**: the clock is cleared with the config
    still on disk, and it stays until the end of the session or a restart.
22. **Lines of stdout and stderr can overtake each other**: the tracker is then
    wrong until the engine prints again, with the kill switch engaged over a
    working tunnel, or not engaged over a broken one.

## 7. Plan

Done, in this order: `EngineState`, `Watchdog`, `Engine`, `App`, `Vault`,
`Supervision`, `Files`, `GeoIp`, `Dialog`, `Wfp`, each with its proofs where
section 4 lists them. What is left:

1. **The probe** in more detail: three URLs, their order and timeouts.
