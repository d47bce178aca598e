------------------------------- MODULE Files -------------------------------
(***************************************************************************)
(* The files the UI thread writes, call by call: toml_writer.rs            *)
(* (write_atomic), shred.rs, and the extraction of the embedded engine in  *)
(* bootstrap.rs, under a wrapper that dies, a machine that loses power and *)
(* calls that fail.                                                        *)
(*                                                                         *)
(* An operation is the sequence of its calls, and a call the sequence of   *)
(* its file system primitives; a primitive that fails ends its call, and   *)
(* the operation goes on with the next one, as each of the three does.     *)
(*                                                                         *)
(* The file system (external) makes creations, renames and removals        *)
(* durable in order and at once, data when it is synced or later.          *)
(***************************************************************************)
EXTENDS Naturals, Sequences

CONSTANTS Values,      \* contents of the engine config and of settings.enc
          NoFile,
          Torn,        \* less than was to be written
          Junk,        \* random bytes over the old content
          MaxVersion,  \* bound: releases of the wrapper
          FileEvents   \* the optional happenings a run includes, by name

ASSUME FilesAssumption ==
  /\ MaxVersion \in Nat \ {0}
  /\ {NoFile, Torn, Junk} \cap (Values \cup Nat) = {}
  /\ NoFile \notin {Torn, Junk} /\ Torn # Junk

\* ENGINE_VERSION, which stands for the binaries of its release too.
Versions == 1 .. MaxVersion

AtomicFiles == {"config", "settings"}     \* trusttunnel_client.toml, settings.enc
Binaries == {"exe", "wintun"}
Names == AtomicFiles \cup {"tmp", "marker"} \cup Binaries

VARIABLES disk,     \* what a reader of each file finds now
          medium,   \* what is certain to survive a loss of power
          ui,       \* the operation the UI thread is in: calls to make,
                    \* target and bytes
          running,  \* the release of the wrapper that runs, or 0
          unlocked, \* it has got as far as App::new
          version,  \* the release that is installed
          held,     \* an engine process keeps its executable open
          spoilt    \* history: a write of a binary failed or was lost since the
                    \* marker last named another release

fsVars == <<disk, medium>>
wrapperVars == <<running, unlocked, version>>
filesVars == <<fsVars, ui, wrapperVars, held, spoilt>>

Idle == [calls |-> <<>>, path |-> "tmp", bytes |-> NoFile]
Busy == ui.calls # <<>>

FilesInit ==
  /\ disk = [f \in Names |-> NoFile] /\ medium = disk
  /\ ui = Idle
  /\ running = 0 /\ unlocked = FALSE /\ version = 1
  /\ held = FALSE /\ spoilt = FALSE

-----------------------------------------------------------------------------
(* The operations, as the calls they make. *)

Op(name, f) == [op |-> name, file |-> f]

\* A mistake: the data is not forced to the disk before the rename.
write_atomic_Unsynced(f) ==
  << <<Op("create", "tmp"), Op("write", "tmp"), Op("rename", f)>> >>

write_atomic(f) ==
  << <<Op("create", "tmp"), Op("write", "tmp"), Op("sync", "tmp"), Op("rename", f)>> >>

shred_file(f) == << <<Op("overwrite", f), Op("sync", f)>>, <<Op("remove", f)>> >>

fs_write(f) == <<Op("create", f), Op("write", f)>>

\* A mistake: the marker is written first.
extraction_MarkerFirst == <<fs_write("marker"), fs_write("exe"), fs_write("wintun")>>

\* The licence files in between are left out.
extraction == <<fs_write("exe"), fs_write("wintun"), fs_write("marker")>>

up_to_date(v) ==
  /\ \A f \in Binaries : disk[f] # NoFile
  /\ disk["marker"] = v

-----------------------------------------------------------------------------
(* The primitives. *)

call == Head(ui.calls)
op == Head(call)

\* disk and medium after op.
Effect ==
  LET f == op.file IN
  CASE op.op = "create" ->
         /\ disk' = [disk EXCEPT ![f] = Torn] /\ medium' = [medium EXCEPT ![f] = Torn]
    [] op.op = "write" ->
         disk' = [disk EXCEPT ![f] = ui.bytes] /\ UNCHANGED medium
    [] op.op = "sync" ->
         medium' = [medium EXCEPT ![f] = disk[f]] /\ UNCHANGED disk
    [] op.op = "rename" ->
         /\ disk' = [disk EXCEPT ![f] = disk["tmp"], !["tmp"] = NoFile]
         /\ medium' = [medium EXCEPT ![f] = medium["tmp"], !["tmp"] = NoFile]
    [] op.op = "overwrite" ->
         /\ disk' = [disk EXCEPT ![f] = IF @ = NoFile THEN NoFile ELSE Junk]
         /\ UNCHANGED medium
    [] op.op = "remove" ->
         /\ disk' = [disk EXCEPT ![f] = NoFile] /\ medium' = [medium EXCEPT ![f] = NoFile]

GoOn(calls) == ui' = IF calls = <<>> THEN Idle ELSE [ui EXCEPT !.calls = calls]

\* An executable that runs cannot be opened for writing.
Locked == op = Op("create", "exe") /\ held

Succeeds ==
  /\ Busy /\ ~Locked
  /\ Effect
  /\ GoOn(IF Len(call) = 1 THEN Tail(ui.calls) ELSE <<Tail(call)>> \o Tail(ui.calls))
  /\ UNCHANGED <<wrapperVars, held, spoilt>>

\* What a failed primitive leaves; a failed rename is followed by an attempt to
\* remove the temporary file.
FailedEffect ==
  \/ UNCHANGED fsVars
  \/ /\ op.op = "rename"
     /\ disk' = [disk EXCEPT !["tmp"] = NoFile]
     /\ medium' = [medium EXCEPT !["tmp"] = NoFile]

Fails ==
  /\ Busy /\ (Locked \/ "disk_err" \in FileEvents)
  /\ FailedEffect
  /\ GoOn(Tail(ui.calls))
  /\ spoilt' = (spoilt \/ op.file \in Binaries)
  /\ UNCHANGED <<wrapperVars, held>>

-----------------------------------------------------------------------------
(* Who asks for the operations. *)

Begin(calls, path, bytes) ==
  /\ running # 0 /\ ~Busy
  /\ ui' = [calls |-> calls, path |-> path, bytes |-> bytes]
  /\ UNCHANGED <<fsVars, wrapperVars, held, spoilt>>

\* write_engine_config, save_settings, and the vault's own writes, the first of
\* which precede App::new.
Write(f, v) ==
  /\ f = "settings" \/ unlocked
  /\ Begin(write_atomic(f), f, v)

\* A mistake: settings.enc is shredded with it.
Shred_Both ==
  unlocked /\ \E f \in AtomicFiles : Begin(shred_file(f), f, NoFile)

\* The engine config is shredded by disconnect, a give-up and the TTL.
Shred == unlocked /\ Begin(shred_file("config"), "config", NoFile)

Launch ==
  /\ running = 0
  /\ running' = version
  /\ UNCHANGED <<fsVars, ui, unlocked, version, held, spoilt>>

\* App::new: an engine set in the settings is taken as it is, otherwise
\* ensure_engine comes first.
Unlock ==
  /\ running # 0 /\ ~unlocked /\ ~Busy
  /\ unlocked' = TRUE
  /\ \/ ui' = Idle /\ UNCHANGED spoilt
     \/ /\ ui' = IF up_to_date(version) THEN Idle
                ELSE [calls |-> extraction, path |-> "marker", bytes |-> version]
        /\ spoilt' = (spoilt /\ disk["marker"] = version)
  /\ UNCHANGED <<fsVars, running, version, held>>

Upgrade ==
  /\ running = 0 /\ version < MaxVersion
  /\ version' = version + 1
  /\ UNCHANGED <<fsVars, ui, running, unlocked, held, spoilt>>

\* The engine outlives a wrapper that dies.
EngineStarts ==
  /\ unlocked /\ ~Busy /\ ~held
  /\ disk["exe"] \in Versions
  /\ held' = TRUE
  /\ UNCHANGED <<fsVars, ui, wrapperVars, spoilt>>

EngineExits ==
  /\ held /\ held' = FALSE
  /\ UNCHANGED <<fsVars, ui, wrapperVars, spoilt>>

\* The wrapper exits or dies, at whatever primitive it was.
Dies ==
  /\ running # 0
  /\ running' = 0 /\ unlocked' = FALSE /\ ui' = Idle
  /\ UNCHANGED <<fsVars, version, held, spoilt>>

\* Data that was not synced may have reached the disk or not.
PowerLoss ==
  /\ "power_loss" \in FileEvents
  /\ \E survives \in SUBSET {f \in Names : disk[f] # medium[f]} :
       disk' = [f \in Names |-> IF f \in survives THEN disk[f] ELSE medium[f]]
  /\ medium' = disk'
  /\ spoilt' = (spoilt \/ \E f \in Binaries : disk'[f] # disk[f])
  /\ running' = 0 /\ unlocked' = FALSE /\ ui' = Idle /\ held' = FALSE
  /\ UNCHANGED version

FilesNext ==
  \/ \E f \in AtomicFiles, v \in Values : Write(f, v)
  \/ Shred
  \/ Succeeds \/ Fails
  \/ Launch \/ Unlock \/ Upgrade \/ EngineStarts \/ EngineExits
  \/ Dies \/ PowerLoss

FilesSpec == FilesInit /\ [][FilesNext]_filesVars

-----------------------------------------------------------------------------
(* Properties. *)

\* Every file holds what belongs there: the vaults no binaries, and only the
\* engine config is ever overwritten with junk; an operation is at most three
\* calls of at most four primitives.
FilesTypeOK ==
  /\ \A view \in {disk, medium} :
       /\ DOMAIN view = Names
       /\ view["config"] \in Values \cup {NoFile, Torn, Junk}
       /\ \A f \in {"settings", "tmp"} : view[f] \in Values \cup {NoFile, Torn}
       /\ \A f \in Binaries \cup {"marker"} : view[f] \in Versions \cup {NoFile, Torn}
  /\ ui.path \in Names /\ ui.bytes \in Values \cup Versions \cup {NoFile}
  /\ Len(ui.calls) <= 3
  /\ \A i \in DOMAIN ui.calls : Len(ui.calls[i]) \in 1 .. 4
  /\ running \in {0, version} /\ version \in Versions
  /\ unlocked \in BOOLEAN /\ (unlocked => running # 0)
  /\ held \in BOOLEAN /\ spoilt \in BOOLEAN

\* What a reader makes of a file.  Overwritten, it still counts as its old
\* content as long as a loss of power can bring that back.
ContentOf(f) ==
  IF disk[f] # Junk THEN disk[f]
  ELSE IF medium[f] = Junk THEN NoFile ELSE medium[f]

RequestFor(f) == IF Busy /\ ui.path = f THEN ui.bytes ELSE NoFile

Config == INSTANCE AtomicFile WITH
  content <- ContentOf("config"), request <- RequestFor("config"),
  fading <- disk["config"] = Junk

Sealed == INSTANCE AtomicFile WITH
  content <- ContentOf("settings"), request <- RequestFor("settings"),
  fading <- disk["settings"] = Junk

\* Wherever the wrapper dies, the power goes or a call fails, the engine config
\* and settings.enc hold what was last written to them or nothing, never a part
\* of it (toml_writer.rs, write_atomic).
WritesAreAtomic == Config!Spec /\ Sealed!Spec

\* The version marker vouches for both binaries: wherever the wrapper dies in
\* an extraction, and over any upgrades, a marker of the running release means
\* binaries of that release when ensure_engine is done, unless a write of them
\* failed or was lost (bootstrap.rs).
MarkerVouches ==
  unlocked /\ ~Busy /\ ~spoilt /\ disk["marker"] = running =>
    \A f \in Binaries : disk[f] = running
=============================================================================
