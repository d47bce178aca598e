-------------------------------- MODULE Vault --------------------------------
(***************************************************************************)
(* secret.rs and the password side of ui/dialog.rs: how the settings file  *)
(* is unlocked, created, migrated from the plaintext of older versions,    *)
(* saved and re-keyed.                                                     *)
(*                                                                         *)
(* A sealed file is the password that opens it and the contents it holds;  *)
(* salt, nonce and ciphers are abstracted.  Modal dialogs are frames on    *)
(* the stack of the UI thread: the one on top runs the message loop, and a *)
(* dialog below it that was ended returns when it is on top again.  The    *)
(* password prompts have no owner window, so the settings dialog stays     *)
(* enabled below them; so does the tray menu.                              *)
(***************************************************************************)
EXTENDS Naturals, SequencesExt

CONSTANTS Passwords, NoPassword,
          Rests,        \* everything in the settings but the split toggle
          DefaultRest,  \* that of AppConfig::default
          NoFile,
          Unreadable,   \* contents that are no valid configuration
          MaxFrames,    \* bound: modal dialogs on the stack
          Events        \* the optional happenings a run includes, by name

Contents == [split : BOOLEAN, rest : Rests]

Default == [split |-> FALSE, rest |-> DefaultRest]

Sealed == [pw : Passwords, plain : Contents \cup {Unreadable}]

ASSUME VaultAssumption ==
  /\ DefaultRest \in Rests
  /\ NoPassword \notin Passwords
  /\ Unreadable \notin Contents
  /\ NoFile \notin Sealed \cup Contents \cup {Unreadable}
  /\ MaxFrames \in Nat

VARIABLES settings_enc,     \* settings.enc
          legacy,           \* settings.toml of an older version, in plain text
          pc,               \* where the wrapper is in its life
          vault, cfg,       \* App::vault, as its password, and App::cfg
          frames,           \* the modal dialogs on the stack, outermost first
          change_pw_vault   \* CHANGE_PW_VAULT points to the live vault

files == <<settings_enc, legacy>>
memory == <<vault, cfg>>
dialogs == <<frames, change_pw_vault>>
vars == <<files, pc, memory, dialogs>>

\* held: what the code waiting for the dialog has in hand.  "settings": the
\* edited contents; "old": the sealed file as read; "new": the plain contents.
Frame == [kind  : {"settings", "old", "new"},
          ended : {"open", "cancel", "ok"},
          typed : Passwords \cup {NoPassword},
          held  : Sealed \cup Contents]

VaultTypeOK ==
  /\ settings_enc \in Sealed \cup {NoFile}
  /\ legacy \in Contents \cup {Unreadable, NoFile}
  /\ pc \in {"off", "locked", "creating", "shredding", "running"}
  /\ vault \in Passwords \cup {NoPassword}
  /\ cfg \in Contents
  /\ frames \in Seq(Frame) /\ Len(frames) <= MaxFrames
  /\ change_pw_vault \in BOOLEAN

\* Any machine: new, of an older version, or with a file of an earlier run.
Init ==
  /\ settings_enc \in Sealed \cup {NoFile}
  /\ legacy \in {NoFile, Unreadable} \cup {[split |-> FALSE, rest |-> r] : r \in Rests}
  /\ pc = "off"
  /\ vault = NoPassword /\ cfg = Default
  /\ frames = <<>> /\ change_pw_vault = FALSE

-----------------------------------------------------------------------------
(* Unlocking and creating. *)

\* unlock_or_create, up to its first prompt.
Launch ==
  /\ pc = "off"
  /\ pc' = IF settings_enc # NoFile THEN "locked" ELSE "creating"
  /\ UNCHANGED <<files, memory, dialogs>>

\* A mistake: contents that are no configuration are replaced by the defaults.
Unlock_FallsBack ==
  /\ pc = "locked"
  /\ pc' = "running"
  /\ vault' = settings_enc.pw
  /\ cfg' = IF settings_enc.plain = Unreadable THEN Default ELSE settings_enc.plain
  /\ UNCHANGED <<files, dialogs>>

\* The right password; a wrong one leads back to the prompt.
Unlock ==
  /\ pc = "locked"
  /\ IF settings_enc.plain = Unreadable
     THEN pc' = "off" /\ UNCHANGED memory
     ELSE pc' = "running" /\ vault' = settings_enc.pw /\ cfg' = settings_enc.plain
  /\ UNCHANGED <<files, dialogs>>

\* A mistake: what the legacy file holds is not checked.
Migrated_Unchecked == IF legacy # NoFile THEN legacy ELSE Default

Migrated == IF legacy \in Contents THEN legacy ELSE Default

\* A mistake: the legacy file goes before the new one is written.
CreateVault_ShredsFirst(pw) ==
  /\ pc = "creating"
  /\ legacy' = IF legacy = Unreadable THEN legacy ELSE NoFile
  /\ \/ "save_err" \in Events /\ pc' = "off" /\ UNCHANGED <<settings_enc, memory>>
     \/ /\ settings_enc' = [pw |-> pw, plain |-> Migrated]
        /\ vault' = pw /\ cfg' = Migrated /\ pc' = "running"
  /\ UNCHANGED dialogs

\* First run: the password is chosen and the first settings.enc written.
CreateVault(pw) ==
  /\ pc = "creating"
  /\ \/ "save_err" \in Events /\ pc' = "off" /\ UNCHANGED <<settings_enc, memory>>
     \/ /\ settings_enc' = [pw |-> pw, plain |-> Migrated]
        /\ vault' = pw /\ cfg' = Migrated
        /\ pc' = IF legacy \in Contents THEN "shredding" ELSE "running"
  /\ UNCHANGED <<legacy, dialogs>>

ShredLegacy ==
  /\ pc = "shredding"
  /\ legacy' = NoFile /\ pc' = "running"
  /\ UNCHANGED <<settings_enc, memory, dialogs>>

\* The start-up prompt is cancelled, the wrapper exits or dies: nothing is
\* written, and what was in memory is gone.
Quit ==
  /\ pc # "off"
  /\ pc' = "off"
  /\ vault' = NoPassword /\ cfg' = Default
  /\ frames' = <<>> /\ change_pw_vault' = FALSE
  /\ UNCHANGED files

-----------------------------------------------------------------------------
(* Saving, and the settings dialog. *)

\* save_settings for the settings s, which are in memory whether it works or not.
Save(s) ==
  /\ cfg' = s
  /\ \/ settings_enc' = [pw |-> vault, plain |-> s]
     \/ "save_err" \in Events /\ UNCHANGED settings_enc
  /\ UNCHANGED <<legacy, pc, vault>>

\* From the tray menu, which works below any dialog.
ToggleSplit ==
  /\ pc = "running" /\ "split" \in Events
  /\ Save([cfg EXCEPT !.split = ~@])
  /\ UNCHANGED dialogs

Opened(kind, held) ==
  [kind |-> kind, ended |-> "open", typed |-> NoPassword, held |-> held]

\* The main window is disabled by an open settings dialog and enabled again by
\* EndDialog, which can be before the dialog returns.
MainWindowEnabled ==
  /\ pc = "running"
  /\ \A i \in DOMAIN frames : frames[i].kind = "settings" => frames[i].ended # "open"

OpenSettings ==
  /\ MainWindowEnabled /\ Len(frames) < MaxFrames
  /\ frames = <<>> \/ "reopen" \in Events
  /\ frames' = Append(frames, Opened("settings", cfg))
  /\ change_pw_vault' = TRUE
  /\ UNCHANGED <<files, pc, memory>>

\* show_settings returns, to the handler that applies what was edited.
SettingsReturn(f, below) ==
  /\ frames' = below /\ change_pw_vault' = FALSE
  /\ IF f.ended = "ok" THEN Save(f.held) ELSE UNCHANGED <<files, pc, memory>>

-----------------------------------------------------------------------------
(* Changing the password. *)

\* The flow starts from the dialog's button and reads the file first.
ClickChangePassword(i) ==
  /\ frames[i].kind = "settings" /\ frames[i].ended = "open"
  /\ Len(frames) < MaxFrames
  /\ frames' = Append(frames, Opened("old", settings_enc))
  /\ UNCHANGED <<files, pc, memory, change_pw_vault>>

\* A wrong old password ends the flow, the right one leads to the second prompt.
OldPasswordReturn(f, below) ==
  /\ frames' = IF f.ended = "ok" /\ f.typed = f.held.pw
               THEN Append(below, Opened("new", f.held.plain)) ELSE below
  /\ UNCHANGED <<files, pc, memory, change_pw_vault>>

\* A mistake: the live vault keeps the old key.
NewPasswordReturn_VaultKept(f, below) ==
  /\ frames' = below
  /\ settings_enc' = IF f.ended = "ok" THEN [pw |-> f.typed, plain |-> f.held]
                                       ELSE settings_enc
  /\ UNCHANGED <<legacy, pc, memory, change_pw_vault>>

\* The contents read at the start of the flow are sealed with the new password.
NewPasswordReturn(f, below) ==
  /\ frames' = below
  /\ \/ /\ f.ended = "ok"
        /\ settings_enc' = [pw |-> f.typed, plain |-> f.held]
        /\ vault' = IF change_pw_vault THEN f.typed ELSE vault
     \/ /\ f.ended = "ok" => "save_err" \in Events
        /\ UNCHANGED <<settings_enc, vault>>
  /\ UNCHANGED <<legacy, pc, cfg, change_pw_vault>>

-----------------------------------------------------------------------------
(* The stack of modal dialogs. *)

Returns(f, below) ==
  CASE f.kind = "settings" -> SettingsReturn(f, below)
    [] f.kind = "old"      -> OldPasswordReturn(f, below)
    [] f.kind = "new"      -> NewPasswordReturn(f, below)

\* EndDialog: only the dialog on top returns at once.
EndDialog(i, f) ==
  /\ pc = "running"
  /\ frames[i].ended = "open"
  /\ IF i = Len(frames)
     THEN Returns(f, Front(frames))
     ELSE frames' = [frames EXCEPT ![i] = f]
          /\ UNCHANGED <<files, pc, memory, change_pw_vault>>

Cancel(i) == EndDialog(i, [frames[i] EXCEPT !.ended = "cancel"])

\* The edit is read from the controls when OK is pressed.
SettingsOk(i) ==
  /\ frames[i].kind = "settings"
  /\ \E s \in Contents : EndDialog(i, [frames[i] EXCEPT !.ended = "ok", !.held = s])

PasswordOk(i) ==
  /\ frames[i].kind \in {"old", "new"}
  /\ \E pw \in Passwords : EndDialog(i, [frames[i] EXCEPT !.ended = "ok", !.typed = pw])

\* A dialog ended earlier is on top again.  Until it returns, a message box of
\* the flow above it may have run the message loop once more.
Unwind ==
  /\ frames # <<>> /\ Last(frames).ended # "open"
  /\ Returns(Last(frames), Front(frames))

Next ==
  \/ Launch \/ Unlock \/ ShredLegacy \/ Quit
  \/ \E pw \in Passwords : CreateVault(pw)
  \/ ToggleSplit \/ OpenSettings \/ Unwind
  \/ \E i \in DOMAIN frames :
       Cancel(i) \/ SettingsOk(i) \/ PasswordOk(i) \/ ClickChangePassword(i)

VaultSpec == Init /\ [][Next]_vars

-----------------------------------------------------------------------------
(* Properties. *)

\* What a running wrapper saves next can be opened with the password that opens
\* the file now, however password changes, edits and failed saves overlap
\* (dialog.rs: later saves use the new password).
VaultOpensFile == pc = "running" => settings_enc # NoFile /\ settings_enc.pw = vault

\* A file that decrypts to something other than settings is never overwritten,
\* by whatever the wrapper does afterwards (dialog.rs: do not fall back to
\* defaults).
UnreadableFileKept ==
  [][settings_enc # NoFile /\ settings_enc.plain = Unreadable
       => settings_enc' = settings_enc]_vars

\* Settings of an older version are on disk, in one file or the other, at every
\* moment of the migration, with failed writes and crashes in between.
LegacyNotLost ==
  [][legacy # NoFile /\ legacy # Unreadable /\ legacy' # legacy
       => settings_enc' # NoFile /\ settings_enc'.plain = legacy]_vars

\* dialog.rs: a change of password re-seals the persisted settings.  It never
\* changes what the file holds.
PasswordChangeKeepsSettings ==
  [][pc = "running" /\ settings_enc'.pw # settings_enc.pw
       => settings_enc'.plain = settings_enc.plain]_vars
=============================================================================
