------------------------------- MODULE Dialog -------------------------------
(***************************************************************************)
(* The settings dialog (ui/dialog.rs): its two pages, the working copy of  *)
(* the settings they edit, the import of an exported config (import.rs),   *)
(* and the engine config that is rendered from the result (toml_writer.rs).*)
(*                                                                         *)
(* A setting is a value of a field.  There is one field of every way in    *)
(* which a page shows and reads one; the others are treated like one of    *)
(* these.  A control holds a text; "junk" is a text that is no number, and *)
(* "long" a certificate that get_text cuts off.                            *)
(***************************************************************************)
EXTENDS Naturals, FiniteSets

CONSTANTS Inputs,       \* the texts the user may leave in the control of a field
          ImportFiles,  \* exported configs the user may import
          MaxEdits      \* bound on edits and imports

SettingsPage == {"certificate", "protocol", "fallback", "split",
                 "refresh_hours", "killswitch"}
AdvancedPage == {"listener_mode", "socks_address", "mtu_size", "ports"}
Fields == SettingsPage \cup AdvancedPage

\* Fields of the engine config, without the name of the listener.
EngineFields == Fields \ {"split", "refresh_hours", "listener_mode"}

ASSUME DialogAssumption ==
  /\ DOMAIN Inputs = Fields
  /\ MaxEdits \in Nat

-----------------------------------------------------------------------------
(* The controls. *)

Refused == "refused"

Trim(text) == IF text = " pem" THEN "pem" ELSE text

\* The options of a drop-down list, the first one first.
Options(f) == CASE f = "protocol" -> <<"http2", "http3">>
                [] f = "fallback" -> <<"(none)", "http2", "http3">>
                [] f = "listener_mode" -> <<"tun", "socks">>
                [] OTHER -> <<>>

Offered(f) == {Options(f)[i] : i \in DOMAIN Options(f)}

\* What the control of f shows for a value: a list that does not offer it shows
\* its first option.
Shown(f, value) ==
  LET text == IF f = "fallback" /\ value = "" THEN "(none)" ELSE value IN
  IF Options(f) # <<>> /\ text \notin Offered(f) THEN Options(f)[1] ELSE text

\* A mistake: a number is taken as it is.
Parsed_Unchecked(f, text) ==
  CASE f = "fallback" /\ text = "(none)" -> ""
    [] f = "certificate" -> IF text = "long" THEN "cut" ELSE Trim(text)
    [] f = "ports" /\ text = "junk" -> ""
    [] f = "socks_address" /\ text = "" -> Refused
    [] OTHER -> text

\* The value that is read from a control, or that the old one is kept.
Parsed(f, text) ==
  CASE f = "fallback" /\ text = "(none)" -> ""
    [] f = "certificate" -> IF text = "long" THEN "cut" ELSE Trim(text)
    [] f = "refresh_hours" /\ text = "0" -> "1"
    [] f \in {"refresh_hours", "mtu_size"} /\ text = "junk" -> Refused
    [] f = "ports" /\ text = "junk" -> ""
    [] f = "socks_address" /\ text = "" -> Refused
    [] OTHER -> text

\* A mistake: the list of fallbacks is set from the other protocol.
populate_Twice(fields, c) ==
  [f \in fields |-> IF f = "fallback" THEN Shown(f, c["protocol"]) ELSE Shown(f, c[f])]

\* populate_settings and populate_advanced.
populate(fields, c) == [f \in fields |-> Shown(f, c[f])]

\* read_settings and read_advanced.
read(controls, c) ==
  [f \in Fields |-> IF f \in DOMAIN controls /\ Parsed(f, controls[f]) # Refused
                    THEN Parsed(f, controls[f]) ELSE c[f]]

-----------------------------------------------------------------------------
(* The engine config: the listeners that have a section, and the fields. *)

\* A field that is empty or of the other listener is left out.
render(c) ==
  [listeners |-> {IF c["listener_mode"] = "socks" THEN "socks" ELSE "tun"},
   fields |-> [f \in {f \in EngineFields :
                        CASE f \in {"certificate", "fallback", "ports"} -> c[f] # ""
                          [] f = "socks_address" -> c["listener_mode"] = "socks"
                          [] f = "mtu_size" -> c["listener_mode"] # "socks"
                          [] OTHER -> TRUE}
                 |-> Trim(c[f])]]

\* Socks wins when a file has both listeners.
Listener(file) == CASE "socks" \in file.listeners -> "socks"
                    [] "tun" \in file.listeners -> "tun"
                    [] OTHER -> "none"

\* The fields a file has a value for: those of a listener only in its section.
Present(file) ==
  DOMAIN file.fields
    \ ((IF Listener(file) = "socks" THEN {} ELSE {"socks_address"})
         \cup (IF Listener(file) = "tun" THEN {} ELSE {"mtu_size"}))

\* A mistake: the listener of the file is not adopted.
import_into_KeepsMode(file, c) ==
  [f \in Fields |-> IF f \in Present(file) THEN Trim(file.fields[f]) ELSE c[f]]

\* Only what is present overwrites.
import_into(file, c) ==
  [f \in Fields |->
     CASE f \in Present(file) -> Trim(file.fields[f])
       [] f = "listener_mode" /\ Listener(file) # "none" -> Listener(file)
       [] OTHER -> c[f]]

\* A list is not editable, and only the fields of ImportedToml are read from a
\* file, of which mtu_size and the ports are numbers.  Refused is no text.
ASSUME InputAssumption ==
  /\ \A f \in Fields : /\ Options(f) # <<>> => Inputs[f] \subseteq Offered(f)
                       /\ Refused \notin Inputs[f]
  /\ \A file \in ImportFiles :
       /\ DOMAIN file.fields \subseteq EngineFields
       /\ \A f \in DOMAIN file.fields :
            file.fields[f] \notin IF f \in {"mtu_size", "ports"} THEN {"junk", Refused}
                                 ELSE {Refused}

DefaultConfig ==
  [certificate |-> "", protocol |-> "http2", fallback |-> "", split |-> "off",
   refresh_hours |-> "24", killswitch |-> "on", listener_mode |-> "tun",
   socks_address |-> "1080", mtu_size |-> "1280", ports |-> ""]

-----------------------------------------------------------------------------
VARIABLES cfg,       \* the settings of the App
          dlg,       \* which page is in front, or "closed"
          working,   \* the copy the dialog edits
          page,      \* the controls of the settings page
          advanced,  \* the controls of the advanced page
          meant,     \* for each field, what the user gave last (history)
          edits      \* edits and imports so far

dialogVars == <<cfg, dlg, working, page, advanced, meant, edits>>

\* A dialog that is closed has nothing of its own.
Closed(c) == /\ dlg' = "closed" /\ working' = c
             /\ page' = populate(SettingsPage, c)
             /\ advanced' = populate(AdvancedPage, c)

DialogInit ==
  /\ cfg = DefaultConfig /\ dlg = "closed" /\ working = cfg
  /\ page = populate(SettingsPage, cfg)
  /\ advanced = populate(AdvancedPage, cfg)
  /\ meant = cfg /\ edits = 0

\* One more edit or import.
Edit == edits < MaxEdits /\ edits' = edits + 1

\* What a text or an imported value means: nothing certain if the dialog has no
\* way to keep it.
Unheld == "unheld"

Meaning(f, text) ==
  IF Parsed(f, text) = Refused \/ text = "long" THEN Unheld ELSE Parsed(f, text)

MeaningOfImport(f, value) ==
  IF value = "long" \/ (Options(f) # <<>> /\ value \notin {Parsed(f, o) : o \in Offered(f)})
  THEN Unheld ELSE Trim(value)

-----------------------------------------------------------------------------
(* The settings page. *)

OpenSettings ==
  /\ dlg = "closed"
  /\ dlg' = "settings"
  /\ working' = cfg /\ page' = populate(SettingsPage, cfg)
  /\ meant' = cfg
  /\ UNCHANGED <<cfg, advanced, edits>>

Type ==
  /\ dlg = "settings" /\ Edit
  /\ \E f \in SettingsPage : \E text \in Inputs[f] :
       /\ page' = [page EXCEPT ![f] = text]
       /\ meant' = [meant EXCEPT ![f] = Meaning(f, text)]
  /\ UNCHANGED <<cfg, dlg, working, advanced>>

\* The fields a file sets, as the user means them.
GivenBy(file) ==
  [f \in Fields |->
     IF f = "listener_mode" /\ Listener(file) # "none" THEN Listener(file)
     ELSE IF f \in Present(file) THEN MeaningOfImport(f, file.fields[f])
     ELSE meant[f]]

\* A mistake: the file is merged into the copy as it is.
Import_WithoutReading ==
  /\ dlg = "settings" /\ Edit
  /\ \E file \in ImportFiles :
       /\ working' = import_into(file, working)
       /\ page' = populate(SettingsPage, working')
       /\ meant' = GivenBy(file)
  /\ UNCHANGED <<cfg, dlg, advanced>>

\* IDC_IMPORT: the page is read before the file is merged.
Import ==
  /\ dlg = "settings" /\ Edit
  /\ \E file \in ImportFiles :
       /\ working' = import_into(file, read(page, working))
       /\ page' = populate(SettingsPage, working')
       /\ meant' = GivenBy(file)
  /\ UNCHANGED <<cfg, dlg, advanced>>

\* A file that is no TOML: the page has been read and stays as it is.
ImportFails ==
  /\ dlg = "settings"
  /\ working' = read(page, working)
  /\ UNCHANGED <<cfg, dlg, page, advanced, meant, edits>>

\* IDC_ADVANCED: the page is read first.
OpenAdvanced ==
  /\ dlg = "settings"
  /\ dlg' = "advanced"
  /\ working' = read(page, working)
  /\ advanced' = populate(AdvancedPage, working')
  /\ UNCHANGED <<cfg, page, meant, edits>>

Ok ==
  /\ dlg = "settings"
  /\ cfg' = read(page, working)
  /\ Closed(cfg')
  /\ UNCHANGED <<meant, edits>>

Cancel ==
  /\ dlg = "settings"
  /\ meant' = cfg /\ Closed(cfg)
  /\ UNCHANGED <<cfg, edits>>

-----------------------------------------------------------------------------
(* The advanced page, modal over the settings page. *)

TypeAdvanced ==
  /\ dlg = "advanced" /\ Edit
  /\ \E f \in AdvancedPage : \E text \in Inputs[f] :
       advanced' = [advanced EXCEPT ![f] = text]
  /\ UNCHANGED <<cfg, dlg, working, page, meant>>

\* A control that still shows what was given means the same as before.
AdvancedOk ==
  /\ dlg = "advanced"
  /\ dlg' = "settings"
  /\ working' = read(advanced, working)
  /\ meant' = [f \in Fields |-> IF f \in AdvancedPage THEN Meaning(f, advanced[f])
                                ELSE meant[f]]
  /\ UNCHANGED <<cfg, page, advanced, edits>>

AdvancedCancel ==
  /\ dlg = "advanced"
  /\ dlg' = "settings"
  /\ UNCHANGED <<cfg, working, page, advanced, meant, edits>>

-----------------------------------------------------------------------------
\* The split toggle of the tray menu works while the dialog is open, and the
\* dialog does not hear of it.
TraySplit ==
  /\ Edit
  /\ cfg' = [cfg EXCEPT !["split"] = IF @ = "on" THEN "off" ELSE "on"]
  /\ IF dlg = "closed" THEN meant' = cfg' /\ Closed(cfg')
     ELSE UNCHANGED <<dlg, working, page, advanced, meant>>

DialogNext ==
  \/ OpenSettings \/ Type \/ Import \/ ImportFails \/ OpenAdvanced \/ Ok \/ Cancel
  \/ TypeAdvanced \/ AdvancedOk \/ AdvancedCancel
  \/ TraySplit

DialogSpec == DialogInit /\ [][DialogNext]_dialogVars

-----------------------------------------------------------------------------
(* Properties. *)

\* The settings hold options the lists offer, numbers that are numbers, a
\* refresh that is at least hourly, and a trimmed certificate.
DialogTypeOK ==
  /\ dlg \in {"closed", "settings", "advanced"} /\ edits \in 0 .. MaxEdits
  /\ DOMAIN cfg = Fields /\ DOMAIN working = Fields /\ DOMAIN meant = Fields
  /\ DOMAIN page = SettingsPage /\ DOMAIN advanced = AdvancedPage
  /\ cfg["protocol"] \in Offered("protocol")
  /\ cfg["fallback"] \in (Offered("fallback") \ {"(none)"}) \cup {""}
  /\ cfg["listener_mode"] \in Offered("listener_mode")
  /\ cfg["refresh_hours"] \notin {"0", "junk"}
  /\ "junk" \notin {cfg["mtu_size"], cfg["ports"]}
  /\ cfg["certificate"] \notin {" pem", "long"}

\* When the dialog was left with OK, every setting is what the user last typed,
\* picked or imported for it, on either page and in any order, and a setting the
\* user gave nothing for is the one it had: "read current edits first so import
\* merges over them", "an import/round-trip does not clobber them" (dialog.rs).
\* What no control can keep is left aside.
NothingEnteredIsLost ==
  dlg = "closed" => \A f \in Fields : meant[f] \in {cfg[f], Unheld}

\* Opening the dialog and leaving it with OK changes no setting, the advanced
\* page included.
OpeningIsHarmless ==
  LET again == read(populate(SettingsPage, cfg), cfg) IN
  /\ again = cfg
  /\ read(populate(AdvancedPage, again), again) = cfg

\* The engine config that is written for the settings, imported into a fresh
\* installation, gives that engine config again (import.rs: "the endpoint
\* exports exactly this schema").
ExportIsImport == render(import_into(render(cfg), DefaultConfig)) = render(cfg)
=============================================================================
