---------------------------- MODULE DialogProofs ----------------------------
(***************************************************************************)
(* Theorems about the settings dialog, for any texts the user may leave in *)
(* a control, any imported files and any number of edits.                  *)
(***************************************************************************)
EXTENDS Dialog, TLAPS

-----------------------------------------------------------------------------
(* The controls. *)

LEMMA OptionsAre ==
  /\ \A f \in Fields \ {"protocol", "fallback", "listener_mode"} : Options(f) = <<>>
  /\ \A f \in {"protocol", "fallback", "listener_mode"} : Options(f) # <<>>
  /\ Options("protocol")[1] = "http2" /\ Options("fallback")[1] = "(none)"
  /\ Options("listener_mode")[1] = "tun"
BY DEF Options

LEMMA OfferedAre ==
  /\ Offered("protocol") = {"http2", "http3"}
  /\ Offered("fallback") = {"(none)", "http2", "http3"}
  /\ Offered("listener_mode") = {"tun", "socks"}
<1>1. Offered("protocol") = {<<"http2", "http3">>[i] : i \in 1 .. 2}
  BY DEF Offered, Options
<1>2. Offered("fallback") = {<<"(none)", "http2", "http3">>[i] : i \in 1 .. 3}
  BY DEF Offered, Options
<1>3. Offered("listener_mode") = {<<"tun", "socks">>[i] : i \in 1 .. 2}
  BY DEF Offered, Options
<1>4. 1 .. 2 = {1, 2} /\ 1 .. 3 = {1, 2, 3}
  OBVIOUS
<1> QED
  BY <1>1, <1>2, <1>3, <1>4

LEMMA ShownIs ==
  ASSUME NEW f \in Fields, NEW v
  PROVE  Shown(f, v) = IF f = "protocol" /\ v \notin {"http2", "http3"} THEN "http2"
                       ELSE IF f = "fallback" /\ v \notin {"http2", "http3"} THEN "(none)"
                       ELSE IF f = "listener_mode" /\ v \notin {"tun", "socks"} THEN "tun"
                       ELSE v
<1>1. CASE f \in {"protocol", "fallback", "listener_mode"}
  BY <1>1, OptionsAre, OfferedAre DEF Shown
<1>2. CASE f \notin {"protocol", "fallback", "listener_mode"}
  BY <1>2, OptionsAre DEF Shown
<1> QED
  BY <1>1, <1>2

\* A text the control of f can have.
TextOK(f, text) == text # Refused /\ (Options(f) # <<>> => text \in Offered(f))

\* A value that the control of f can hold: showing it and reading it again
\* gives it back.
ValueOK(f, v) ==
  /\ v # Refused
  /\ f = "protocol" => v \in {"http2", "http3"}
  /\ f = "fallback" => v \in {"", "http2", "http3"}
  /\ f = "listener_mode" => v \in {"tun", "socks"}
  /\ f = "certificate" => v \notin {" pem", "long"}
  /\ f = "refresh_hours" => v \notin {"0", "junk"}
  /\ f \in {"mtu_size", "ports"} => v # "junk"

\* Of an imported value the working copy takes more.
WorkingValueOK(f, v) ==
  v # Refused /\ (f \notin {"protocol", "fallback", "certificate"} => ValueOK(f, v))

\* What is read is a value the control can hold, and only three fields refuse.
LEMMA ParsedIsOK ==
  ASSUME NEW f \in Fields, NEW text, TextOK(f, text)
  PROVE  /\ Parsed(f, text) = Refused => f \in {"refresh_hours", "mtu_size", "socks_address"}
         /\ Parsed(f, text) # Refused => ValueOK(f, Parsed(f, text))
<1>1. CASE f \in {"protocol", "fallback", "listener_mode"}
  <2>1. text \in Offered(f)
    BY <1>1, OptionsAre DEF TextOK
  <2> QED
    BY <1>1, <2>1, OfferedAre DEF ValueOK, Parsed, Refused
<1>2. CASE f = "certificate"
  <2>1. Parsed(f, text) = IF text = "long" THEN "cut" ELSE Trim(text)
    BY <1>2 DEF Parsed
  <2> QED
    BY <1>2, <2>1 DEF TextOK, ValueOK, Trim, Refused
<1>3. CASE f \in {"refresh_hours", "mtu_size", "ports", "socks_address"}
  BY <1>3 DEF TextOK, ValueOK, Parsed, Refused
<1>4. CASE f \in {"split", "killswitch"}
  BY <1>4 DEF TextOK, ValueOK, Parsed, Refused
<1> QED
  BY <1>1, <1>2, <1>3, <1>4 DEF Fields, SettingsPage, AdvancedPage

LEMMA ShownIsOK ==
  ASSUME NEW f \in Fields, NEW v, v # Refused
  PROVE  TextOK(f, Shown(f, v))
BY ShownIs, OptionsAre, OfferedAre DEF TextOK, Refused

LEMMA HeldValue ==
  ASSUME NEW f \in Fields, NEW v, ValueOK(f, v)
  PROVE  Parsed(f, Shown(f, v)) \in {Refused, v}
<1>1. CASE f \in {"protocol", "fallback", "listener_mode"}
  <2>1. Shown(f, v) = IF f = "fallback" /\ v = "" THEN "(none)" ELSE v
    BY <1>1, ShownIs DEF ValueOK
  <2> QED
    BY <1>1, <2>1 DEF Parsed, ValueOK
<1>2. CASE f \notin {"protocol", "fallback", "listener_mode"}
  <2>1. Shown(f, v) = v
    BY <1>2, ShownIs
  <2>2. CASE f = "certificate"
    <3>1. Parsed(f, v) = IF v = "long" THEN "cut" ELSE Trim(v)
      BY <2>2 DEF Parsed
    <3> QED
      BY <2>1, <2>2, <3>1 DEF Trim, ValueOK
  <2>3. CASE f # "certificate"
    BY <1>2, <2>1, <2>3 DEF Parsed, ValueOK
  <2> QED
    BY <2>2, <2>3
<1> QED
  BY <1>1, <1>2

\* The values a drop-down list can be read as.
LEMMA ParsedOptions ==
  ASSUME NEW f \in Fields, Options(f) # <<>>, NEW v \in {Parsed(f, o) : o \in Offered(f)}
  PROVE  ValueOK(f, v)
<1>1. f \in {"protocol", "fallback", "listener_mode"}
  BY OptionsAre
<1> QED
  BY <1>1, OfferedAre DEF Parsed, Trim, ValueOK, Refused

-----------------------------------------------------------------------------
(* Settings as a whole. *)

IsSettings(c) == c = [f \in Fields |-> c[f]]

SettingsOK(c) == IsSettings(c) /\ \A f \in Fields : ValueOK(f, c[f])

WorkingOK(c) == IsSettings(c) /\ \A f \in Fields : WorkingValueOK(f, c[f])

ControlsOK(fields, controls) ==
  DOMAIN controls = fields /\ \A f \in fields : TextOK(f, controls[f])

LEMMA SettingsAreWorking ==
  ASSUME NEW c, SettingsOK(c)
  PROVE  WorkingOK(c)
BY DEF SettingsOK, WorkingOK, WorkingValueOK, ValueOK

LEMMA Pages ==
  /\ Fields = SettingsPage \cup AdvancedPage /\ SettingsPage \cap AdvancedPage = {}
  /\ {"protocol", "fallback", "certificate", "refresh_hours"} \subseteq SettingsPage
  /\ {"listener_mode", "socks_address", "mtu_size", "ports"} \subseteq AdvancedPage
  /\ EngineFields \subseteq Fields \ {"split", "refresh_hours", "listener_mode"}
BY DEF Fields, SettingsPage, AdvancedPage, EngineFields

LEMMA PopulateOK ==
  ASSUME NEW c, WorkingOK(c), NEW fields \in SUBSET Fields
  PROVE  ControlsOK(fields, populate(fields, c))
<1>1. ASSUME NEW f \in fields PROVE TextOK(f, Shown(f, c[f]))
  BY ShownIsOK DEF WorkingOK, WorkingValueOK
<1> QED
  BY <1>1 DEF ControlsOK, populate

\* Reading the settings page gives settings, and reading the advanced page a
\* working copy.
LEMMA ReadOK ==
  ASSUME NEW c, WorkingOK(c), NEW fields \in SUBSET Fields, NEW controls,
         ControlsOK(fields, controls)
  PROVE  /\ WorkingOK(read(controls, c))
         /\ SettingsPage \subseteq fields => SettingsOK(read(controls, c))
<1> DEFINE r == read(controls, c)
<1>1. IsSettings(r)
  BY DEF read, IsSettings
<1>2. ASSUME NEW f \in Fields
      PROVE  /\ f \notin fields => r[f] = c[f]
             /\ f \in fields => r[f] = IF Parsed(f, controls[f]) # Refused
                                       THEN Parsed(f, controls[f]) ELSE c[f]
  BY DEF read, ControlsOK
<1> HIDE DEF r
<1>3. ASSUME NEW f \in Fields, f \in fields
      PROVE  /\ ValueOK(f, r[f]) \/ r[f] = c[f]
             /\ f \in {"protocol", "fallback", "certificate"} => ValueOK(f, r[f])
  <2>1. TextOK(f, controls[f])
    BY <1>3 DEF ControlsOK
  <2> QED
    BY <1>2, <1>3, <2>1, ParsedIsOK
<1>4. ASSUME NEW f \in Fields PROVE WorkingValueOK(f, r[f])
  BY <1>2, <1>3 DEF WorkingOK, WorkingValueOK, ValueOK
<1>5. ASSUME SettingsPage \subseteq fields, NEW f \in Fields PROVE ValueOK(f, r[f])
  BY <1>3, <1>4, <1>5, Pages DEF WorkingValueOK
<1> QED
  BY <1>1, <1>4, <1>5 DEF WorkingOK, SettingsOK, r

\* What a page reads.
LEMMA ReadIs ==
  ASSUME NEW c, NEW controls, NEW f \in Fields
  PROVE  read(controls, c)[f] = IF f \in DOMAIN controls /\ Parsed(f, controls[f]) # Refused
                                THEN Parsed(f, controls[f]) ELSE c[f]
BY DEF read

\* A value that is held survives being shown and read.
LEMMA HeldSetting ==
  ASSUME NEW c, NEW fields \in SUBSET Fields, NEW f \in Fields, ValueOK(f, c[f])
  PROVE  read(populate(fields, c), c)[f] = c[f]
<1>1. /\ DOMAIN populate(fields, c) = fields
      /\ f \in fields => populate(fields, c)[f] = Shown(f, c[f])
  BY DEF populate
<1>2. Parsed(f, Shown(f, c[f])) \in {Refused, c[f]}
  BY HeldValue
<1> QED
  BY <1>1, <1>2, ReadIs

LEMMA RoundTrip ==
  ASSUME NEW c, SettingsOK(c), NEW fields \in SUBSET Fields
  PROVE  read(populate(fields, c), c) = c
<1>1. \A f \in Fields : read(populate(fields, c), c)[f] = c[f]
  BY HeldSetting DEF SettingsOK
<1>2. read(populate(fields, c), c) = [f \in Fields |-> read(populate(fields, c), c)[f]]
  BY DEF read
<1> QED
  BY <1>1, <1>2 DEF SettingsOK, IsSettings

\* Reading a page twice is reading it once.
LEMMA ReadTwice ==
  ASSUME NEW c, NEW controls
  PROVE  read(controls, read(controls, c)) = read(controls, c)
<1>1. \A f \in Fields : read(controls, read(controls, c))[f] = read(controls, c)[f]
  BY ReadIs
<1>2. \A d : read(controls, d) = [f \in Fields |-> read(controls, d)[f]]
  BY DEF read
<1> QED
  BY <1>1, <1>2

\* What an import sets.
LEMMA ImportIs ==
  ASSUME NEW file, DOMAIN file.fields \subseteq EngineFields, NEW c, NEW f \in Fields
  PROVE  /\ f \in Present(file) =>
               /\ f \in EngineFields \cap DOMAIN file.fields
               /\ import_into(file, c)[f] = Trim(file.fields[f])
         /\ (f = "listener_mode" /\ Listener(file) # "none") =>
               import_into(file, c)[f] = Listener(file)
         /\ (f \notin Present(file) /\ ~(f = "listener_mode" /\ Listener(file) # "none")) =>
               import_into(file, c)[f] = c[f]
<1>1. f \in Present(file) => f \in EngineFields \cap DOMAIN file.fields /\ f # "listener_mode"
  BY Pages DEF Present
<1>2. import_into(file, c)[f] =
        CASE f \in Present(file) -> Trim(file.fields[f])
          [] f = "listener_mode" /\ Listener(file) # "none" -> Listener(file)
          [] OTHER -> c[f]
  BY DEF import_into
<1>3. CASE f \in Present(file)
  BY <1>1, <1>2, <1>3
<1>4. CASE f \notin Present(file) /\ f = "listener_mode" /\ Listener(file) # "none"
  BY <1>2, <1>4
<1>5. CASE f \notin Present(file) /\ ~(f = "listener_mode" /\ Listener(file) # "none")
  BY <1>2, <1>5
<1> QED
  BY <1>1, <1>3, <1>4, <1>5

LEMMA ImportOK ==
  ASSUME NEW file \in ImportFiles, NEW c, SettingsOK(c)
  PROVE  WorkingOK(import_into(file, c))
<1> DEFINE w == import_into(file, c)
<1>1. IsSettings(w)
  BY DEF import_into, IsSettings
<1>2. DOMAIN file.fields \subseteq EngineFields
  BY InputAssumption
<1>3. ASSUME NEW f \in Fields PROVE WorkingValueOK(f, w[f])
  <2> HIDE DEF w
  <2>1. CASE f \in Present(file)
    <3>1. f \in EngineFields \cap DOMAIN file.fields /\ w[f] = Trim(file.fields[f])
      BY <2>1, <1>2, ImportIs DEF w
    <3>2. /\ file.fields[f] # Refused
          /\ f \in {"mtu_size", "ports"} => file.fields[f] # "junk"
      BY <3>1, InputAssumption
    <3>3. f \notin {"split", "refresh_hours", "listener_mode"}
      BY <3>1, Pages
    <3> QED
      BY <3>1, <3>2, <3>3 DEF WorkingValueOK, ValueOK, Trim, Refused
  <2>2. CASE f = "listener_mode" /\ Listener(file) # "none"
    <3>1. w[f] = Listener(file)
      BY <2>2, <1>2, ImportIs DEF w
    <3>2. Listener(file) \in {"socks", "tun"}
      BY <2>2 DEF Listener
    <3> QED
      BY <2>2, <3>1, <3>2 DEF WorkingValueOK, ValueOK, Refused
  <2>3. CASE f \notin Present(file) /\ ~(f = "listener_mode" /\ Listener(file) # "none")
    <3>1. w[f] = c[f]
      BY <2>3, <1>2, ImportIs DEF w
    <3> QED
      BY <3>1 DEF SettingsOK, WorkingValueOK, ValueOK
  <2> QED
    BY <2>1, <2>2, <2>3
<1> QED
  BY <1>1, <1>3 DEF WorkingOK

LEMMA DefaultOK == SettingsOK(DefaultConfig)
<1>1. DOMAIN DefaultConfig = Fields
  BY DEF DefaultConfig, Fields, SettingsPage, AdvancedPage
<1>2. IsSettings(DefaultConfig)
  <2>1. DefaultConfig = [f \in DOMAIN DefaultConfig |-> DefaultConfig[f]]
    BY DEF DefaultConfig
  <2> QED
    BY <1>1, <2>1 DEF IsSettings
<1>3. /\ DefaultConfig["certificate"] = "" /\ DefaultConfig["protocol"] = "http2"
      /\ DefaultConfig["fallback"] = "" /\ DefaultConfig["split"] = "off"
      /\ DefaultConfig["refresh_hours"] = "24" /\ DefaultConfig["killswitch"] = "on"
      /\ DefaultConfig["listener_mode"] = "tun" /\ DefaultConfig["socks_address"] = "1080"
      /\ DefaultConfig["mtu_size"] = "1280" /\ DefaultConfig["ports"] = ""
  BY DEF DefaultConfig
<1>4. ASSUME NEW f \in Fields PROVE ValueOK(f, DefaultConfig[f])
  BY <1>3 DEF ValueOK, Refused, Fields, SettingsPage, AdvancedPage
<1> QED
  BY <1>2, <1>4 DEF SettingsOK
-----------------------------------------------------------------------------
(* The inductive invariant. *)

\* What leaving the page in front with OK would make the settings.
WouldBe == read(page, working)

\* What the user gave last is what would be read now, or nothing certain.
Given == \A f \in Fields : meant[f] \in {WouldBe[f], Unheld}

DialogInv ==
  /\ dlg \in {"closed", "settings", "advanced"} /\ edits \in 0 .. MaxEdits
  /\ SettingsOK(cfg) /\ WorkingOK(working)
  /\ ControlsOK(SettingsPage, page) /\ ControlsOK(AdvancedPage, advanced)
  /\ DOMAIN meant = Fields /\ Given
  /\ dlg = "closed" => WouldBe = cfg

LEMMA WouldBeOK ==
  ASSUME DialogInv
  PROVE  SettingsOK(WouldBe)
BY ReadOK DEF DialogInv, WouldBe, Fields

\* A dialog that has just been filled from settings c.
LEMMA Filled ==
  ASSUME NEW c, SettingsOK(c)
  PROVE  /\ WorkingOK(c)
         /\ ControlsOK(SettingsPage, populate(SettingsPage, c))
         /\ ControlsOK(AdvancedPage, populate(AdvancedPage, c))
         /\ read(populate(SettingsPage, c), c) = c
         /\ DOMAIN c = Fields
BY SettingsAreWorking, PopulateOK, RoundTrip DEF Fields, SettingsOK, IsSettings

LEMMA InitInv == DialogInit => DialogInv
<1> SUFFICES ASSUME DialogInit PROVE DialogInv
  OBVIOUS
<1>1. SettingsOK(cfg)
  BY DefaultOK DEF DialogInit
<1>2. WorkingOK(working) /\ ControlsOK(SettingsPage, page) /\ ControlsOK(AdvancedPage, advanced)
      /\ WouldBe = cfg /\ DOMAIN meant = Fields
  BY <1>1, Filled DEF DialogInit, WouldBe
<1> QED
  BY <1>1, <1>2, DialogAssumption DEF DialogInit, DialogInv, Given

\* The dialog is filled anew from the settings c, which is all the user meant.
LEMMA ClosedKeepsInv ==
  ASSUME DialogInv, NEW c, SettingsOK(c), cfg' = c, Closed(c), edits' \in 0 .. MaxEdits,
         DOMAIN meant' = Fields, \A f \in Fields : meant'[f] \in {c[f], Unheld}
  PROVE  DialogInv'
<1>1. WouldBe' = c
  BY Filled DEF Closed, WouldBe
<1> QED
  BY <1>1, Filled DEF DialogInv, Closed, Given

\* Typing: a text that is taken is the one that is read, and a text that is
\* refused means nothing certain.
LEMMA TypeKeepsInv == DialogInv /\ Type => DialogInv'
<1> SUFFICES ASSUME DialogInv, Type PROVE DialogInv'
  OBVIOUS
<1>0. PICK f \in SettingsPage : \E text \in Inputs[f] :
        /\ page' = [page EXCEPT ![f] = text]
        /\ meant' = [meant EXCEPT ![f] = Meaning(f, text)]
  BY DEF Type
<1>1. PICK text \in Inputs[f] :
        /\ page' = [page EXCEPT ![f] = text]
        /\ meant' = [meant EXCEPT ![f] = Meaning(f, text)]
  BY <1>0
<1>2. TextOK(f, text)
  BY InputAssumption DEF TextOK, Fields
<1>3. ControlsOK(SettingsPage, page')
  BY <1>1, <1>2 DEF DialogInv, ControlsOK
<1>4. ASSUME NEW g \in Fields PROVE meant'[g] \in {WouldBe'[g], Unheld}
  <2>1. WouldBe'[g] = read(page', working)[g]
    BY DEF WouldBe, Type
  <2>2. CASE g = f
    <3>1. meant'[g] = Meaning(g, text) /\ g \in DOMAIN page' /\ page'[g] = text
      BY <1>1, <2>2, Pages DEF DialogInv, ControlsOK
    <3> QED
      BY <2>1, <3>1, ReadIs DEF Meaning
  <2>3. CASE g # f
    <3>1. /\ meant'[g] = meant[g] /\ DOMAIN page' = DOMAIN page
          /\ g \in DOMAIN page => page'[g] = page[g]
      BY <1>1, <2>3 DEF DialogInv
    <3>2. WouldBe'[g] = WouldBe[g]
      BY <2>1, <3>1, ReadIs DEF WouldBe
    <3> QED
      BY <3>1, <3>2 DEF DialogInv, Given
  <2> QED
    BY <2>2, <2>3
<1> QED
  BY <1>1, <1>3, <1>4, DialogAssumption DEF DialogInv, Given, Type, Edit

\* Importing: a value that a control can hold is read from it again, and what
\* the file has no value for is what had been read from the page.
LEMMA ImportKeepsInv == DialogInv /\ Import => DialogInv'
<1> SUFFICES ASSUME DialogInv, Import PROVE DialogInv'
  OBVIOUS
<1>1. PICK file \in ImportFiles :
        /\ working' = import_into(file, WouldBe)
        /\ page' = populate(SettingsPage, working')
        /\ meant' = GivenBy(file)
  BY DEF Import, WouldBe
<1>2. SettingsOK(WouldBe)
  BY WouldBeOK
<1>3. WorkingOK(working')
  BY <1>1, <1>2, ImportOK
<1>4. ControlsOK(SettingsPage, page')
  BY <1>1, <1>3, PopulateOK DEF Fields
<1>5. DOMAIN file.fields \subseteq EngineFields
  BY InputAssumption
<1>6. ASSUME NEW f \in Fields PROVE meant'[f] \in {WouldBe'[f], Unheld}
  <2>1. meant'[f] = IF f = "listener_mode" /\ Listener(file) # "none" THEN Listener(file)
                    ELSE IF f \in Present(file) THEN MeaningOfImport(f, file.fields[f])
                    ELSE meant[f]
    BY <1>1 DEF GivenBy
  <2>2. (f \in AdvancedPage \/ ValueOK(f, working'[f])) => WouldBe'[f] = working'[f]
    <3>1. WouldBe' = read(populate(SettingsPage, working'), working')
      BY <1>1 DEF WouldBe
    <3>2. CASE f \in AdvancedPage
      <4>1. f \notin DOMAIN populate(SettingsPage, working')
        BY <3>2, Pages DEF populate
      <4> QED
        BY <3>1, <4>1, ReadIs
    <3>3. CASE ValueOK(f, working'[f])
      BY <3>1, <3>3, HeldSetting DEF Fields
    <3> QED
      BY <3>2, <3>3
  <2>3. CASE f = "listener_mode" /\ Listener(file) # "none"
    <3>1. working'[f] = Listener(file)
      BY <1>1, <1>5, <2>3, ImportIs
    <3> QED
      BY <2>1, <2>2, <2>3, <3>1, Pages
  <2>4. CASE f \in Present(file)
    <3>1. f \in EngineFields /\ working'[f] = Trim(file.fields[f])
      BY <1>1, <1>5, <2>4, ImportIs
    <3>2. CASE MeaningOfImport(f, file.fields[f]) = Unheld
      BY <2>1, <2>4, <3>1, <3>2, Pages
    <3>3. CASE MeaningOfImport(f, file.fields[f]) # Unheld
      <4>1. /\ file.fields[f] # "long" /\ meant'[f] = Trim(file.fields[f])
            /\ Options(f) # <<>> => file.fields[f] \in {Parsed(f, o) : o \in Offered(f)}
        BY <2>1, <2>4, <3>1, <3>3, Pages DEF MeaningOfImport
      <4>2. CASE Options(f) # <<>>
        <5>1. ValueOK(f, file.fields[f])
          BY <4>1, <4>2, ParsedOptions
        <5>2. f # "certificate"
          BY <4>2, OptionsAre
        <5>3. ValueOK(f, Trim(file.fields[f]))
          BY <5>1, <5>2, <4>2, OptionsAre DEF ValueOK, Trim
        <5> QED
          BY <2>2, <3>1, <4>1, <5>3
      <4>3. CASE Options(f) = <<>>
        <5>1. WorkingValueOK(f, working'[f])
          BY <1>3 DEF WorkingOK
        <5>2. f \notin {"protocol", "fallback"}
          BY <4>3, OptionsAre
        <5>3. f = "certificate" => working'[f] \notin {" pem", "long"}
          BY <3>1, <4>1 DEF Trim
        <5>4. ValueOK(f, working'[f])
          BY <5>1, <5>2, <5>3 DEF WorkingValueOK, ValueOK
        <5> QED
          BY <2>2, <3>1, <4>1, <5>4
      <4> QED
        BY <4>2, <4>3
    <3> QED
      BY <3>2, <3>3
  <2>5. CASE f \notin Present(file) /\ ~(f = "listener_mode" /\ Listener(file) # "none")
    <3>1. working'[f] = WouldBe[f] /\ meant'[f] = meant[f]
      BY <1>1, <1>5, <2>1, <2>5, ImportIs
    <3>2. ValueOK(f, WouldBe[f])
      BY <1>2 DEF SettingsOK
    <3> QED
      BY <2>2, <3>1, <3>2 DEF DialogInv, Given
  <2> QED
    BY <2>3, <2>4, <2>5
<1>7. DOMAIN meant' = Fields
  BY <1>1 DEF GivenBy
<1> QED
  BY <1>3, <1>4, <1>6, <1>7, DialogAssumption DEF DialogInv, Given, Import, Edit

\* Reading the settings page into the working copy: it reads as before.
LEMMA ReadingKeepsInv ==
  ASSUME DialogInv, dlg = "settings", dlg' \in {"settings", "advanced"},
         working' = WouldBe, ControlsOK(AdvancedPage, advanced'),
         UNCHANGED <<cfg, page, meant, edits>>
  PROVE  DialogInv'
<1>1. WouldBe' = WouldBe
  BY ReadTwice DEF WouldBe
<1>2. WorkingOK(working')
  BY WouldBeOK, SettingsAreWorking
<1> QED
  BY <1>1, <1>2 DEF DialogInv, Given

\* The advanced page leaves what is read from the settings page alone.
LEMMA AdvancedOkKeepsInv == DialogInv /\ AdvancedOk => DialogInv'
<1> SUFFICES ASSUME DialogInv, AdvancedOk PROVE DialogInv'
  OBVIOUS
<1>1. WorkingOK(working')
  BY ReadOK DEF DialogInv, AdvancedOk, Fields
<1>2. ASSUME NEW f \in Fields PROVE meant'[f] \in {WouldBe'[f], Unheld}
  <2>1. WouldBe' = read(page, working') /\ working' = read(advanced, working)
    BY DEF WouldBe, AdvancedOk
  <2>2. meant'[f] = IF f \in AdvancedPage THEN Meaning(f, advanced[f]) ELSE meant[f]
    BY DEF AdvancedOk
  <2>3. CASE f \in AdvancedPage
    <3>1. f \notin DOMAIN page /\ f \in DOMAIN advanced
      BY <2>3, Pages DEF DialogInv, ControlsOK
    <3> QED
      BY <2>1, <2>2, <2>3, <3>1, ReadIs DEF Meaning
  <2>4. CASE f \notin AdvancedPage
    <3>1. working'[f] = working[f]
      BY <2>1, <2>4, ReadIs DEF DialogInv, ControlsOK
    <3>2. WouldBe'[f] = WouldBe[f]
      BY <2>1, <3>1, ReadIs DEF WouldBe
    <3> QED
      BY <2>2, <2>4, <3>2 DEF DialogInv, Given
  <2> QED
    BY <2>3, <2>4
<1>3. DOMAIN meant' = Fields
  BY DEF AdvancedOk
<1> QED
  BY <1>1, <1>2, <1>3 DEF DialogInv, Given, AdvancedOk

LEMMA TypeAdvancedKeepsInv == DialogInv /\ TypeAdvanced => DialogInv'
<1> SUFFICES ASSUME DialogInv, TypeAdvanced PROVE DialogInv'
  OBVIOUS
<1>0. PICK f \in AdvancedPage : \E text \in Inputs[f] : advanced' = [advanced EXCEPT ![f] = text]
  BY DEF TypeAdvanced
<1>1. PICK text \in Inputs[f] : advanced' = [advanced EXCEPT ![f] = text]
  BY <1>0
<1>2. TextOK(f, text)
  BY InputAssumption DEF TextOK, Fields
<1>3. ControlsOK(AdvancedPage, advanced')
  BY <1>1, <1>2 DEF DialogInv, ControlsOK
<1>4. WouldBe' = WouldBe
  BY DEF TypeAdvanced, WouldBe
<1> QED
  BY <1>3, <1>4, DialogAssumption DEF DialogInv, Given, TypeAdvanced, Edit

LEMMA TraySplitKeepsInv == DialogInv /\ TraySplit => DialogInv'
<1> SUFFICES ASSUME DialogInv, TraySplit PROVE DialogInv'
  OBVIOUS
<1>1. SettingsOK(cfg')
  <2>1. /\ IsSettings(cfg')
        /\ \A f \in Fields \ {"split"} : cfg'[f] = cfg[f]
        /\ cfg'["split"] \in {"on", "off"}
    BY Pages DEF TraySplit, DialogInv, SettingsOK, IsSettings, Fields, SettingsPage
  <2>2. ASSUME NEW f \in Fields PROVE ValueOK(f, cfg'[f])
    <3>1. CASE f = "split"
      BY <2>1, <3>1 DEF ValueOK, Refused
    <3>2. CASE f # "split"
      BY <2>1, <3>2 DEF DialogInv, SettingsOK
    <3> QED
      BY <3>1, <3>2
  <2> QED
    BY <2>1, <2>2 DEF SettingsOK
<1>2. edits' \in 0 .. MaxEdits
  BY DialogAssumption DEF TraySplit, Edit, DialogInv
<1>3. CASE dlg = "closed"
  <2>1. meant' = cfg' /\ Closed(cfg')
    BY <1>3 DEF TraySplit
  <2>2. DOMAIN meant' = Fields
    BY <1>1, <2>1 DEF SettingsOK, IsSettings
  <2> QED
    BY <1>1, <1>2, <2>1, <2>2, ClosedKeepsInv
<1>4. CASE dlg # "closed"
  <2>1. WouldBe' = WouldBe /\ UNCHANGED <<dlg, working, page, advanced, meant>>
    BY <1>4 DEF TraySplit, WouldBe
  <2> QED
    BY <1>1, <1>2, <1>4, <2>1 DEF DialogInv, Given
<1> QED
  BY <1>3, <1>4

LEMMA NextInv == DialogInv /\ [DialogNext]_dialogVars => DialogInv'
<1> SUFFICES ASSUME DialogInv, [DialogNext]_dialogVars PROVE DialogInv'
  OBVIOUS
<1>1. CASE OpenSettings
  <2>1. WouldBe' = cfg /\ WorkingOK(working') /\ ControlsOK(SettingsPage, page')
        /\ DOMAIN meant' = Fields
    BY <1>1, Filled DEF OpenSettings, WouldBe, DialogInv
  <2> QED
    BY <1>1, <2>1 DEF OpenSettings, DialogInv, Given
<1>2. CASE Type
  BY <1>2, TypeKeepsInv
<1>3. CASE Import
  BY <1>3, ImportKeepsInv
<1>4. CASE ImportFails
  BY <1>4, ReadingKeepsInv DEF ImportFails, WouldBe, DialogInv
<1>5. CASE OpenAdvanced
  <2>1. ControlsOK(AdvancedPage, advanced')
    BY <1>5, WouldBeOK, Filled DEF OpenAdvanced, WouldBe
  <2> QED
    BY <1>5, <2>1, ReadingKeepsInv DEF OpenAdvanced, WouldBe
<1>6. CASE Ok
  <2>1. cfg' = WouldBe /\ Closed(cfg') /\ UNCHANGED <<meant, edits>>
    BY <1>6 DEF Ok, WouldBe
  <2> QED
    BY <2>1, WouldBeOK, ClosedKeepsInv DEF DialogInv, Given
<1>7. CASE Cancel
  <2>1. cfg' = cfg /\ Closed(cfg) /\ meant' = cfg /\ edits' = edits
    BY <1>7 DEF Cancel
  <2> QED
    BY <2>1, ClosedKeepsInv, Filled DEF DialogInv
<1>8. CASE TypeAdvanced
  BY <1>8, TypeAdvancedKeepsInv
<1>9. CASE AdvancedOk
  BY <1>9, AdvancedOkKeepsInv
<1>10. CASE AdvancedCancel
  <2>1. WouldBe' = WouldBe
    BY <1>10 DEF AdvancedCancel, WouldBe
  <2> QED
    BY <1>10, <2>1 DEF AdvancedCancel, DialogInv, Given
<1>11. CASE TraySplit
  BY <1>11, TraySplitKeepsInv
<1>12. CASE UNCHANGED dialogVars
  <2>1. WouldBe' = WouldBe
    BY <1>12 DEF dialogVars, WouldBe
  <2> QED
    BY <1>12, <2>1 DEF dialogVars, DialogInv, Given
<1> QED
  BY <1>1, <1>2, <1>3, <1>4, <1>5, <1>6, <1>7, <1>8, <1>9, <1>10, <1>11, <1>12
     DEF DialogNext

THEOREM DialogInvariant == DialogSpec => []DialogInv
<1> QED
  BY InitInv, NextInv, PTL DEF DialogSpec
-----------------------------------------------------------------------------
(* The theorems. *)

\* The dialog never leaves a setting the lists do not offer, a number that is no
\* number, a refresh of zero hours or an untrimmed certificate, whatever was
\* typed or imported.
THEOREM DialogTypeCorrect == DialogSpec => []DialogTypeOK
<1>1. DialogInv => DialogTypeOK
  <2> SUFFICES ASSUME DialogInv PROVE DialogTypeOK
    OBVIOUS
  <2>1. \A f \in Fields : ValueOK(f, cfg[f])
    BY DEF DialogInv, SettingsOK
  <2>2. DOMAIN cfg = Fields /\ DOMAIN working = Fields
    BY DEF DialogInv, SettingsOK, WorkingOK, IsSettings
  <2>3. /\ cfg["protocol"] \in {"http2", "http3"}
        /\ cfg["fallback"] \in {"", "http2", "http3"}
        /\ cfg["listener_mode"] \in {"tun", "socks"}
        /\ cfg["refresh_hours"] \notin {"0", "junk"}
        /\ "junk" \notin {cfg["mtu_size"], cfg["ports"]}
        /\ cfg["certificate"] \notin {" pem", "long"}
    BY <2>1, Pages DEF ValueOK
  <2>4. (Offered("fallback") \ {"(none)"}) \cup {""} = {"", "http2", "http3"}
    BY OfferedAre
  <2> QED
    BY <2>2, <2>3, <2>4, OfferedAre DEF DialogInv, DialogTypeOK, ControlsOK
<1> QED
  BY <1>1, DialogInvariant, PTL

\* What was typed, picked or imported before OK is what the settings are after
\* it (IDC_IMPORT, IDC_ADVANCED and IDOK read the page first, dialog.rs): for
\* any number of edits and imports on the two pages, in any order.
THEOREM NothingIsLost == DialogSpec => []NothingEnteredIsLost
<1>1. DialogInv => NothingEnteredIsLost
  BY DEF DialogInv, Given, NothingEnteredIsLost
<1> QED
  BY <1>1, DialogInvariant, PTL

\* Opening the dialog, or its advanced page, and pressing OK changes nothing:
\* the settings are always ones that the controls can show (populate_settings,
\* populate_advanced) and give back (read_settings, read_advanced).
THEOREM OpeningChangesNothing == DialogSpec => []OpeningIsHarmless
<1>1. DialogInv => OpeningIsHarmless
  BY RoundTrip DEF DialogInv, OpeningIsHarmless, Fields
<1> QED
  BY <1>1, DialogInvariant, PTL

-----------------------------------------------------------------------------
(* The engine config and its import. *)

\* The fields of the engine config that are written for the settings c.
Written(c) ==
  {f \in EngineFields :
     /\ f \in {"certificate", "fallback", "ports"} => c[f] # ""
     /\ f = "socks_address" => c["listener_mode"] = "socks"
     /\ f = "mtu_size" => c["listener_mode"] # "socks"}

LEMMA RenderIs ==
  ASSUME NEW c
  PROVE  /\ DOMAIN render(c).fields = Written(c)
         /\ \A f \in Written(c) : render(c).fields[f] = Trim(c[f])
         /\ render(c).listeners = {IF c["listener_mode"] = "socks" THEN "socks" ELSE "tun"}
         /\ render(c) = [listeners |-> render(c).listeners,
                         fields |-> [f \in Written(c) |-> Trim(c[f])]]
<1>1. ASSUME NEW f
      PROVE  (CASE f \in {"certificate", "fallback", "ports"} -> c[f] # ""
                [] f = "socks_address" -> c["listener_mode"] = "socks"
                [] f = "mtu_size" -> c["listener_mode"] # "socks"
                [] OTHER -> TRUE)
             <=> /\ f \in {"certificate", "fallback", "ports"} => c[f] # ""
                 /\ f = "socks_address" => c["listener_mode"] = "socks"
                 /\ f = "mtu_size" => c["listener_mode"] # "socks"
  <2>1. CASE f \in {"certificate", "fallback", "ports"}
    BY <2>1
  <2>2. CASE f = "socks_address"
    BY <2>2
  <2>3. CASE f = "mtu_size"
    BY <2>3
  <2>4. CASE f \notin {"certificate", "fallback", "ports", "socks_address", "mtu_size"}
    BY <2>4
  <2> QED
    BY <2>1, <2>2, <2>3, <2>4
<1>2. {f \in EngineFields :
         CASE f \in {"certificate", "fallback", "ports"} -> c[f] # ""
           [] f = "socks_address" -> c["listener_mode"] = "socks"
           [] f = "mtu_size" -> c["listener_mode"] # "socks"
           [] OTHER -> TRUE} = Written(c)
  BY <1>1 DEF Written
<1>3. render(c) = [listeners |-> {IF c["listener_mode"] = "socks" THEN "socks" ELSE "tun"},
                   fields |-> [f \in Written(c) |-> Trim(c[f])]]
  BY <1>2 DEF render
<1> QED
  BY <1>3

LEMMA TrimTwice ==
  /\ \A text : Trim(Trim(text)) = Trim(text)
  /\ \A text : Trim(text) = "" <=> text = ""
BY DEF Trim

\* Everything that is written is present, and what is not written is what a
\* fresh installation has.
LEMMA ImportOfExport ==
  ASSUME NEW c, SettingsOK(c)
  PROVE  LET i == import_into(render(c), DefaultConfig) IN
         /\ i["listener_mode"] = c["listener_mode"]
         /\ \A f \in EngineFields :
              i[f] = IF f \in Written(c) THEN Trim(c[f]) ELSE DefaultConfig[f]
<1> DEFINE export == render(c)
           i == import_into(export, DefaultConfig)
<1>1. c["listener_mode"] \in {"tun", "socks"}
  BY Pages DEF SettingsOK, ValueOK
<1>2. export.listeners = {c["listener_mode"]}
  BY <1>1, RenderIs
<1>3. DOMAIN export.fields = Written(c) /\ Written(c) \subseteq EngineFields
  BY RenderIs DEF Written
<1>4. \A f \in Written(c) : export.fields[f] = Trim(c[f])
  BY RenderIs
<1> HIDE DEF export
<1>5. Listener(export) = c["listener_mode"]
  BY <1>1, <1>2 DEF Listener
<1>6. Present(export) = Written(c)
  <2>1. CASE c["listener_mode"] = "socks"
    BY <1>3, <1>5, <2>1 DEF Present, Written
  <2>2. CASE c["listener_mode"] = "tun"
    BY <1>3, <1>5, <2>2 DEF Present, Written
  <2> QED
    BY <1>1, <2>1, <2>2
<1>7. i["listener_mode"] = c["listener_mode"]
  BY <1>1, <1>3, <1>5, ImportIs, Pages
<1>8. ASSUME NEW f \in EngineFields
      PROVE  i[f] = IF f \in Written(c) THEN Trim(c[f]) ELSE DefaultConfig[f]
  <2>1. f \in Fields /\ f # "listener_mode"
    BY Pages
  <2>2. CASE f \in Written(c)
    <3>1. i[f] = Trim(export.fields[f])
      BY <1>3, <1>6, <2>1, <2>2, ImportIs
    <3> QED
      BY <1>4, <2>2, <3>1, TrimTwice
  <2>3. CASE f \notin Written(c)
    BY <1>3, <1>6, <2>1, <2>3, ImportIs
  <2> QED
    BY <2>2, <2>3
<1> QED
  BY <1>7, <1>8 DEF export

LEMMA ExportRoundTrip ==
  ASSUME NEW c, SettingsOK(c)
  PROVE  render(import_into(render(c), DefaultConfig)) = render(c)
<1> DEFINE i == import_into(render(c), DefaultConfig)
<1>1. /\ i["listener_mode"] = c["listener_mode"]
      /\ \A f \in EngineFields :
           i[f] = IF f \in Written(c) THEN Trim(c[f]) ELSE DefaultConfig[f]
  BY ImportOfExport
<1> HIDE DEF i
<1>2. \A f \in {"certificate", "fallback", "ports"} : DefaultConfig[f] = ""
  <2>1. /\ DefaultConfig["certificate"] = "" /\ DefaultConfig["fallback"] = ""
        /\ DefaultConfig["ports"] = ""
    BY DEF DefaultConfig
  <2> QED
    BY <2>1
<1>3. ASSUME NEW f \in {"certificate", "fallback", "ports"}, f \in EngineFields
      PROVE  i[f] = "" <=> c[f] = ""
  <2>1. CASE f \in Written(c)
    BY <1>1, <1>3, <2>1, TrimTwice
  <2>2. CASE f \notin Written(c)
    <3>1. c[f] = ""
      BY <1>3, <2>2 DEF Written
    <3> QED
      BY <1>1, <1>2, <1>3, <2>2, <3>1
  <2> QED
    BY <2>1, <2>2
<1>4. Written(i) = Written(c)
  BY <1>1, <1>3 DEF Written
<1>5. \A f \in Written(c) : Trim(i[f]) = Trim(c[f])
  BY <1>1, TrimTwice DEF Written
<1>6. render(i).listeners = render(c).listeners
  BY <1>1, RenderIs
<1>7. [f \in Written(i) |-> Trim(i[f])] = [f \in Written(c) |-> Trim(c[f])]
  BY <1>4, <1>5
<1>8. render(i) = render(c)
  BY <1>6, <1>7, RenderIs
<1> QED
  BY <1>8 DEF i

\* An engine config that the program wrote (toml_writer.rs) is one it imports as
\* itself (import.rs: "the endpoint exports exactly this schema"), whatever the
\* settings have become.
THEOREM ExportImportsAsItself == DialogSpec => []ExportIsImport
<1>1. DialogInv => ExportIsImport
  BY ExportRoundTrip DEF DialogInv, ExportIsImport
<1> QED
  BY <1>1, DialogInvariant, PTL
=============================================================================
