---------------------------- MODULE VaultProofs ----------------------------
(***************************************************************************)
(* Theorems about Vault, for every set of passwords and settings and every *)
(* depth of the stack of dialogs: it is type correct, a file that holds no *)
(* settings is never overwritten, a migration never loses the old ones,    *)
(* and, as long as the settings dialog is not opened a second time below   *)
(* itself, the password in memory is the one that opens the file.          *)
(***************************************************************************)
EXTENDS Vault, TLAPS, SequenceTheorems

\* A dialog has in hand what its kind says; a file that was read held settings.
HeldOK(f) ==
  /\ f.kind \in {"settings", "new"} => f.held \in Contents
  /\ f.kind = "old" => f.held \in Sealed /\ f.held.plain \in Contents
  /\ f.kind # "settings" /\ f.ended = "ok" => f.typed \in Passwords

FramesOK(fs) == fs \in Seq(Frame) /\ \A i \in 1 .. Len(fs) : HeldOK(fs[i])

\* What the wrapper knows of the file at each point of its life.
LifeOK ==
  /\ pc = "locked" => settings_enc # NoFile
  /\ pc = "creating" => settings_enc = NoFile
  /\ pc = "shredding" => /\ settings_enc # NoFile /\ vault \in Passwords
                         /\ settings_enc.plain \in Contents
                         /\ settings_enc.plain = legacy
  /\ pc = "running" => /\ settings_enc # NoFile
                       /\ settings_enc.plain \in Contents
                       /\ vault \in Passwords
  /\ pc # "running" => frames = <<>>

VaultInv == VaultTypeOK /\ FramesOK(frames) /\ LifeOK

-----------------------------------------------------------------------------
(* The stack of dialogs. *)

\* The frame on top, and what is below it.
LEMMA TopFrame ==
  ASSUME NEW fs, FramesOK(fs), fs # <<>>
  PROVE  /\ FramesOK(Front(fs)) /\ Len(Front(fs)) = Len(fs) - 1
         /\ \A i \in 1 .. Len(fs) - 1 : Front(fs)[i] = fs[i]
         /\ Last(fs) \in Frame /\ HeldOK(Last(fs))
<1>1. fs \in Seq(Frame) /\ Len(fs) \in Nat \ {0}
  BY DEF FramesOK
<1>2. /\ Front(fs) \in Seq(Frame) /\ Len(Front(fs)) = Len(fs) - 1
      /\ \A i \in 1 .. Len(fs) - 1 : Front(fs)[i] = fs[i]
  <2>1. 0 <= Len(fs) - 1 /\ Len(fs) - 1 <= Len(fs)
    BY <1>1
  <2> QED
    <3>1. Front(fs) = SubSeq(fs, 1, Len(fs) - 1)
      BY DEF Front
    <3>2. \A i \in 1 .. Len(fs) - 1 : fs[i] \in Frame
      BY <1>1
    <3>3. 1 \in Int /\ Len(fs) - 1 \in Int
      BY <1>1
    <3>4. /\ SubSeq(fs, 1, Len(fs) - 1) \in Seq(Frame)
          /\ Len(SubSeq(fs, 1, Len(fs) - 1)) = IF 1 <= Len(fs) - 1 THEN Len(fs) - 1 - 1 + 1 ELSE 0
          /\ \A i \in 1 .. Len(fs) - 1 - 1 + 1 : SubSeq(fs, 1, Len(fs) - 1)[i] = fs[1 + i - 1]
      BY <3>2, <3>3, SubSeqProperties
    <3> QED
      <4>1. Front(fs) \in Seq(Frame) /\ Len(Front(fs)) = Len(fs) - 1
        <5>1. Front(fs) \in Seq(Frame)
          BY <3>1, <3>4
        <5>2. Len(Front(fs)) = IF 1 <= Len(fs) - 1 THEN Len(fs) - 1 - 1 + 1 ELSE 0
          BY <3>1, <3>4
        <5>3. Len(fs) \in Nat \ {0}
          BY <1>1
        <5>4. Len(Front(fs)) = Len(fs) - 1
          <6>1. \A n \in Nat \ {0} : (IF 1 <= n - 1 THEN n - 1 - 1 + 1 ELSE 0) = n - 1
            OBVIOUS
          <6> QED
            BY <5>2, <5>3, <6>1
        <5> QED
          BY <5>1, <5>4
      <4>2. ASSUME NEW i \in 1 .. Len(fs) - 1 PROVE Front(fs)[i] = fs[i]
        <5>1. i \in 1 .. Len(fs) - 1 - 1 + 1 /\ 1 + i - 1 = i
          BY <1>1
        <5> QED
          BY <5>1, <3>1, <3>4
      <4> QED
        BY <4>1, <4>2
<1>3. Last(fs) \in Frame /\ HeldOK(Last(fs))
  BY <1>1 DEF Last, FramesOK
<1> QED
  BY <1>1, <1>2, <1>3 DEF FramesOK

\* One more dialog on top.
LEMMA PushFrame ==
  ASSUME NEW fs, FramesOK(fs), NEW f \in Frame, HeldOK(f)
  PROVE  /\ FramesOK(Append(fs, f)) /\ Len(Append(fs, f)) = Len(fs) + 1
         /\ \A i \in 1 .. Len(fs) : Append(fs, f)[i] = fs[i]
         /\ Append(fs, f)[Len(fs) + 1] = f
<1>1. fs \in Seq(Frame)
  BY DEF FramesOK
<1>2. /\ Append(fs, f) \in Seq(Frame) /\ Len(Append(fs, f)) = Len(fs) + 1
      /\ \A i \in 1 .. Len(fs) : Append(fs, f)[i] = fs[i]
      /\ Append(fs, f)[Len(fs) + 1] = f
  BY <1>1
<1>3. \A i \in 1 .. Len(fs) + 1 : i \in 1 .. Len(fs) \/ i = Len(fs) + 1
  BY <1>1
<1> QED
  BY <1>2, <1>3 DEF FramesOK

\* A dialog that was ended while others are above it.
LEMMA ReplaceFrame ==
  ASSUME NEW fs, FramesOK(fs), NEW i \in 1 .. Len(fs), NEW f \in Frame, HeldOK(f)
  PROVE  LET gs == [fs EXCEPT ![i] = f] IN FramesOK(gs) /\ Len(gs) = Len(fs)
<1> DEFINE gs == [fs EXCEPT ![i] = f]
<1>1. fs \in Seq(Frame)
  BY DEF FramesOK
<1>2. gs \in Seq(Frame) /\ Len(gs) = Len(fs)
      /\ \A j \in 1 .. Len(fs) : gs[j] = IF j = i THEN f ELSE fs[j]
  BY <1>1
<1> QED
  BY <1>2 DEF FramesOK

\* A dialog that has just been opened.
LEMMA OpenedFrame ==
  ASSUME NEW kind \in {"settings", "old", "new"}, NEW held,
         kind \in {"settings", "new"} => held \in Contents,
         kind = "old" => held \in Sealed /\ held.plain \in Contents
  PROVE  Opened(kind, held) \in Frame /\ HeldOK(Opened(kind, held))
BY DEF Opened, Frame, HeldOK

-----------------------------------------------------------------------------
(* The invariant. *)

\* Saving leaves a readable file and changes neither the dialogs nor the life.
LEMMA SaveKeeps ==
  ASSUME VaultInv, pc = "running", NEW s \in Contents, Save(s)
  PROVE  /\ cfg' \in Contents /\ settings_enc' \in Sealed
         /\ settings_enc' # NoFile /\ settings_enc'.plain \in Contents
         /\ UNCHANGED <<legacy, pc, vault>>
<1>1. settings_enc \in Sealed /\ settings_enc.plain \in Contents /\ vault \in Passwords
  BY DEF VaultInv, VaultTypeOK, LifeOK
<1>2. [pw |-> vault, plain |-> s] \in Sealed
  BY <1>1 DEF Sealed
<1> QED
  BY <1>1, <1>2, VaultAssumption DEF Save

\* A dialog that returns leaves everything typed, and the file readable.
LEMMA ReturnKeeps ==
  ASSUME VaultInv, pc = "running",
         NEW f \in Frame, HeldOK(f), NEW below, FramesOK(below),
         Returns(f, below)
  PROVE  /\ FramesOK(frames') /\ Len(frames') <= Len(below) + 1
         /\ cfg' \in Contents /\ change_pw_vault' \in BOOLEAN
         /\ settings_enc' \in Sealed
         /\ settings_enc' # NoFile /\ settings_enc'.plain \in Contents
         /\ vault' \in Passwords
         /\ UNCHANGED <<legacy, pc>>
<1>1. /\ settings_enc \in Sealed /\ settings_enc.plain \in Contents
      /\ settings_enc # NoFile /\ vault \in Passwords
      /\ cfg \in Contents /\ change_pw_vault \in BOOLEAN
  BY DEF VaultInv, VaultTypeOK, LifeOK
<1>2. Len(below) \in Nat
  BY DEF FramesOK
<1>3. CASE f.kind = "settings"
  <2>1. SettingsReturn(f, below) /\ f.held \in Contents
    BY <1>3 DEF Returns, HeldOK
  <2>2. frames' = below /\ change_pw_vault' = FALSE
    BY <2>1 DEF SettingsReturn
  <2>3. CASE f.ended = "ok"
    <3>1. Save(f.held)
      BY <2>1, <2>3 DEF SettingsReturn
    <3>2. /\ cfg' \in Contents /\ settings_enc' \in Sealed
          /\ settings_enc' # NoFile /\ settings_enc'.plain \in Contents
          /\ UNCHANGED <<legacy, pc, vault>>
      BY <2>1, <3>1, SaveKeeps
    <3> QED
      <4>1. FramesOK(frames')
        BY <2>2
      <4>2. Len(frames') <= Len(below) + 1
        BY <1>2, <2>2
      <4> QED
        BY <1>1, <2>2, <3>2, <4>1, <4>2
  <2>4. CASE f.ended # "ok"
    <3>1. UNCHANGED <<settings_enc, legacy, pc, vault, cfg>>
      BY <2>1, <2>4 DEF SettingsReturn, files, memory
    <3> QED
      <4>1. FramesOK(frames')
        BY <2>2
      <4>2. Len(frames') <= Len(below) + 1
        BY <1>2, <2>2
      <4> QED
        BY <1>1, <2>2, <3>1, <4>1, <4>2
  <2> QED
    BY <2>3, <2>4
<1>4. CASE f.kind = "old"
  <2>1. OldPasswordReturn(f, below) /\ f.held.plain \in Contents
    BY <1>4 DEF Returns, HeldOK
  <2>2. /\ Opened("new", f.held.plain) \in Frame
        /\ HeldOK(Opened("new", f.held.plain))
    BY <2>1, OpenedFrame
  <2>3. FramesOK(frames') /\ Len(frames') <= Len(below) + 1
    BY <1>2, <2>1, <2>2, PushFrame DEF OldPasswordReturn
  <2> QED
    BY <1>1, <2>1, <2>3 DEF OldPasswordReturn, files, memory
<1>5. CASE f.kind = "new"
  <2>1. NewPasswordReturn(f, below) /\ f.held \in Contents
    BY <1>5 DEF Returns, HeldOK
  <2>2. frames' = below /\ UNCHANGED <<legacy, pc, cfg, change_pw_vault>>
    BY <2>1 DEF NewPasswordReturn
  <2>3. CASE UNCHANGED <<settings_enc, vault>>
    BY <1>1, <1>2, <2>2, <2>3
  <2>4. CASE /\ f.ended = "ok"
             /\ settings_enc' = [pw |-> f.typed, plain |-> f.held]
             /\ vault' = IF change_pw_vault THEN f.typed ELSE vault
    <3>1. f.typed \in Passwords
      BY <1>5, <2>4 DEF HeldOK
    <3>2. settings_enc' \in Sealed /\ settings_enc'.plain \in Contents
      BY <2>1, <2>4, <3>1 DEF Sealed
    <3> QED
      BY <1>1, <1>2, <2>2, <2>4, <3>1, <3>2, VaultAssumption
  <2> QED
    BY <2>1, <2>3, <2>4 DEF NewPasswordReturn
<1> QED
  BY <1>3, <1>4, <1>5 DEF Frame

\* What every step of a running wrapper leaves behind.
RunsOn ==
  /\ FramesOK(frames') /\ Len(frames') <= MaxFrames
  /\ cfg' \in Contents /\ change_pw_vault' \in BOOLEAN
  /\ settings_enc' \in Sealed
  /\ settings_enc' # NoFile /\ settings_enc'.plain \in Contents
  /\ vault' \in Passwords
  /\ UNCHANGED <<legacy, pc>>

LEMMA RunsOnKeepsInv ==
  ASSUME VaultInv, pc = "running", RunsOn
  PROVE  VaultInv'
<1>1. VaultTypeOK'
  BY DEF VaultInv, VaultTypeOK, RunsOn, FramesOK
<1>2. FramesOK(frames)'
  <2>1. FramesOK(frames')
    BY DEF RunsOn
  <2> QED
    BY <2>1
<1>3. LifeOK'
  BY DEF LifeOK, RunsOn
<1> QED
  BY <1>1, <1>2, <1>3 DEF VaultInv

\* Ending a dialog, on top of the stack or below it.
LEMMA EndDialogRunsOn ==
  ASSUME VaultInv, NEW i \in DOMAIN frames, NEW f \in Frame, HeldOK(f), EndDialog(i, f)
  PROVE  RunsOn
<1>1. FramesOK(frames) /\ frames \in Seq(Frame) /\ Len(frames) <= MaxFrames
      /\ pc = "running" /\ i \in 1 .. Len(frames)
  BY DEF VaultInv, VaultTypeOK, EndDialog
<1>2. CASE i = Len(frames)
  <2>1. Returns(f, Front(frames))
    BY <1>2 DEF EndDialog
  <2>2. frames # <<>>
    BY <1>1
  <2>3. FramesOK(Front(frames)) /\ Len(Front(frames)) = Len(frames) - 1
    BY <1>1, <2>2, TopFrame
  <2>4. /\ FramesOK(frames') /\ Len(frames') <= Len(Front(frames)) + 1
        /\ cfg' \in Contents /\ change_pw_vault' \in BOOLEAN
        /\ settings_enc' \in Sealed
        /\ settings_enc' # NoFile /\ settings_enc'.plain \in Contents
        /\ vault' \in Passwords
        /\ UNCHANGED <<legacy, pc>>
    BY <1>1, <2>1, <2>3, ReturnKeeps
  <2>5. Len(frames') <= MaxFrames
    <3>1. Len(frames') \in Nat /\ Len(frames) \in Nat
      BY <1>1, <2>4 DEF FramesOK
    <3> QED
      BY <1>1, <2>3, <2>4, <3>1, VaultAssumption
  <2> QED
    BY <2>4, <2>5 DEF RunsOn
<1>3. CASE i # Len(frames)
  <2>1. /\ frames' = [frames EXCEPT ![i] = f]
        /\ UNCHANGED <<files, pc, memory, change_pw_vault>>
    BY <1>3 DEF EndDialog
  <2>2. /\ FramesOK([frames EXCEPT ![i] = f])
        /\ Len([frames EXCEPT ![i] = f]) = Len(frames)
    BY <1>1, ReplaceFrame
  <2>3. FramesOK(frames')
    BY <2>1, <2>2
  <2>4. Len(frames') <= MaxFrames
    BY <1>1, <2>1, <2>2
  <2> QED
    BY <1>1, <2>1, <2>3, <2>4
       DEF VaultInv, VaultTypeOK, LifeOK, files, memory, RunsOn
<1> QED
  BY <1>2, <1>3

\* Cancelling a dialog or pressing its OK.
LEMMA AnswerRunsOn ==
  ASSUME VaultInv, NEW i \in DOMAIN frames,
         Cancel(i) \/ SettingsOk(i) \/ PasswordOk(i)
  PROVE  RunsOn
<1>1. frames[i] \in Frame /\ HeldOK(frames[i])
  BY DEF VaultInv, VaultTypeOK, FramesOK
<1>2. CASE Cancel(i)
  <2>1. /\ [frames[i] EXCEPT !.ended = "cancel"] \in Frame
        /\ HeldOK([frames[i] EXCEPT !.ended = "cancel"])
    BY <1>1 DEF Frame, HeldOK
  <2> QED
    BY <1>2, <2>1, EndDialogRunsOn DEF Cancel
<1>3. CASE SettingsOk(i)
  <2>1. PICK s \in Contents :
          EndDialog(i, [frames[i] EXCEPT !.ended = "ok", !.held = s])
    BY <1>3 DEF SettingsOk
  <2>2. frames[i].kind = "settings"
    BY <1>3 DEF SettingsOk
  <2>3. /\ [frames[i] EXCEPT !.ended = "ok", !.held = s] \in Frame
        /\ HeldOK([frames[i] EXCEPT !.ended = "ok", !.held = s])
    BY <1>1, <2>2 DEF Frame, HeldOK
  <2> QED
    BY <2>1, <2>3, EndDialogRunsOn
<1>4. CASE PasswordOk(i)
  <2>1. PICK pw \in Passwords :
          EndDialog(i, [frames[i] EXCEPT !.ended = "ok", !.typed = pw])
    BY <1>4 DEF PasswordOk
  <2>2. /\ [frames[i] EXCEPT !.ended = "ok", !.typed = pw] \in Frame
        /\ HeldOK([frames[i] EXCEPT !.ended = "ok", !.typed = pw])
    BY <1>1 DEF Frame, HeldOK
  <2> QED
    BY <2>1, <2>2, EndDialogRunsOn
<1> QED
  BY <1>2, <1>3, <1>4

\* Every other step of a running wrapper except its end.
LEMMA OtherRunsOn ==
  ASSUME VaultInv,
         \/ ToggleSplit \/ OpenSettings \/ Unwind
         \/ \E i \in DOMAIN frames : ClickChangePassword(i)
  PROVE  RunsOn
<1>1. /\ FramesOK(frames) /\ frames \in Seq(Frame) /\ Len(frames) <= MaxFrames
      /\ cfg \in Contents /\ change_pw_vault \in BOOLEAN
      /\ frames # <<>> => pc = "running"
  BY DEF VaultInv, VaultTypeOK, LifeOK
<1>2. pc = "running"
  BY <1>1 DEF ToggleSplit, OpenSettings, MainWindowEnabled, Unwind
<1>3. /\ settings_enc \in Sealed /\ settings_enc # NoFile
      /\ settings_enc.plain \in Contents /\ vault \in Passwords
  BY <1>2 DEF VaultInv, VaultTypeOK, LifeOK
<1>4. CASE ToggleSplit
  <2>1. [cfg EXCEPT !.split = ~@] \in Contents
    BY <1>1 DEF Contents
  <2>2. /\ cfg' \in Contents /\ settings_enc' \in Sealed
        /\ settings_enc' # NoFile /\ settings_enc'.plain \in Contents
        /\ UNCHANGED <<legacy, pc, vault>>
    BY <1>2, <1>4, <2>1, SaveKeeps DEF ToggleSplit
  <2>3. UNCHANGED <<frames, change_pw_vault>>
    BY <1>4 DEF ToggleSplit, dialogs
  <2>4. FramesOK(frames')
    BY <1>1, <2>3
  <2> QED
    BY <1>1, <1>3, <2>2, <2>3, <2>4 DEF RunsOn
<1>5. CASE OpenSettings
  <2>1. Opened("settings", cfg) \in Frame /\ HeldOK(Opened("settings", cfg))
    BY <1>1, OpenedFrame
  <2>2. /\ FramesOK(Append(frames, Opened("settings", cfg)))
        /\ Len(Append(frames, Opened("settings", cfg))) = Len(frames) + 1
    BY <1>1, <2>1, PushFrame
  <2>3. frames' = Append(frames, Opened("settings", cfg)) /\ Len(frames) < MaxFrames
        /\ change_pw_vault' = TRUE
        /\ UNCHANGED <<settings_enc, legacy, pc, vault, cfg>>
    BY <1>5 DEF OpenSettings, files, memory
  <2>4. FramesOK(frames')
    BY <2>2, <2>3
  <2>5. Len(frames') <= MaxFrames
    BY <1>1, <2>2, <2>3, VaultAssumption
  <2> QED
    BY <1>1, <1>3, <2>3, <2>4, <2>5 DEF RunsOn
<1>6. CASE Unwind
  <2>1. frames # <<>> /\ Returns(Last(frames), Front(frames))
    BY <1>6 DEF Unwind
  <2>2. /\ FramesOK(Front(frames)) /\ Len(Front(frames)) = Len(frames) - 1
        /\ Last(frames) \in Frame /\ HeldOK(Last(frames))
    BY <1>1, <2>1, TopFrame
  <2>3. /\ FramesOK(frames') /\ Len(frames') <= Len(Front(frames)) + 1
        /\ cfg' \in Contents /\ change_pw_vault' \in BOOLEAN
        /\ settings_enc' \in Sealed
        /\ settings_enc' # NoFile /\ settings_enc'.plain \in Contents
        /\ vault' \in Passwords
        /\ UNCHANGED <<legacy, pc>>
    BY <1>2, <2>1, <2>2, ReturnKeeps
  <2>4. Len(frames') <= MaxFrames
    <3>1. Len(frames') \in Nat /\ Len(frames) \in Nat
      BY <1>1, <2>3 DEF FramesOK
    <3> QED
      BY <1>1, <2>2, <2>3, <3>1, VaultAssumption
  <2> QED
    BY <2>3, <2>4 DEF RunsOn
<1>7. CASE \E i \in DOMAIN frames : ClickChangePassword(i)
  <2>1. Opened("old", settings_enc) \in Frame /\ HeldOK(Opened("old", settings_enc))
    BY <1>3, OpenedFrame
  <2>2. /\ FramesOK(Append(frames, Opened("old", settings_enc)))
        /\ Len(Append(frames, Opened("old", settings_enc))) = Len(frames) + 1
    BY <1>1, <2>1, PushFrame
  <2>3. frames' = Append(frames, Opened("old", settings_enc)) /\ Len(frames) < MaxFrames
        /\ UNCHANGED <<settings_enc, legacy, pc, vault, cfg, change_pw_vault>>
    BY <1>7 DEF ClickChangePassword, files, memory
  <2>4. FramesOK(frames')
    BY <2>2, <2>3
  <2>5. Len(frames') <= MaxFrames
    BY <1>1, <2>2, <2>3, VaultAssumption
  <2> QED
    BY <1>1, <1>3, <2>3, <2>4, <2>5 DEF RunsOn
<1> QED
  BY <1>4, <1>5, <1>6, <1>7

\* The steps outside the running wrapper, and its end.
LifeStep ==
  Launch \/ Unlock \/ ShredLegacy \/ Quit \/ \E pw \in Passwords : CreateVault(pw)

\* The steps of the running wrapper.
RunningStep ==
  \/ ToggleSplit \/ OpenSettings \/ Unwind
  \/ \E i \in DOMAIN frames :
       Cancel(i) \/ SettingsOk(i) \/ PasswordOk(i) \/ ClickChangePassword(i)

LEMMA LifeStepKeepsInv == ASSUME VaultInv, LifeStep PROVE VaultInv'
<1>1. VaultTypeOK /\ FramesOK(frames) /\ LifeOK
  BY DEF VaultInv
<1>2. CASE Launch
  <2>1. /\ UNCHANGED <<settings_enc, legacy, vault, cfg, frames, change_pw_vault>>
        /\ pc = "off" /\ pc' \in {"locked", "creating"}
        /\ pc' = "locked" <=> settings_enc # NoFile
    BY <1>2 DEF Launch, files, memory, dialogs
  <2>2. FramesOK(frames')
    BY <1>1, <2>1
  <2> QED
    BY <1>1, <2>1, <2>2 DEF VaultInv, VaultTypeOK, LifeOK
<1>3. CASE Unlock
  <2>1. settings_enc \in Sealed /\ frames = <<>>
    BY <1>1, <1>3 DEF Unlock, VaultTypeOK, LifeOK
  <2>2. UNCHANGED <<settings_enc, legacy, frames, change_pw_vault>>
    BY <1>3 DEF Unlock, files, dialogs
  <2>3. FramesOK(frames')
    BY <1>1, <2>2
  <2>4. CASE settings_enc.plain = Unreadable
    BY <1>1, <1>3, <2>1, <2>2, <2>3, <2>4
       DEF Unlock, VaultInv, VaultTypeOK, LifeOK, memory
  <2>5. CASE settings_enc.plain # Unreadable
    <3>1. settings_enc.plain \in Contents /\ settings_enc.pw \in Passwords
      BY <2>1, <2>5 DEF Sealed
    <3>2. pc' = "running" /\ vault' = settings_enc.pw /\ cfg' = settings_enc.plain
      BY <1>3, <2>5 DEF Unlock
    <3>3. settings_enc # NoFile
      BY <2>1, VaultAssumption
    <3> QED
      BY <1>1, <2>1, <2>2, <2>3, <3>1, <3>2, <3>3 DEF VaultInv, VaultTypeOK, LifeOK
  <2> QED
    BY <2>4, <2>5
<1>4. CASE ShredLegacy
  <2>1. UNCHANGED <<settings_enc, vault, cfg, frames, change_pw_vault>>
        /\ pc = "shredding" /\ pc' = "running" /\ legacy' = NoFile
    BY <1>4 DEF ShredLegacy, memory, dialogs
  <2>2. FramesOK(frames')
    BY <1>1, <2>1
  <2> QED
    BY <1>1, <2>1, <2>2 DEF VaultInv, VaultTypeOK, LifeOK
<1>5. CASE Quit
  <2>1. UNCHANGED <<settings_enc, legacy>> /\ pc' = "off"
        /\ vault' = NoPassword /\ cfg' = Default /\ frames' = <<>>
        /\ change_pw_vault' = FALSE
    BY <1>5 DEF Quit, files
  <2>2. FramesOK(<<>>) /\ Default \in Contents
    BY VaultAssumption DEF FramesOK, Default, Contents
  <2>3. FramesOK(frames')
    BY <2>1, <2>2
  <2>4. frames' \in Seq(Frame) /\ Len(frames') <= MaxFrames
    BY <2>1, VaultAssumption
  <2>5. VaultTypeOK'
    BY <1>1, <2>1, <2>2, <2>4 DEF VaultTypeOK
  <2>6. LifeOK'
    BY <2>1 DEF LifeOK
  <2> QED
    BY <2>3, <2>5, <2>6 DEF VaultInv
<1>6. CASE \E pw \in Passwords : CreateVault(pw)
  <2>1. PICK pw \in Passwords : CreateVault(pw)
    BY <1>6
  <2>2. /\ pc = "creating" /\ frames = <<>>
        /\ UNCHANGED <<legacy, frames, change_pw_vault>>
    BY <1>1, <2>1 DEF CreateVault, dialogs, LifeOK
  <2>3. FramesOK(frames')
    BY <1>1, <2>2
  <2>4. CASE pc' = "off" /\ UNCHANGED <<settings_enc, memory>>
    BY <1>1, <2>2, <2>3, <2>4 DEF VaultInv, VaultTypeOK, LifeOK, memory
  <2>5. CASE /\ settings_enc' = [pw |-> pw, plain |-> Migrated]
             /\ vault' = pw /\ cfg' = Migrated
             /\ pc' = IF legacy \in Contents THEN "shredding" ELSE "running"
    <3>1. Migrated \in Contents /\ (legacy \in Contents => Migrated = legacy)
      BY VaultAssumption DEF Migrated, Default, Contents
    <3>2. settings_enc' \in Sealed /\ settings_enc'.plain = Migrated
      BY <2>5, <3>1 DEF Sealed
    <3>3. settings_enc' # NoFile
      BY <3>2, VaultAssumption
    <3> QED
      BY <1>1, <2>2, <2>3, <2>5, <3>1, <3>2, <3>3 DEF VaultInv, VaultTypeOK, LifeOK
  <2> QED
    BY <2>1, <2>4, <2>5 DEF CreateVault
<1> QED
  BY <1>2, <1>3, <1>4, <1>5, <1>6 DEF LifeStep

LEMMA RunningStepRunsOn ==
  ASSUME VaultInv, RunningStep PROVE pc = "running" /\ RunsOn
<1>1. RunsOn
  BY AnswerRunsOn, OtherRunsOn DEF RunningStep
<1>2. pc = "running"
  BY DEF RunningStep, ToggleSplit, OpenSettings, MainWindowEnabled, Unwind,
         VaultInv, VaultTypeOK, LifeOK
<1> QED
  BY <1>1, <1>2

LEMMA VaultInvariance == VaultSpec => []VaultInv
<1>1. Init => VaultInv
  <2> SUFFICES ASSUME Init PROVE VaultInv
    OBVIOUS
  <2>1. FramesOK(<<>>) /\ Default \in Contents
    BY VaultAssumption DEF FramesOK, Default, Contents
  <2>2. FramesOK(frames)
    BY <2>1 DEF Init
  <2>3. frames \in Seq(Frame) /\ Len(frames) <= MaxFrames
    BY VaultAssumption DEF Init
  <2>4. legacy \in Contents \cup {Unreadable, NoFile}
    <3>1. ASSUME NEW r \in Rests PROVE [split |-> FALSE, rest |-> r] \in Contents
      BY DEF Contents
    <3> QED
      BY <3>1 DEF Init
  <2>5. VaultTypeOK
    BY <2>1, <2>3, <2>4 DEF Init, VaultTypeOK
  <2>6. LifeOK
    BY DEF Init, LifeOK
  <2> QED
    BY <2>2, <2>5, <2>6 DEF VaultInv
<1>2. VaultInv /\ [Next]_vars => VaultInv'
  <2> SUFFICES ASSUME VaultInv, [Next]_vars PROVE VaultInv'
    OBVIOUS
  <2>1. CASE LifeStep
    BY <2>1, LifeStepKeepsInv
  <2>2. CASE RunningStep
    BY <2>2, RunningStepRunsOn, RunsOnKeepsInv
  <2>3. CASE UNCHANGED vars
    <3>1. UNCHANGED <<settings_enc, legacy, pc, vault, cfg, frames, change_pw_vault>>
      BY <2>3 DEF vars, files, memory, dialogs
    <3>2. FramesOK(frames')
      BY <3>1 DEF VaultInv
    <3> QED
      BY <3>1, <3>2 DEF VaultInv, VaultTypeOK, LifeOK
  <2> QED
    BY <2>1, <2>2, <2>3 DEF Next, LifeStep, RunningStep
<1> QED
  BY <1>1, <1>2, PTL DEF VaultSpec

-----------------------------------------------------------------------------
(* Theorems. *)

\* The vault, the files and the dialogs only ever hold values of their types.
THEOREM VaultTypeCorrect == VaultSpec => []VaultTypeOK
BY VaultInvariance, PTL DEF VaultInv

\* A file that decrypts to something other than settings is never overwritten.
THEOREM UnreadableFileSurvives == VaultSpec => UnreadableFileKept
<1>1. VaultInv /\ [Next]_vars
        => [settings_enc # NoFile /\ settings_enc.plain = Unreadable
              => settings_enc' = settings_enc]_vars
  <2> SUFFICES ASSUME VaultInv, Next, settings_enc # NoFile,
                      settings_enc.plain = Unreadable
               PROVE  settings_enc' = settings_enc
    BY DEF vars, files
  <2>1. LifeOK
    BY DEF VaultInv
  <2>2. CASE LifeStep
    BY <2>1, <2>2 DEF LifeStep, Launch, Unlock, ShredLegacy, Quit, CreateVault,
                      files, LifeOK
  <2>3. CASE RunningStep
    BY <2>1, <2>3, RunningStepRunsOn, VaultAssumption DEF LifeOK
  <2> QED
    BY <2>2, <2>3 DEF Next, LifeStep, RunningStep
<1> QED
  BY <1>1, VaultInvariance, PTL DEF VaultSpec, UnreadableFileKept

\* Settings of an older version are on disk at every moment of the migration.
THEOREM LegacySurvives == VaultSpec => LegacyNotLost
<1>1. VaultInv /\ [Next]_vars
        => [legacy # NoFile /\ legacy # Unreadable /\ legacy' # legacy
              => settings_enc' # NoFile /\ settings_enc'.plain = legacy]_vars
  <2> SUFFICES ASSUME VaultInv, Next, legacy' # legacy
               PROVE  settings_enc' # NoFile /\ settings_enc'.plain = legacy
    BY DEF vars, files
  <2>1. LifeOK
    BY DEF VaultInv
  <2>2. ShredLegacy
    BY RunningStepRunsOn DEF Next, RunningStep, RunsOn, Launch, Unlock, Quit,
                             CreateVault, files
  <2> QED
    BY <2>1, <2>2 DEF ShredLegacy, LifeOK
<1> QED
  BY <1>1, VaultInvariance, PTL DEF VaultSpec, LegacyNotLost

-----------------------------------------------------------------------------
(* The key in memory. *)

\* The settings dialog is not opened again while an earlier one has yet to return.
OneSettingsDialog == "reopen" \notin Events

\* One settings dialog, with the password prompts of its flows above it.
DialogShape(fs) == \A i \in 1 .. Len(fs) : fs[i].kind = "settings" <=> i = 1

\* While any dialog is on the stack the flows can reach the live vault.
KeyInv ==
  /\ DialogShape(frames)
  /\ frames # <<>> => change_pw_vault
  /\ pc \in {"running", "shredding"} => settings_enc.pw = vault

\* The dialog on top is the settings dialog if and only if it is alone.
LEMMA TopShape ==
  ASSUME NEW fs, FramesOK(fs), fs # <<>>, DialogShape(fs)
  PROVE  /\ DialogShape(Front(fs))
         /\ Last(fs).kind = "settings" <=> Front(fs) = <<>>
<1>1. fs \in Seq(Frame) /\ Len(fs) \in Nat \ {0}
  BY DEF FramesOK
<1>2. /\ Front(fs) \in Seq(Frame) /\ Len(Front(fs)) = Len(fs) - 1
      /\ \A i \in 1 .. Len(fs) - 1 : Front(fs)[i] = fs[i]
  BY TopFrame DEF FramesOK
<1>3. DialogShape(Front(fs))
  BY <1>1, <1>2 DEF DialogShape
<1>4. Last(fs).kind = "settings" <=> Len(fs) = 1
  <2>1. Len(fs) \in 1 .. Len(fs)
    BY <1>1
  <2>2. fs[Len(fs)].kind = "settings" <=> Len(fs) = 1
    BY <2>1 DEF DialogShape
  <2> QED
    BY <2>2 DEF Last
<1>5. Front(fs) = <<>> <=> Len(fs) = 1
  BY <1>1, <1>2, EmptySeq
<1> QED
  BY <1>3, <1>4, <1>5

\* A dialog that returns leaves file and vault in agreement.
LEMMA ReturnKeepsKey ==
  ASSUME VaultInv, pc = "running", settings_enc.pw = vault, change_pw_vault,
         NEW f \in Frame, HeldOK(f), NEW below, FramesOK(below), DialogShape(below),
         f.kind = "settings" <=> below = <<>>,
         Returns(f, below)
  PROVE  /\ DialogShape(frames')
         /\ frames' # <<>> => change_pw_vault'
         /\ settings_enc'.pw = vault'
<1>1. CASE f.kind = "settings"
  <2>1. SettingsReturn(f, below) /\ below = <<>>
    BY <1>1 DEF Returns
  <2>2. frames' = <<>>
    BY <2>1 DEF SettingsReturn
  <2>3. DialogShape(frames')
    BY <2>2 DEF DialogShape
  <2>4. settings_enc'.pw = vault'
    BY <2>1 DEF SettingsReturn, Save, files, memory
  <2> QED
    BY <2>2, <2>3, <2>4
<1>2. CASE f.kind = "old"
  <2>1. /\ OldPasswordReturn(f, below) /\ below # <<>>
        /\ f.held.plain \in Contents
    BY <1>2 DEF Returns, HeldOK
  <2>2. UNCHANGED <<settings_enc, vault, change_pw_vault>>
    BY <2>1 DEF OldPasswordReturn, files, memory
  <2>3. CASE frames' = below
    <3>1. DialogShape(frames')
      BY <2>3
    <3> QED
      BY <2>2, <3>1
  <2>4. CASE frames' = Append(below, Opened("new", f.held.plain))
    <3> DEFINE new == Opened("new", f.held.plain)
    <3>1. new \in Frame /\ HeldOK(new) /\ new.kind = "new"
      BY <2>1, OpenedFrame DEF Opened
    <3>2. /\ Len(Append(below, new)) = Len(below) + 1
          /\ \A i \in 1 .. Len(below) : Append(below, new)[i] = below[i]
          /\ Append(below, new)[Len(below) + 1] = new
      BY <3>1, PushFrame
    <3>3. Len(below) \in Nat \ {0}
      BY <2>1 DEF FramesOK
    <3>4. ASSUME NEW i \in 1 .. Len(below) + 1
          PROVE  Append(below, new)[i].kind = "settings" <=> i = 1
      <4>1. CASE i \in 1 .. Len(below)
        BY <3>2, <4>1 DEF DialogShape
      <4>2. CASE i = Len(below) + 1
        BY <3>1, <3>2, <3>3, <4>2
      <4> QED
        BY <3>3, <4>1, <4>2
    <3>5. DialogShape(Append(below, new))
      BY <3>2, <3>4 DEF DialogShape
    <3>6. DialogShape(frames')
      BY <2>4, <3>5
    <3> QED
      BY <2>2, <3>6
  <2> QED
    BY <2>1, <2>3, <2>4 DEF OldPasswordReturn
<1>3. CASE f.kind = "new"
  <2>1. NewPasswordReturn(f, below)
    BY <1>3 DEF Returns
  <2>2. frames' = below /\ change_pw_vault' = change_pw_vault
    BY <2>1 DEF NewPasswordReturn
  <2>3. DialogShape(frames')
    BY <2>2
  <2>4. settings_enc'.pw = vault'
    BY <2>1 DEF NewPasswordReturn
  <2> QED
    BY <2>2, <2>3, <2>4
<1> QED
  BY <1>1, <1>2, <1>3 DEF Frame

LEMMA EndDialogKeepsKey ==
  ASSUME VaultInv, KeyInv, NEW i \in DOMAIN frames, NEW f \in Frame, HeldOK(f),
         f.kind = frames[i].kind, EndDialog(i, f)
  PROVE  KeyInv'
<1>1. /\ FramesOK(frames) /\ frames \in Seq(Frame) /\ i \in 1 .. Len(frames)
      /\ pc = "running" /\ pc' = "running" /\ frames # <<>>
  BY EndDialogRunsOn DEF VaultInv, VaultTypeOK, EndDialog, RunsOn
<1>2. settings_enc.pw = vault /\ change_pw_vault /\ DialogShape(frames)
  BY <1>1 DEF KeyInv
<1>3. CASE i = Len(frames)
  <2>1. Returns(f, Front(frames)) /\ f.kind = Last(frames).kind
    BY <1>3 DEF EndDialog, Last
  <2>2. FramesOK(Front(frames))
    BY <1>1, TopFrame
  <2>3. DialogShape(Front(frames)) /\ (f.kind = "settings" <=> Front(frames) = <<>>)
    BY <1>1, <1>2, <2>1, TopShape
  <2>4. /\ DialogShape(frames')
        /\ frames' # <<>> => change_pw_vault'
        /\ settings_enc'.pw = vault'
    BY <1>1, <1>2, <2>1, <2>2, <2>3, ReturnKeepsKey
  <2> QED
    BY <2>4 DEF KeyInv
<1>4. CASE i # Len(frames)
  <2>1. /\ frames' = [frames EXCEPT ![i] = f]
        /\ UNCHANGED <<settings_enc, vault, change_pw_vault>>
    BY <1>4 DEF EndDialog, files, memory
  <2>2. Len(frames') = Len(frames)
        /\ \A j \in 1 .. Len(frames) : frames'[j] = IF j = i THEN f ELSE frames[j]
    BY <1>1, <2>1
  <2>3. DialogShape(frames')
    BY <1>2, <2>2 DEF DialogShape
  <2> QED
    BY <1>2, <2>1, <2>3 DEF KeyInv
<1> QED
  BY <1>3, <1>4

LEMMA RunningStepKeepsKey ==
  ASSUME OneSettingsDialog, VaultInv, KeyInv, RunningStep
  PROVE  KeyInv'
<1>1. /\ FramesOK(frames) /\ frames \in Seq(Frame) /\ DialogShape(frames)
      /\ pc = "running" /\ pc' = "running" /\ settings_enc.pw = vault
      /\ frames # <<>> => change_pw_vault
  BY RunningStepRunsOn DEF VaultInv, VaultTypeOK, KeyInv, RunsOn
<1>2. ASSUME NEW i \in DOMAIN frames
      PROVE  frames[i] \in Frame /\ HeldOK(frames[i])
  BY <1>1 DEF FramesOK
<1>3. CASE ToggleSplit
  <2>1. UNCHANGED <<frames, change_pw_vault>> /\ settings_enc'.pw = vault'
    BY <1>1, <1>3 DEF ToggleSplit, Save, dialogs
  <2>2. DialogShape(frames')
    BY <1>1, <2>1
  <2> QED
    BY <1>1, <2>1, <2>2 DEF KeyInv
<1>4. CASE OpenSettings
  <2>1. /\ frames = <<>> /\ frames' = Append(frames, Opened("settings", cfg))
        /\ change_pw_vault' = TRUE /\ UNCHANGED <<settings_enc, vault>>
    BY <1>4 DEF OpenSettings, OneSettingsDialog, files, memory
  <2>2. Len(frames') = 1 /\ frames'[1].kind = "settings"
    BY <2>1 DEF Opened
  <2>3. DialogShape(frames')
    BY <2>2 DEF DialogShape
  <2> QED
    BY <1>1, <2>1, <2>3 DEF KeyInv
<1>5. CASE Unwind
  <2>1. frames # <<>> /\ Returns(Last(frames), Front(frames))
    BY <1>5 DEF Unwind
  <2>2. FramesOK(Front(frames)) /\ Last(frames) \in Frame /\ HeldOK(Last(frames))
    BY <1>1, <2>1, TopFrame
  <2>3. /\ DialogShape(Front(frames))
        /\ Last(frames).kind = "settings" <=> Front(frames) = <<>>
    BY <1>1, <2>1, TopShape
  <2>4. /\ DialogShape(frames')
        /\ frames' # <<>> => change_pw_vault'
        /\ settings_enc'.pw = vault'
    BY <1>1, <2>1, <2>2, <2>3, ReturnKeepsKey
  <2> QED
    BY <2>4 DEF KeyInv
<1>6. ASSUME NEW i \in DOMAIN frames, Cancel(i) PROVE KeyInv'
  <2> DEFINE f == [frames[i] EXCEPT !.ended = "cancel"]
  <2>1. f \in Frame /\ HeldOK(f) /\ f.kind = frames[i].kind
    BY <1>2 DEF Frame, HeldOK
  <2>2. EndDialog(i, f)
    BY <1>6 DEF Cancel
  <2> QED
    BY <2>1, <2>2, EndDialogKeepsKey
<1>7. ASSUME NEW i \in DOMAIN frames, SettingsOk(i) PROVE KeyInv'
  <2>1. PICK s \in Contents :
          EndDialog(i, [frames[i] EXCEPT !.ended = "ok", !.held = s])
    BY <1>7 DEF SettingsOk
  <2> DEFINE f == [frames[i] EXCEPT !.ended = "ok", !.held = s]
  <2>2. frames[i].kind = "settings"
    BY <1>7 DEF SettingsOk
  <2>3. f \in Frame /\ HeldOK(f) /\ f.kind = frames[i].kind
    BY <1>2, <2>2 DEF Frame, HeldOK
  <2> QED
    BY <2>1, <2>3, EndDialogKeepsKey
<1>8. ASSUME NEW i \in DOMAIN frames, PasswordOk(i) PROVE KeyInv'
  <2>1. PICK pw \in Passwords :
          EndDialog(i, [frames[i] EXCEPT !.ended = "ok", !.typed = pw])
    BY <1>8 DEF PasswordOk
  <2> DEFINE f == [frames[i] EXCEPT !.ended = "ok", !.typed = pw]
  <2>2. f \in Frame /\ HeldOK(f) /\ f.kind = frames[i].kind
    BY <1>2 DEF Frame, HeldOK
  <2> QED
    BY <2>1, <2>2, EndDialogKeepsKey
<1>9. ASSUME NEW i \in DOMAIN frames, ClickChangePassword(i) PROVE KeyInv'
  <2> DEFINE old == Opened("old", settings_enc)
  <2>1. /\ frames' = Append(frames, old) /\ old.kind = "old"
        /\ UNCHANGED <<settings_enc, vault, change_pw_vault>>
    BY <1>9 DEF ClickChangePassword, Opened, files, memory
  <2>2. Len(frames) \in Nat \ {0}
    BY <1>1, <1>9
  <2>3. /\ Len(frames') = Len(frames) + 1
        /\ \A j \in 1 .. Len(frames) : frames'[j] = frames[j]
        /\ frames'[Len(frames) + 1] = old
    BY <1>1, <2>1
  <2>4. ASSUME NEW j \in 1 .. Len(frames) + 1
        PROVE  frames'[j].kind = "settings" <=> j = 1
    <3>1. CASE j \in 1 .. Len(frames)
      BY <1>1, <2>3, <3>1 DEF DialogShape
    <3>2. CASE j = Len(frames) + 1
      BY <2>1, <2>2, <2>3, <3>2
    <3> QED
      BY <2>2, <3>1, <3>2
  <2>5. DialogShape(frames')
    BY <2>3, <2>4 DEF DialogShape
  <2> QED
    BY <1>1, <1>9, <2>1, <2>5 DEF KeyInv
<1> QED
  BY <1>3, <1>4, <1>5, <1>6, <1>7, <1>8, <1>9 DEF RunningStep

LEMMA LifeStepKeepsKey ==
  ASSUME VaultInv, KeyInv, LifeStep
  PROVE  KeyInv'
<1>1. LifeOK /\ DialogShape(frames)
  BY DEF VaultInv, KeyInv
<1>2. CASE Launch
  <2>1. UNCHANGED frames /\ frames = <<>> /\ pc' \in {"locked", "creating"}
    BY <1>1, <1>2 DEF Launch, dialogs, LifeOK
  <2>2. DialogShape(frames')
    BY <1>1, <2>1
  <2> QED
    BY <2>1, <2>2 DEF KeyInv
<1>3. CASE Unlock
  <2>1. /\ UNCHANGED <<settings_enc, frames>> /\ frames = <<>>
        /\ pc' = "off" \/ (pc' = "running" /\ vault' = settings_enc.pw)
    <3>1. frames = <<>>
      BY <1>1, <1>3 DEF Unlock, LifeOK
    <3>2. UNCHANGED settings_enc /\ UNCHANGED frames
      BY <1>3 DEF Unlock, files, dialogs
    <3>3. pc' = "off" \/ (pc' = "running" /\ vault' = settings_enc.pw)
      BY <1>3 DEF Unlock
    <3> QED
      BY <3>1, <3>2, <3>3
  <2>2. DialogShape(frames')
    BY <1>1, <2>1
  <2> QED
    BY <2>1, <2>2 DEF KeyInv
<1>4. CASE ShredLegacy
  <2>1. UNCHANGED <<settings_enc, vault, frames>> /\ frames = <<>> /\ pc = "shredding"
    BY <1>1, <1>4 DEF ShredLegacy, memory, dialogs, LifeOK
  <2>2. DialogShape(frames')
    BY <1>1, <2>1
  <2> QED
    BY <2>1, <2>2 DEF KeyInv
<1>5. CASE Quit
  <2>1. frames' = <<>> /\ pc' = "off"
    BY <1>5 DEF Quit
  <2>2. DialogShape(frames')
    BY <2>1 DEF DialogShape
  <2> QED
    BY <2>1, <2>2 DEF KeyInv
<1>6. CASE \E pw \in Passwords : CreateVault(pw)
  <2>1. /\ UNCHANGED frames /\ frames = <<>>
        /\ pc' = "off" \/ settings_enc'.pw = vault'
    BY <1>1, <1>6 DEF CreateVault, dialogs, LifeOK
  <2>2. DialogShape(frames')
    BY <1>1, <2>1
  <2> QED
    BY <2>1, <2>2 DEF KeyInv
<1> QED
  BY <1>2, <1>3, <1>4, <1>5, <1>6 DEF LifeStep

\* A running wrapper saves with the password that opens its file, as long as the
\* settings dialog is not opened below a password prompt that outlived the first.
THEOREM NextSaveOpens == OneSettingsDialog => (VaultSpec => []VaultOpensFile)
<1> SUFFICES ASSUME OneSettingsDialog PROVE VaultSpec => []VaultOpensFile
  OBVIOUS
<1>1. Init => KeyInv
  BY DEF Init, KeyInv, DialogShape
<1>2. VaultInv /\ KeyInv /\ [Next]_vars => KeyInv'
  <2> SUFFICES ASSUME VaultInv, KeyInv, [Next]_vars PROVE KeyInv'
    OBVIOUS
  <2>1. CASE LifeStep
    BY <2>1, LifeStepKeepsKey
  <2>2. CASE RunningStep
    BY <2>2, RunningStepKeepsKey
  <2>3. CASE UNCHANGED vars
    <3>1. UNCHANGED <<settings_enc, pc, vault, frames, change_pw_vault>>
      BY <2>3 DEF vars, files, memory, dialogs
    <3>2. DialogShape(frames')
      BY <3>1 DEF KeyInv
    <3> QED
      BY <3>1, <3>2 DEF KeyInv
  <2> QED
    BY <2>1, <2>2, <2>3 DEF Next, LifeStep, RunningStep
<1>3. VaultInv /\ KeyInv => VaultOpensFile
  BY DEF VaultInv, LifeOK, KeyInv, VaultOpensFile
<1> QED
  BY <1>1, <1>2, <1>3, VaultInvariance, PTL DEF VaultSpec

=============================================================================
