---------------------------- MODULE FilesProofs ----------------------------
(***************************************************************************)
(* Theorems about the files of the wrapper, for any contents, any number   *)
(* of releases and any failures: the writes implement AtomicFile, and the  *)
(* version marker vouches for the binaries.                                *)
(***************************************************************************)
EXTENDS Files, TLAPS, SequenceTheorems

(* What is left of an operation at each of its primitives. *)

Write2(f) == << <<Op("write", "tmp"), Op("sync", "tmp"), Op("rename", f)>> >>
Write3(f) == << <<Op("sync", "tmp"), Op("rename", f)>> >>
Write4(f) == << <<Op("rename", f)>> >>

Shred2(f) == << <<Op("sync", f)>>, <<Op("remove", f)>> >>
Shred3(f) == << <<Op("remove", f)>> >>

Extract2 == << <<Op("write", "exe")>>, fs_write("wintun"), fs_write("marker")>>
Extract3 == <<fs_write("wintun"), fs_write("marker")>>
Extract4 == << <<Op("write", "wintun")>>, fs_write("marker")>>
Extract5 == <<fs_write("marker")>>
Extract6 == << <<Op("write", "marker")>> >>

\* What is left when the primitive at hand was successful.
After(calls) ==
  IF Len(Head(calls)) = 1 THEN Tail(calls) ELSE <<Tail(Head(calls))>> \o Tail(calls)

Record == ui = [calls |-> ui.calls, path |-> ui.path, bytes |-> ui.bytes]

-----------------------------------------------------------------------------
(* Going on. *)

LEMMA PutBack1 == ASSUME NEW a PROVE <<a>> \o <<>> = <<a>>
<1>1. <<a>> \in Seq({a})
  OBVIOUS
<1> QED
  BY <1>1, ConcatEmptySeq

LEMMA PutBack2 == ASSUME NEW a, NEW b PROVE <<a>> \o <<b>> = <<a, b>>
<1> DEFINE S == {a, b}
<1>1. <<a>> \in Seq(S) /\ <<b>> \in Seq(S) /\ <<a, b>> \in Seq(S)
  OBVIOUS
<1>2. /\ <<a>> \o <<b>> \in Seq(S) /\ Len(<<a>> \o <<b>>) = 2
      /\ \A i \in 1 .. 2 : (<<a>> \o <<b>>)[i] = IF i <= 1 THEN <<a>>[i] ELSE <<b>>[i - 1]
  BY <1>1, ConcatProperties
<1>3. Len(<<a, b>>) = 2 /\ \A i \in 1 .. 2 : (<<a>> \o <<b>>)[i] = <<a, b>>[i]
  BY <1>2
<1> QED
  BY <1>1, <1>2, <1>3, SeqEqual

LEMMA PutBack3 == ASSUME NEW a, NEW b, NEW c PROVE <<a>> \o <<b, c>> = <<a, b, c>>
<1> DEFINE S == {a, b, c}
<1>1. <<a>> \in Seq(S) /\ <<b, c>> \in Seq(S) /\ <<a, b, c>> \in Seq(S)
  OBVIOUS
<1>2. /\ <<a>> \o <<b, c>> \in Seq(S) /\ Len(<<a>> \o <<b, c>>) = 3
      /\ \A i \in 1 .. 3 :
           (<<a>> \o <<b, c>>)[i] = IF i <= 1 THEN <<a>>[i] ELSE <<b, c>>[i - 1]
  BY <1>1, ConcatProperties
<1>3. Len(<<a, b, c>>) = 3 /\ \A i \in 1 .. 3 : (<<a>> \o <<b, c>>)[i] = <<a, b, c>>[i]
  BY <1>2
<1> QED
  BY <1>1, <1>2, <1>3, SeqEqual

LEMMA WriteCalls ==
  ASSUME NEW f
  PROVE  /\ Head(Head(write_atomic(f))) = Op("create", "tmp")
         /\ After(write_atomic(f)) = Write2(f) /\ Tail(write_atomic(f)) = <<>>
         /\ Head(Head(Write2(f))) = Op("write", "tmp")
         /\ After(Write2(f)) = Write3(f) /\ Tail(Write2(f)) = <<>>
         /\ Head(Head(Write3(f))) = Op("sync", "tmp")
         /\ After(Write3(f)) = Write4(f) /\ Tail(Write3(f)) = <<>>
         /\ Head(Head(Write4(f))) = Op("rename", f)
         /\ After(Write4(f)) = <<>> /\ Tail(Write4(f)) = <<>>
         /\ <<>> \notin {write_atomic(f), Write2(f), Write3(f), Write4(f)}
BY PutBack1 DEF After, write_atomic, Write2, Write3, Write4

LEMMA ShredCalls ==
  ASSUME NEW f
  PROVE  /\ Head(Head(shred_file(f))) = Op("overwrite", f)
         /\ After(shred_file(f)) = Shred2(f) /\ Tail(shred_file(f)) = Shred3(f)
         /\ Head(Head(Shred2(f))) = Op("sync", f)
         /\ After(Shred2(f)) = Shred3(f) /\ Tail(Shred2(f)) = Shred3(f)
         /\ Head(Head(Shred3(f))) = Op("remove", f)
         /\ After(Shred3(f)) = <<>> /\ Tail(Shred3(f)) = <<>>
         /\ <<>> \notin {shred_file(f), Shred2(f), Shred3(f)}
BY PutBack2 DEF After, shred_file, Shred2, Shred3

LEMMA ExtractionCalls ==
  /\ Head(Head(extraction)) = Op("create", "exe")
  /\ After(extraction) = Extract2 /\ Tail(extraction) = Extract3
  /\ Head(Head(Extract2)) = Op("write", "exe")
  /\ After(Extract2) = Extract3 /\ Tail(Extract2) = Extract3
  /\ Head(Head(Extract3)) = Op("create", "wintun")
  /\ After(Extract3) = Extract4 /\ Tail(Extract3) = Extract5
  /\ Head(Head(Extract4)) = Op("write", "wintun")
  /\ After(Extract4) = Extract5 /\ Tail(Extract4) = Extract5
  /\ Head(Head(Extract5)) = Op("create", "marker")
  /\ After(Extract5) = Extract6 /\ Tail(Extract5) = <<>>
  /\ Head(Head(Extract6)) = Op("write", "marker")
  /\ After(Extract6) = <<>> /\ Tail(Extract6) = <<>>
  /\ <<>> \notin {extraction, Extract2, Extract3, Extract4, Extract5, Extract6}
BY PutBack1, PutBack2, PutBack3
DEF After, extraction, fs_write, Extract2, Extract3, Extract4, Extract5, Extract6

-----------------------------------------------------------------------------
(* The inductive invariant. *)

Contents == Values \cup Versions \cup {NoFile, Torn, Junk}

\* What may be in each file.  A vault is never torn; what is on the medium
\* differs from what is read only under a shred and where a write is not synced,
\* and of the marker that is a torn one.
DiskInv ==
  /\ disk \in [Names -> Contents] /\ medium \in [Names -> Contents]
  /\ {disk["config"], medium["config"]} \subseteq Values \cup {NoFile, Junk}
  /\ disk["config"] \in {medium["config"], Junk}
  /\ disk["settings"] \in Values \cup {NoFile} /\ medium["settings"] = disk["settings"]
  /\ {disk["tmp"], medium["tmp"]} \subseteq Values \cup {NoFile, Torn}
  /\ \A f \in Binaries : {disk[f], medium[f]} \subseteq Versions \cup {NoFile, Torn}
  /\ disk["marker"] \in 1 .. version \cup {NoFile, Torn}
  /\ medium["marker"] \in {disk["marker"], Torn}

StateInv ==
  /\ running \in {0, version} /\ version \in Versions
  /\ unlocked \in BOOLEAN /\ (unlocked => running # 0)
  /\ held \in BOOLEAN /\ spoilt \in BOOLEAN

\* Where an atomic write can be, and what the temporary file then holds.
WritePoint(f) ==
  /\ running # 0 /\ ui.path = f /\ ui.bytes \in Values
  /\ \/ ui.calls \in {write_atomic(f), Write2(f)}
     \/ ui.calls = Write3(f) /\ disk["tmp"] = ui.bytes
     \/ ui.calls = Write4(f) /\ disk["tmp"] = ui.bytes /\ medium["tmp"] = ui.bytes

ShredPoint ==
  /\ running # 0 /\ ui.path = "config" /\ ui.bytes = NoFile
  /\ ui.calls \in {shred_file("config"), Shred2("config"), Shred3("config")}

MarkerIsOld == spoilt \/ disk["marker"] # version

\* Where an extraction can be, and which binaries are those of the release.
ExtractionPoint ==
  /\ running # 0 /\ ui.path = "marker" /\ ui.bytes = version
  /\ \/ ui.calls \in {extraction, Extract2} /\ MarkerIsOld
     \/ /\ ui.calls \in {Extract3, Extract4} /\ MarkerIsOld
        /\ spoilt \/ disk["exe"] = version
     \/ /\ ui.calls = Extract5 \/ (ui.calls = Extract6 /\ medium["marker"] = Torn)
        /\ spoilt \/ \A f \in Binaries : disk[f] = version

OpInv ==
  \/ ui = Idle
  \/ \E f \in AtomicFiles : WritePoint(f)
  \/ ShredPoint
  \/ ExtractionPoint

\* The marker of the installed release means its binaries, at any time.
Vouched ==
  ~spoilt /\ disk["marker"] = version => \A f \in Binaries : disk[f] = version

FilesInv == DiskInv /\ StateInv /\ Record /\ OpInv /\ Vouched

LEMMA FilesInvInit == FilesInit => FilesInv
<1> SUFFICES ASSUME FilesInit PROVE FilesInv
  OBVIOUS
<1>1. version \in Versions
  BY FilesAssumption DEF FilesInit, Versions
<1>2. DiskInv
  BY <1>1, FilesAssumption DEF FilesInit, DiskInv, Contents, Names, AtomicFiles, Binaries
<1>3. StateInv /\ Record /\ OpInv /\ Vouched
  BY <1>1, FilesAssumption
  DEF FilesInit, StateInv, Record, Idle, OpInv, Vouched, Names, Versions
<1> QED
  BY <1>2, <1>3 DEF FilesInv

-----------------------------------------------------------------------------
(* What one primitive does. *)

\* Nothing happens to these files.
Untouched(files) == \A f \in files : disk'[f] = disk[f] /\ medium'[f] = medium[f]

LEMMA BusyPoints ==
  ASSUME FilesInv, Busy
  PROVE  (\E f \in AtomicFiles : WritePoint(f)) \/ ShredPoint \/ ExtractionPoint
BY DEF FilesInv, OpInv, Busy, Idle

LEMMA SuccessEffect ==
  ASSUME Succeeds, NEW f
  PROVE  /\ GoOn(After(ui.calls)) /\ UNCHANGED <<wrapperVars, held, spoilt>>
         /\ op = Op("create", f) =>
              disk' = [disk EXCEPT ![f] = Torn] /\ medium' = [medium EXCEPT ![f] = Torn]
         /\ op = Op("write", f) => disk' = [disk EXCEPT ![f] = ui.bytes] /\ medium' = medium
         /\ op = Op("sync", f) => medium' = [medium EXCEPT ![f] = disk[f]] /\ disk' = disk
         /\ op = Op("rename", f) =>
              /\ disk' = [disk EXCEPT ![f] = disk["tmp"], !["tmp"] = NoFile]
              /\ medium' = [medium EXCEPT ![f] = medium["tmp"], !["tmp"] = NoFile]
         /\ op = Op("overwrite", f) =>
              /\ disk' = [disk EXCEPT ![f] = IF @ = NoFile THEN NoFile ELSE Junk]
              /\ medium' = medium
         /\ op = Op("remove", f) =>
              disk' = [disk EXCEPT ![f] = NoFile] /\ medium' = [medium EXCEPT ![f] = NoFile]
<1>1. Effect /\ GoOn(After(ui.calls)) /\ UNCHANGED <<wrapperVars, held, spoilt>>
  BY DEF Succeeds, After, call
<1>2. \A name \in STRING : op = Op(name, f) => op.op = name /\ op.file = f
  BY DEF Op
<1>3. CASE op = Op("create", f)
  BY <1>1, <1>2, <1>3 DEF Effect, Op
<1>4. CASE op = Op("write", f)
  BY <1>1, <1>2, <1>4 DEF Effect, Op
<1>5. CASE op = Op("sync", f)
  BY <1>1, <1>2, <1>5 DEF Effect, Op
<1>6. CASE op = Op("rename", f)
  BY <1>1, <1>2, <1>6 DEF Effect, Op
<1>7. CASE op = Op("overwrite", f)
  BY <1>1, <1>2, <1>7 DEF Effect, Op
<1>8. CASE op = Op("remove", f)
  BY <1>1, <1>2, <1>8 DEF Effect, Op
<1> QED
  BY <1>1, <1>3, <1>4, <1>5, <1>6, <1>7, <1>8

\* One operation goes on or is done.
LEMMA GoOnEffect ==
  ASSUME Record, NEW calls, GoOn(calls)
  PROVE  /\ calls = <<>> => ui' = Idle
         /\ calls # <<>> => /\ ui'.calls = calls /\ ui'.path = ui.path
                            /\ ui'.bytes = ui.bytes /\ Record'
<1>1. CASE calls = <<>>
  BY <1>1 DEF GoOn
<1>2. CASE calls # <<>>
  <2>1. ui' = [calls |-> calls, path |-> ui.path, bytes |-> ui.bytes]
    BY <1>2 DEF GoOn, Record
  <2> QED
    BY <1>2, <2>1 DEF Record
<1> QED
  BY <1>1, <1>2

\* A primitive of an atomic write touches the temporary file only, and the last
\* one puts the content that was asked for in place of the old one.
LEMMA WriteStep ==
  ASSUME FilesInv, NEW f \in AtomicFiles, WritePoint(f), Succeeds
  PROVE  /\ disk' \in [Names -> Contents] /\ medium' \in [Names -> Contents]
         /\ {disk'["tmp"], medium'["tmp"]} \subseteq Values \cup {NoFile, Torn}
         /\ UNCHANGED <<wrapperVars, held, spoilt>> /\ Record'
         /\ Untouched(Names \ {f, "tmp"})
         /\ \/ Untouched({f}) /\ WritePoint(f)'
            \/ disk'[f] = ui.bytes /\ medium'[f] = ui.bytes /\ ui' = Idle
<1>1. /\ disk \in [Names -> Contents] /\ medium \in [Names -> Contents] /\ Record
      /\ {disk["tmp"], medium["tmp"]} \subseteq Values \cup {NoFile, Torn}
      /\ ui.bytes \in Values /\ running # 0 /\ ui.path = f
  BY DEF FilesInv, DiskInv, WritePoint
<1>2. f \in Names /\ "tmp" \in Names /\ f # "tmp"
      /\ {NoFile, Torn} \cup Values \subseteq Contents
  BY DEF AtomicFiles, Names, Contents
<1>3. op = Head(Head(ui.calls))
  BY DEF op, call
<1>4. /\ UNCHANGED <<wrapperVars, held, spoilt>> /\ GoOn(After(ui.calls))
      /\ running' = running
  BY SuccessEffect DEF wrapperVars
<1>5. Idle = [calls |-> Idle.calls, path |-> Idle.path, bytes |-> Idle.bytes]
  BY DEF Idle
<1>6. CASE ui.calls = write_atomic(f)
  <2>1. op = Op("create", "tmp") /\ GoOn(Write2(f)) /\ Write2(f) # <<>>
    BY <1>3, <1>4, <1>6, WriteCalls
  <2>2. disk' = [disk EXCEPT !["tmp"] = Torn] /\ medium' = [medium EXCEPT !["tmp"] = Torn]
    BY <2>1, SuccessEffect
  <2>3. ui'.calls = Write2(f) /\ ui'.path = f /\ ui'.bytes = ui.bytes /\ Record'
    BY <1>1, <2>1, GoOnEffect
  <2> QED
    BY <1>1, <1>2, <1>4, <2>2, <2>3 DEF WritePoint, Untouched
<1>7. CASE ui.calls = Write2(f)
  <2>1. op = Op("write", "tmp") /\ GoOn(Write3(f)) /\ Write3(f) # <<>>
    BY <1>3, <1>4, <1>7, WriteCalls
  <2>2. disk' = [disk EXCEPT !["tmp"] = ui.bytes] /\ medium' = medium
    BY <2>1, SuccessEffect
  <2>3. ui'.calls = Write3(f) /\ ui'.path = f /\ ui'.bytes = ui.bytes /\ Record'
    BY <1>1, <2>1, GoOnEffect
  <2> QED
    BY <1>1, <1>2, <1>4, <2>2, <2>3 DEF WritePoint, Untouched
<1>8. CASE ui.calls = Write3(f) /\ disk["tmp"] = ui.bytes
  <2>1. op = Op("sync", "tmp") /\ GoOn(Write4(f)) /\ Write4(f) # <<>>
    BY <1>3, <1>4, <1>8, WriteCalls
  <2>2. disk' = disk /\ medium' = [medium EXCEPT !["tmp"] = ui.bytes]
    BY <1>8, <2>1, SuccessEffect
  <2>3. ui'.calls = Write4(f) /\ ui'.path = f /\ ui'.bytes = ui.bytes /\ Record'
    BY <1>1, <2>1, GoOnEffect
  <2> QED
    BY <1>1, <1>2, <1>4, <1>8, <2>2, <2>3 DEF WritePoint, Untouched
<1>9. CASE ui.calls = Write4(f) /\ disk["tmp"] = ui.bytes /\ medium["tmp"] = ui.bytes
  <2>1. op = Op("rename", f) /\ GoOn(<<>>)
    BY <1>3, <1>4, <1>9, WriteCalls
  <2>2. /\ disk' = [disk EXCEPT ![f] = ui.bytes, !["tmp"] = NoFile]
        /\ medium' = [medium EXCEPT ![f] = ui.bytes, !["tmp"] = NoFile]
    BY <1>9, <2>1, SuccessEffect
  <2>3. ui' = Idle /\ Record'
    BY <1>1, <1>5, <2>1, GoOnEffect DEF Record
  <2> QED
    BY <1>1, <1>2, <1>4, <2>2, <2>3 DEF Untouched
<1> QED
  BY <1>6, <1>7, <1>8, <1>9 DEF WritePoint

\* A primitive of a shred overwrites the file, makes that durable, or removes it.
LEMMA ShredStep ==
  ASSUME FilesInv, ShredPoint, Succeeds
  PROVE  /\ disk' \in [Names -> Contents] /\ medium' \in [Names -> Contents]
         /\ UNCHANGED <<wrapperVars, held, spoilt>> /\ Record'
         /\ Untouched(Names \ {"config"})
         /\ \/ /\ disk'["config"] = IF disk["config"] = NoFile THEN NoFile ELSE Junk
               /\ medium'["config"] = medium["config"] /\ ShredPoint'
            \/ /\ disk'["config"] = disk["config"] /\ medium'["config"] = disk["config"]
               /\ ShredPoint'
            \/ disk'["config"] = NoFile /\ medium'["config"] = NoFile /\ ui' = Idle
<1>1. /\ disk \in [Names -> Contents] /\ medium \in [Names -> Contents] /\ Record
      /\ running # 0 /\ ui.path = "config" /\ ui.bytes = NoFile
  BY DEF FilesInv, DiskInv, ShredPoint
<1>2. "config" \in Names /\ {NoFile, Junk} \subseteq Contents
  BY DEF AtomicFiles, Names, Contents
<1>3. op = Head(Head(ui.calls))
  BY DEF op, call
<1>4. /\ UNCHANGED <<wrapperVars, held, spoilt>> /\ GoOn(After(ui.calls))
      /\ running' = running
  BY SuccessEffect DEF wrapperVars
<1>5. Idle = [calls |-> Idle.calls, path |-> Idle.path, bytes |-> Idle.bytes]
  BY DEF Idle
<1>6. CASE ui.calls = shred_file("config")
  <2>1. op = Op("overwrite", "config") /\ GoOn(Shred2("config")) /\ Shred2("config") # <<>>
    BY <1>3, <1>4, <1>6, ShredCalls
  <2>2. /\ disk' = [disk EXCEPT !["config"] = IF @ = NoFile THEN NoFile ELSE Junk]
        /\ medium' = medium
    BY <2>1, SuccessEffect
  <2>3. /\ ui'.calls = Shred2("config") /\ ui'.path = "config" /\ ui'.bytes = NoFile
        /\ Record'
    BY <1>1, <2>1, GoOnEffect
  <2> QED
    BY <1>1, <1>2, <1>4, <2>2, <2>3 DEF ShredPoint, Untouched
<1>7. CASE ui.calls = Shred2("config")
  <2>1. op = Op("sync", "config") /\ GoOn(Shred3("config")) /\ Shred3("config") # <<>>
    BY <1>3, <1>4, <1>7, ShredCalls
  <2>2. disk' = disk /\ medium' = [medium EXCEPT !["config"] = disk["config"]]
    BY <2>1, SuccessEffect
  <2>3. /\ ui'.calls = Shred3("config") /\ ui'.path = "config" /\ ui'.bytes = NoFile
        /\ Record'
    BY <1>1, <2>1, GoOnEffect
  <2> QED
    BY <1>1, <1>2, <1>4, <2>2, <2>3 DEF ShredPoint, Untouched
<1>8. CASE ui.calls = Shred3("config")
  <2>1. op = Op("remove", "config") /\ GoOn(<<>>)
    BY <1>3, <1>4, <1>8, ShredCalls
  <2>2. /\ disk' = [disk EXCEPT !["config"] = NoFile]
        /\ medium' = [medium EXCEPT !["config"] = NoFile]
    BY <2>1, SuccessEffect
  <2>3. ui' = Idle /\ Record'
    BY <1>1, <1>5, <2>1, GoOnEffect DEF Record
  <2> QED
    BY <1>1, <1>2, <1>4, <2>2, <2>3 DEF Untouched
<1> QED
  BY <1>6, <1>7, <1>8 DEF ShredPoint

\* A primitive of an extraction works on the binary whose turn it is, and on the
\* marker when both are done.
LEMMA ExtractionStep ==
  ASSUME FilesInv, ExtractionPoint, Succeeds
  PROVE  /\ disk' \in [Names -> Contents] /\ medium' \in [Names -> Contents]
         /\ \A f \in Binaries : {disk'[f], medium'[f]} \subseteq Versions \cup {NoFile, Torn}
         /\ disk'["marker"] \in 1 .. version \cup {NoFile, Torn}
         /\ medium'["marker"] \in {disk'["marker"], Torn}
         /\ UNCHANGED <<wrapperVars, held, spoilt>> /\ Record'
         /\ Untouched(AtomicFiles \cup {"tmp"})
         /\ ui' = Idle \/ ExtractionPoint'
         /\ Vouched'
<1> DEFINE Typed ==
             /\ disk' \in [Names -> Contents] /\ medium' \in [Names -> Contents]
             /\ \A f \in Binaries : {disk'[f], medium'[f]} \subseteq Versions \cup {NoFile, Torn}
             /\ disk'["marker"] \in 1 .. version \cup {NoFile, Torn}
             /\ medium'["marker"] \in {disk'["marker"], Torn}
<1>1. /\ disk \in [Names -> Contents] /\ medium \in [Names -> Contents] /\ Record
      /\ \A f \in Binaries : {disk[f], medium[f]} \subseteq Versions \cup {NoFile, Torn}
      /\ disk["marker"] \in 1 .. version \cup {NoFile, Torn}
      /\ medium["marker"] \in {disk["marker"], Torn}
      /\ running # 0 /\ ui.path = "marker" /\ ui.bytes = version
  BY DEF FilesInv, DiskInv, ExtractionPoint
<1>2. /\ {"exe", "wintun", "marker", "tmp", "config", "settings"} \subseteq Names
      /\ {NoFile, Torn, version} \subseteq Contents
      /\ version \in Versions /\ version \in 1 .. version /\ Torn # version
  <2>1. version \in Versions /\ Torn \notin Nat
    BY FilesAssumption DEF FilesInv, StateInv
  <2> QED
    BY <2>1, FilesAssumption DEF AtomicFiles, Binaries, Names, Contents, Versions
<1>3. op = Head(Head(ui.calls))
  BY DEF op, call
<1>4. /\ UNCHANGED <<wrapperVars, held, spoilt>> /\ GoOn(After(ui.calls))
      /\ running' = running /\ version' = version /\ spoilt' = spoilt
  BY SuccessEffect DEF wrapperVars
<1>5. Idle = [calls |-> Idle.calls, path |-> Idle.path, bytes |-> Idle.bytes]
  BY DEF Idle
<1>6. CASE ui.calls = extraction /\ MarkerIsOld
  <2>1. op = Op("create", "exe") /\ GoOn(Extract2) /\ Extract2 # <<>>
    BY <1>3, <1>4, <1>6, ExtractionCalls
  <2>2. /\ disk' = [disk EXCEPT !["exe"] = Torn]
        /\ medium' = [medium EXCEPT !["exe"] = Torn]
    BY <1>1, <2>1, SuccessEffect
  <2>3. /\ ui'.calls = Extract2 /\ ui'.path = "marker" /\ ui'.bytes = version
        /\ Record'
    BY <1>1, <2>1, GoOnEffect
  <2>4. Typed /\ Untouched(AtomicFiles \cup {"tmp"})
    BY <1>1, <1>2, <2>2 DEF Untouched, Binaries, AtomicFiles
  <2>5. ExtractionPoint' /\ Vouched'
    BY <1>1, <1>2, <1>4, <1>6, <2>2, <2>3 DEF ExtractionPoint, MarkerIsOld, Vouched, Binaries
  <2> QED
    BY <1>4, <2>3, <2>4, <2>5
<1>7. CASE ui.calls = Extract2 /\ MarkerIsOld
  <2>1. op = Op("write", "exe") /\ GoOn(Extract3) /\ Extract3 # <<>>
    BY <1>3, <1>4, <1>7, ExtractionCalls
  <2>2. disk' = [disk EXCEPT !["exe"] = version] /\ medium' = medium
    BY <1>1, <2>1, SuccessEffect
  <2>3. /\ ui'.calls = Extract3 /\ ui'.path = "marker" /\ ui'.bytes = version
        /\ Record'
    BY <1>1, <2>1, GoOnEffect
  <2>4. Typed /\ Untouched(AtomicFiles \cup {"tmp"})
    BY <1>1, <1>2, <2>2 DEF Untouched, Binaries, AtomicFiles
  <2>5. ExtractionPoint' /\ Vouched'
    BY <1>1, <1>2, <1>4, <1>7, <2>2, <2>3 DEF ExtractionPoint, MarkerIsOld, Vouched, Binaries
  <2> QED
    BY <1>4, <2>3, <2>4, <2>5
<1>8. CASE ui.calls = Extract3 /\ MarkerIsOld
                 /\ (spoilt \/ disk["exe"] = version)
  <2>1. op = Op("create", "wintun") /\ GoOn(Extract4) /\ Extract4 # <<>>
    BY <1>3, <1>4, <1>8, ExtractionCalls
  <2>2. /\ disk' = [disk EXCEPT !["wintun"] = Torn]
        /\ medium' = [medium EXCEPT !["wintun"] = Torn]
    BY <1>1, <2>1, SuccessEffect
  <2>3. /\ ui'.calls = Extract4 /\ ui'.path = "marker" /\ ui'.bytes = version
        /\ Record'
    BY <1>1, <2>1, GoOnEffect
  <2>4. Typed /\ Untouched(AtomicFiles \cup {"tmp"})
    BY <1>1, <1>2, <2>2 DEF Untouched, Binaries, AtomicFiles
  <2>5. ExtractionPoint' /\ Vouched'
    BY <1>1, <1>2, <1>4, <1>8, <2>2, <2>3 DEF ExtractionPoint, MarkerIsOld, Vouched, Binaries
  <2> QED
    BY <1>4, <2>3, <2>4, <2>5
<1>9. CASE ui.calls = Extract4 /\ MarkerIsOld
                 /\ (spoilt \/ disk["exe"] = version)
  <2>1. op = Op("write", "wintun") /\ GoOn(Extract5) /\ Extract5 # <<>>
    BY <1>3, <1>4, <1>9, ExtractionCalls
  <2>2. disk' = [disk EXCEPT !["wintun"] = version] /\ medium' = medium
    BY <1>1, <2>1, SuccessEffect
  <2>3. /\ ui'.calls = Extract5 /\ ui'.path = "marker" /\ ui'.bytes = version
        /\ Record'
    BY <1>1, <2>1, GoOnEffect
  <2>4. Typed /\ Untouched(AtomicFiles \cup {"tmp"})
    BY <1>1, <1>2, <2>2 DEF Untouched, Binaries, AtomicFiles
  <2>5. ExtractionPoint' /\ Vouched'
    BY <1>1, <1>2, <1>4, <1>9, <2>2, <2>3 DEF ExtractionPoint, MarkerIsOld, Vouched, Binaries
  <2> QED
    BY <1>4, <2>3, <2>4, <2>5
<1>10. CASE ui.calls = Extract5
                    /\ (spoilt \/ \A f \in Binaries : disk[f] = version)
  <2>1. op = Op("create", "marker") /\ GoOn(Extract6) /\ Extract6 # <<>>
    BY <1>3, <1>4, <1>10, ExtractionCalls
  <2>2. /\ disk' = [disk EXCEPT !["marker"] = Torn]
        /\ medium' = [medium EXCEPT !["marker"] = Torn]
    BY <1>1, <2>1, SuccessEffect
  <2>3. /\ ui'.calls = Extract6 /\ ui'.path = "marker" /\ ui'.bytes = version
        /\ Record'
    BY <1>1, <2>1, GoOnEffect
  <2>4. Typed /\ Untouched(AtomicFiles \cup {"tmp"})
    BY <1>1, <1>2, <2>2 DEF Untouched, Binaries, AtomicFiles
  <2>5. ExtractionPoint' /\ Vouched'
    BY <1>1, <1>2, <1>4, <1>10, <2>2, <2>3 DEF ExtractionPoint, MarkerIsOld, Vouched, Binaries
  <2> QED
    BY <1>4, <2>3, <2>4, <2>5
<1>11. CASE ui.calls = Extract6 /\ medium["marker"] = Torn
                    /\ (spoilt \/ \A f \in Binaries : disk[f] = version)
  <2>1. op = Op("write", "marker") /\ GoOn(<<>>)
    BY <1>3, <1>4, <1>11, ExtractionCalls
  <2>2. disk' = [disk EXCEPT !["marker"] = version] /\ medium' = medium
    BY <1>1, <2>1, SuccessEffect
  <2>3. ui' = Idle /\ Record'
    BY <1>1, <1>5, <2>1, GoOnEffect DEF Record
  <2>4. Typed /\ Untouched(AtomicFiles \cup {"tmp"})
    BY <1>1, <1>2, <1>11, <2>2 DEF Untouched, Binaries, AtomicFiles
  <2>5. ui' = Idle /\ Vouched'
    BY <1>1, <1>2, <1>4, <1>11, <2>2, <2>3 DEF ExtractionPoint, MarkerIsOld, Vouched, Binaries
  <2> QED
    BY <1>4, <2>3, <2>4, <2>5
<1> QED
  BY <1>6, <1>7, <1>8, <1>9, <1>10, <1>11 DEF ExtractionPoint

\* A primitive that fails leaves every file but the temporary one as it was; the
\* operation ends or goes on with its next call.
LEMMA FailStep ==
  ASSUME FilesInv, Fails
  PROVE  /\ disk' \in [Names -> Contents] /\ medium' \in [Names -> Contents]
         /\ {disk'["tmp"], medium'["tmp"]} \subseteq Values \cup {NoFile, Torn}
         /\ Untouched(Names \ {"tmp"})
         /\ UNCHANGED <<wrapperVars, held>> /\ spoilt' \in BOOLEAN /\ Record'
         /\ ui' = Idle \/ (ShredPoint /\ ShredPoint') \/ (ExtractionPoint /\ ExtractionPoint')
         /\ Vouched'
<1>1. /\ disk \in [Names -> Contents] /\ medium \in [Names -> Contents] /\ Record
      /\ {disk["tmp"], medium["tmp"]} \subseteq Values \cup {NoFile, Torn}
      /\ spoilt \in BOOLEAN /\ Vouched
  BY DEF FilesInv, DiskInv, StateInv
<1>2. /\ UNCHANGED <<wrapperVars, held>> /\ GoOn(Tail(ui.calls)) /\ Busy
      /\ running' = running /\ version' = version
      /\ spoilt' = (spoilt \/ op.file \in Binaries)
  BY DEF Fails, wrapperVars
<1>3. /\ disk' \in [Names -> Contents] /\ medium' \in [Names -> Contents]
      /\ {disk'["tmp"], medium'["tmp"]} \subseteq Values \cup {NoFile, Torn}
      /\ Untouched(Names \ {"tmp"})
  <2>1. "tmp" \in Names /\ NoFile \in Contents
    BY DEF Names, Contents
  <2>2. CASE UNCHANGED fsVars
    BY <1>1, <2>2 DEF fsVars, Untouched
  <2>3. CASE /\ disk' = [disk EXCEPT !["tmp"] = NoFile]
             /\ medium' = [medium EXCEPT !["tmp"] = NoFile]
    BY <1>1, <2>1, <2>3 DEF Untouched
  <2> QED
    BY <2>2, <2>3 DEF Fails, FailedEffect
<1>4. disk'["exe"] = disk["exe"] /\ disk'["wintun"] = disk["wintun"]
      /\ disk'["marker"] = disk["marker"]
  BY <1>3 DEF Untouched, Names, Binaries
<1>5. Vouched' /\ spoilt' \in BOOLEAN
  BY <1>1, <1>2, <1>4 DEF Vouched, Binaries
<1>6. op = Head(Head(ui.calls))
  BY DEF op, call
<1>7. Idle = [calls |-> Idle.calls, path |-> Idle.path, bytes |-> Idle.bytes]
  BY DEF Idle
<1>8. ASSUME GoOn(<<>>) PROVE ui' = Idle /\ Record'
  BY <1>1, <1>7, <1>8, GoOnEffect DEF Record
<1>9. CASE \E f \in AtomicFiles : WritePoint(f)
  <2>1. Tail(ui.calls) = <<>>
    BY <1>9, WriteCalls DEF WritePoint
  <2> QED
    BY <1>2, <1>3, <1>5, <1>8, <2>1
<1>10. CASE ShredPoint
  <2>1. Tail(ui.calls) \in {<<>>, Shred3("config")} /\ Shred3("config") # <<>>
    BY <1>10, ShredCalls DEF ShredPoint
  <2>2. CASE Tail(ui.calls) = <<>>
    BY <1>2, <1>3, <1>5, <1>8, <2>2
  <2>3. CASE Tail(ui.calls) = Shred3("config")
    <3>1. /\ ui'.calls = Shred3("config") /\ ui'.path = ui.path /\ ui'.bytes = ui.bytes
          /\ Record'
      BY <1>1, <1>2, <2>1, <2>3, GoOnEffect
    <3>2. ShredPoint'
      BY <1>2, <1>10, <3>1 DEF ShredPoint
    <3> QED
      BY <1>2, <1>3, <1>5, <1>10, <3>1, <3>2
  <2> QED
    BY <2>1, <2>2, <2>3
<1>11. CASE ExtractionPoint
  <2>1. \A name, f : Op(name, f).file = f
    BY DEF Op
  <2>2. /\ running # 0 /\ ui.path = "marker" /\ ui.bytes = version
        /\ ~spoilt' => ~spoilt
    BY <1>2, <1>11 DEF ExtractionPoint
  <2>3. ASSUME NEW calls, calls # <<>>, GoOn(calls)
        PROVE  /\ ui'.calls = calls /\ ui'.path = "marker" /\ ui'.bytes = version'
               /\ running' # 0 /\ Record'
    BY <1>1, <1>2, <2>2, <2>3, GoOnEffect
  <2>4. CASE ui.calls \in {extraction, Extract2} /\ MarkerIsOld
    <3>1. GoOn(Extract3) /\ Extract3 # <<>>
      BY <1>2, <2>4, ExtractionCalls
    <3>2. spoilt'
      <4>1. op \in {Op("create", "exe"), Op("write", "exe")}
        BY <1>6, <2>4, ExtractionCalls
      <4>2. op.file = "exe"
        BY <2>1, <4>1
      <4> QED
        BY <1>2, <4>2 DEF Binaries
    <3>3. ExtractionPoint' /\ Record'
      BY <2>3, <3>1, <3>2 DEF ExtractionPoint, MarkerIsOld
    <3> QED
      BY <1>2, <1>3, <1>5, <1>11, <3>3
  <2>5. CASE ui.calls \in {Extract3, Extract4}
    <3>1. GoOn(Extract5) /\ Extract5 # <<>>
      BY <1>2, <2>5, ExtractionCalls
    <3>2. spoilt'
      <4>1. op \in {Op("create", "wintun"), Op("write", "wintun")}
        BY <1>6, <2>5, ExtractionCalls
      <4>2. op.file = "wintun"
        BY <2>1, <4>1
      <4> QED
        BY <1>2, <4>2 DEF Binaries
    <3>3. ExtractionPoint' /\ Record'
      BY <2>3, <3>1, <3>2 DEF ExtractionPoint
    <3> QED
      BY <1>2, <1>3, <1>5, <1>11, <3>3
  <2>6. CASE ui.calls \in {Extract5, Extract6}
    <3>1. GoOn(<<>>)
      BY <1>2, <2>6, ExtractionCalls
    <3> QED
      BY <1>2, <1>3, <1>5, <1>8, <3>1
  <2> QED
    BY <1>11, <2>4, <2>5, <2>6 DEF ExtractionPoint
<1> QED
  BY <1>2, <1>9, <1>10, <1>11, BusyPoints

-----------------------------------------------------------------------------
(* Every step keeps the invariant. *)

\* A step that touches no file and starts no operation.
LEMMA QuietStep ==
  ASSUME FilesInv, UNCHANGED <<disk, medium, version, spoilt>>, StateInv',
         ui' = Idle \/ (ui' = ui /\ UNCHANGED running)
  PROVE  FilesInv'
<1>1. DiskInv' /\ Vouched'
  BY DEF FilesInv, DiskInv, Vouched
<1>2. Record'
  BY DEF FilesInv, Record, Idle
<1>3. OpInv'
  <2>1. CASE ui' = Idle
    BY <2>1 DEF OpInv
  <2>2. CASE ui' = ui /\ UNCHANGED running
    BY <2>2 DEF FilesInv, OpInv, WritePoint, ShredPoint, ExtractionPoint, MarkerIsOld, Idle
  <2> QED
    BY <2>1, <2>2
<1> QED
  BY <1>1, <1>2, <1>3 DEF FilesInv

\* One primitive of whatever operation the UI thread is in.
LEMMA SucceedsKeepsInv == FilesInv /\ Succeeds => FilesInv'
<1> SUFFICES ASSUME FilesInv, Succeeds PROVE FilesInv'
  OBVIOUS
<1>1. Busy /\ DiskInv /\ StateInv /\ Vouched
  BY DEF Succeeds, FilesInv
<1>2. ASSUME UNCHANGED <<wrapperVars, held, spoilt>> PROVE StateInv'
  BY <1>1, <1>2 DEF StateInv, wrapperVars
<1>3. {NoFile, Junk, Torn} \cap (Values \cup Nat) = {} /\ NoFile # Junk
  BY FilesAssumption
<1>4. ASSUME NEW f \in AtomicFiles, WritePoint(f) PROVE FilesInv'
  <2>1. /\ disk' \in [Names -> Contents] /\ medium' \in [Names -> Contents]
        /\ {disk'["tmp"], medium'["tmp"]} \subseteq Values \cup {NoFile, Torn}
        /\ UNCHANGED <<wrapperVars, held, spoilt>> /\ Record'
        /\ Untouched(Names \ {f, "tmp"})
        /\ \/ Untouched({f}) /\ WritePoint(f)'
           \/ disk'[f] = ui.bytes /\ medium'[f] = ui.bytes /\ ui' = Idle
    BY <1>4, WriteStep
  <2>2. ui.bytes \in Values
    BY <1>4 DEF WritePoint
  <2>3. OpInv'
    BY <1>4, <2>1 DEF OpInv
  <2>4. /\ Untouched(AtomicFiles \ {f}) /\ Untouched(Binaries \cup {"marker"})
        /\ version' = version /\ spoilt' = spoilt
    BY <2>1 DEF Untouched, Names, AtomicFiles, Binaries, wrapperVars
  <2>5. \/ disk'[f] = disk[f] /\ medium'[f] = medium[f]
        \/ disk'[f] = ui.bytes /\ medium'[f] = ui.bytes
    BY <2>1 DEF Untouched
  <2>6. Vouched'
    BY <1>1, <2>4 DEF Vouched, Untouched, Binaries
  <2>7. DiskInv'
    BY <1>1, <1>4, <2>1, <2>2, <2>4, <2>5
    DEF DiskInv, Untouched, AtomicFiles, Binaries
  <2> QED
    BY <1>2, <2>1, <2>3, <2>6, <2>7 DEF FilesInv
<1>5. CASE ShredPoint
  <2>1. /\ disk' \in [Names -> Contents] /\ medium' \in [Names -> Contents]
        /\ UNCHANGED <<wrapperVars, held, spoilt>> /\ Record'
        /\ Untouched(Names \ {"config"}) /\ OpInv'
        /\ \/ /\ disk'["config"] = IF disk["config"] = NoFile THEN NoFile ELSE Junk
              /\ medium'["config"] = medium["config"]
           \/ disk'["config"] = disk["config"] /\ medium'["config"] = disk["config"]
           \/ disk'["config"] = NoFile /\ medium'["config"] = NoFile
    BY <1>5, ShredStep DEF OpInv
  <2>2. /\ Untouched(Binaries \cup {"marker", "tmp", "settings"})
        /\ version' = version /\ spoilt' = spoilt
    BY <2>1 DEF Untouched, Names, AtomicFiles, Binaries, wrapperVars
  <2>3. Vouched'
    BY <1>1, <2>2 DEF Vouched, Untouched, Binaries
  <2>4. DiskInv'
    BY <1>1, <1>3, <2>1, <2>2 DEF DiskInv, Untouched, Binaries
  <2> QED
    BY <1>2, <2>1, <2>3, <2>4 DEF FilesInv
<1>6. CASE ExtractionPoint
  <2>1. /\ disk' \in [Names -> Contents] /\ medium' \in [Names -> Contents]
        /\ \A f \in Binaries : {disk'[f], medium'[f]} \subseteq Versions \cup {NoFile, Torn}
        /\ disk'["marker"] \in 1 .. version \cup {NoFile, Torn}
        /\ medium'["marker"] \in {disk'["marker"], Torn}
        /\ UNCHANGED <<wrapperVars, held, spoilt>> /\ Record'
        /\ Untouched(AtomicFiles \cup {"tmp"}) /\ OpInv' /\ Vouched'
    BY <1>6, ExtractionStep DEF OpInv
  <2>2. version' = version
    BY <2>1 DEF wrapperVars
  <2>3. DiskInv'
    BY <1>1, <2>1, <2>2 DEF DiskInv, Untouched, AtomicFiles
  <2> QED
    BY <1>2, <2>1, <2>3 DEF FilesInv
<1> QED
  BY <1>1, <1>4, <1>5, <1>6, BusyPoints

LEMMA FailsKeepsInv == FilesInv /\ Fails => FilesInv'
<1> SUFFICES ASSUME FilesInv, Fails PROVE FilesInv'
  OBVIOUS
<1>1. DiskInv /\ StateInv
  BY DEF FilesInv
<1>2. /\ disk' \in [Names -> Contents] /\ medium' \in [Names -> Contents]
      /\ {disk'["tmp"], medium'["tmp"]} \subseteq Values \cup {NoFile, Torn}
      /\ Untouched(Names \ {"tmp"})
      /\ UNCHANGED <<wrapperVars, held>> /\ spoilt' \in BOOLEAN /\ Record'
      /\ OpInv' /\ Vouched'
  BY FailStep DEF OpInv
<1>3. Untouched(Binaries \cup {"marker", "config", "settings"}) /\ version' = version
  BY <1>2 DEF Untouched, Names, AtomicFiles, Binaries, wrapperVars
<1>4. DiskInv'
  BY <1>1, <1>2, <1>3 DEF DiskInv, Untouched, Binaries
<1>5. StateInv'
  BY <1>1, <1>2 DEF StateInv, wrapperVars
<1> QED
  BY <1>2, <1>4, <1>5 DEF FilesInv

\* A write or a shred that begins.
LEMMA BeginKeepsInv ==
  ASSUME FilesInv, NEW calls, NEW path, NEW bytes, Begin(calls, path, bytes),
         (\E f \in AtomicFiles : WritePoint(f)') \/ ShredPoint'
  PROVE  FilesInv'
<1>1. UNCHANGED <<disk, medium, version, spoilt, running, unlocked, held>>
  BY DEF Begin, fsVars, wrapperVars
<1>2. Record'
  BY DEF Begin, Record
<1>3. DiskInv' /\ StateInv' /\ Vouched'
  BY <1>1 DEF FilesInv, DiskInv, StateInv, Vouched
<1> QED
  BY <1>2, <1>3 DEF FilesInv, OpInv

\* The extraction begins; a marker of the installed release that is not to be
\* trusted means that a binary was lost.
LEMMA UnlockKeepsInv == FilesInv /\ Unlock => FilesInv'
<1> SUFFICES ASSUME FilesInv, Unlock PROVE FilesInv'
  OBVIOUS
<1>1. /\ UNCHANGED <<disk, medium, version, running, held>> /\ running # 0 /\ unlocked' = TRUE
      /\ running = version /\ version \in Versions
  BY DEF Unlock, fsVars, FilesInv, StateInv
<1>2. CASE ui' = Idle /\ UNCHANGED spoilt
  <2>1. StateInv'
    BY <1>1, <1>2 DEF FilesInv, StateInv
  <2> QED
    BY <1>1, <1>2, <2>1, QuietStep
<1>3. CASE /\ ui' = IF up_to_date(version) THEN Idle
                    ELSE [calls |-> extraction, path |-> "marker", bytes |-> version]
           /\ spoilt' = (spoilt /\ disk["marker"] = version)
  <2>1. DiskInv' /\ Vouched' /\ StateInv'
    BY <1>1, <1>3 DEF FilesInv, DiskInv, StateInv, Vouched
  <2>2. Record'
    BY <1>3 DEF Record, Idle
  <2>3. OpInv'
    <3>1. CASE up_to_date(version)
      BY <1>3, <3>1 DEF OpInv
    <3>2. CASE ~up_to_date(version)
      <4>1. spoilt' \/ disk["marker"] # version
        <5>1. SUFFICES ASSUME ~spoilt, disk["marker"] = version PROVE FALSE
          BY <1>3
        <5>2. \A f \in Binaries : disk[f] = version
          BY <5>1 DEF FilesInv, Vouched
        <5>3. NoFile # version
          BY <1>1, FilesAssumption DEF Versions
        <5> QED
          BY <3>2, <5>1, <5>2, <5>3 DEF up_to_date
      <4>2. ui' = [calls |-> extraction, path |-> "marker", bytes |-> version]
        BY <1>3, <3>2
      <4>3. ExtractionPoint'
        BY <1>1, <4>1, <4>2 DEF ExtractionPoint, MarkerIsOld
      <4> QED
        BY <4>3 DEF OpInv
    <3> QED
      BY <3>1, <3>2
  <2> QED
    BY <2>1, <2>2, <2>3 DEF FilesInv
<1> QED
  BY <1>2, <1>3 DEF Unlock

\* A loss of power takes what was not synced; if that was part of a binary, the
\* marker no longer vouches.
LEMMA PowerLossKeepsInv == FilesInv /\ PowerLoss => FilesInv'
<1> SUFFICES ASSUME FilesInv, PowerLoss PROVE FilesInv'
  OBVIOUS
<1>1. DiskInv /\ StateInv /\ Vouched
  BY DEF FilesInv
<1>2. /\ medium' = disk' /\ running' = 0 /\ unlocked' = FALSE /\ ui' = Idle /\ held' = FALSE
      /\ version' = version
      /\ spoilt' = (spoilt \/ \E f \in Binaries : disk'[f] # disk[f])
  BY DEF PowerLoss
<1>3. disk' \in [Names -> Contents] /\ \A f \in Names : disk'[f] \in {disk[f], medium[f]}
  <2>1. PICK survives : disk' = [f \in Names |-> IF f \in survives THEN disk[f] ELSE medium[f]]
    BY DEF PowerLoss
  <2> QED
    BY <1>1, <2>1 DEF DiskInv
<1>4. {"exe", "wintun", "marker", "tmp", "config", "settings"} \subseteq Names
  BY DEF Names, AtomicFiles, Binaries
<1>5. DiskInv'
  BY <1>1, <1>2, <1>3, <1>4 DEF DiskInv, Binaries
<1>6. Torn # version
  BY <1>1, FilesAssumption DEF StateInv, Versions
<1>7. Vouched'
  <2>1. disk'["marker"] \in {disk["marker"], Torn}
    BY <1>1, <1>3, <1>4 DEF DiskInv
  <2>2. ~spoilt' => ~spoilt /\ \A f \in Binaries : disk'[f] = disk[f]
    BY <1>2
  <2> QED
    BY <1>1, <1>2, <1>6, <2>1, <2>2 DEF Vouched
<1>8. StateInv' /\ Record' /\ OpInv'
  BY <1>1, <1>2 DEF StateInv, Record, Idle, OpInv
<1> QED
  BY <1>5, <1>7, <1>8 DEF FilesInv

LEMMA FilesInvStep == FilesInv /\ [FilesNext]_filesVars => FilesInv'
<1> SUFFICES ASSUME FilesInv, [FilesNext]_filesVars PROVE FilesInv'
  OBVIOUS
<1>1. DiskInv /\ StateInv /\ Record
  BY DEF FilesInv
<1>2. ASSUME NEW f \in AtomicFiles, NEW v \in Values, Write(f, v) PROVE FilesInv'
  <2>1. Begin(write_atomic(f), f, v)
    BY <1>2 DEF Write
  <2>2. WritePoint(f)'
    BY <2>1 DEF Begin, WritePoint, wrapperVars
  <2> QED
    BY <2>1, <2>2, BeginKeepsInv
<1>3. CASE Shred
  <2>1. Begin(shred_file("config"), "config", NoFile)
    BY <1>3 DEF Shred
  <2>2. ShredPoint'
    BY <2>1 DEF Begin, ShredPoint, wrapperVars
  <2> QED
    BY <2>1, <2>2, BeginKeepsInv
<1>4. CASE Succeeds \/ Fails \/ Unlock \/ PowerLoss
  BY <1>4, SucceedsKeepsInv, FailsKeepsInv, UnlockKeepsInv, PowerLossKeepsInv
<1>5. running = 0 => ui = Idle
  BY DEF FilesInv, OpInv, WritePoint, ShredPoint, ExtractionPoint
<1>6. CASE Launch
  BY <1>1, <1>5, <1>6, QuietStep DEF Launch, fsVars, StateInv
<1>7. CASE Upgrade
  <2>1. /\ UNCHANGED <<disk, medium, running, unlocked, held, spoilt>> /\ ui' = Idle
        /\ version' = version + 1 /\ version' \in Versions /\ running = 0
    BY <1>1, <1>5, <1>7, FilesAssumption DEF Upgrade, fsVars, StateInv, Versions
  <2>2. disk["marker"] # version' /\ disk["marker"] \in 1 .. version' \cup {NoFile, Torn}
    BY <1>1, <2>1, FilesAssumption DEF DiskInv, StateInv, Versions
  <2>3. DiskInv' /\ StateInv' /\ Vouched'
    BY <1>1, <2>1, <2>2 DEF DiskInv, StateInv, Vouched
  <2> QED
    BY <2>1, <2>3 DEF FilesInv, Record, Idle, OpInv
<1>8. CASE EngineStarts \/ EngineExits \/ Dies
  <2>1. UNCHANGED <<disk, medium, version, spoilt>>
    BY <1>8 DEF EngineStarts, EngineExits, Dies, fsVars, wrapperVars
  <2>3. ASSUME EngineStarts PROVE StateInv'
    BY <1>1, <2>3 DEF EngineStarts, wrapperVars, StateInv
  <2>4. ASSUME EngineExits PROVE StateInv'
    BY <1>1, <2>4 DEF EngineExits, wrapperVars, StateInv
  <2>5. ASSUME Dies PROVE StateInv'
    BY <1>1, <2>5 DEF Dies, StateInv
  <2>2. ui' = Idle \/ (ui' = ui /\ UNCHANGED running)
    BY <1>8 DEF EngineStarts, EngineExits, Dies, wrapperVars
  <2> QED
    BY <1>8, <2>1, <2>2, <2>3, <2>4, <2>5, QuietStep
<1>9. CASE UNCHANGED filesVars
  BY <1>1, <1>9, QuietStep DEF filesVars, fsVars, wrapperVars, StateInv
<1> QED
  BY <1>2, <1>3, <1>4, <1>6, <1>7, <1>8, <1>9 DEF FilesNext

LEMMA FilesInvariance == FilesSpec => []FilesInv
BY FilesInvInit, FilesInvStep, PTL DEF FilesSpec

IsShort(calls) == Len(calls) <= 3 /\ \A i \in DOMAIN calls : Len(calls[i]) \in 1 .. 4

LEMMA ShortCalls1 == ASSUME NEW a, Len(a) \in 1 .. 4 PROVE IsShort(<<a>>)
BY DEF IsShort

LEMMA ShortCalls2 ==
  ASSUME NEW a, NEW b, Len(a) \in 1 .. 4, Len(b) \in 1 .. 4 PROVE IsShort(<<a, b>>)
BY DEF IsShort

LEMMA ShortCalls3 ==
  ASSUME NEW a, NEW b, NEW c, Len(a) \in 1 .. 4, Len(b) \in 1 .. 4, Len(c) \in 1 .. 4
  PROVE  IsShort(<<a, b, c>>)
BY DEF IsShort

\* An operation is short.
LEMMA CallsAreShort ==
  ASSUME FilesInv
  PROVE  IsShort(ui.calls) /\ ui.path \in Names /\ ui.bytes \in Values \cup Versions \cup {NoFile}
<1>1. CASE ui = Idle
  BY <1>1 DEF Idle, Names, IsShort
<1>2. ASSUME NEW w, NEW x, NEW y, NEW z
      PROVE  /\ Len(<<w>>) = 1 /\ Len(<<w, x>>) = 2 /\ Len(<<w, x, y>>) = 3
             /\ Len(<<w, x, y, z>>) = 4
  OBVIOUS
<1>3. ASSUME NEW f \in AtomicFiles, WritePoint(f)
      PROVE  IsShort(ui.calls) /\ ui.path \in Names /\ ui.bytes \in Values
  <2>1. ui.path \in Names /\ ui.bytes \in Values
    BY <1>3 DEF WritePoint, Names
  <2>2. /\ IsShort(write_atomic(f)) /\ IsShort(Write2(f))
        /\ IsShort(Write3(f)) /\ IsShort(Write4(f))
    BY <1>2, ShortCalls1 DEF write_atomic, Write2, Write3, Write4
  <2> QED
    BY <1>3, <2>1, <2>2 DEF WritePoint
<1>4. CASE ShredPoint
  <2>1. ui.path \in Names /\ ui.bytes = NoFile
    BY <1>4 DEF ShredPoint, Names, AtomicFiles
  <2>2. \A f : IsShort(shred_file(f)) /\ IsShort(Shred2(f)) /\ IsShort(Shred3(f))
    BY <1>2, ShortCalls1, ShortCalls2 DEF shred_file, Shred2, Shred3
  <2> QED
    BY <1>4, <2>1, <2>2 DEF ShredPoint
<1>5. CASE ExtractionPoint
  <2>1. ui.path \in Names /\ ui.bytes \in Versions
    BY <1>5 DEF ExtractionPoint, Names, FilesInv, StateInv
  <2>2. \A f : Len(fs_write(f)) \in 1 .. 4 /\ \A g : Len(<<Op(g, f)>>) \in 1 .. 4
    BY <1>2 DEF fs_write
  <2>3. /\ IsShort(extraction) /\ IsShort(Extract2) /\ IsShort(Extract3)
        /\ IsShort(Extract4) /\ IsShort(Extract5) /\ IsShort(Extract6)
    BY <2>2, ShortCalls1, ShortCalls2, ShortCalls3
    DEF extraction, Extract2, Extract3, Extract4, Extract5, Extract6
  <2> QED
    BY <1>5, <2>1, <2>3 DEF ExtractionPoint
<1> QED
  BY <1>1, <1>3, <1>4, <1>5 DEF FilesInv, OpInv

\* Every file holds what belongs there and every operation is a short one, for
\* any contents and any number of releases.
THEOREM FilesTypeCorrect == FilesSpec => []FilesTypeOK
<1>1. FilesInv => FilesTypeOK
  <2> SUFFICES ASSUME FilesInv PROVE FilesTypeOK
    OBVIOUS
  <2>1. DiskInv /\ StateInv
    BY DEF FilesInv
  <2>2. 1 .. version \subseteq Versions
    BY <2>1, FilesAssumption DEF StateInv, Versions
  <2> QED
    BY <2>1, <2>2, CallsAreShort DEF IsShort, FilesTypeOK, DiskInv, StateInv, AtomicFiles
<1> QED
  BY <1>1, FilesInvariance, PTL

\* The version marker vouches for both binaries when ensure_engine is done, for
\* any number of releases and wherever extractions were cut short.
THEOREM MarkerIsTrusted == FilesSpec => []MarkerVouches
<1>1. FilesInv => MarkerVouches
  BY DEF FilesInv, StateInv, Vouched, MarkerVouches
<1> QED
  BY <1>1, FilesInvariance, PTL

-----------------------------------------------------------------------------
(* The writes implement AtomicFile. *)

\* What a reader of f finds, and whether it is being shredded, stays.
Kept(f) == UNCHANGED ContentOf(f) /\ (disk'[f] = Junk <=> disk[f] = Junk)

\* What a step of Files may be to one of the two files: a stutter or a step of
\* AtomicFile.
AtomicStep(f) ==
  \/ Kept(f) /\ UNCHANGED RequestFor(f)
  \/ Kept(f) /\ RequestFor(f) = NoFile /\ RequestFor(f)' \in Values
  \/ Kept(f) /\ RequestFor(f) # NoFile /\ RequestFor(f)' = NoFile
  \/ /\ RequestFor(f) # NoFile /\ ContentOf(f)' = RequestFor(f)
     /\ RequestFor(f)' = NoFile /\ disk'[f] # Junk
  \/ /\ RequestFor(f) = NoFile /\ disk'[f] = Junk
     /\ UNCHANGED <<ContentOf(f), RequestFor(f)>>
  \/ /\ RequestFor(f) = NoFile /\ ContentOf(f)' = NoFile /\ disk'[f] # Junk
     /\ UNCHANGED RequestFor(f)
  \/ /\ disk[f] = Junk /\ ContentOf(f)' \in {ContentOf(f), NoFile}
     /\ RequestFor(f)' \in {RequestFor(f), NoFile}

\* The content of a file that is not under a shred is what is on the disk.
LEMMA PlainContent ==
  ASSUME FilesInv, NEW f \in AtomicFiles
  PROVE  /\ disk[f] # Junk => ContentOf(f) = disk[f] /\ medium[f] = disk[f]
         /\ Junk \notin Values \cup {NoFile} /\ NoFile \notin Values
BY FilesAssumption DEF FilesInv, DiskInv, AtomicFiles, ContentOf

LEMMA UntouchedIsKept == ASSUME NEW f, Untouched({f}) PROVE Kept(f)
BY DEF Untouched, Kept, ContentOf

\* A step that at most gives up what was asked for.
LEMMA KeptStep ==
  ASSUME NEW f, Kept(f), RequestFor(f)' \in {RequestFor(f), NoFile}
  PROVE  AtomicStep(f)
BY DEF AtomicStep

\* Nothing is asked for outside a write of this file.
LEMMA Unasked ==
  ASSUME NEW f \in AtomicFiles
  PROVE  /\ ~Busy \/ ui = Idle \/ ShredPoint \/ ExtractionPoint => RequestFor(f) = NoFile
         /\ ui' = Idle => RequestFor(f)' = NoFile
<1>1. f # "marker"
  BY DEF AtomicFiles
<1>2. ExtractionPoint => ui.path = "marker"
  BY DEF ExtractionPoint
<1>3. ShredPoint => ui.bytes = NoFile
  BY DEF ShredPoint
<1> QED
  BY <1>1, <1>2, <1>3 DEF RequestFor, Busy, Idle

\* An operation that goes on still asks for the same, and one that is over for
\* nothing.
LEMMA AsksNoMore ==
  ASSUME Record, Busy, NEW f \in AtomicFiles, NEW calls, GoOn(calls)
  PROVE  RequestFor(f)' \in {RequestFor(f), NoFile}
<1>1. CASE calls = <<>>
  BY <1>1, GoOnEffect, Unasked
<1>2. CASE calls # <<>>
  BY <1>2, GoOnEffect DEF RequestFor, Busy
<1> QED
  BY <1>1, <1>2

\* The step of a write, for the file written and for the other one.
LEMMA WriteIsAtomic ==
  ASSUME FilesInv, Succeeds, NEW g \in AtomicFiles, WritePoint(g), NEW f \in AtomicFiles
  PROVE  AtomicStep(f)
<1>1. RequestFor(f)' \in {RequestFor(f), NoFile}
  BY SuccessEffect, AsksNoMore DEF Succeeds, FilesInv
<1>2. /\ Untouched(Names \ {g, "tmp"})
      /\ \/ Untouched({g})
         \/ disk'[g] = ui.bytes /\ medium'[g] = ui.bytes /\ ui' = Idle
  BY WriteStep
<1>3. CASE Untouched({f})
  BY <1>1, <1>3, UntouchedIsKept, KeptStep
<1>4. CASE ~Untouched({f})
  <2>1. f \in Names \ {"tmp"}
    BY DEF AtomicFiles, Names
  <2>2. f = g /\ disk'[f] = ui.bytes /\ ui' = Idle
    BY <1>2, <1>4, <2>1 DEF Untouched
  <2>3. RequestFor(f) = ui.bytes /\ ui.bytes \in Values
    BY <2>2 DEF RequestFor, WritePoint, Succeeds
  <2>4. ui.bytes # Junk /\ ui.bytes # NoFile
    BY <2>3, PlainContent
  <2>5. ContentOf(f)' = RequestFor(f) /\ RequestFor(f)' = NoFile
    BY <2>2, <2>3, <2>4, Unasked DEF ContentOf
  <2> QED
    BY <2>2, <2>3, <2>4, <2>5 DEF AtomicStep
<1> QED
  BY <1>3, <1>4

\* The step of a shred: the content goes when the junk is durable, or with the
\* file.
LEMMA ShredIsAtomic ==
  ASSUME FilesInv, Succeeds, ShredPoint, NEW f \in AtomicFiles
  PROVE  AtomicStep(f)
<1>1. RequestFor(f) = NoFile /\ RequestFor(f)' = NoFile
  BY SuccessEffect, AsksNoMore, Unasked DEF Succeeds, FilesInv
<1>2. CASE Untouched({f})
  BY <1>1, <1>2, UntouchedIsKept, KeptStep
<1>3. CASE ~Untouched({f})
  <2>1. f = "config"
    BY <1>3, ShredStep DEF Untouched, Names, AtomicFiles
  <2>2. NoFile # Junk /\ (disk[f] # Junk => ContentOf(f) = disk[f] /\ medium[f] = disk[f])
    BY PlainContent
  <2>3. CASE /\ disk'[f] = IF disk[f] = NoFile THEN NoFile ELSE Junk
             /\ medium'[f] = medium[f]
    <3>1. disk'[f] = Junk
      BY <1>3, <2>2, <2>3 DEF Untouched
    <3>2. ContentOf(f)' = ContentOf(f)
      BY <2>2, <2>3, <3>1 DEF ContentOf
    <3> QED
      BY <1>1, <3>1, <3>2 DEF AtomicStep
  <2>4. CASE disk'[f] = disk[f] /\ medium'[f] = disk[f]
    <3>1. disk[f] = Junk
      BY <1>3, <2>2, <2>4 DEF Untouched
    <3>2. ContentOf(f)' = NoFile
      BY <2>4, <3>1 DEF ContentOf
    <3> QED
      BY <1>1, <3>1, <3>2 DEF AtomicStep
  <2>5. CASE disk'[f] = NoFile
    BY <1>1, <2>2, <2>5 DEF AtomicStep, ContentOf
  <2> QED
    BY <2>1, <2>3, <2>4, <2>5, ShredStep
<1> QED
  BY <1>2, <1>3

\* A loss of power: a shred takes hold or is undone.
LEMMA PowerLossIsAtomic ==
  ASSUME FilesInv, PowerLoss, NEW f \in AtomicFiles
  PROVE  AtomicStep(f)
<1>1. RequestFor(f)' = NoFile
  BY Unasked DEF PowerLoss
<1>2. medium'[f] = disk'[f] /\ disk'[f] \in {disk[f], medium[f]}
  <2>1. PICK survives : disk' = [g \in Names |-> IF g \in survives THEN disk[g] ELSE medium[g]]
    BY DEF PowerLoss
  <2> QED
    BY <2>1 DEF PowerLoss, AtomicFiles, Names
<1>3. CASE disk[f] # Junk
  <2>1. Untouched({f})
    BY <1>2, <1>3, PlainContent DEF Untouched
  <2> QED
    BY <1>1, <2>1, UntouchedIsKept, KeptStep
<1>4. CASE disk[f] = Junk
  <2>1. ContentOf(f)' \in {ContentOf(f), NoFile}
    BY <1>2, <1>4 DEF ContentOf
  <2> QED
    BY <1>1, <1>4, <2>1 DEF AtomicStep
<1> QED
  BY <1>3, <1>4

LEMMA StepIsAtomic ==
  ASSUME FilesInv, [FilesNext]_filesVars, NEW f \in AtomicFiles
  PROVE  AtomicStep(f)
<1>1. f \in Names \ {"tmp"} /\ f # "marker" /\ Record
  BY DEF Names, AtomicFiles, FilesInv
<1>2. ASSUME UNCHANGED <<disk, medium>> PROVE Kept(f)
  BY <1>2 DEF Kept, ContentOf
<1>3. ASSUME NEW g \in AtomicFiles, NEW v \in Values, Write(g, v) PROVE AtomicStep(f)
  <2>1. /\ UNCHANGED <<disk, medium>> /\ ~Busy
        /\ ui' = [calls |-> write_atomic(g), path |-> g, bytes |-> v]
    BY <1>3 DEF Write, Begin, fsVars
  <2>2. RequestFor(f) = NoFile
    BY <2>1, Unasked
  <2>3. RequestFor(f)' = IF f = g THEN v ELSE NoFile
    BY <2>1, WriteCalls DEF RequestFor, Busy
  <2> QED
    BY <1>2, <2>1, <2>2, <2>3 DEF AtomicStep
<1>4. CASE Shred
  <2>1. /\ UNCHANGED <<disk, medium>> /\ ~Busy
        /\ ui' = [calls |-> shred_file("config"), path |-> "config", bytes |-> NoFile]
    BY <1>4 DEF Shred, Begin, fsVars
  <2>2. RequestFor(f) = NoFile /\ RequestFor(f)' = NoFile
    BY <2>1, Unasked DEF RequestFor
  <2> QED
    BY <1>2, <2>1, <2>2, KeptStep
<1>5. CASE Succeeds
  <2>1. Busy
    BY <1>5 DEF Succeeds
  <2>2. CASE ExtractionPoint
    <3>1. Untouched({f})
      BY <1>5, <2>2, ExtractionStep DEF Untouched
    <3>2. RequestFor(f)' \in {RequestFor(f), NoFile}
      BY <1>1, <1>5, <2>1, SuccessEffect, AsksNoMore
    <3> QED
      BY <3>1, <3>2, UntouchedIsKept, KeptStep
  <2> QED
    BY <1>5, <2>1, <2>2, BusyPoints, WriteIsAtomic, ShredIsAtomic
<1>6. CASE Fails
  <2>1. Untouched({f})
    BY <1>1, <1>6, FailStep DEF Untouched
  <2>2. Busy /\ GoOn(Tail(ui.calls))
    BY <1>6 DEF Fails
  <2>3. RequestFor(f)' \in {RequestFor(f), NoFile}
    BY <1>1, <2>2, AsksNoMore
  <2> QED
    BY <2>1, <2>3, UntouchedIsKept, KeptStep
<1>7. CASE Unlock
  <2>1. UNCHANGED <<disk, medium>> /\ ~Busy /\ (ui' = Idle \/ ui'.path = "marker")
    BY <1>7 DEF Unlock, fsVars
  <2>2. RequestFor(f) = NoFile /\ RequestFor(f)' = NoFile
    BY <1>1, <2>1, Unasked DEF RequestFor
  <2> QED
    BY <1>2, <2>1, <2>2, KeptStep
<1>8. CASE PowerLoss
  BY <1>8, PowerLossIsAtomic
<1>9. CASE Launch \/ Upgrade \/ EngineStarts \/ EngineExits \/ Dies \/ UNCHANGED filesVars
  <2>1. UNCHANGED <<disk, medium>> /\ (ui' = Idle \/ UNCHANGED ui)
    BY <1>9 DEF Launch, Upgrade, EngineStarts, EngineExits, Dies, filesVars, fsVars
  <2>2. RequestFor(f)' \in {RequestFor(f), NoFile}
    BY <2>1, Unasked DEF RequestFor, Busy
  <2> QED
    BY <1>2, <2>1, <2>2, KeptStep
<1> QED
  BY <1>3, <1>4, <1>5, <1>6, <1>7, <1>8, <1>9 DEF FilesNext

\* Wherever the wrapper dies, the power goes or a call fails, the engine config
\* and settings.enc hold what was last written to them or nothing, for any
\* contents: each is an AtomicFile.
THEOREM FilesAreAtomic == FilesSpec => WritesAreAtomic
<1>1. FilesInit => Config!Init /\ Sealed!Init
  <2> SUFFICES ASSUME FilesInit PROVE Config!Init /\ Sealed!Init
    OBVIOUS
  <2>1. \A f \in AtomicFiles : disk[f] = NoFile /\ medium[f] = NoFile /\ NoFile # Junk
    BY FilesAssumption DEF FilesInit, AtomicFiles, Names
  <2>2. "config" \in AtomicFiles /\ "settings" \in AtomicFiles /\ ui = Idle
    BY DEF AtomicFiles, FilesInit
  <2> QED
    BY <2>1, <2>2, Unasked DEF Config!Init, Sealed!Init, ContentOf
<1>2. FilesInv /\ [FilesNext]_filesVars => [Config!Next]_(Config!fileVars)
  <2> SUFFICES ASSUME FilesInv, [FilesNext]_filesVars
               PROVE  Config!Next \/ UNCHANGED Config!fileVars
    OBVIOUS
  <2>1. AtomicStep("config")
    BY StepIsAtomic DEF AtomicFiles
  <2> QED
    BY <2>1
    DEF AtomicStep, Kept, Config!Next, Config!fileVars, Config!Ask, Config!Replace,
        Config!Abandon, Config!Shred, Config!Remove, Config!Fade
<1>3. FilesInv /\ [FilesNext]_filesVars => [Sealed!Next]_(Sealed!fileVars)
  <2> SUFFICES ASSUME FilesInv, [FilesNext]_filesVars
               PROVE  Sealed!Next \/ UNCHANGED Sealed!fileVars
    OBVIOUS
  <2>1. AtomicStep("settings")
    BY StepIsAtomic DEF AtomicFiles
  <2> QED
    BY <2>1
    DEF AtomicStep, Kept, Sealed!Next, Sealed!fileVars, Sealed!Ask, Sealed!Replace,
        Sealed!Abandon, Sealed!Shred, Sealed!Remove, Sealed!Fade
<1> QED
  BY <1>1, <1>2, <1>3, FilesInvariance, PTL
  DEF FilesSpec, WritesAreAtomic, Config!Spec, Sealed!Spec
=============================================================================
