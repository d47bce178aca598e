---------------------------- MODULE AtomicFile ----------------------------
(***************************************************************************)
(* What toml_writer.rs and shred.rs promise of a file: a reader finds a    *)
(* content that was asked for, whole, or none; a write that was asked for  *)
(* happens at once or not at all, and one that does not happen leaves what *)
(* was there; only a file that is being shredded may go by itself.         *)
(***************************************************************************)
CONSTANTS Values,  \* contents a caller may ask for
          NoFile   \* there is no file, or nobody has asked for a write

VARIABLES content, \* what a reader finds
          request, \* the content the caller at work asked for
          fading   \* the file is being shredded

fileVars == <<content, request, fading>>

Init == content = NoFile /\ request = NoFile /\ fading = FALSE

Ask(v) ==
  /\ request = NoFile
  /\ request' = v
  /\ UNCHANGED <<content, fading>>

Replace ==
  /\ request # NoFile
  /\ content' = request /\ request' = NoFile /\ fading' = FALSE

\* The write failed, or the writer died.
Abandon ==
  /\ request # NoFile
  /\ request' = NoFile
  /\ UNCHANGED <<content, fading>>

\* No content is lost to a shred while a new one is being written.
Shred ==
  /\ request = NoFile
  /\ fading' = TRUE
  /\ UNCHANGED <<content, request>>

Remove ==
  /\ request = NoFile
  /\ content' = NoFile /\ fading' = FALSE
  /\ UNCHANGED request

\* A shred cut short takes hold later, or is undone.
Fade ==
  /\ fading
  /\ content' \in {content, NoFile} /\ fading' \in BOOLEAN
  /\ request' \in {request, NoFile}

Next == (\E v \in Values : Ask(v)) \/ Replace \/ Abandon \/ Shred \/ Remove \/ Fade

Spec == Init /\ [][Next]_fileVars
=============================================================================
