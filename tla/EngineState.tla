---------------------------- MODULE EngineState ----------------------------
(***************************************************************************)
(* engine_state.rs: what the wrapper believes about the engine, derived    *)
(* from the lines the engine prints.                                       *)
(*                                                                         *)
(* A line is the set of marker phrases that occur in it; the text around   *)
(* the markers is abstracted.  A tracker is the record [state, fatal]; the *)
(* reason of Failed(reason) is the fatal field at the exit, and last_error *)
(* is display text only, so neither is kept.                               *)
(***************************************************************************)
EXTENDS Naturals

FailReason == {"Auth", "Certificate", "Config", "Network"}

ConnState == {"Idle", "Connecting", "Connected", "Reconnecting",
              "Crashed", "Failed", "Disconnected"}

\* The substrings classify() looks for, in lower case.
Phrase == {"successfully connected to endpoint", "waiting recovery",
           "failed to verify certificate", "failed parsing configuration",
           "failed to parse config", "failed to start network monitor",
           "error:", "error at the start of the line",
           "cert", "auth", "credential", "unauthorized"}

Line == SUBSET Phrase

\* The first phrase that matches decides; an error nobody can name is no signal.
IsError(line) == line \cap {"error:", "error at the start of the line"} # {}

classify(line) ==
  IF "successfully connected to endpoint" \in line THEN "Connected"
  ELSE IF "waiting recovery" \in line THEN "Reconnecting"
  ELSE IF "failed to verify certificate" \in line THEN "Certificate"
  ELSE IF line \cap {"failed parsing configuration", "failed to parse config"} # {}
       THEN "Config"
  ELSE IF "failed to start network monitor" \in line THEN "Network"
  ELSE IF IsError(line) /\ "cert" \in line THEN "Certificate"
  ELSE IF IsError(line) /\ line \cap {"auth", "credential", "unauthorized"} # {}
       THEN "Auth"
  ELSE "None"

FreshTracker == [state |-> "Idle", fatal |-> "None"]

Tracker == [state : ConnState, fatal : FailReason \cup {"None"}]

\* The engine was (re)started.
on_start == [state |-> "Connecting", fatal |-> "None"]

\* One line read from the engine.
ingest(t, line) ==
  LET signal == classify(line) IN
  [state |-> IF signal \in {"Connected", "Reconnecting"} THEN signal ELSE t.state,
   fatal |-> IF signal \in FailReason THEN signal ELSE t.fatal]

\* The engine process is gone; requested tells whether the wrapper stopped it.
on_process_exit(t, requested) ==
  [t EXCEPT !.state = IF requested THEN "Disconnected"
                      ELSE IF t.fatal # "None" THEN "Failed"
                      ELSE "Crashed"]

-----------------------------------------------------------------------------
(***************************************************************************)
(* The channel between the reader threads and the UI thread.  ingest sets  *)
(* a field without looking at it, so what a queue of unread lines does to  *)
(* a tracker is one record: the last state and the last fatal reason they  *)
(* signal.  ingest itself appends a line to such a summary.                *)
(***************************************************************************)
NoLines == [state |-> "None", fatal |-> "None"]

Unread == [state : {"None", "Connected", "Reconnecting"},
           fatal : FailReason \cup {"None"}]

\* The loop over next_line() at the head of App::tick.
ingest_all(t, unread) ==
  [state |-> IF unread.state = "None" THEN t.state ELSE unread.state,
   fatal |-> IF unread.fatal = "None" THEN t.fatal ELSE unread.fatal]
=============================================================================
