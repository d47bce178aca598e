---------------------------- MODULE EngineProofs ----------------------------
(***************************************************************************)
(* Theorems about Engine, for every number of processes, every set of      *)
(* settings and every order of calls: it is type correct, and unless the   *)
(* wrapper dies inside start or fails to write the PID file, it never      *)
(* loses track of an engine process.  Even then the PID file does not      *)
(* lead the next wrapper away from the engine in hand.                     *)
(***************************************************************************)
EXTENDS Engine, TLAPS

\* What can make an engine process impossible to find again does not happen.
TracksEngine == Events \cap {"crash_in_start", "pidfile_err"} = {}

-----------------------------------------------------------------------------
(* Type correctness. *)

\* ingest keeps a summary of unread lines a summary of unread lines, whatever
\* the line says.
LEMMA IngestType ==
  ASSUME NEW u \in Unread, NEW line \in Line
  PROVE  ingest(u, line) \in Unread
BY DEF ingest, classify, Unread, FailReason

\* No line to read is the summary of the empty channel.
LEMMA NoHandlesType ==
  NoHandles \in [owned : Pids \cup {NoPid}, adopted_pid : Pids \cup {NoPid},
                 requested_stop : BOOLEAN, lines : Unread]
BY DEF NoHandles, NoLines, Unread

\* Killing the processes with a handle leaves a process table.
LEMMA KilledType == EngineTypeOK => Killed \in [Pids -> Process]
BY DEF EngineTypeOK, Killed, Process, Dead

\* So does spawning an engine.
LEMMA SpawnedType ==
  ASSUME EngineTypeOK, NEW p \in Pids
  PROVE  Spawned(p) \in [Pids -> Process]
BY KilledType DEF Spawned, Process, EnginePhase

\* What a process step does outside the pipe: one process changes, to a value
\* of its type, and only an engine process becomes one.
LEMMA ProcessStepFrame ==
  ASSUME EngineTypeOK, NEW p \in Pids, ProcessStep(p)
  PROVE  /\ UNCHANGED <<up, engine, pidfile, config_file, shred_failed>>
         /\ \E new \in Process :
              /\ procs' = [procs EXCEPT ![p] = new]
              /\ new.phase \in EnginePhase => IsEngine(p)
<1>1. procs \in [Pids -> Process] /\ procs[p] \in Process
      /\ config_file \in Settings \cup {NoConfig}
  BY DEF EngineTypeOK
<1>2. ASSUME NEW phase \in EnginePhase, Moves(p, phase)
      PROVE  procs' = [procs EXCEPT ![p] = [procs[p] EXCEPT !.phase = phase]]
  BY <1>2 DEF Moves
<1>3. CASE Boots(p)
  <2>1. CASE config_file = NoConfig
    <3>1. procs' = [procs EXCEPT ![p] = [procs[p] EXCEPT !.phase = "failing"]]
      BY <1>3, <2>1 DEF Boots
    <3>2. [procs[p] EXCEPT !.phase = "failing"] \in Process
      BY <1>1 DEF Process, EnginePhase
    <3>3. IsEngine(p)
      BY <1>3 DEF Boots, EnginePhase, IsEngine
    <3> QED
      BY <1>3, <3>1, <3>2, <3>3 DEF Boots
  <2>2. CASE config_file # NoConfig
    <3>1. procs' = [procs EXCEPT ![p] = [phase |-> "connecting", conf |-> config_file]]
      BY <1>3, <2>2 DEF Boots
    <3>2. [phase |-> "connecting", conf |-> config_file] \in Process
      BY <1>1 DEF Process, EnginePhase
    <3>3. IsEngine(p)
      BY <1>3 DEF Boots, EnginePhase, IsEngine
    <3> QED
      BY <1>3, <3>1, <3>2, <3>3 DEF Boots
  <2> QED
    BY <2>1, <2>2
<1>4. ASSUME NEW phase \in EnginePhase, Moves(p, phase), IsEngine(p)
      PROVE  /\ UNCHANGED <<up, engine, pidfile, config_file, shred_failed>>
             /\ \E new \in Process : /\ procs' = [procs EXCEPT ![p] = new]
                                     /\ new.phase \in EnginePhase => IsEngine(p)
  <2>1. [procs[p] EXCEPT !.phase = phase] \in Process
    BY <1>1 DEF Process
  <2> QED
    BY <1>2, <1>4, <2>1 DEF Moves
<1>5. CASE Connects(p)
  BY <1>4, <1>5 DEF Connects, EnginePhase, IsEngine
<1>6. CASE LosesEndpoint(p)
  BY <1>4, <1>6 DEF LosesEndpoint, EnginePhase, IsEngine
<1>7. CASE FailsFatally(p)
  BY <1>4, <1>7 DEF FailsFatally, EnginePhase, IsEngine
<1>8. Dead \in Process /\ Other \in Process
      /\ Dead.phase \notin EnginePhase /\ Other.phase \notin EnginePhase
  BY DEF Dead, Other, Process, EnginePhase
<1>9. CASE Dies(p)
  BY <1>8, <1>9 DEF Dies
<1>10. CASE StrangerAppears(p)
  BY <1>8, <1>10 DEF StrangerAppears
<1> QED
  BY <1>3, <1>5, <1>6, <1>7, <1>9, <1>10 DEF ProcessStep

\* Every step of a process keeps the types.
LEMMA ProcessStepType ==
  ASSUME EngineTypeOK, NEW p \in Pids, ProcessStep(p)
  PROVE  EngineTypeOK'
<1>1. procs' \in [Pids -> Process]
  BY ProcessStepFrame DEF EngineTypeOK
<1>2. pipe' \in [Streams -> Seq(Line)]
  <2>1. ASSUME NEW line \in Line, Prints(p, line)
        PROVE  pipe' \in [Streams -> Seq(Line)]
    <3>1. CASE UNCHANGED pipe
      BY <3>1 DEF EngineTypeOK
    <3>2. ASSUME NEW st \in Streams,
                 pipe' = [pipe EXCEPT ![st] = Append(@, line)]
          PROVE  pipe' \in [Streams -> Seq(Line)]
      <4>1. pipe[st] \in Seq(Line)
        BY DEF EngineTypeOK
      <4>2. Append(pipe[st], line) \in Seq(Line)
        BY <4>1
      <4> QED
        BY <3>2, <4>2 DEF EngineTypeOK
    <3> QED
      BY <2>1, <3>1, <3>2 DEF Prints
  <2>2. /\ {"failed parsing configuration"} \in Line
        /\ {"successfully connected to endpoint"} \in Line
        /\ {"waiting recovery"} \in Line
        /\ {"error:", "auth"} \in Line
    BY DEF Line, Phrase
  <2> QED
    BY <2>1, <2>2 DEF ProcessStep, Boots, Connects, LosesEndpoint, FailsFatally,
                      Dies, StrangerAppears, EngineTypeOK
<1>3. UNCHANGED <<up, engine, pidfile, config_file, shred_failed>>
  BY ProcessStepFrame
<1>4. crossed' \in BOOLEAN
  <2>1. ASSUME NEW line, Prints(p, line) PROVE crossed' \in BOOLEAN
    BY <2>1 DEF Prints, EngineTypeOK
  <2> QED
    BY <2>1 DEF ProcessStep, Boots, Connects, LosesEndpoint, FailsFatally, Dies,
                StrangerAppears, EngineTypeOK
<1> QED
  BY <1>1, <1>2, <1>3, <1>4 DEF EngineTypeOK

\* A line moves into the channel: still types.
LEMMA ReadLineType ==
  ASSUME EngineTypeOK, NEW st \in Streams, ReadLine(st)
  PROVE  EngineTypeOK'
<1>1. Head(pipe[st]) \in Line /\ Tail(pipe[st]) \in Seq(Line)
  BY DEF EngineTypeOK, ReadLine
<1>2. ingest(engine.lines, Head(pipe[st])) \in Unread
  BY <1>1, IngestType DEF EngineTypeOK
<1> QED
  BY <1>1, <1>2 DEF EngineTypeOK, ReadLine

\* Every step of the component keeps the types.
LEMMA EngineNextType == EngineTypeOK /\ [EngineNext]_engineVars => EngineTypeOK'
<1> SUFFICES ASSUME EngineTypeOK, [EngineNext]_engineVars
             PROVE  EngineTypeOK'
  OBVIOUS
<1>e. EmptyPipe \in [Streams -> Seq(Line)]
  BY DEF EmptyPipe
<1>1. CASE AdoptExisting
  BY <1>1, NoHandlesType DEF AdoptExisting, Cleared, EngineTypeOK, NoHandles, pid_is_engine
<1>2. ASSUME NEW s \in Settings, Start(s) PROVE EngineTypeOK'
  BY <1>2, <1>e, NoHandlesType, KilledType, SpawnedType
  DEF Start, Cleared, EngineTypeOK, NoHandles, Spawnable
<1>3. CASE Stop /\ Shreds
  BY <1>3, <1>e, NoHandlesType, KilledType
  DEF Stop, Cleared, Shreds, Shred, EngineTypeOK, NoHandles
<1>4. ASSUME NEW drain \in BOOLEAN, Poll(drain), Shreds PROVE EngineTypeOK'
  BY <1>4 DEF Poll, Shreds, Shred, Polled, EngineTypeOK, NoLines, Unread
<1>5. CASE Drop
  BY <1>5, <1>e, NoHandlesType, KilledType DEF Drop, Cleared, EngineTypeOK
<1>6. CASE Crash
  BY <1>6, <1>e, NoHandlesType DEF Crash, EngineTypeOK
<1>7. ASSUME NEW s \in Settings, CrashInStart(s) PROVE EngineTypeOK'
  BY <1>7, <1>e, NoHandlesType, KilledType, SpawnedType
  DEF CrashInStart, Cleared, EngineTypeOK, Spawnable
<1>8. CASE UNCHANGED engineVars
  BY <1>8 DEF engineVars, EngineTypeOK
<1> QED
  BY <1>1, <1>2, <1>3, <1>4, <1>5, <1>6, <1>7, <1>8, ReadLineType, ProcessStepType
  DEF EngineNext

\* The component only ever holds values of its types.
THEOREM EngineTypeCorrect == EngineSpec => []EngineTypeOK
<1>1. EngineInit => EngineTypeOK
  <2>1. EmptyPipe \in [Streams -> Seq(Line)]
    BY DEF EmptyPipe
  <2>2. Dead \in Process
    BY DEF Dead, Process
  <2> QED
    BY <2>1, <2>2, NoHandlesType DEF EngineInit, EngineTypeOK
<1> QED
  BY <1>1, EngineNextType, PTL DEF EngineSpec

-----------------------------------------------------------------------------
(* No engine process is lost. *)

\* When the wrapper stops what it has handles of, no engine is left.
LEMMA KilledLeavesNoEngine ==
  ASSUME EngineTypeOK, EngineAccountedFor, up, NEW p \in Pids
  PROVE  Killed[p].phase \notin EnginePhase
BY DEF EngineAccountedFor, IsEngine, Killed, Dead, EnginePhase

\* Every step keeps account of every engine process.
LEMMA EngineNextAccounts ==
  TracksEngine /\ EngineTypeOK /\ EngineAccountedFor /\ [EngineNext]_engineVars
    => EngineAccountedFor'
<1> SUFFICES ASSUME TracksEngine, EngineTypeOK, EngineAccountedFor,
                    [EngineNext]_engineVars, NEW p \in Pids, IsEngine(p)'
             PROVE  pidfile' = p /\ (up' => p \in {engine'.owned, engine'.adopted_pid})
  BY DEF EngineAccountedFor
<1>1. CASE AdoptExisting
  <2>1. pidfile = p /\ pid_is_engine(pidfile)
    BY <1>1, EngineAssumption
    DEF AdoptExisting, EngineAccountedFor, IsEngine, pid_is_engine, TracksEngine
  <2> QED
    BY <1>1, <2>1 DEF AdoptExisting, NoHandles
<1>2. ASSUME NEW s \in Settings, up, Start(s)
      PROVE  pidfile' = p /\ p \in {engine'.owned, engine'.adopted_pid}
  <2>1. CASE procs' = Killed
    BY <1>2, <2>1, KilledLeavesNoEngine DEF IsEngine
  <2>2. ASSUME NEW q \in Spawnable, procs' = Spawned(q), pidfile' = q,
               engine' = [NoHandles EXCEPT !.owned = q]
        PROVE  pidfile' = p /\ p \in {engine'.owned, engine'.adopted_pid}
    <3>1. Killed \in [Pids -> Process]
      BY KilledType
    <3>2. p = q
      BY <1>2, <2>2, <3>1, KilledLeavesNoEngine DEF IsEngine, Spawned, Spawnable
    <3> QED
      BY <2>2, <3>2 DEF NoHandles
  <2> QED
    BY <1>2, <2>1, <2>2 DEF Start, TracksEngine
<1>3. CASE up /\ Stop
  BY <1>3, KilledLeavesNoEngine DEF Stop, IsEngine
<1>4. ASSUME up, NEW drain \in BOOLEAN, Poll(drain)
      PROVE  pidfile' = p /\ p \in {engine'.owned, engine'.adopted_pid}
  <2>1. pidfile = p /\ p \in {engine.owned, engine.adopted_pid} /\ pid_alive(p)
    BY <1>4, EngineAssumption
    DEF Poll, EngineAccountedFor, IsEngine, pid_alive, EnginePhase
  <2>2. p \in {Polled.owned, Polled.adopted_pid}
    BY <2>1 DEF Polled, EngineTypeOK
  <2> QED
    BY <1>4, <2>1, <2>2 DEF Poll, Polled, EngineTypeOK
<1>5. CASE Drop
  BY <1>5, KilledLeavesNoEngine DEF Drop, IsEngine
<1>6. CASE Crash
  BY <1>6 DEF Crash, EngineAccountedFor, IsEngine
<1>7. ASSUME NEW s \in Settings, CrashInStart(s) PROVE FALSE
  BY <1>7 DEF CrashInStart, TracksEngine
<1>8. ASSUME NEW st \in Streams, ReadLine(st)
      PROVE  pidfile' = p /\ (up' => p \in {engine'.owned, engine'.adopted_pid})
  BY <1>8 DEF ReadLine, EngineAccountedFor, IsEngine, EngineTypeOK
<1>9. ASSUME NEW q \in Pids, ProcessStep(q)
      PROVE  pidfile' = p /\ (up' => p \in {engine'.owned, engine'.adopted_pid})
  <2>1. IsEngine(p)
    BY <1>9, ProcessStepFrame DEF IsEngine, EngineTypeOK
  <2>2. UNCHANGED <<up, engine, pidfile>>
    BY <1>9, ProcessStepFrame
  <2> QED
    BY <2>1, <2>2 DEF EngineAccountedFor
<1>10. CASE UNCHANGED engineVars
  BY <1>10 DEF engineVars, EngineAccountedFor, IsEngine
<1> QED
  BY <1>1, <1>2, <1>3, <1>4, <1>5, <1>6, <1>7, <1>8, <1>9, <1>10 DEF EngineNext

\* Every engine process is one the wrapper can stop, and one the next wrapper
\* can find, in every order of calls, crashes between calls and reuse of pids.
THEOREM EnginesStayAccountedFor ==
  TracksEngine => (EngineSpec => []EngineAccountedFor)
<1>1. EngineInit => EngineAccountedFor
  BY DEF EngineInit, EngineAccountedFor, IsEngine, EnginePhase, Dead
<1> SUFFICES ASSUME TracksEngine PROVE EngineSpec => []EngineAccountedFor
  OBVIOUS
<1>2. EngineTypeOK /\ EngineAccountedFor /\ [EngineNext]_engineVars
        => EngineAccountedFor'
  BY EngineNextAccounts
<1> QED
  BY <1>1, <1>2, EngineTypeCorrect, PTL DEF EngineSpec

\* So there are never two engines at once.
THEOREM NeverTwoEngines == TracksEngine => (EngineSpec => []SingleEngine)
<1> SUFFICES ASSUME TracksEngine PROVE EngineSpec => []SingleEngine
  OBVIOUS
<1>1. EngineAccountedFor => SingleEngine
  BY DEF EngineAccountedFor, SingleEngine
<1> QED
  BY <1>1, EnginesStayAccountedFor, PTL
-----------------------------------------------------------------------------
(* The PID file, whatever fails. *)

\* Every step, a half-done start included, keeps the PID file from leading away
\* from the engine in hand.
LEMMA EngineNextPidfile ==
  EngineTypeOK /\ PidfileLeadsToHandle /\ [EngineNext]_engineVars
    => PidfileLeadsToHandle'
<1> SUFFICES ASSUME EngineTypeOK, PidfileLeadsToHandle, [EngineNext]_engineVars,
                    up', pidfile' # NoPid, IsEngine(pidfile)'
             PROVE  pidfile' \in {engine'.owned, engine'.adopted_pid}
  BY DEF PidfileLeadsToHandle
<1>1. CASE AdoptExisting
  BY <1>1 DEF AdoptExisting, Cleared, NoHandles, IsEngine, pid_is_engine
<1>k. ASSUME up, pidfile' = pidfile PROVE Killed[pidfile].phase \notin EnginePhase
  BY <1>k DEF PidfileLeadsToHandle, EngineTypeOK, Killed, Dead, IsEngine, EnginePhase
<1>2. ASSUME up, NEW s \in Settings, Start(s)
      PROVE  pidfile' \in {engine'.owned, engine'.adopted_pid}
  <2>1. CASE procs' = Killed /\ Cleared
    BY <1>2, <1>k, <2>1 DEF Cleared, IsEngine
  <2>2. ASSUME NEW p \in Spawnable, engine' = [NoHandles EXCEPT !.owned = p],
               procs' = Spawned(p), pidfile' \in {p, pidfile}
        PROVE  pidfile' \in {engine'.owned, engine'.adopted_pid}
    <3>1. engine'.owned = p
      BY <2>2 DEF NoHandles
    <3>2. CASE pidfile' # p
      <4>1. pidfile' = pidfile /\ pidfile \in Pids /\ pidfile # p
        BY <2>2, <3>2 DEF EngineTypeOK
      <4>2. procs'[pidfile] = Killed[pidfile]
        BY <2>2, <4>1, KilledType DEF Spawned
      <4> QED
        BY <1>2, <1>k, <4>1, <4>2 DEF IsEngine
    <3> QED
      BY <3>1, <3>2
  <2> QED
    BY <1>2, <2>1, <2>2 DEF Start
<1>3. CASE up /\ Stop
  BY <1>3, <1>k DEF Stop, Cleared, IsEngine
<1>4. ASSUME up, NEW drain \in BOOLEAN, Poll(drain)
      PROVE  pidfile' \in {engine'.owned, engine'.adopted_pid}
  <2>1. pidfile # NoPid /\ IsEngine(pidfile)
    BY <1>4 DEF Poll, IsEngine
  <2>2. pidfile \in {engine.owned, engine.adopted_pid} /\ pid_alive(pidfile)
    BY <1>4, <2>1 DEF PidfileLeadsToHandle, IsEngine, pid_alive, EnginePhase
  <2>3. pidfile \in {Polled.owned, Polled.adopted_pid}
    BY <2>2 DEF Polled, EngineTypeOK
  <2> QED
    BY <1>4, <2>3 DEF Poll, Polled, EngineTypeOK
<1>5. CASE Drop \/ Crash \/ \E s \in Settings : CrashInStart(s)
  BY <1>5 DEF Drop, Crash, CrashInStart
<1>6. ASSUME NEW st \in Streams, ReadLine(st)
      PROVE  pidfile' \in {engine'.owned, engine'.adopted_pid}
  BY <1>6 DEF ReadLine, PidfileLeadsToHandle, IsEngine, EngineTypeOK
<1>7. ASSUME NEW q \in Pids, ProcessStep(q)
      PROVE  pidfile' \in {engine'.owned, engine'.adopted_pid}
  <2>1. UNCHANGED <<up, engine, pidfile>> /\ pidfile \in Pids
    BY <1>7, ProcessStepFrame DEF EngineTypeOK
  <2>2. IsEngine(pidfile)
    BY <1>7, <2>1, ProcessStepFrame DEF IsEngine, EngineTypeOK
  <2> QED
    BY <2>1, <2>2 DEF PidfileLeadsToHandle
<1>8. CASE UNCHANGED engineVars
  BY <1>8 DEF engineVars, PidfileLeadsToHandle, IsEngine
<1> QED
  BY <1>1, <1>2, <1>3, <1>4, <1>5, <1>6, <1>7, <1>8 DEF EngineNext

\* The PID file leads the next wrapper to the engine in hand or to none, with no
\* assumption on what fails or where the wrapper dies.
THEOREM PidfileNeverMisleads == EngineSpec => []PidfileLeadsToHandle
<1>1. EngineInit => PidfileLeadsToHandle
  BY DEF EngineInit, PidfileLeadsToHandle
<1> QED
  BY <1>1, EngineNextPidfile, EngineTypeCorrect, PTL DEF EngineSpec
=============================================================================
