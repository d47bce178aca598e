CONSTANTS
  p1 = p1
  p2 = p2
  a1 = a1
  a2 = a2
  Pids <- TwoPids
  NoPid = NoPid
  Settings <- OneServer
  NoConfig = NoConfig
  stdout = stdout
  stderr = stderr
  Streams <- OneStream
  MaxPipe = 2
  Events = {"spawn_err", "write_err", "drop", "fatal", "probe", "wfp_err", "no_exe", "crash_in_start", "pidfile_err"}
  Addrs = {a1}
  LiteralAddrs = {a1}
  ProbeFailThreshold = 2
  MaxRestarts = 2
SYMMETRY Symmetry
SPECIFICATION Spec
INVARIANT TypeOK
INVARIANT KsOnlyWhileWantedDown
INVARIANT BeliefMatchesEngine
INVARIANT PidfileLeadsToHandle
PROPERTY LiveEngineSpared
PROPERTY DeadEngineNotOverlooked
PROPERTY KsLiftedOverLiveEngine
