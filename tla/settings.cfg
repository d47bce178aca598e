CONSTANTS
  p1 = p1
  p2 = p2
  a1 = a1
  a2 = a2
  Pids <- TwoPids
  NoPid = NoPid
  Settings <- AnyEdit
  NoConfig = NoConfig
  stdout = stdout
  stderr = stderr
  Streams <- TwoStreams
  MaxPipe = 1
  Events = {"drop", "split", "dialog", "geoip", "spawn_err", "menu", "shred_err"}
  Addrs = {a1, a2}
  LiteralAddrs = {a1}
  ProbeFailThreshold = 1
  MaxRestarts = 1
SYMMETRY Symmetry
SPECIFICATION Spec
INVARIANT EngineRunsCurrentSettings
INVARIANT BeliefMatchesEngine
INVARIANT OffMeansNoPlaintext
INVARIANT PlaintextIsTimed
PROPERTY AppImplementsSupervision
