CONSTANTS
  p1 = p1
  p2 = p2
  a1 = a1
  a2 = a2
  Pids <- TwoPids
  NoPid = NoPid
  Settings <- OneServer
  NoConfig = NoConfig
  stdout = stdout
  stderr = stderr
  Streams <- OneStream
  MaxPipe = 1
  Events = {"crash", "exit", "menu", "drop", "fatal", "stranger", "probe", "split", "save_err", "shred_err"}
  Addrs = {a1}
  LiteralAddrs = {a1}
  ProbeFailThreshold = 2
  MaxRestarts = 1
SYMMETRY Symmetry
SPECIFICATION Spec
INVARIANT OffMeansStopped
INVARIANT EngineAccountedFor
INVARIANT SingleEngine
PROPERTY OffWritesNoPlaintext
