CONSTANTS
  p1 = p1
  p2 = p2
  a1 = a1
  a2 = a2
  Pids <- TwoPids
  NoPid = NoPid
  Settings <- AnyEdit
  NoConfig = NoConfig
  stdout = stdout
  stderr = stderr
  Streams <- OneStream
  MaxPipe = 1
  Events = {"drop", "dialog"}
  Addrs = {a1, a2}
  LiteralAddrs = {a1, a2}
  ProbeFailThreshold = 2
  MaxRestarts = 1
SYMMETRY Symmetry
SPECIFICATION Spec
PROPERTY KsPermitsEndpoint
