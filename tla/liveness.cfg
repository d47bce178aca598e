CONSTANTS
  p1 = p1
  p2 = p2
  a1 = a1
  a2 = a2
  Pids <- TwoPids
  NoPid = NoPid
  Settings <- OneServer
  NoConfig = NoConfig
  stdout = stdout
  stderr = stderr
  Streams <- OneStream
  MaxPipe = 1
  Events = {"spawn_err", "drop", "fatal", "probe", "shred_err"}
  Addrs = {a1}
  LiteralAddrs = {a1}
  ProbeFailThreshold = 2
  MaxRestarts = 1
SPECIFICATION FairSpec
PROPERTY DeadEngineDealtWith
PROPERTY PlaintextShredded
PROPERTY DeadEgressNoticed
PROPERTY KsFollowsDrop
