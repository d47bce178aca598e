CONSTANTS
  v1 = v1
  v2 = v2
  Values <- TwoValues
  NoFile = NoFile
  Torn = Torn
  Junk = Junk
  MaxVersion = 2
  FileEvents = {"disk_err", "power_loss"}
SYMMETRY Symmetry
SPECIFICATION FilesSpec
INVARIANT FilesTypeOK
INVARIANT MarkerVouches
PROPERTY WritesAreAtomic
