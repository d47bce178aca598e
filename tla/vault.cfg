CONSTANTS
  pw1 = pw1
  pw2 = pw2
  r1 = r1
  r2 = r2
  Passwords <- TwoPasswords
  NoPassword = NoPassword
  Rests = {r1, r2}
  DefaultRest = r1
  NoFile = NoFile
  Unreadable = Unreadable
  MaxFrames = 3
  Events = {"split", "save_err"}
SYMMETRY Symmetry
SPECIFICATION VaultSpec
INVARIANT VaultTypeOK
INVARIANT VaultOpensFile
PROPERTY UnreadableFileKept
PROPERTY LegacyNotLost
