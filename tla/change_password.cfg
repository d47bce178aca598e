CONSTANTS
  pw1 = pw1
  pw2 = pw2
  r1 = r1
  r2 = r2
  Passwords <- TwoPasswords
  NoPassword = NoPassword
  Rests = {r1, r2}
  DefaultRest = r1
  NoFile = NoFile
  Unreadable = Unreadable
  MaxFrames = 2
  Events = {"split"}
SYMMETRY Symmetry
SPECIFICATION VaultSpec
PROPERTY PasswordChangeKeepsSettings
