CONSTANTS
  Inputs <- Typed
  ImportFiles <- Exports
  MaxEdits = 4
SPECIFICATION DialogSpec
INVARIANT DialogTypeOK
INVARIANT NothingEnteredIsLost
INVARIANT OpeningIsHarmless
INVARIANT ExportIsImport
