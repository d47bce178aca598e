CONSTANTS
  home = home
  abroad = abroad
  AddrBits = 4
  Countries <- TwoCountries
  NoStart = NoStart
  Bodies <- Editions
  NoList = NoList
  NoEngine = NoEngine
  GeoEvents = {"write_err", "save_err", "start_err"}
SPECIFICATION GeoSpec
INVARIANT GeoTypeOK
INVARIANT CacheIsTheCountrys
INVARIANT ListCovers
INVARIANT EngineExclusionsCurrent
PROPERTY OldListKept
PROPERTY RefreshEnds
