CONSTANTS
  Monitors <- AllMonitors
  Cuts = {0, 14, 64, 128}
  REPLUGS = 1
SPECIFICATION Spec
INVARIANTS
  TypeOK
  DecodesTheMonitor
  OnlyEqualSumsPass
  NothingStale
