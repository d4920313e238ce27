SPECIFICATION FairSpec
CONSTANTS
  Starts <- AllStarts
  Tables <- AllTables
  Depth <- DepthOf
  MaxClients = 2
  Faults = TRUE
INVARIANTS
  RedirectsKeepOwn
  LinksAsConfigured
PROPERTIES
  EachClientDecided
CHECK_DEADLOCK FALSE
