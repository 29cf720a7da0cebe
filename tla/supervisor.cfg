SPECIFICATION FairSpec
CONSTANTS
  MaxProcs = 2
  ReloadFull = TRUE
  WritePidfile = TRUE
  Faults = {"popen", "disk", "bind", "sigterm", "interrupt"}
INVARIANTS
  ResolverNamesListener
  ResolverFollowsBox
PROPERTIES
  ImplementsLease
  CleanExit
  FirstReloadKeepsGateway
  ExitStopsGateway
  StopCompletes
