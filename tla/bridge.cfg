SPECIFICATION FairSpec
CONSTANTS
  Reqs = {r1, r2, r3}
  Mounted = FALSE
  RepeatStartup = TRUE
  ApiMiddleware = TRUE
  InnerFails = {"first_slice", "later", "shutdown"}
  StartFaults = {"multiworker", "popen", "tcp"}
  ServerCuts = {"startup_signal", "force_exit", "grace"}
INVARIANTS
  NoLostSidecar
  
  NotConfiguredAfterDown
PROPERTIES
  ImplementsLease
  
  StartupAnswered
  ShutdownStops
