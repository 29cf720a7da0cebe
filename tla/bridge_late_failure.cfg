SPECIFICATION Spec
CONSTANTS
  Reqs = {}
  Mounted = FALSE
  RepeatStartup = FALSE
  ApiMiddleware = FALSE
  InnerFails = {"later"}
  StartFaults = {}
  ServerCuts = {}
INVARIANT StoppedMeansNoSidecar
