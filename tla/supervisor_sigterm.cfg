SPECIFICATION Spec
CONSTANTS
  MaxProcs = 1
  ReloadFull = FALSE
  WritePidfile = TRUE
  Faults = {"sigterm"}
PROPERTY NoOrphanSidecar
