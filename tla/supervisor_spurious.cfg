SPECIFICATION Spec
CONSTANTS
  MaxProcs = 3
  ReloadFull = TRUE
  WritePidfile = TRUE
  Faults = {}
PROPERTY ReloadKeepsGateway
