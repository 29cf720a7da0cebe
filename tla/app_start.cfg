SPECIFICATION Spec
CONSTANTS
  MaxForwardNames = 2
  Scenarios <- MCScenarios
INVARIANTS
  PreflightHolds
  ChildReachesGateway
  NavOrder
  DeepLinkOpensPage
  StrictPageRuns
