SPECIFICATION Spec
CONSTANTS
  MaxForwardNames = 2
  Scenarios <- MCPrecedence
INVARIANT EnvBeatsProjectFile
