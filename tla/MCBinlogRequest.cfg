\* Every sequence of builder calls over small argument sets.
CONSTANTS
  s1 = s1
  f1 = f1
  h1 = h1
  ServerIds <- MCServerIds
  Positions <- MCPositions
  FlagValues <- MCFlagValues
  Filenames <- MCFilenames
  SidLists <- MCSidLists
  Hostnames <- MCHostnames
  Ports <- MCPorts
SPECIFICATION Spec
INVARIANTS
  TypeOK
  CmdFollowsCalls
