SPECIFICATION LineSpec
CONSTANTS
  MaxDepth = 3
  Flag <- MCFlag
  NoFlag <- MCNoFlag
  Dest <- MCDest
  Spellings = {"1", "1.0", "[1]", "a", "True", "False", ""}
  BuiltIn = {"format", "input"}
  Registries <- MCRegistries
  Reserved = {"apcli"}
  Registered = {"apcli"}
  ShellSafe = {"math", "apcli"}
  Split <- MCSplit
  Names <- MCNames
  Builds <- MCBuilds
  Resolved <- ResolveRefs
  Tokens = {"1", "a", "True"}
  NoValue = ""
  Reading <- MCReading
  Values <- MCValues
INVARIANT StdinSurvives
