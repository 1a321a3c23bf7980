SPECIFICATION FairSpec
CONSTANTS
  p = p
  q = q
  r = r
  Profiles = {p, q, r}
  NoProfile = NoProfile
  Active = p
  Worlds <- AllWorlds
  OwnPrompt = FALSE
  StdinLines = 2
CHECK_DEADLOCK FALSE
INVARIANTS
  TypeOK
  NoFallThrough
  
  ChainAsConfigured
  RefusedBeforeAsking
PROPERTIES
  ResolveReturns
