SPECIFICATION Spec
CONSTANTS
  p = p
  q = q
  r = r
  Profiles = {p, q, r}
  NoProfile = NoProfile
  Active = p
  Worlds <- OrderWorlds
  OwnPrompt = TRUE
  StdinLines = 0
CHECK_DEADLOCK FALSE
INVARIANTS
  ProfileOnly
