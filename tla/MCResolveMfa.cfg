SPECIFICATION Spec
CONSTANTS
  p = p
  q = q
  r = r
  Profiles = {p, q, r}
  NoProfile = NoProfile
  Active = p
  Worlds <- MfaWorlds
  OwnPrompt = FALSE
  StdinLines = 2
CHECK_DEADLOCK FALSE
INVARIANTS
  EachPromptReadsOneLine
