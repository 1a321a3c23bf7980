SPECIFICATION RequestSpec
CONSTANTS
  DefaultRegion = "us-east-1"
  DefaultProfile = "default"
  Setups <- MCSetups
  Ranks <- MCRanks
  Reserved <- MCReserved
  Worlds <- MCWorlds
  PathKept = {":", "&", "+", "="}
  NoURL <- MCNoURL
  NoHost <- MCNoHost
  Credentials <- MCCredentials
  Dates <- MCDates
  MaxAttempts = 2
CHECK_DEADLOCK FALSE
INVARIANTS
  RequestTypeOK
  ClientAsDocumented
  SentVerifies
  QueryUnambiguous
  PathUnambiguous
  BodySaysInput
