SPECIFICATION FairSpec
CONSTANTS
  Calls = {k1, k2}
  Nobody = Nobody
  Slack = 0
  Expiries = {1}
  MaxTime = 1
  MaxIssued = 2
  MaxRetries = 1
  Backoff <- MCBackoff
  Statuses = {503}
  RetryAfters <- SecondHeader
  HalfRange = 8
  Setups <- SharedSetup
CHECK_DEADLOCK FALSE
PROPERTIES
  EveryCallReturns
