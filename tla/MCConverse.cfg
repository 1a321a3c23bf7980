SPECIFICATION Spec
CONSTANTS
  Calls = {k1}
  Nobody = Nobody
  Slack = 1
  Expiries = {2, 5}
  MaxTime = 6
  MaxIssued = 2
  MaxRetries = 2
  Backoff <- MCBackoff
  Statuses = {200, 400, 429, 503}
  RetryAfters <- DefaultHeaders
  HalfRange = 8
  Setups <- AllSetups
CHECK_DEADLOCK FALSE
INVARIANTS
  TypeOK
  BodyAccounted
  FreshAttempt
  HonorsRetryAfter
  CancelStopsRetries
  SendsBounded
  VerdictOnLastResponse
