SPECIFICATION Spec
CONSTANTS
  Calls = {k1}
  Nobody = Nobody
  Slack = 1
  Expiries = {2, 5}
  MaxTime = 6
  MaxIssued = 2
  MaxRetries = 2
  Backoff <- MCBackoff
  Statuses = {503}
  RetryAfters <- HugeHeaders
  HalfRange = 8
  Setups <- SharedSetup
CHECK_DEADLOCK FALSE
INVARIANTS
  HonorsRetryAfter
