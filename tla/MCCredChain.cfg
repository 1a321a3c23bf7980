SPECIFICATION FairSpec
CONSTANTS
  Callers = {c1, c2, c3}
  Nobody = Nobody
  Slack = 1
  Expiries = {1, 3}
  MaxTime = 3
  MaxIssued = 2
INVARIANTS
  TypeOK
  OneResolver
  ResolveStillDue
  HitUsableForSlack
PROPERTIES
  EveryRetrieveReturns
  PromiseKept
