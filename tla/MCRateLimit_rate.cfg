SPECIFICATION Spec
CONSTANTS
  w1 = w1
  w2 = w2
  Workers = {w1, w2}
  Kinds = {"key", "jwt", "login"}
  RateBuckets <- MCRateBuckets
  TokenBuckets <- MCTokenBuckets
  Chain <- MCChain
  Scopes <- MCScopes
  Limit <- MCLimits
  Window <- MCWindows
  Estimates = {1}
  MaxUsed = 1
  MaxFaults = 1
  MaxHits = 1
INVARIANTS AdmissionBound EveryCounterExpires BudgetOvershoot
PROPERTY LimiterSpec
CHECK_DEADLOCK FALSE
