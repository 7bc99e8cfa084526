\* Unit 5s: timeout 5s, headroom 30s, 3 attempts, backoff 5s up to 10s.
SPECIFICATION MCSpec
CONSTANTS
  Proc = {p1, p2}
  Token = {t1, t2, t3, t4}
  None = None
  Timeout = 1
  Headroom = 6
  Ttl = 7
  MaxAttempts = 3
  MinBackoff = 1
  MaxBackoff = 2
  Pause <- MCPause
INVARIANTS TypeOK LeaseIsEntry ShimWithinLease OneFire
PROPERTIES LeasesExclude OrphansExpire
