\* Unit 30s: timeout 60s, headroom 30s, 3 attempts, backoff 0s up to 60s.
SPECIFICATION FireSpec
CONSTANTS
  Proc = {p1, p2}
  Token = {t1, t2, t3, t4}
  None = None
  Timeout = 2
  Headroom = 1
  Ttl = 3
  MaxAttempts = 3
  MinBackoff = 0
  MaxBackoff = 2
  Pause <- MCPause
INVARIANT ShimWithinLease
