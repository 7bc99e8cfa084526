SPECIFICATION DeliverySpec
CONSTANTS
  Fire = {f1}
  MaxAttempts = 3
  Timeout = 1
  Pause <- MCPause
  Window = 1
  Horizon = 3
  None = None
INVARIANT AuthenticNeverRefused
CHECK_DEADLOCK FALSE
