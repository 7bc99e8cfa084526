SPECIFICATION LocksSpec
CONSTANTS
  a1 = a1
  a2 = a2
  b1 = b1
  None = None
  Empty = Empty
  Faulty = {a2, b1}
  MaxAttempts = 2
  Id <- MCId
  HostOf <- MCHostOf
  Policies = {"Allow", "Forbid", "Replace"}
INVARIANTS TypeOK OwnerIsInside HolderFileIsTrue ShimsTypeOK ExitCodeTells
PROPERTIES ImplementsJobMutex FiresExclude FireEnds LockComesBack ContentionEnds
