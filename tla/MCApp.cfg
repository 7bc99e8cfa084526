SPECIFICATION AppSpec
CONSTANTS
  None = None
  Fire = {f1}
  MaxAttempts = 2
  Timeout = 1
  Pause <- MCPause
  Window = 3
  Horizon = 4
  Backends = 3
  Parallels <- MCParallels
  Times <- MCTimes
  DefaultSkew = 5
  Calls <- MCCalls
  Secret = {"a", "b"}
  Accepted <- MCAccepted
  Absent = Absent
  Manifests <- MCManifests
  Omitted = Omitted
  Null = Null
  MaxInt = 32767
  MaxSafe = 20000
  MaxNumber = 60000
  Text <- MCText
INVARIANTS
  DeliveryTypeOK AuthenticNeverRefused RepeatedOnlyIfLost StatusTypeOK
  ReportComplete VerifiersAgree HistoryIsTrue NormalFormsAgree
PROPERTIES StatusEnds
\* The parts come to their end: the clock, the log and the report.
CHECK_DEADLOCK FALSE
