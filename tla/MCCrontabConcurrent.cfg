SPECIFICATION Spec
CONSTANTS
  Job <- MCJob
  AppOf <- MCAppOf
  Version <- MCVersion
  Schedules <- MCSchedules
  Manifest <- MCManifest
  Cron = {"c1", "c2"}
  Command = {c1, c2}
  None = None
  Torn = Torn
  KeepsSpecs = TRUE
  MaxEdits = 0
INVARIANTS NoDuplicateBlocks
