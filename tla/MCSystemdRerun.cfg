SPECIFICATION Spec
CONSTANTS
  Job <- MCJob
  AppOf <- MCAppOf
  Version <- MCVersion
  Schedules <- MCSchedules
  Manifest <- MCManifest
  Calendar = {"c1", "c2"}
  Unit <- MCUnit
  ScheduleName <- MCScheduleName
  Matches <- MCMatches
  Command = {c}
  None = None
  Torn = Torn
  KeepsSpecs = FALSE
  Foreign = Foreign
  Edited = Edited
  MaxEdits = 1
PROPERTIES RerunSchedules
