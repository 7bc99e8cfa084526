SPECIFICATION Spec
CONSTANTS
  Job <- MCJob
  AppOf <- MCAppOf
  Version <- MCVersion
  Schedules <- MCSchedules
  Manifest <- MCManifest
  Translate <- MCTranslate
  Name <- MCName
  ScheduleName <- MCScheduleName
  Command = {c}
  None = None
  Torn = Torn
  KeepsSpecs = FALSE
  Edited = Edited
  MaxEdits = 1
PROPERTIES UpdateReplaces
