SPECIFICATION AllSpec
CONSTANTS
  Job <- MCJob
  AppOf <- MCAppOf
  Version <- MCVersion
  Schedules <- MCSchedules
  Manifest <- MCManifest
  Name <- MCName
  ScheduleName <- MCScheduleName
  Translate <- MCTranslate
  Cron = {1, 2}
  Command = {c}
  None = None
  Torn = Torn
  KeepsSpecs = FALSE
  MaxEdits = 1
  Foreign = Foreign
  Edited = Edited
  Undescribed = Undescribed
INVARIANTS
  AllTypeOK PlanIsExact HostPlansAreExact ScheduledIsInstalled PlanTellsCron
  ShowAgreesWithPlan
PROPERTIES
  CrontabConverges UnownedKept OnlyMarksAdded AdoptedIsInstalled UnitsConverge
  OnlyWantedFire AwsConverges ForeignKept AppliedIsScheduled
