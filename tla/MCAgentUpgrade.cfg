SPECIFICATION MCSpec
CONSTANTS
  Tasks = {t1, t2, tx}
  Invalid = {tx}
  Nil = Nil
  Initially = Initially
  MaxCrashes = 1
  Versions = {"v1", "v2"}
  MaxBuild = 2
  MaxUpgrades = 2
  MaxFaults = 2
INVARIANTS LifecycleSurvives
PROPERTIES SuccessIsTrue AcknowledgedEnds CtlReportsTrue
