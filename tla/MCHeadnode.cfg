CONSTANTS
  Names = {"first", "second", "third"}
  Models <- MCModels
  Commented = TRUE
  ChronydRuns = FALSE
  Dries = {TRUE, FALSE}
  Forces = {FALSE}
  Skips = {FALSE}
  MayFail = {"firewall", "chrony", "group", "kernel", "compile", "doca", "nfs"}
  MaxRuns = 3
  None = None
SPECIFICATION Spec
INVARIANTS TypeOK PristineKept NoDuplicateLines SlurmConfOfModel RerunSettles  DriverBeforeOFED
PROPERTIES DryRunOnlyCreates
CHECK_DEADLOCK FALSE
