CONSTANTS
  Names = {"first"}
  Models <- MCModels
  Commented = FALSE
  ChronydRuns = FALSE
  Dries = {TRUE, FALSE}
  Forces = {TRUE, FALSE}
  Skips = {TRUE, FALSE}
  MayFail = {"nmcli", "systemctl", "driver", "slurm"}
  MaxRuns = 2
  None = None
SPECIFICATION FairSpec
INVARIANTS ServicesCurrent AddressesOfModel
 
CHECK_DEADLOCK FALSE
