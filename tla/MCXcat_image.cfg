CONSTANTS
  n1 = n1
  n2 = n2
  v1 = v1
  v2 = v2
  distro = "Rocky"
  Nodes = {n1}
  Versions = {v1}
  Ofeds = {"inbox", "mellanox"}
  Vaults = {FALSE}
  Forces = {TRUE, FALSE}
  Skips = {TRUE, FALSE}
  MayFail = {}
  ChdefCreates = TRUE
  MaxRuns = 2
  None = None
SPECIFICATION Spec
INVARIANT ExistingImageIsPacked
CHECK_DEADLOCK FALSE
