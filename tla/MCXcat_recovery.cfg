CONSTANTS
  n1 = n1
  n2 = n2
  v1 = v1
  v2 = v2
  distro = "Rocky"
  Nodes = {n1}
  Versions = {v1}
  Ofeds = {"mellanox"}
  Vaults = {TRUE, FALSE}
  Forces = {TRUE, FALSE}
  Skips = {TRUE, FALSE}
  MayFail = {"ln", "sed", "xcatconfig", "script"}
  ChdefCreates = TRUE
  MaxRuns = 2
  None = None
SPECIFICATION FairSpec
INVARIANT OSReposAttached
 
CHECK_DEADLOCK FALSE
