CONSTANTS
  n1 = n1
  n2 = n2
  v1 = v1
  v2 = v2
  distro = "Rocky"
  Nodes = {n1, n2}
  Versions = {v1, v2}
  Ofeds = {"inbox", "mellanox", "oracle"}
  Vaults = {FALSE}
  Forces = {TRUE, FALSE}
  Skips = {TRUE, FALSE}
  MayFail = {"dnf", "httpd", "copycds", "rm", "doca", "chdef", "genimage", "packimage", "rpower", "site", "nodeset", "rsetboot"}
  ChdefCreates = TRUE
  MaxRuns = 2
  None = None
SPECIFICATION Spec
INVARIANTS TypeOK PackedHasAll SkipRebuildsClean NodesBootLatest 
SYMMETRY Symmetry
CHECK_DEADLOCK FALSE
