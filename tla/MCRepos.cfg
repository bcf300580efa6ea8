CONSTANTS
  baseos = baseos
  crb = crb
  extras = extras
  epel = epel
  debug = debug
  xcat = xcat
  NoFile = NoFile
  Partial = Partial
  Files <- MCFiles
  Ids <- MCIds
  Vendor <- MCVendor
  Package <- MCPackage
  Distro <- MCDistro
  Common <- MCCommon
  UpperCase = {"old.REPO"}
  Malformed = {"site.repo"}
  Wanted <- MCWanted
  Calls <- MCCalls
  Singles <- MCSingles
  Flavours = {"upstream", "vault"}
  ForceChoices = {TRUE, FALSE}
  MaxRuns = 2
SPECIFICATION Spec
INVARIANTS TypeOK VendorPreserved BackupIsPristine MemoryAgreesWithDisk ForceRegenerates
PROPERTIES GeneratedKept ImplementsStore
CHECK_DEADLOCK FALSE
