CONSTANTS
  distro = "OL"
  releasever = 9
  files = {"oracle.repo", "epel.repo", "OpenHPC.repo"}
  flaky = {}
  NoMirror <- MCNoMirror
  NoMirrorKey <- MCNoMirrorKey
  NoUpstreamKey <- MCNoUpstreamKey
  Flaky <- MCFlaky
  DisableChoices = {FALSE}
  NoFile = NoFile
  Partial = Partial
  Files <- MCFiles
  Ids <- MCIds
  Vendor <- MCVendor
  Package <- MCPackage
  Distro <- MCDistro
  Common <- MCCommon
  UpperCase = {}
  Malformed = {}
  Wanted <- MCWanted
  Calls = {}
  Singles <- MCSingles
  Flavours = {"upstream"}
  ForceChoices = {FALSE}
  MaxRuns = 2
SPECIFICATION AssemblySpec
INVARIANT ConfigurationSucceeds
CHECK_DEADLOCK FALSE
