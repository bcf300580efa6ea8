CONSTANTS
  distro = "Rocky"
  releasever = 9
  files = {"rocky.repo", "elrepo.repo", "xcat-core.repo"}
  flaky = {"crb"}
  NoMirror <- MCNoMirror
  NoMirrorKey <- MCNoMirrorKey
  NoUpstreamKey <- MCNoUpstreamKey
  Flaky <- MCFlaky
  DisableChoices = {TRUE, FALSE}
  NoFile = NoFile
  Partial = Partial
  Files <- MCFiles
  Ids <- MCIds
  Vendor <- MCVendor
  Package <- MCPackage
  Distro <- MCDistro
  Common <- MCCommon
  UpperCase = {}
  Malformed = {}
  Wanted <- MCWanted
  Calls = {}
  Singles <- MCSingles
  Flavours = {"upstream", "vault"}
  ForceChoices = {TRUE, FALSE}
  MaxRuns = 2
SPECIFICATION AssemblySpec
INVARIANTS ConfigurationSucceeds SignedUnlessUnanswered DisabledMirrorsUnused
PROPERTIES SettingsKept LastRunConfigures
CHECK_DEADLOCK FALSE
