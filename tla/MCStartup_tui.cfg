SPECIFICATION Spec
CHECK_DEADLOCK FALSE
CONSTANTS
  None = None
  Missing = Missing
  Texts = {"", "a"}
  MaxItems = 2
  CommandLines <- MCCommandLines
  ConfigFiles <- MCConfigFiles
  Builds = {"debug", "release"}
  OsReleases <- MCOsReleases
  Archs = {"x86_64", "aarch64"}
  ZoneNames <- MCZoneNames
  TestCommands = {"execute-command", "dump-headnode-os", "unheard-of"}
INVARIANT LocaleAfterService
