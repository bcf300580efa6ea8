CONSTANTS
  Bases <- MCBases
  Changes <- MCChanges
  MaxEdits = 2
  Dries = {TRUE, FALSE}
  Number <- MCNumber
  Formatted <- MCFormatted
  Addresses <- MCAddresses
  Macs = {"ca:fe", "be:ef"}
  Numbers = {"1", "2"}
  Domains = {"a.b", "m.b", "x.b"}
  Masks <- MCMasks
  Versions = {"9.5"}
  Distros = {"rocky"}
  Kinds = {"inbox", "mellanox"}
  MailProfiles = {"local", "relay", "sasl"}
  Images = {"a.iso"}
  Interfaces <- Interface
  MachineAddress <- MCMachineAddress
  MachineMask <- MCMachineMask
  MachineDomain = ""
  NetworkOf <- MCNetworkOf
  Unspecified = "0.0.0.0"
  None = None
SPECIFICATION Spec
INVARIANTS  NodesInherit ApplicationComplete ConnectionsUsable
PROPERTIES DumpKeepsNetworks
CHECK_DEADLOCK FALSE
