--------------------------- MODULE HeadnodeProofs ----------------------------
(***************************************************************************)
(* What the installation of the head node keeps, for all models of a       *)
(* cluster, all commands that may fail and every number of runs, each of   *)
(* which may be dry, may die anywhere and may follow a reboot.             *)
(***************************************************************************)
EXTENDS Headnode, SequenceTheorems, TLAPS

-----------------------------------------------------------------------------
(* Where each step is                                                       *)

\* Shell::install, in its order: a place, what is done there, and where that leads to
StepAt ==
  \/ phase = "required" /\ InstallRequiredPackages
  \/ phase = "update" /\ RunSystemUpdate
  \/ phase = "selinux" /\ ConfigureSELinuxMode
  \/ phase = "selinux-value" /\ DisableSELinux
  \/ phase = "firewall" /\ (ConfigureFirewall \/ Drops("firewall", "hostname", "firewall"))
  \/ phase = "hostname" /\ ConfigureFQDN
  \/ phase = "sshd" /\ DisallowSSHRootPasswordLogin
  \/ phase \in {"hosts", "hosts-line"} /\ ConfigureHostsFile
  \/ phase = "timezone" /\ ConfigureTimezone
  \/ phase = "locale" /\ ConfigureLocale
  \/ phase = "networks" /\ ConfigureNetworks
  \/ phase = "connection" /\ (ConfigureConnection \/ LoseConnection)
  \/ phase \in {"connection", "dns-remove", "dns-line", "dns-restart"}
       /\ DisableNetworkManagerDNSOverride
  \/ phase = "time" /\ (InstallChrony \/ Drops("time", "time-backup", "chrony"))
  \/ phase \in {"time-backup", "stratum", "allow"} /\ ConfigureTimeService
  \/ phase = "chronyd" /\ (EnableChronyd \/ Drops("chronyd", "base", "systemctl"))
  \/ phase = "base" /\ InstallOpenHPCBase
  \/ phase = "ofed" /\ (OFEDInstall \/ Drops("ofed", "nfs", "group"))
  \/ phase = "makecache" /\ (InstallKernel \/ Throws("makecache", "kernel"))
  \/ phase = "compile" /\ (CompileDriver \/ Throws("compile", "compile"))
  \/ phase = "driver" /\ (InstallDriver \/ Drops("driver", "doca", "driver"))
  \/ phase = "doca" /\ (InstallDOCA \/ Throws("doca", "doca"))
  \/ phase = "nfs" /\ (NFSInstallScript \/ Drops("nfs", "queue", "nfs"))
  \/ phase = "queue" /\ SLURMInstallServer
  \/ phase = "queue" /\ model.slurm /\ Drops("queue", "slurm-remove", "slurm")
  \/ phase \in {"slurm-remove", "slurm-conf"} /\ SLURMConfigureServer
  \/ phase = "slurm-enable" /\ (SLURMEnableServer \/ Drops("slurm-enable", "mail", "systemctl"))
  \/ phase \in {"mail", "main.cf"} /\ ConfigureMailSystem
  \/ phase \in {"limits", "limits-line"} /\ RemoveMemlockLimits
  \/ phase = "development" /\ InstallDevelopmentComponents

\* A step is at the place of its statement.
LEMMA StepsAt ==
  ASSUME InstallHeadnode
  PROVE  StepAt
<1>1. CASE \/ InstallRequiredPackages \/ InstallOpenHPCBase \/ InstallKernel \/ InstallDOCA
           \/ InstallDevelopmentComponents \/ ConfigureFQDN \/ DisallowSSHRootPasswordLogin
           \/ ConfigureTimezone \/ ConfigureLocale
  <2>1. \/ phase = "required" /\ InstallRequiredPackages
        \/ phase = "base" /\ InstallOpenHPCBase
        \/ phase = "makecache" /\ InstallKernel
        \/ phase = "doca" /\ InstallDOCA
        \/ phase = "development" /\ InstallDevelopmentComponents
        \/ phase = "hostname" /\ ConfigureFQDN
        \/ phase = "sshd" /\ DisallowSSHRootPasswordLogin
        \/ phase = "timezone" /\ ConfigureTimezone
        \/ phase = "locale" /\ ConfigureLocale
    BY <1>1
    DEF InstallRequiredPackages, InstallOpenHPCBase, InstallKernel, InstallDOCA,
        InstallDevelopmentComponents, ConfigureFQDN, DisallowSSHRootPasswordLogin,
        ConfigureTimezone, ConfigureLocale, InstallPackages, SetUp, From
  <2> QED BY <2>1 DEF StepAt
<1>2. CASE \/ RunSystemUpdate \/ DisableSELinux \/ ConfigureFirewall \/ ConfigureNetworks
           \/ ConfigureConnection \/ InstallChrony \/ EnableChronyd
  <2>1. \/ phase = "update" /\ RunSystemUpdate
        \/ phase = "selinux-value" /\ DisableSELinux
        \/ phase = "firewall" /\ ConfigureFirewall
        \/ phase = "networks" /\ ConfigureNetworks
        \/ phase = "connection" /\ ConfigureConnection
        \/ phase = "time" /\ InstallChrony
        \/ phase = "chronyd" /\ EnableChronyd
    <3>1. RunSystemUpdate => phase = "update"
      BY DEF RunSystemUpdate, From
    <3>2. ConfigureFirewall => phase = "firewall"
      BY DEF ConfigureFirewall, From
    <3>3. ConfigureConnection => phase = "connection"
      BY DEF ConfigureConnection
    <3>4. /\ DisableSELinux => phase = "selinux-value"
          /\ ConfigureNetworks => phase = "networks"
          /\ InstallChrony => phase = "time"
          /\ EnableChronyd => phase = "chronyd"
      BY DEF DisableSELinux, ConfigureNetworks, InstallChrony, EnableChronyd, From
    <3> QED BY <1>2, <3>1, <3>2, <3>3, <3>4
  <2> QED BY <2>1 DEF StepAt
<1>11. CASE OFEDInstall \/ SLURMInstallServer
  <2>1. OFEDInstall => phase = "ofed"
    BY DEF OFEDInstall
  <2>2. SLURMInstallServer => phase = "queue"
    BY DEF SLURMInstallServer
  <2>3. CASE phase = "ofed" /\ OFEDInstall
    BY <2>3 DEF StepAt
  <2>4. CASE phase = "queue" /\ SLURMInstallServer
    BY <2>4 DEF StepAt
  <2> QED BY <1>11, <2>1, <2>2, <2>3, <2>4
<1>12. CASE \/ CompileDriver \/ InstallDriver \/ NFSInstallScript \/ SLURMEnableServer
  <2>1. InstallDriver => phase = "driver"
    BY DEF InstallDriver, From
  <2>2. CompileDriver => phase = "compile"
    BY DEF CompileDriver, From
  <2>3. NFSInstallScript => phase = "nfs"
    BY DEF NFSInstallScript, From
  <2>4. SLURMEnableServer => phase = "slurm-enable"
    BY DEF SLURMEnableServer, From
  <2> QED BY <1>12, <2>1, <2>2, <2>3, <2>4 DEF StepAt
<1>3. CASE ConfigureSELinuxMode
  <2>1. phase = "selinux"
    BY <1>3 DEF ConfigureSELinuxMode, BackupFile, From
  <2> QED BY <1>3, <2>1 DEF StepAt
<1>4. CASE ConfigureHostsFile
  <2>1. phase \in {"hosts", "hosts-line"}
    BY <1>4 DEF ConfigureHostsFile, BackupFile, From
  <2> QED BY <1>4, <2>1 DEF StepAt
<1>5. CASE DisableNetworkManagerDNSOverride
  <2>1. phase \in {"connection", "dns-remove", "dns-line", "dns-restart"}
    BY <1>5 DEF DisableNetworkManagerDNSOverride, From
  <2> QED BY <1>5, <2>1 DEF StepAt
<1>6. CASE ConfigureTimeService
  <2>1. phase \in {"time-backup", "stratum", "allow"}
    BY <1>6 DEF ConfigureTimeService, BackupFile, From
  <2> QED BY <1>6, <2>1 DEF StepAt
<1>7. CASE SLURMConfigureServer
  <2>1. phase \in {"slurm-remove", "slurm-conf"}
    BY <1>7 DEF SLURMConfigureServer, From
  <2> QED BY <1>7, <2>1 DEF StepAt
<1>8. CASE ConfigureMailSystem
  <2>1. phase \in {"mail", "main.cf"}
    BY <1>8 DEF ConfigureMailSystem, InstallPackages, From
  <2> QED BY <1>8, <2>1 DEF StepAt
<1>9. CASE RemoveMemlockLimits
  <2>1. phase \in {"limits", "limits-line"}
    BY <1>9 DEF RemoveMemlockLimits, BackupFile, From
  <2> QED BY <1>9, <2>1 DEF StepAt
<1>10. CASE Failures
  <2>1. \A p, q, c : Drops(p, q, c) \/ Throws(p, c) => phase = p
    BY DEF Drops, Throws, From
  <2>2. LoseConnection => phase = "connection"
    BY DEF LoseConnection
  <2> QED BY <1>10, <2>1, <2>2 DEF Failures, StepAt
<1> QED BY <1>1, <1>2, <1>3, <1>4, <1>5, <1>6, <1>7, <1>8, <1>9, <1>10, <1>11, <1>12
        DEF InstallHeadnode

\* The places that a step leads to
Order ==
  {<<"required", "update">>, <<"update", "selinux">>, <<"selinux", "selinux-value">>,
   <<"selinux", "firewall">>, <<"selinux-value", "firewall">>, <<"firewall", "hostname">>,
   <<"hostname", "sshd">>, <<"sshd", "hosts">>, <<"hosts", "hosts-line">>,
   <<"hosts-line", "timezone">>, <<"timezone", "locale">>, <<"locale", "networks">>,
   <<"networks", "connection">>, <<"connection", "connection">>, <<"connection", "dns-remove">>,
   <<"dns-remove", "dns-line">>, <<"dns-line", "dns-restart">>, <<"dns-restart", "time">>,
   <<"time", "time-backup">>, <<"time-backup", "stratum">>, <<"stratum", "stratum">>,
   <<"stratum", "allow">>, <<"allow", "stratum">>, <<"stratum", "chronyd">>,
   <<"chronyd", "base">>, <<"base", "ofed">>, <<"ofed", "nfs">>, <<"ofed", "makecache">>,
   <<"makecache", "compile">>, <<"compile", "driver">>, <<"driver", "doca">>, <<"doca", "nfs">>,
   <<"nfs", "queue">>, <<"queue", "slurm-remove">>, <<"queue", "mail">>,
   <<"slurm-remove", "slurm-conf">>, <<"slurm-conf", "slurm-enable">>, <<"slurm-enable", "mail">>,
   <<"mail", "limits">>, <<"mail", "main.cf">>, <<"limits", "limits-line">>,
   <<"limits-line", "development">>, <<"development", "done">>}

LEMMA StepsLead ==
  ASSUME InstallHeadnode
  PROVE  phase' = "failed" \/ <<phase, phase'>> \in Order
<1>1. CASE \/ InstallRequiredPackages \/ InstallOpenHPCBase \/ InstallKernel \/ InstallDOCA
           \/ InstallDevelopmentComponents \/ ConfigureFQDN \/ DisallowSSHRootPasswordLogin
           \/ ConfigureTimezone \/ ConfigureLocale
  BY <1>1
  DEF InstallRequiredPackages, InstallOpenHPCBase, InstallKernel, InstallDOCA,
      InstallDevelopmentComponents, ConfigureFQDN, DisallowSSHRootPasswordLogin, ConfigureTimezone,
      ConfigureLocale, InstallPackages, SetUp, From, Order
<1>2. CASE \/ RunSystemUpdate \/ DisableSELinux \/ ConfigureFirewall \/ ConfigureNetworks
           \/ ConfigureConnection \/ InstallChrony \/ EnableChronyd
           \/ CompileDriver \/ InstallDriver \/ NFSInstallScript \/ SLURMEnableServer
  BY <1>2
  DEF RunSystemUpdate, DisableSELinux, ConfigureFirewall, ConfigureNetworks, ConfigureConnection,
      InstallChrony, EnableChronyd, CompileDriver, InstallDriver, NFSInstallScript,
      SLURMEnableServer, From, Order
<1>3. CASE OFEDInstall \/ SLURMInstallServer
  BY <1>3 DEF OFEDInstall, SLURMInstallServer, Order
<1>4. CASE \/ ConfigureSELinuxMode \/ ConfigureHostsFile \/ ConfigureTimeService
           \/ RemoveMemlockLimits
  BY <1>4
  DEF ConfigureSELinuxMode, ConfigureHostsFile, ConfigureTimeService, RemoveMemlockLimits,
      BackupFile, From, Order
<1>5. CASE DisableNetworkManagerDNSOverride \/ SLURMConfigureServer \/ ConfigureMailSystem
  BY <1>5
  DEF DisableNetworkManagerDNSOverride, SLURMConfigureServer, ConfigureMailSystem, InstallPackages,
      From, Order
<1>6. CASE Failures
  BY <1>6 DEF Failures, LoseConnection, Drops, Throws, From, Order
<1> QED BY <1>1, <1>2, <1>3, <1>4, <1>5, <1>6 DEF InstallHeadnode

-----------------------------------------------------------------------------
(* Types                                                                    *)

\* The parts of TypeOK; a dry run never gets to the driver, and the loop over the
\* connections is at one of them when it adds the second of its lines.
DiskOK ==
  /\ files \in [Files -> Seq(Lines) \cup {None}] /\ files["exports"] # None
  /\ \A b \in backups : b.file \in BackedUp /\ b.lines # None

ServicesOK == enabled \subseteq Services /\ loaded \in [Services -> Seq(Lines) \cup {None}]

SystemOK ==
  /\ packages \subseteq Packages /\ directories \subseteq {"/etc/slurm", "/tmp/DOCA"}
  /\ settings \in [Settings -> Values \cup {None}]
  /\ addresses \in [Profiles -> {c.address : c \in Connections} \cup {None}]
  /\ addresses["External"] = None
  /\ firewall \in [on : BOOLEAN, trusted : SUBSET Profiles, nfs : BOOLEAN]

Compiling == {"makecache", "compile", "driver", "doca"}

ProgramOK ==
  /\ phase \in Phases /\ run \in Runs /\ at \in Nat \ {0}
  /\ phase \in Compiling => ~run.dry

LoopOK == phase = "allow" => at <= Len(model.connections) /\ ServesTime(Connection)

Typed == DiskOK /\ ServicesOK /\ SystemOK /\ ProgramOK /\ LoopOK

\* The connections of a model
LEMMA ConnectionsOf ==
  ASSUME NEW m \in Models, NEW i \in Nat \ {0}, i <= Len(m.connections)
  PROVE  /\ m.connections[i] \in Range(m.connections) /\ m.connections[i] \in Connections
         /\ m.connections[i].profile \in Profiles /\ m.connections[i].address # None
<1>1. m.connections \in Seq(Range(m.connections))
  BY HeadnodeAssumption
<1>2. m.connections[i] \in Range(m.connections)
  BY <1>1
<1>3. \A c \in Range(m.connections) : c.profile \in Profiles /\ c.address # None
  BY HeadnodeAssumption
<1> QED BY <1>2, <1>3 DEF Connections

\* What the program adds to a file are lines.
LEMMA LinesAdded ==
  /\ \A m \in Models : HostsLine(m) \in Lines /\ SlurmConf(m) \in Lines
  /\ \A c \in Connections : AllowLine(c) \in Lines
  /\ DnsLine \in Lines /\ StratumLine \in Lines /\ MemlockLine \in Lines
  /\ Line("SELINUX", "disabled") \in Lines
  /\ \A i \in 1..4 : ExportLines[i] \in Lines
BY DEF Lines, OwnLines

\* So are the lines of the packages' files.
LEMMA LinesShipped ==
  /\ Shipped("chrony") \in Seq(Lines)
  /\ \A f \in Files : Original(f) \in Seq(Lines) \cup {None}
  /\ \A f \in BackedUp \ {"chrony"} : Original(f) # None
<1>1. /\ <<>> \in Seq(Lines)
      /\ \A a, b \in Lines : <<a>> \in Seq(Lines) /\ <<a, b>> \in Seq(Lines)
  OBVIOUS
<1>2. ShippedLines \subseteq Lines
  BY DEF Lines
<1>3. Shipped("chrony") \in Seq(Lines)
  BY <1>1, <1>2, HeadnodeAssumption DEF Shipped, ShippedLines
<1>4. ASSUME NEW f \in Files
      PROVE  /\ Original(f) \in Seq(Lines) \cup {None}
             /\ f \in {"selinux", "hosts", "limits"} => Original(f) \in Seq(Lines)
  <2>1. CASE f = "selinux"
    BY <1>1, <1>2, <2>1 DEF Original, ShippedLines
  <2>2. CASE f = "hosts"
    BY <1>1, <1>2, <2>2 DEF Original, ShippedLines
  <2>3. CASE f = "limits"
    BY <1>1, <1>2, <2>3 DEF Original, ShippedLines
  <2>4. CASE f = "chrony"
    BY <1>3, <2>4 DEF Original
  <2>5. CASE f = "exports"
    BY <1>1, <2>5 DEF Original
  <2>6. CASE f \in {"dns", "slurm"}
    BY <2>6 DEF Original
  <2> QED BY <2>1, <2>2, <2>3, <2>4, <2>5, <2>6 DEF Files
<1> QED BY <1>3, <1>4, NoneAssumption DEF BackedUp, Files

\* What addStringToFile leaves is a file.
LEMMA WithLineTyped ==
  ASSUME files \in [Files -> Seq(Lines) \cup {None}], NEW f \in Files, NEW line \in Lines
  PROVE  WithLine(f, line) \in Seq(Lines) \cup {None}
<1> DEFINE now == IF files[f] = None THEN <<>> ELSE files[f]
<1>1. now \in Seq(Lines) /\ Append(now, line) \in Seq(Lines)
  OBVIOUS
<1> QED BY <1>1 DEF WithLine

\* A service reads lines.
LEMMA ReadTyped ==
  ASSUME DiskOK, NEW s \in Services
  PROVE  Read(s) \in Seq(Lines)
BY DEF DiskOK, Read, ConfOf, Services, Files

\* The initial state is typed.
LEMMA TypedInit == Init => Typed
<1> SUFFICES ASSUME Init PROVE Typed
  OBVIOUS
<1> USE DEF Init
<1>1. DiskOK
  <2>1. files["exports"] # None
    BY NoneAssumption, EmptySeq DEF Files, Original
  <2> QED BY <2>1, LinesShipped DEF DiskOK
<1>2. ServicesOK
  <2>1. \A s \in Services : Read(s) \in Seq(Lines) \cup {None}
    BY <1>1, ReadTyped
  <2> QED BY <2>1 DEF ServicesOK, Services
<1>3. SystemOK
  BY DEF SystemOK, Packages, Profiles
<1>4. ProgramOK
  BY HeadnodeAssumption DEF ProgramOK, Phases, Compiling, Between, Runs
<1> QED BY <1>1, <1>2, <1>3, <1>4 DEF Typed, LoopOK

\* Services are enabled, started and restarted, and none is stopped or disabled.
LEMMA ServicesNext ==
  ASSUME Typed, [Next]_vars
  PROVE  ServicesOK'
<1> USE DEF Typed, ServicesOK
<1>1. CASE UNCHANGED <<enabled, loaded>>
  BY <1>1
<1>2. ASSUME NEW s \in Services, EnableService(s)
      PROVE  ServicesOK'
  BY <1>2, ReadTyped DEF EnableService
<1>3. ASSUME NEW s \in Services, RestartService(s), UNCHANGED enabled
      PROVE  ServicesOK'
  BY <1>3, ReadTyped DEF RestartService
<1>4. CASE InstallHeadnode
  <2>1. CASE RunSystemUpdate
    BY <2>1, <1>1, <1>3 DEF RunSystemUpdate, Services
  <2>2. CASE ConfigureNetworks \/ EnableChronyd \/ SLURMEnableServer
    BY <2>2, <1>2 DEF ConfigureNetworks, EnableChronyd, SLURMEnableServer, Services
  <2>3. CASE DisableNetworkManagerDNSOverride
    BY <2>3, <1>1, <1>3 DEF DisableNetworkManagerDNSOverride, AddStringToFile, system, Services
  <2>4. CASE Failures
    BY <2>4, <1>1 DEF Failures, Drops, Throws, LoseConnection, system
  <2>5. CASE \/ ConfigureSELinuxMode \/ DisableSELinux \/ ConfigureHostsFile
             \/ ConfigureTimeService \/ SLURMConfigureServer \/ RemoveMemlockLimits
    BY <2>5, <1>1
    DEF ConfigureSELinuxMode, DisableSELinux, ConfigureHostsFile, ConfigureTimeService,
        SLURMConfigureServer, RemoveMemlockLimits, BackupFile, AddStringToFile, system
  <2>6. CASE \/ InstallRequiredPackages \/ InstallOpenHPCBase \/ InstallKernel \/ InstallDOCA
             \/ InstallDevelopmentComponents \/ ConfigureMailSystem \/ ConfigureFQDN
             \/ DisallowSSHRootPasswordLogin \/ ConfigureTimezone \/ ConfigureLocale
    BY <2>6, <1>1
    DEF InstallRequiredPackages, InstallOpenHPCBase, InstallKernel, InstallDOCA,
        InstallDevelopmentComponents, ConfigureMailSystem, ConfigureFQDN,
        DisallowSSHRootPasswordLogin, ConfigureTimezone, ConfigureLocale, InstallPackages, SetUp,
        system
  <2>7. CASE \/ ConfigureFirewall \/ ConfigureConnection \/ InstallChrony \/ OFEDInstall
             \/ CompileDriver \/ InstallDriver \/ NFSInstallScript \/ SLURMInstallServer
    BY <2>7, <1>1
    DEF ConfigureFirewall, ConfigureConnection, InstallChrony, OFEDInstall, CompileDriver,
        InstallDriver, NFSInstallScript, SLURMInstallServer
  <2> QED BY <1>4, <2>1, <2>2, <2>3, <2>4, <2>5, <2>6, <2>7 DEF InstallHeadnode
<1>5. CASE Start \/ Exit \/ Die \/ UNCHANGED vars
  BY <1>5, <1>1 DEF Start, Exit, Die, vars, system
<1>6. CASE Reboot
  BY <1>6, ReadTyped DEF Reboot
<1> QED BY <1>4, <1>5, <1>6 DEF Next

\* Packages, directories and settings come and are never taken away; addresses are
\* given to every connection but the external one.
LEMMA SystemNext ==
  ASSUME Typed, [Next]_vars
  PROVE  SystemOK'
<1> USE DEF Typed, SystemOK
<1>1. CASE UNCHANGED <<packages, directories, settings, addresses, firewall>>
  BY <1>1
<1>2. ASSUME NEW names \in SUBSET Packages, Install(names),
             UNCHANGED <<directories, settings, addresses>>,
             firewall' \in {firewall, [firewall EXCEPT !.nfs = TRUE]}
      PROVE  SystemOK'
  BY <1>2 DEF Install
<1>3. CASE InstallHeadnode
  <2>1. CASE \/ InstallRequiredPackages \/ InstallOpenHPCBase \/ InstallKernel \/ InstallDOCA
             \/ InstallDevelopmentComponents
    BY <2>1, <1>2
    DEF InstallRequiredPackages, InstallOpenHPCBase, InstallKernel, InstallDOCA,
        InstallDevelopmentComponents, InstallPackages, Packages
  <2>2. CASE ConfigureMailSystem
    BY <2>2, <1>1, <1>2 DEF ConfigureMailSystem, InstallPackages, Packages, system
  <2>3. CASE InstallChrony \/ NFSInstallScript
    <3>1. firewall' \in {firewall, [firewall EXCEPT !.nfs = TRUE]}
      BY <2>3 DEF InstallChrony, NFSInstallScript
    <3> QED BY <2>3, <3>1, <1>2 DEF InstallChrony, NFSInstallScript, Packages
  <2>4. CASE OFEDInstall \/ InstallDriver
    BY <2>4, <1>1, <1>2 DEF OFEDInstall, InstallDriver, Packages
  <2>5. CASE ConfigureFQDN \/ DisallowSSHRootPasswordLogin \/ ConfigureTimezone \/ ConfigureLocale
    <3>1. model \in Models
      BY <1>3 DEF ProgramOK, Runs, model, InstallHeadnode
    <3>2. /\ "without-password" \in Values
          /\ \A m \in Models : m.name \in Values /\ m.timezone \in Values /\ m.locale \in Values
      BY DEF Values
    <3>3. ASSUME NEW p, NEW q, NEW k, NEW value \in Values, SetUp(p, q, k, value)
          PROVE  SystemOK'
      BY <3>3 DEF SetUp
    <3> QED
      BY <2>5, <3>1, <3>2, <3>3
      DEF ConfigureFQDN, DisallowSSHRootPasswordLogin, ConfigureTimezone, ConfigureLocale
  <2>6. CASE ConfigureFirewall
    BY <2>6 DEF ConfigureFirewall, Profiles
  <2>7. CASE ConfigureConnection
    <3>1. Connection \in Connections
      BY <1>3, <2>7, ConnectionsOf DEF ProgramOK, Runs, model, InstallHeadnode, ConfigureConnection, Connection
    <3> QED BY <2>7, <3>1 DEF ConfigureConnection, Profiles
  <2>8. CASE CompileDriver
    BY <2>8 DEF CompileDriver
  <2>9. CASE SLURMInstallServer \/ SLURMConfigureServer
    BY <2>9
    DEF SLURMInstallServer, SLURMConfigureServer, Install, CreateDirectory, AddStringToFile,
        Packages, system
  <2>10. CASE \/ RunSystemUpdate \/ ConfigureSELinuxMode \/ DisableSELinux \/ ConfigureHostsFile
              \/ ConfigureTimeService \/ RemoveMemlockLimits
    BY <2>10, <1>1
    DEF RunSystemUpdate, ConfigureSELinuxMode, DisableSELinux, ConfigureHostsFile,
        ConfigureTimeService, RemoveMemlockLimits, BackupFile, AddStringToFile, system
  <2>11. CASE \/ ConfigureNetworks \/ DisableNetworkManagerDNSOverride \/ EnableChronyd
              \/ SLURMEnableServer \/ Failures
    BY <2>11, <1>1
    DEF ConfigureNetworks, DisableNetworkManagerDNSOverride, EnableChronyd, SLURMEnableServer,
        Failures, Drops, Throws, LoseConnection, AddStringToFile, system
  <2> QED BY <1>3, <2>1, <2>2, <2>3, <2>4, <2>5, <2>6, <2>7, <2>8, <2>9, <2>10, <2>11
          DEF InstallHeadnode
<1>4. CASE Start \/ Exit \/ Die \/ Reboot \/ UNCHANGED vars
  BY <1>4, <1>1 DEF Start, Exit, Die, Reboot, vars, system
<1> QED BY <1>3, <1>4 DEF Next

\* No file is added to those that are watched, and what is backed up was there.
LEMMA DiskNext ==
  ASSUME Typed, [Next]_vars
  PROVE  DiskOK'
<1> USE DEF Typed, DiskOK
<1>1. CASE UNCHANGED <<files, backups>>
  BY <1>1
<1>0. run \in Runs /\ at \in Nat \ {0}
  BY DEF ProgramOK
<1>2. ASSUME NEW p, NEW q, NEW f \in BackedUp, BackupFile(p, q, f)
      PROVE  DiskOK'
  BY <1>2 DEF BackupFile
<1>3. ASSUME NEW f \in Files \ {"exports"}, NEW line \in Lines, AddStringToFile(f, line)
      PROVE  DiskOK'
  <2>1. WithLine(f, line) \in Seq(Lines) \cup {None}
    BY WithLineTyped
  <2> QED BY <1>3, <2>1 DEF AddStringToFile
<1>4. CASE InstallHeadnode
  <2>0. model \in Models
    BY <1>0, <1>4 DEF Runs, model, InstallHeadnode
  <2>1. CASE ConfigureSELinuxMode \/ ConfigureHostsFile \/ RemoveMemlockLimits
    BY <2>0, <2>1, <1>1, <1>2, <1>3, LinesAdded
    DEF ConfigureSELinuxMode, ConfigureHostsFile, RemoveMemlockLimits, BackedUp, Files
  <2>2. CASE DisableNetworkManagerDNSOverride \/ SLURMConfigureServer
    BY <2>0, <2>2, <1>1, <1>3, LinesAdded
    DEF DisableNetworkManagerDNSOverride, SLURMConfigureServer, RemoveFile, Files
  <2>3. CASE DisableSELinux \/ InstallChrony
    <3>1. <<Line("SELINUX", "disabled")>> \in Seq(Lines) /\ Shipped("chrony") \in Seq(Lines)
      BY LinesAdded, LinesShipped
    <3> QED BY <2>3, <3>1 DEF DisableSELinux, InstallChrony, Files
  <2>7. CASE NFSInstallScript
    <3>1. MissingExports \in Seq(Lines)
      BY LinesAdded DEF MissingExports, Missing
    <3>2. ~run.dry => files' = [files EXCEPT !["exports"] = files["exports"] \o MissingExports] /\ UNCHANGED backups
      BY <2>7 DEF NFSInstallScript
    <3>3. files["exports"] \o MissingExports \in Seq(Lines)
      BY <3>1, ConcatProperties DEF Files
    <3> QED BY <2>7, <3>2, <3>3, NoneAssumption DEF NFSInstallScript, Files
  <2>8. CASE ConfigureTimeService
    <3>1. \/ BackupFile("time-backup", "stratum", "chrony")
          \/ UNCHANGED <<files, backups>>
          \/ at <= Len(model.connections) /\ \E line \in {StratumLine, AllowLine(Connection)} :
               AddStringToFile("chrony", line)
      BY <2>8 DEF ConfigureTimeService, LoopOK, From
    <3>2. at <= Len(model.connections) => AllowLine(Connection) \in Lines
      BY <1>0, <2>0, ConnectionsOf, LinesAdded DEF Connection, model
    <3> QED BY <3>1, <3>2, <1>1, <1>2, <1>3, LinesAdded DEF BackedUp, Files
  <2>4. CASE Failures
    BY <2>4, <1>1 DEF Failures, Drops, Throws, LoseConnection
  <2>5. CASE \/ InstallRequiredPackages \/ InstallOpenHPCBase \/ InstallKernel \/ InstallDOCA
             \/ InstallDevelopmentComponents \/ ConfigureMailSystem \/ ConfigureFQDN
             \/ DisallowSSHRootPasswordLogin \/ ConfigureTimezone \/ ConfigureLocale
    BY <2>5, <1>1
    DEF InstallRequiredPackages, InstallOpenHPCBase, InstallKernel, InstallDOCA,
        InstallDevelopmentComponents, ConfigureMailSystem, ConfigureFQDN,
        DisallowSSHRootPasswordLogin, ConfigureTimezone, ConfigureLocale, InstallPackages, SetUp
  <2>6. CASE \/ RunSystemUpdate \/ ConfigureFirewall \/ ConfigureNetworks \/ ConfigureConnection
             \/ EnableChronyd \/ OFEDInstall \/ CompileDriver \/ InstallDriver
             \/ SLURMInstallServer \/ SLURMEnableServer
    BY <2>6, <1>1
    DEF RunSystemUpdate, ConfigureFirewall, ConfigureNetworks, ConfigureConnection, EnableChronyd,
        OFEDInstall, CompileDriver, InstallDriver, SLURMInstallServer, SLURMEnableServer
  <2> QED BY <1>4, <2>1, <2>2, <2>3, <2>4, <2>5, <2>6, <2>7, <2>8 DEF InstallHeadnode
<1>5. CASE Start \/ Exit \/ Die \/ Reboot \/ UNCHANGED vars
  BY <1>5, <1>1 DEF Start, Exit, Die, Reboot, vars
<1> QED BY <1>4, <1>5 DEF Next

\* What a run between two runs, and one that drops a failure, are
LEMMA BetweenRuns ==
  ASSUME NEW r \in Runs
  PROVE  Between(r.number) \in Runs
<1>1. r.number \in 0..MaxRuns
  BY DEF Runs
<1> QED BY <1>1 DEF Between, Runs

LEMMA RunLost ==
  ASSUME NEW r \in Runs, NEW c \in MayFail
  PROVE  LET s == [r EXCEPT !.lost = @ \cup {c}]
         IN s \in Runs /\ s.dry = r.dry /\ s.model = r.model
BY DEF Runs

\* Each step goes to a place of the program, and OFED::install is left at once in a
\* dry run.
LEMMA ProgramNext ==
  ASSUME Typed, [Next]_vars
  PROVE  ProgramOK'
<1> USE DEF Typed, ProgramOK
<1>0. at \in Nat \ {0} /\ at + 1 \in Nat \ {0} /\ run \in Runs
  OBVIOUS
<1>1. CASE UNCHANGED <<phase, run, at>>
  BY <1>1
<1>2. ASSUME NEW p, NEW q \in Phases, From(p, q), UNCHANGED run, at' \in {1, at, at + 1},
             q \in Compiling => p \in Compiling
      PROVE  ProgramOK'
  BY <1>2 DEF From
<1>3. ASSUME NEW p, NEW q \in Phases \ Compiling, NEW f, BackupFile(p, q, f), at' \in {1, at}
      PROVE  ProgramOK'
  <2>1. phase' \in {q, "failed"} /\ UNCHANGED run
    BY <1>3 DEF BackupFile, From
  <2>2. at' \in Nat \ {0}
    BY <1>3
  <2> QED BY <2>1, <2>2 DEF Phases, Compiling
<1>4. ASSUME NEW p, NEW q \in Phases, NEW c \in MayFail, Drops(p, q, c),
             q \in Compiling => p \in Compiling
      PROVE  ProgramOK'
  BY <1>4, RunLost DEF Drops, From
<1>5. CASE InstallHeadnode
  <2> USE DEF Phases, Compiling
  <2>1. CASE \/ InstallRequiredPackages \/ InstallOpenHPCBase \/ InstallKernel \/ InstallDOCA
             \/ InstallDevelopmentComponents \/ ConfigureMailSystem
    BY <2>1, <1>2
    DEF InstallRequiredPackages, InstallOpenHPCBase, InstallKernel, InstallDOCA,
        InstallDevelopmentComponents, ConfigureMailSystem, InstallPackages
  <2>2. CASE ConfigureFQDN \/ DisallowSSHRootPasswordLogin \/ ConfigureTimezone \/ ConfigureLocale
    BY <2>2, <1>2
    DEF ConfigureFQDN, DisallowSSHRootPasswordLogin, ConfigureTimezone, ConfigureLocale, SetUp
  <2>3. CASE ConfigureSELinuxMode \/ ConfigureHostsFile \/ ConfigureTimeService \/ RemoveMemlockLimits
    <3>1. CASE ConfigureSELinuxMode
      BY <3>1, <1>2, <1>3 DEF ConfigureSELinuxMode
    <3>2. CASE ConfigureHostsFile \/ RemoveMemlockLimits
      BY <3>2, <1>2, <1>3 DEF ConfigureHostsFile, RemoveMemlockLimits, AddStringToFile
    <3>3. CASE ConfigureTimeService
      BY <3>3, <1>2, <1>3 DEF ConfigureTimeService, AddStringToFile, From
    <3> QED BY <2>3, <3>1, <3>2, <3>3
  <2>4. CASE DisableNetworkManagerDNSOverride \/ SLURMConfigureServer
    BY <2>4, <1>2 DEF DisableNetworkManagerDNSOverride, SLURMConfigureServer, AddStringToFile
  <2>5. CASE \/ RunSystemUpdate \/ DisableSELinux \/ ConfigureFirewall \/ ConfigureNetworks
             \/ InstallChrony \/ EnableChronyd \/ CompileDriver \/ InstallDriver
             \/ NFSInstallScript \/ SLURMEnableServer
    BY <2>5, <1>2
    DEF RunSystemUpdate, DisableSELinux, ConfigureFirewall, ConfigureNetworks, InstallChrony,
        EnableChronyd, CompileDriver, InstallDriver, NFSInstallScript, SLURMEnableServer
  <2>6. CASE ConfigureConnection \/ SLURMInstallServer \/ OFEDInstall
    <3>1. UNCHANGED run /\ at' \in {at, at + 1}
      BY <2>6 DEF ConfigureConnection, SLURMInstallServer, OFEDInstall
    <3>2. phase' \in Phases /\ (phase' \in Compiling => ~run.dry)
      BY <2>6 DEF ConfigureConnection, SLURMInstallServer, OFEDInstall
    <3> QED BY <3>1, <3>2, <1>0
  <2>7. CASE Failures
    <3>1. CASE LoseConnection
      BY <3>1, <1>0, RunLost DEF LoseConnection
    <3>2. ASSUME NEW p, NEW c, Throws(p, c)
          PROVE  ProgramOK'
      BY <3>2, <1>2 DEF Throws
    <3>3. ASSUME NEW p, NEW q \in Phases, NEW c, Drops(p, q, c), q \in Compiling => p \in Compiling
          PROVE  ProgramOK'
      <4>1. c \in MayFail
        BY <3>3 DEF Drops
      <4> HIDE DEF Phases, Compiling, ProgramOK
      <4> QED BY <3>3, <4>1, <1>4
    <3> QED BY <2>7, <3>1, <3>2, <3>3 DEF Failures
  <2> QED BY <1>5, <2>1, <2>2, <2>3, <2>4, <2>5, <2>6, <2>7 DEF InstallHeadnode
<1>6. CASE Start
  BY <1>6, HeadnodeAssumption DEF Start, Runs, Phases, Compiling
<1>7. CASE Exit \/ Die
  <2>1. run' \in Runs
    BY <1>7, BetweenRuns DEF Exit, Die
  <2>2. phase' = "off" /\ at' = 1
    BY <1>7 DEF Exit, Die
  <2>3. "off" \in Phases /\ "off" \notin Compiling /\ 1 \in Nat \ {0}
    <3> HIDE DEF Typed, ProgramOK
    <3>1. "off" \in Phases
      BY DEF Phases
    <3>2. "off" \notin Compiling
      BY DEF Compiling
    <3> QED BY <3>1, <3>2
  <2>4. phase' \in Phases /\ phase' \notin Compiling /\ at' \in Nat \ {0}
    BY <2>2, <2>3
  <2> QED BY <2>1, <2>4
<1>8. CASE Reboot \/ UNCHANGED vars
  BY <1>8, <1>1 DEF Reboot, vars
<1> QED BY <1>5, <1>6, <1>7, <1>8 DEF Next

\* The loop adds the first of its lines for a connection, and then the second.
LEMMA LoopNext ==
  ASSUME Typed, [Next]_vars
  PROVE  LoopOK'
<1> SUFFICES ASSUME phase' = "allow"
             PROVE  at' <= Len(model'.connections) /\ ServesTime(Connection')
  BY DEF LoopOK, ServesTime
<1>1. CASE InstallHeadnode
  <2>1. ConfigureTimeService
    BY <1>1, StepsAt, StepsLead DEF Order, StepAt
  <2> QED BY <2>1 DEF ConfigureTimeService, BackupFile, From, AddStringToFile, model, Connection
<1>2. CASE UNCHANGED vars
  BY <1>2 DEF vars, Typed, LoopOK, model, Connection
<1>3. CASE Start \/ Exit \/ Die \/ Reboot
  BY <1>3 DEF Start, Exit, Die, Reboot
<1> QED BY <1>1, <1>2, <1>3 DEF Next

\* Every step preserves the types.
LEMMA TypedNext == Typed /\ [Next]_vars => Typed'
BY DiskNext, ServicesNext, SystemNext, ProgramNext, LoopNext DEF Typed

\* Every reachable state of the head node is well typed, and no dry run gets to
\* the commands of the InfiniBand driver (OFED::install).
THEOREM TypeCorrect == Spec => []TypeOK
<1>1. Typed => TypeOK
  BY DEF Typed, TypeOK, DiskOK, ServicesOK, SystemOK, ProgramOK
<1> QED BY <1>1, TypedInit, TypedNext, PTL DEF Spec

-----------------------------------------------------------------------------
(* The driver comes before the stack                                        *)

Driver == "doca-driver" \in packages \/ "driver" \in MayFail

\* OFED::install gets to the driver with a kernel, and to doca-ofed with the driver.
DriverInv ==
  /\ phase \in {"compile", "driver", "doca"} => "kernel" \in packages
  /\ phase = "doca" => Driver
  /\ DriverBeforeOFED

LEMMA DriverNext ==
  ASSUME Typed, DriverInv, [Next]_vars
  PROVE  DriverInv'
<1> USE DEF DriverInv, DriverBeforeOFED, Driver
<1>0. phase \in Compiling => ~run.dry
  BY DEF Typed, ProgramOK
<1>1. ASSUME phase' \notin {"compile", "driver", "doca"},
             packages \subseteq packages', "doca-ofed" \in packages' => "doca-ofed" \in packages
      PROVE  DriverInv'
  BY <1>1
<1>2. CASE UNCHANGED <<phase, packages>>
  BY <1>2
<1>3. CASE InstallHeadnode
  <2>1. CASE InstallKernel
    BY <2>1, <1>0 DEF InstallKernel, InstallPackages, Install, From, Compiling
  <2>2. CASE CompileDriver
    BY <2>2 DEF CompileDriver, From
  <2>3. CASE InstallDriver
    BY <2>3, <1>0 DEF InstallDriver, Install, From, Compiling
  <2>4. CASE InstallDOCA
    BY <2>4, <1>0 DEF InstallDOCA, InstallPackages, Install, From, Compiling
  <2>5. CASE Failures
    <3>1. UNCHANGED packages
      BY <2>5 DEF Failures, Drops, Throws, LoseConnection, system
    <3>2. \/ phase' \notin {"compile", "driver", "doca"} \/ UNCHANGED phase
          \/ Drops("driver", "doca", "driver")
      BY <2>5 DEF Failures, Drops, Throws, LoseConnection, From
    <3> QED BY <3>1, <3>2, <1>1, <1>2 DEF Drops, From
  <2>6. CASE \/ InstallRequiredPackages \/ InstallOpenHPCBase \/ InstallDevelopmentComponents
             \/ ConfigureMailSystem \/ InstallChrony \/ NFSInstallScript
    BY <2>6
    DEF InstallRequiredPackages, InstallOpenHPCBase, InstallDevelopmentComponents,
        ConfigureMailSystem, InstallChrony, NFSInstallScript, InstallPackages, Install, From, system
  <2>7. CASE OFEDInstall \/ SLURMInstallServer
    <3>1. phase' \in {"nfs", "failed", "makecache", "slurm-remove", "mail"}
      BY <2>7 DEF OFEDInstall, SLURMInstallServer
    <3>2. packages' \in {packages, packages \cup {"@infiniband"}, packages \cup {"slurm"}}
      BY <2>7 DEF OFEDInstall, SLURMInstallServer, Install
    <3> QED BY <3>1, <3>2, <1>1
  <2>8. CASE \/ ConfigureSELinuxMode \/ DisableSELinux \/ ConfigureHostsFile
             \/ ConfigureTimeService \/ SLURMConfigureServer \/ RemoveMemlockLimits
             \/ DisableNetworkManagerDNSOverride
    BY <2>8
    DEF ConfigureSELinuxMode, DisableSELinux, ConfigureHostsFile, ConfigureTimeService,
        SLURMConfigureServer, RemoveMemlockLimits, DisableNetworkManagerDNSOverride, BackupFile,
        AddStringToFile, From, system
  <2>9. CASE \/ RunSystemUpdate \/ ConfigureFirewall \/ ConfigureFQDN
             \/ DisallowSSHRootPasswordLogin \/ ConfigureTimezone \/ ConfigureLocale
             \/ ConfigureNetworks \/ ConfigureConnection \/ EnableChronyd \/ SLURMEnableServer
    BY <2>9
    DEF RunSystemUpdate, ConfigureFirewall, ConfigureFQDN, DisallowSSHRootPasswordLogin,
        ConfigureTimezone, ConfigureLocale, ConfigureNetworks, ConfigureConnection, EnableChronyd,
        SLURMEnableServer, SetUp, From
  <2> QED BY <1>3, <2>1, <2>2, <2>3, <2>4, <2>5, <2>6, <2>7, <2>8, <2>9 DEF InstallHeadnode
<1>4. CASE Start \/ Exit \/ Die
  <2>1. phase' \in {"off", "required"} /\ UNCHANGED packages
    BY <1>4 DEF Start, Exit, Die, system
  <2> QED BY <2>1, <1>1
<1>5. CASE Reboot \/ UNCHANGED vars
  BY <1>5, <1>2 DEF Reboot, vars, system
<1> QED BY <1>3, <1>4, <1>5 DEF Next

\* Whatever failed and wherever runs died, dnf was asked for doca-ofed with a
\* kernel and a driver for it installed, or with the driver's failure unnoticed
\* (OFED::install).
THEOREM DriverFirst == Spec => []DriverBeforeOFED
<1>1. Init => DriverInv
  BY DEF Init, DriverInv, DriverBeforeOFED
<1>2. DriverInv => DriverBeforeOFED
  BY DEF DriverInv
<1> QED BY <1>1, <1>2, TypedInit, TypedNext, DriverNext, PTL DEF Spec

-----------------------------------------------------------------------------
(* The nodes reach what is exported                                         *)

\* The steps after NFS::installScript.
Exported == {"queue", "slurm-remove", "slurm-conf", "slurm-enable", "mail", "main.cf", "limits",
             "limits-line", "development", "done"}

\* From the script on, and not only at the end, the firewall lets NFS through.
NFSInv ==
  phase \in Exported /\ ~run.dry /\ "nfs" \notin run.lost /\ firewall.on => firewall.nfs

\* A lost command is the only thing about a run that changes during it.
LEMMA LostGrows ==
  ASSUME NEW r \in Runs, NEW c
  PROVE  LET s == [r EXCEPT !.lost = @ \cup {c}]
         IN s.dry = r.dry /\ s.model = r.model /\ s.lost = r.lost \cup {c}
BY DEF Runs

LEMMA NFSNext ==
  ASSUME Typed, NFSInv, [Next]_vars
  PROVE  NFSInv'
<1> USE DEF NFSInv
<1>0. run \in Runs /\ firewall \in [on : BOOLEAN, trusted : SUBSET Profiles, nfs : BOOLEAN]
  BY DEF Typed, ProgramOK, SystemOK
<1>1. CASE phase' \notin Exported
  BY <1>1
<1>2. CASE phase \in Exported /\ UNCHANGED <<run, firewall>>
  BY <1>2
<1>3. ASSUME NEW p, NEW q, NEW c, Drops(p, q, c), p \in Exported \/ c = "nfs"
      PROVE  NFSInv'
  <2>1. run'.dry = run.dry /\ run'.lost = run.lost \cup {c} /\ UNCHANGED firewall /\ phase = p
    BY <1>3, <1>0, LostGrows DEF Drops, From, system
  <2> QED BY <2>1, <1>3
<1>4. CASE InstallHeadnode
  <2>1. CASE NFSInstallScript
    BY <2>1, <1>0 DEF NFSInstallScript
  <2>2. CASE SLURMInstallServer \/ SLURMEnableServer
    BY <2>2, <1>2 DEF SLURMInstallServer, SLURMEnableServer, From, Exported
  <2>3. CASE SLURMConfigureServer \/ ConfigureMailSystem
    BY <2>3, <1>2
    DEF SLURMConfigureServer, ConfigureMailSystem, InstallPackages, AddStringToFile, From, Exported,
        system
  <2>4. CASE RemoveMemlockLimits \/ InstallDevelopmentComponents
    BY <2>4, <1>1, <1>2
    DEF RemoveMemlockLimits, InstallDevelopmentComponents, InstallPackages, BackupFile,
        AddStringToFile, From, Exported, system
  <2>5. CASE Failures
    <3>1. \/ \E p, q, c : Drops(p, q, c) /\ (p \in Exported \/ c = "nfs")
          \/ phase' \in {"hostname", "time-backup", "base", "nfs", "failed", "doca", "connection"}
      BY <2>5 DEF Failures, Drops, Throws, LoseConnection, From, Exported
    <3> QED BY <3>1, <1>1, <1>3 DEF Exported
  <2>6. CASE OFEDInstall \/ InstallDriver \/ ConfigureConnection
    <3>1. phase' \in {"nfs", "failed", "makecache", "doca", "connection"}
      BY <2>6 DEF OFEDInstall, InstallDriver, ConfigureConnection, From
    <3> QED BY <3>1, <1>1 DEF Exported
  <2>7. CASE \/ InstallRequiredPackages \/ InstallOpenHPCBase \/ InstallKernel \/ CompileDriver
             \/ InstallDOCA \/ InstallChrony \/ EnableChronyd \/ RunSystemUpdate
             \/ DisableSELinux \/ ConfigureFirewall \/ ConfigureFQDN
             \/ DisallowSSHRootPasswordLogin \/ ConfigureTimezone \/ ConfigureLocale
             \/ ConfigureNetworks
    BY <2>7, <1>1
    DEF InstallRequiredPackages, InstallOpenHPCBase, InstallKernel, CompileDriver, InstallDOCA,
        InstallChrony, EnableChronyd, RunSystemUpdate, DisableSELinux, ConfigureFirewall,
        ConfigureFQDN, DisallowSSHRootPasswordLogin, ConfigureTimezone, ConfigureLocale,
        ConfigureNetworks, InstallPackages, SetUp, From, Exported
  <2>8. CASE \/ ConfigureSELinuxMode \/ ConfigureHostsFile \/ ConfigureTimeService
             \/ DisableNetworkManagerDNSOverride
    BY <2>8, <1>1
    DEF ConfigureSELinuxMode, ConfigureHostsFile, ConfigureTimeService,
        DisableNetworkManagerDNSOverride, BackupFile, From, Exported
  <2> QED BY <1>4, <2>1, <2>2, <2>3, <2>4, <2>5, <2>6, <2>7, <2>8 DEF InstallHeadnode
<1>5. CASE Start \/ Exit \/ Die \/ Reboot
  <2>1. phase' \in {"off", "required"}
    BY <1>5 DEF Start, Exit, Die, Reboot
  <2> QED BY <2>1, <1>1 DEF Exported
<1>6. CASE UNCHANGED vars
  BY <1>6, <1>1, <1>2 DEF vars, system
<1> QED BY <1>4, <1>5, <1>6 DEF Next

\* However often the script ran and whatever firewalld was left as by the models of
\* earlier runs, an enabled firewalld lets the nodes mount the exports (NFS.cpp,
\* installScript asks systemd and not the model).
THEOREM NFSReachable == Spec => []FirewallLetsNFS
<1>1. Init => NFSInv
  BY DEF Init, NFSInv, Exported
<1>2. NFSInv => FirewallLetsNFS
  BY DEF NFSInv, FirewallLetsNFS, Exported
<1> QED BY <1>1, <1>2, TypedInit, TypedNext, NFSNext, PTL DEF Spec

-----------------------------------------------------------------------------
(* slurm.conf is of the model                                               *)

\* The steps after SLURM::installServer and SLURM::configureServer.
Queued == {"mail", "main.cf", "limits", "limits-line", "development", "done"}

\* The file is removed before it is written, so that the line is all it has.
SlurmInv ==
  ~run.dry =>
    /\ phase = "slurm-conf" => files["slurm"] = None
    /\ phase \in {"slurm-enable"} \cup Queued /\ model.slurm =>
         files["slurm"] = <<SlurmConf(model)>>

LEMMA AppendToNothing == ASSUME NEW e PROVE Append(<<>>, e) = <<e>>
OBVIOUS

LEMMA SlurmNext ==
  ASSUME Typed, SlurmInv, [Next]_vars
  PROVE  SlurmInv'
<1> USE DEF SlurmInv, model
<1>0. run \in Runs /\ DOMAIN files = Files
  BY DEF Typed, ProgramOK, DiskOK
<1>1. CASE phase' \notin {"slurm-conf", "slurm-enable"} \cup Queued
  BY <1>1
<1>2. CASE phase \in Queued /\ phase' \in Queued /\ UNCHANGED run /\ files'["slurm"] = files["slurm"]
  BY <1>2 DEF Queued
<1>3. CASE UNCHANGED <<phase, run, files>>
  BY <1>3
<1>4. CASE InstallHeadnode
  <2>1. CASE SLURMInstallServer
    BY <2>1 DEF SLURMInstallServer, Queued
  <2>2. CASE SLURMConfigureServer
    <3>1. CASE From("slurm-remove", "slurm-conf") /\ RemoveFile("slurm") /\ UNCHANGED run
      <4>1. ~run.dry => files'["slurm"] = None
        BY <3>1, <1>0 DEF RemoveFile, Files
      <4>2. phase' = "slurm-conf" /\ UNCHANGED run
        BY <3>1 DEF From
      <4> QED BY <4>1, <4>2 DEF Queued
    <3>2. CASE From("slurm-conf", "slurm-enable") /\ AddStringToFile("slurm", SlurmConf(model))
      <4> SUFFICES ASSUME ~run.dry
                   PROVE  files'["slurm"] = <<SlurmConf(model)>> /\ UNCHANGED run
        BY <3>2 DEF From, AddStringToFile, Queued, SlurmConf
      <4>1. files["slurm"] = None
        BY <3>2 DEF From
      <4>2. WithLine("slurm", SlurmConf(model)) = Append(<<>>, SlurmConf(model))
        BY <4>1 DEF WithLine, Occurs
      <4>3. files'["slurm"] = Append(<<>>, SlurmConf(model)) /\ UNCHANGED run
        BY <3>2, <4>2, <1>0 DEF AddStringToFile, Files
      <4> QED BY <4>3, AppendToNothing
    <3> QED BY <2>2, <3>1, <3>2 DEF SLURMConfigureServer
  <2>3. CASE SLURMEnableServer
    BY <2>3 DEF SLURMEnableServer, From, Queued
  <2>4. CASE ConfigureMailSystem
    BY <2>4, <1>1, <1>2 DEF ConfigureMailSystem, InstallPackages, From, Queued
  <2>5. CASE RemoveMemlockLimits \/ InstallDevelopmentComponents
    <3>1. phase \in Queued /\ (phase' = "failed" \/ phase' \in Queued)
      BY <2>5
      DEF RemoveMemlockLimits, InstallDevelopmentComponents, InstallPackages, BackupFile, From, Queued
    <3>2. UNCHANGED run /\ files'["slurm"] = files["slurm"]
      BY <2>5, <1>0
      DEF RemoveMemlockLimits, InstallDevelopmentComponents, InstallPackages, BackupFile,
          AddStringToFile, Files
    <3> QED BY <3>1, <3>2, <1>1, <1>2 DEF Queued
  <2>6. CASE Failures
    <3>1. CASE Drops("slurm-enable", "mail", "systemctl")
      BY <3>1, <1>0, LostGrows DEF Drops, From, Queued
    <3>2. \/ Drops("slurm-enable", "mail", "systemctl")
          \/ phase' \in {"hostname", "time-backup", "base", "nfs", "failed", "doca", "connection",
                         "queue", "slurm-remove"}
      BY <2>6 DEF Failures, Drops, Throws, LoseConnection, From
    <3> QED BY <3>1, <3>2, <1>1 DEF Queued
  <2>7. CASE OFEDInstall \/ InstallDriver \/ ConfigureConnection
    <3>1. phase' \in {"nfs", "failed", "makecache", "doca", "connection"}
      BY <2>7 DEF OFEDInstall, InstallDriver, ConfigureConnection, From
    <3> QED BY <3>1, <1>1 DEF Queued
  <2>8. CASE \/ InstallRequiredPackages \/ InstallOpenHPCBase \/ InstallKernel \/ CompileDriver
             \/ InstallDOCA \/ InstallChrony \/ EnableChronyd \/ RunSystemUpdate
             \/ DisableSELinux \/ ConfigureFirewall \/ ConfigureFQDN
             \/ DisallowSSHRootPasswordLogin \/ ConfigureTimezone \/ ConfigureLocale
             \/ ConfigureNetworks \/ NFSInstallScript
    BY <2>8, <1>1
    DEF InstallRequiredPackages, InstallOpenHPCBase, InstallKernel, CompileDriver, InstallDOCA,
        InstallChrony, EnableChronyd, RunSystemUpdate, DisableSELinux, ConfigureFirewall,
        ConfigureFQDN, DisallowSSHRootPasswordLogin, ConfigureTimezone, ConfigureLocale,
        ConfigureNetworks, NFSInstallScript, InstallPackages, SetUp, From, Queued
  <2>9. CASE \/ ConfigureSELinuxMode \/ ConfigureHostsFile \/ ConfigureTimeService
             \/ DisableNetworkManagerDNSOverride
    BY <2>9, <1>1
    DEF ConfigureSELinuxMode, ConfigureHostsFile, ConfigureTimeService,
        DisableNetworkManagerDNSOverride, BackupFile, From, Queued
  <2> QED BY <1>4, <2>1, <2>2, <2>3, <2>4, <2>5, <2>6, <2>7, <2>8, <2>9 DEF InstallHeadnode
<1>5. CASE Start \/ Exit \/ Die \/ Reboot
  <2>1. phase' \in {"off", "required"}
    BY <1>5 DEF Start, Exit, Die, Reboot
  <2> QED BY <2>1, <1>1 DEF Queued
<1>6. CASE UNCHANGED vars
  BY <1>6, <1>3 DEF vars
<1> QED BY <1>4, <1>5, <1>6 DEF Next

\* A run that was not dry ends with a slurm.conf that has the nodes of its model
\* alone, whatever an earlier run, complete or not, had written (slurm.cpp,
\* configureServer).
THEOREM SlurmConfWrittenAnew == Spec => []SlurmConfOfModel
<1>1. Init => SlurmInv
  BY DEF Init, SlurmInv, Queued
<1>2. SlurmInv => SlurmConfOfModel
  BY DEF SlurmInv, SlurmConfOfModel, Queued
<1> QED BY <1>1, <1>2, TypedInit, TypedNext, SlurmNext, PTL DEF Spec

-----------------------------------------------------------------------------
(* A dry run                                                                *)

\* A machine reboots between two runs, and then none is dry.
Idle == phase = "off" => ~run.dry

LEMMA IdleNext ==
  ASSUME Typed, Idle, [Next]_vars
  PROVE  Idle'
<1> USE DEF Idle
<1>1. CASE InstallHeadnode
  <2>1. phase' # "off"
    <3>1. CASE \/ InstallRequiredPackages \/ InstallOpenHPCBase \/ InstallKernel \/ CompileDriver
               \/ InstallDOCA \/ InstallChrony \/ EnableChronyd \/ RunSystemUpdate
               \/ DisableSELinux \/ ConfigureFirewall \/ ConfigureFQDN
               \/ DisallowSSHRootPasswordLogin \/ ConfigureTimezone \/ ConfigureLocale
               \/ ConfigureNetworks \/ NFSInstallScript \/ SLURMEnableServer
               \/ InstallDevelopmentComponents
      BY <3>1
      DEF InstallRequiredPackages, InstallOpenHPCBase, InstallKernel, CompileDriver, InstallDOCA,
          InstallChrony, EnableChronyd, RunSystemUpdate, DisableSELinux, ConfigureFirewall,
          ConfigureFQDN, DisallowSSHRootPasswordLogin, ConfigureTimezone, ConfigureLocale,
          ConfigureNetworks, NFSInstallScript, SLURMEnableServer, InstallDevelopmentComponents,
          InstallPackages, SetUp, From
    <3>2. CASE \/ ConfigureSELinuxMode \/ ConfigureHostsFile \/ ConfigureTimeService
               \/ DisableNetworkManagerDNSOverride \/ RemoveMemlockLimits
               \/ SLURMConfigureServer \/ ConfigureMailSystem
      BY <3>2
      DEF ConfigureSELinuxMode, ConfigureHostsFile, ConfigureTimeService,
          DisableNetworkManagerDNSOverride, RemoveMemlockLimits, SLURMConfigureServer,
          ConfigureMailSystem, InstallPackages, BackupFile, From
    <3>3. CASE OFEDInstall \/ InstallDriver \/ ConfigureConnection \/ SLURMInstallServer
      BY <3>3 DEF OFEDInstall, InstallDriver, ConfigureConnection, SLURMInstallServer, From
    <3>4. CASE Failures
      BY <3>4 DEF Failures, Drops, Throws, LoseConnection, From
    <3> QED BY <1>1, <3>1, <3>2, <3>3, <3>4 DEF InstallHeadnode
  <2> QED BY <2>1
<1>2. CASE Start
  BY <1>2 DEF Start
<1>3. CASE Exit \/ Die
  BY <1>3 DEF Exit, Die, Between
<1>4. CASE Reboot \/ UNCHANGED vars
  BY <1>4 DEF Reboot, vars
<1> QED BY <1>1, <1>2, <1>3, <1>4 DEF Next

\* What DryRunOnlyCreates asks of a step.
OnlyCreates ==
  /\ UNCHANGED <<backups, system>>
  /\ \A f \in Files : files[f] # files'[f] => files[f] = None /\ files'[f] = <<>>

LEMMA DryStep ==
  ASSUME Typed, Idle, [Next]_vars, run.dry
  PROVE  OnlyCreates
<1> USE DEF OnlyCreates
<1>0. DOMAIN files = Files /\ phase \notin Compiling /\ phase # "off"
  BY DEF Typed, DiskOK, ProgramOK, Idle
<1>1. CASE UNCHANGED <<files, backups, system>>
  BY <1>1
<1>2. ASSUME NEW f, NEW line, AddStringToFile(f, line)
      PROVE  OnlyCreates
  <2>1. WithLine(f, line) \in {files[f], IF files[f] = None THEN <<>> ELSE files[f]}
    BY DEF WithLine
  <2> QED BY <1>2, <2>1, <1>0 DEF AddStringToFile
<1>3. ASSUME NEW p, NEW q, NEW f, BackupFile(p, q, f)
      PROVE  OnlyCreates
  BY <1>3 DEF BackupFile
<1>4. CASE InstallHeadnode
  <2>1. CASE \/ ConfigureSELinuxMode \/ ConfigureHostsFile \/ ConfigureTimeService
             \/ RemoveMemlockLimits \/ DisableSELinux
    BY <2>1, <1>1, <1>2, <1>3
    DEF ConfigureSELinuxMode, ConfigureHostsFile, ConfigureTimeService, RemoveMemlockLimits,
        DisableSELinux
  <2>2. CASE DisableNetworkManagerDNSOverride \/ SLURMConfigureServer
    BY <2>2, <1>1, <1>2
    DEF DisableNetworkManagerDNSOverride, SLURMConfigureServer, RemoveFile, CreateDirectory,
        RestartService, system
  <2>3. CASE \/ InstallRequiredPackages \/ InstallOpenHPCBase \/ InstallDevelopmentComponents
             \/ ConfigureMailSystem \/ InstallChrony \/ NFSInstallScript
    BY <2>3, <1>1
    DEF InstallRequiredPackages, InstallOpenHPCBase, InstallDevelopmentComponents,
        ConfigureMailSystem, InstallChrony, NFSInstallScript, InstallPackages, Install, system
  <2>4. CASE InstallKernel \/ CompileDriver \/ InstallDriver \/ InstallDOCA
    BY <2>4, <1>0
    DEF InstallKernel, CompileDriver, InstallDriver, InstallDOCA, InstallPackages, From, Compiling
  <2>5. CASE OFEDInstall \/ SLURMInstallServer
    BY <2>5, <1>1 DEF OFEDInstall, SLURMInstallServer, Install, CreateDirectory, system
  <2>6. CASE ConfigureNetworks \/ EnableChronyd \/ SLURMEnableServer \/ RunSystemUpdate
    BY <2>6, <1>1
    DEF ConfigureNetworks, EnableChronyd, SLURMEnableServer, RunSystemUpdate, EnableService,
        RestartService, system
  <2>7. CASE \/ ConfigureFirewall \/ ConfigureFQDN \/ DisallowSSHRootPasswordLogin
             \/ ConfigureTimezone \/ ConfigureLocale \/ ConfigureConnection
    BY <2>7, <1>1
    DEF ConfigureFirewall, ConfigureFQDN, DisallowSSHRootPasswordLogin, ConfigureTimezone,
        ConfigureLocale, ConfigureConnection, SetUp, system
  <2>8. CASE Failures
    BY <2>8, <1>1 DEF Failures, Drops, Throws, LoseConnection
  <2> QED BY <1>4, <2>1, <2>2, <2>3, <2>4, <2>5, <2>6, <2>7, <2>8 DEF InstallHeadnode
<1>5. CASE Start \/ Exit \/ Die \/ UNCHANGED vars
  BY <1>5, <1>1 DEF Start, Exit, Die, vars
<1>6. CASE Reboot
  BY <1>6, <1>0 DEF Reboot
<1> QED BY <1>4, <1>5, <1>6 DEF Next

\* Of a dry run only empty files stay, those that addStringToFile opened before it
\* asked for --dry (functions.cpp).
THEOREM DryRunCreates == Spec => DryRunOnlyCreates
<1>1. Init => Idle
  BY DEF Init, Idle, Between
<1>2. Typed /\ Idle /\ [Next]_vars => [run.dry => OnlyCreates]_vars
  BY DryStep
<1>3. Spec => [][run.dry => OnlyCreates]_vars
  BY <1>1, <1>2, TypedInit, TypedNext, IdleNext, PTL DEF Spec
<1> QED BY <1>3 DEF DryRunOnlyCreates, OnlyCreates

-----------------------------------------------------------------------------
(* What was there is kept                                                   *)

Copied(f) == \E lines \in Untouched(f) : [file |-> f, lines |-> lines] \in backups

\* Between the backup of a file and the step that changes it there is a copy of what
\* it was, unless the run is dry.
PristineInv ==
  /\ PristineKept
  /\ ~run.dry => /\ phase = "selinux-value" => Copied("selinux")
                 /\ phase = "hosts-line" => Copied("hosts")
                 /\ phase \in {"stratum", "allow"} => Copied("chrony")
                 /\ phase = "limits-line" => Copied("limits")

Changing == {"selinux-value", "hosts-line", "stratum", "allow", "limits-line"}

\* What addStringToFile makes of a file that has a copy, or in a dry run.
LEMMA AddKeepsPristine ==
  ASSUME Typed, PristineKept, NEW f \in BackedUp, NEW line,
         AddStringToFile(f, line), run.dry \/ Copied(f)
  PROVE  PristineKept'
<1> USE DEF PristineKept, Copied, Untouched
<1>0. DOMAIN files = Files /\ UNCHANGED backups
  BY DEF Typed, DiskOK, AddStringToFile
<1>1. \A g \in BackedUp \ {f} : files'[g] = files[g]
  BY <1>0 DEF AddStringToFile, BackedUp, Files
<1>2. files'[f] = WithLine(f, line)
  BY <1>0 DEF AddStringToFile, BackedUp, Files
<1>3. CASE Copied(f)
  BY <1>0, <1>1, <1>3
<1>4. CASE run.dry
  <2>1. WithLine(f, line) \in {files[f], IF files[f] = None THEN <<>> ELSE files[f]}
    BY <1>4 DEF WithLine
  <2>2. CASE f = "chrony"
    BY <1>0, <1>1, <1>2, <2>1, <2>2
  <2>3. CASE f # "chrony" /\ files[f] = None
    <3>1. Copied(f)
      BY <2>3, LinesShipped
    <3> QED BY <3>1, <1>3
  <2> QED BY <1>0, <1>1, <1>2, <2>1, <2>2, <2>3
<1> QED BY <1>3, <1>4

LEMMA PristineNext ==
  ASSUME Typed, PristineInv, [Next]_vars
  PROVE  PristineInv'
<1> USE DEF PristineInv
<1>0. DOMAIN files = Files
  BY DEF Typed, DiskOK
<1>1. ASSUME UNCHANGED <<files, backups>>, phase' \notin Changing
      PROVE  PristineInv'
  BY <1>1 DEF PristineKept, Changing, Untouched
<1>2. ASSUME \A f \in BackedUp : files'[f] = files[f], UNCHANGED backups, phase' \notin Changing
      PROVE  PristineInv'
  BY <1>2 DEF PristineKept, Changing, Untouched
<1>3. ASSUME NEW p, NEW q, NEW f \in BackedUp, BackupFile(p, q, f)
      PROVE  PristineKept' /\ phase' \in {q, "failed"} /\ UNCHANGED run
             /\ (~run.dry /\ phase' # "failed" => Copied(f)')
  <2>1. PristineKept' /\ phase' \in {q, "failed"} /\ UNCHANGED run
    BY <1>3 DEF BackupFile, From, PristineKept, Untouched
  <2>2. ASSUME ~run.dry, phase' # "failed" PROVE Copied(f)'
    <3>1. files[f] # None /\ backups' = backups \cup {[file |-> f, lines |-> files[f]]}
      BY <1>3, <2>2 DEF BackupFile, From
    <3>2. CASE files[f] \in Untouched(f)
      BY <3>1, <3>2 DEF Copied, Untouched
    <3>3. CASE files[f] \notin Untouched(f)
      BY <3>1, <3>3 DEF Copied, PristineKept, Untouched
    <3> QED BY <3>2, <3>3
  <2> QED BY <2>1, <2>2
<1>4. CASE InstallHeadnode
  <2>1. CASE ConfigureSELinuxMode
    <3>1. CASE BackupFile("selinux", "selinux-value", "selinux")
      <4>1. "selinux" \in BackedUp
        BY DEF BackedUp
      <4>2. /\ PristineKept' /\ phase' \in {"selinux-value", "failed"}
            /\ ~run'.dry /\ phase' # "failed" => Copied("selinux")'
        BY <3>1, <4>1, <1>3
      <4> QED BY <4>2
    <3>2. CASE From("selinux", "firewall") /\ UNCHANGED <<files, backups>>
      BY <3>2, <1>1 DEF From, Changing
    <3> QED BY <2>1, <3>1, <3>2 DEF ConfigureSELinuxMode
  <2>2. CASE DisableSELinux
    <3>1. UNCHANGED backups /\ \A f \in BackedUp \ {"selinux"} : files'[f] = files[f]
      BY <2>2, <1>0 DEF DisableSELinux, BackedUp, Files
    <3>2. run.dry => UNCHANGED files
      BY <2>2 DEF DisableSELinux
    <3>3. phase' \notin Changing /\ (~run.dry => Copied("selinux"))
      BY <2>2 DEF DisableSELinux, From, Changing
    <3>4. PristineKept'
      BY <3>1, <3>2, <3>3 DEF PristineKept, Copied, Untouched
    <3> QED BY <3>3, <3>4 DEF Changing
  <2>3. CASE ConfigureHostsFile
    <3>1. CASE BackupFile("hosts", "hosts-line", "hosts")
      <4>1. "hosts" \in BackedUp
        BY DEF BackedUp
      <4>2. /\ PristineKept' /\ phase' \in {"hosts-line", "failed"}
            /\ ~run'.dry /\ phase' # "failed" => Copied("hosts")'
        BY <3>1, <4>1, <1>3
      <4> QED BY <4>2
    <3>2. CASE From("hosts-line", "timezone") /\ AddStringToFile("hosts", HostsLine(model))
      <4>1. PristineKept'
        BY <3>2, AddKeepsPristine DEF From, BackedUp
      <4> QED BY <3>2, <4>1 DEF From
    <3> QED BY <2>3, <3>1, <3>2 DEF ConfigureHostsFile
  <2>4. CASE RemoveMemlockLimits
    <3>1. CASE BackupFile("limits", "limits-line", "limits")
      <4>1. "limits" \in BackedUp
        BY DEF BackedUp
      <4>2. /\ PristineKept' /\ phase' \in {"limits-line", "failed"}
            /\ ~run'.dry /\ phase' # "failed" => Copied("limits")'
        BY <3>1, <4>1, <1>3
      <4> QED BY <4>2
    <3>2. CASE From("limits-line", "development") /\ AddStringToFile("limits", MemlockLine)
      <4>1. PristineKept'
        BY <3>2, AddKeepsPristine DEF From, BackedUp
      <4> QED BY <3>2, <4>1 DEF From
    <3> QED BY <2>4, <3>1, <3>2 DEF RemoveMemlockLimits
  <2>5. CASE ConfigureTimeService
    <3>1. CASE BackupFile("time-backup", "stratum", "chrony")
      <4>1. "chrony" \in BackedUp
        BY DEF BackedUp
      <4>2. /\ PristineKept' /\ phase' \in {"stratum", "failed"}
            /\ ~run'.dry /\ phase' # "failed" => Copied("chrony")'
        BY <3>1, <4>1, <1>3
      <4> QED BY <4>2
    <3>2. CASE phase = "stratum" /\ UNCHANGED <<files, backups, phase, run>>
      BY <3>2 DEF PristineKept, Copied, Untouched
    <3>3. ASSUME NEW p \in {"stratum", "allow"}, NEW q \in {"stratum", "allow"}, NEW line,
                 From(p, q), AddStringToFile("chrony", line)
          PROVE  PristineInv'
      <4>1. run.dry \/ Copied("chrony")
        BY <3>3 DEF From
      <4>2. PristineKept'
        BY <3>3, <4>1, AddKeepsPristine DEF BackedUp
      <4>3. Copied("chrony") => Copied("chrony")'
        BY <3>3 DEF AddStringToFile, Copied, Untouched
      <4>4. UNCHANGED run /\ phase' \in {"stratum", "allow"}
        BY <3>3 DEF From, AddStringToFile
      <4> QED BY <4>1, <4>2, <4>3, <4>4
    <3>4. CASE From("stratum", "chronyd") /\ UNCHANGED <<files, backups>>
      BY <3>4, <1>1 DEF From, Changing
    <3> QED BY <2>5, <3>1, <3>2, <3>3, <3>4 DEF ConfigureTimeService
  <2>6. CASE InstallChrony
    <3>1. UNCHANGED backups /\ \A f \in BackedUp \ {"chrony"} : files'[f] = files[f]
      BY <2>6, <1>0 DEF InstallChrony, BackedUp, Files
    <3>2. files'["chrony"] = files["chrony"] \/ files'["chrony"] = Shipped("chrony")
      BY <2>6, <1>0 DEF InstallChrony, Files
    <3>3. phase' \notin Changing
      BY <2>6 DEF InstallChrony, From, Changing
    <3>4. PristineKept'
      BY <3>1, <3>2 DEF PristineKept, Untouched
    <3> QED BY <3>3, <3>4 DEF Changing
  <2>7. CASE SLURMConfigureServer \/ DisableNetworkManagerDNSOverride
    <3>1. phase' \notin Changing /\ UNCHANGED backups
      BY <2>7
      DEF SLURMConfigureServer, DisableNetworkManagerDNSOverride, AddStringToFile, From, Changing
    <3>2. \A f \in BackedUp : files'[f] = files[f]
      BY <2>7, <1>0
      DEF SLURMConfigureServer, DisableNetworkManagerDNSOverride, AddStringToFile, RemoveFile,
          BackedUp, Files
    <3> QED BY <3>1, <3>2, <1>2
  <2>8. CASE NFSInstallScript
    <3>1. phase' \notin Changing /\ UNCHANGED backups
      BY <2>8 DEF NFSInstallScript, From, Changing
    <3>2. \A f \in BackedUp : files'[f] = files[f]
      BY <2>8, <1>0 DEF NFSInstallScript, BackedUp, Files
    <3> QED BY <3>1, <3>2, <1>2
  <2>9. CASE OFEDInstall \/ InstallDriver \/ ConfigureConnection \/ SLURMInstallServer \/ Failures
    <3>1. UNCHANGED <<files, backups>>
      BY <2>9
      DEF OFEDInstall, InstallDriver, ConfigureConnection, SLURMInstallServer, Failures, Drops,
          Throws, LoseConnection
    <3>2. phase' \notin Changing
      <4>1. CASE Failures
        BY <4>1 DEF Failures, Drops, Throws, LoseConnection, From, Changing
      <4> QED BY <2>9, <4>1
              DEF OFEDInstall, InstallDriver, ConfigureConnection, SLURMInstallServer, From, Changing
    <3> QED BY <3>1, <3>2, <1>1
  <2>10. CASE \/ InstallRequiredPackages \/ InstallOpenHPCBase \/ InstallKernel \/ CompileDriver
              \/ InstallDOCA \/ EnableChronyd \/ RunSystemUpdate \/ ConfigureFirewall
              \/ ConfigureFQDN \/ DisallowSSHRootPasswordLogin \/ ConfigureTimezone
              \/ ConfigureLocale \/ ConfigureNetworks \/ SLURMEnableServer
              \/ InstallDevelopmentComponents \/ ConfigureMailSystem
    BY <2>10, <1>1
    DEF InstallRequiredPackages, InstallOpenHPCBase, InstallKernel, CompileDriver, InstallDOCA,
        EnableChronyd, RunSystemUpdate, ConfigureFirewall, ConfigureFQDN,
        DisallowSSHRootPasswordLogin, ConfigureTimezone, ConfigureLocale, ConfigureNetworks,
        SLURMEnableServer, InstallDevelopmentComponents, ConfigureMailSystem, InstallPackages, SetUp,
        From, Changing
  <2> QED BY <1>4, <2>1, <2>2, <2>3, <2>4, <2>5, <2>6, <2>7, <2>8, <2>9, <2>10 DEF InstallHeadnode
<1>5. CASE Start \/ Exit \/ Die \/ Reboot
  <2>1. phase' \in {"off", "required"} /\ UNCHANGED <<files, backups>>
    BY <1>5 DEF Start, Exit, Die, Reboot
  <2> QED BY <2>1, <1>1 DEF Changing
<1>6. CASE UNCHANGED vars
  BY <1>6 DEF vars, PristineKept, Copied, Untouched
<1> QED BY <1>4, <1>5, <1>6 DEF Next

\* However many runs died between a backup and the change, or after it, and were
\* repeated, one of the copies is of the file as it was before the first run
\* (functions.cpp, backupFile).
THEOREM OriginalsKept == Spec => []PristineKept
<1>1. Init => PristineInv
  <2> SUFFICES ASSUME Init PROVE PristineInv
    OBVIOUS
  <2>1. \A f \in BackedUp : files[f] \in Untouched(f)
    BY DEF Init, BackedUp, Files, Untouched, Original
  <2> QED BY <2>1 DEF Init, PristineInv, PristineKept
<1>2. PristineInv => PristineKept
  BY DEF PristineInv
<1> QED BY <1>1, <1>2, TypedInit, TypedNext, PristineNext, PTL DEF Spec
-----------------------------------------------------------------------------
(* What a step does                                                         *)

Adds(f, line) == files' = [files EXCEPT ![f] = WithLine(f, line)]

\* What a step makes of the files, and where it is
FileStep ==
  \/ UNCHANGED files
  \/ phase = "selinux-value" /\ ~run.dry
       /\ files' = [files EXCEPT !["selinux"] = <<Line("SELINUX", "disabled")>>]
  \/ phase = "hosts-line" /\ Adds("hosts", HostsLine(model))
  \/ phase = "dns-remove" /\ RemoveFile("dns")
  \/ phase = "dns-line" /\ Adds("dns", DnsLine)
  \/ phase = "time" /\ ~run.dry /\ files["chrony"] = None
       /\ files' = [files EXCEPT !["chrony"] = Shipped("chrony")]
  \/ phase = "stratum" /\ at <= Len(model.connections) /\ ServesTime(Connection)
       /\ Adds("chrony", StratumLine)
  \/ phase = "allow" /\ Adds("chrony", AllowLine(Connection))
  \/ phase = "nfs" /\ ~run.dry /\ files' = [files EXCEPT !["exports"] = @ \o MissingExports]
  \/ phase = "slurm-remove" /\ RemoveFile("slurm")
  \/ phase = "slurm-conf" /\ Adds("slurm", SlurmConf(model))
  \/ phase = "limits-line" /\ Adds("limits", MemlockLine)

Puts(k, value) == ~run.dry /\ settings' = [settings EXCEPT ![k] = value]

\* What it makes of the machine's settings
SettingStep ==
  \/ UNCHANGED settings
  \/ phase = "hostname" /\ Puts("hostname", model.name)
  \/ phase = "sshd" /\ Puts("sshd", "without-password")
  \/ phase = "timezone" /\ Puts("timezone", model.timezone)
  \/ phase = "locale" /\ Puts("locale", model.locale)

\* What it makes of the services
ServiceStep ==
  \/ UNCHANGED <<enabled, loaded>>
  \/ phase \in {"update", "dns-restart"} /\ RestartService("NetworkManager") /\ UNCHANGED enabled
  \/ phase = "networks" /\ EnableService("NetworkManager")
  \/ phase = "chronyd" /\ EnableService("chronyd")
  \/ phase = "slurm-enable" /\ EnableService("slurmctld")

\* The run stays that of its model, and what it lost stays lost.
Does ==
  /\ FileStep /\ SettingStep /\ ServiceStep
  /\ addresses' = addresses \/ ConfigureConnection
  /\ packages \subseteq packages'
  /\ run'.model = run.model /\ run'.dry = run.dry /\ run.lost \subseteq run'.lost
  /\ settled' = settled

LEMMA StepDoes ==
  ASSUME Typed, InstallHeadnode
  PROVE  Does
<1> USE DEF Does
<1>0. run \in Runs
  BY DEF Typed, ProgramOK
<1>1. ASSUME UNCHANGED <<run, settled>>, FileStep, SettingStep, ServiceStep,
             addresses' = addresses \/ ConfigureConnection, packages \subseteq packages'
      PROVE  Does
  BY <1>1
<1>2. \A names : Install(names) => packages \subseteq packages'
  BY DEF Install
<1>3. CASE \/ InstallRequiredPackages \/ InstallOpenHPCBase \/ InstallKernel \/ InstallDOCA
           \/ InstallDevelopmentComponents \/ ConfigureMailSystem
  BY <1>1, <1>2, <1>3
  DEF InstallRequiredPackages, InstallOpenHPCBase, InstallKernel, InstallDOCA,
      InstallDevelopmentComponents, ConfigureMailSystem, InstallPackages, system,
      FileStep, SettingStep, ServiceStep
<1>4. CASE \/ ConfigureFQDN \/ DisallowSSHRootPasswordLogin \/ ConfigureTimezone \/ ConfigureLocale
  <2>1. SettingStep
    BY <1>4
    DEF ConfigureFQDN, DisallowSSHRootPasswordLogin, ConfigureTimezone, ConfigureLocale, SetUp, From,
        SettingStep, Puts
  <2> QED
    BY <1>1, <1>4, <2>1
    DEF ConfigureFQDN, DisallowSSHRootPasswordLogin, ConfigureTimezone, ConfigureLocale, SetUp,
        FileStep, ServiceStep
<1>5. CASE ConfigureSELinuxMode \/ ConfigureHostsFile \/ RemoveMemlockLimits
  <2>1. FileStep
    BY <1>5
    DEF ConfigureSELinuxMode, ConfigureHostsFile, RemoveMemlockLimits, BackupFile, AddStringToFile,
        From, FileStep, Adds
  <2>2. UNCHANGED <<system, run, settled>>
    BY <1>5
    DEF ConfigureSELinuxMode, ConfigureHostsFile, RemoveMemlockLimits, BackupFile, AddStringToFile
  <2> QED BY <1>1, <2>1, <2>2 DEF system, SettingStep, ServiceStep
<1>6. CASE DisableSELinux \/ SLURMConfigureServer
  <2>1. FileStep
    BY <1>6 DEF DisableSELinux, SLURMConfigureServer, AddStringToFile, From, FileStep, Adds
  <2>2. UNCHANGED <<packages, settings, addresses, firewall, enabled, loaded, run, settled>>
    BY <1>6 DEF DisableSELinux, SLURMConfigureServer, AddStringToFile, system
  <2> QED BY <1>1, <2>1, <2>2 DEF SettingStep, ServiceStep
<1>7. CASE DisableNetworkManagerDNSOverride
  <2>1. FileStep /\ ServiceStep
    BY <1>7
    DEF DisableNetworkManagerDNSOverride, AddStringToFile, From, FileStep, Adds, ServiceStep, system
  <2>2. UNCHANGED <<packages, settings, addresses, run, settled>>
    BY <1>7 DEF DisableNetworkManagerDNSOverride, AddStringToFile, system
  <2> QED BY <1>1, <2>1, <2>2 DEF SettingStep
<1>8. CASE ConfigureTimeService
  <2>1. FileStep
    BY <1>8 DEF ConfigureTimeService, BackupFile, AddStringToFile, From, FileStep, Adds
  <2>2. UNCHANGED <<system, run, settled>>
    BY <1>8 DEF ConfigureTimeService, BackupFile, AddStringToFile
  <2> QED BY <1>1, <2>1, <2>2 DEF system, SettingStep, ServiceStep
<1>9. CASE RunSystemUpdate \/ ConfigureNetworks \/ EnableChronyd \/ SLURMEnableServer
  <2>1. ServiceStep
    BY <1>9
    DEF RunSystemUpdate, ConfigureNetworks, EnableChronyd, SLURMEnableServer, From, ServiceStep
  <2> QED
    BY <1>1, <1>9, <2>1
    DEF RunSystemUpdate, ConfigureNetworks, EnableChronyd, SLURMEnableServer, FileStep, SettingStep
<1>10. CASE InstallChrony \/ NFSInstallScript
  <2>1. FileStep
    BY <1>10 DEF InstallChrony, NFSInstallScript, From, FileStep
  <2> QED
    BY <1>1, <1>2, <1>10, <2>1 DEF InstallChrony, NFSInstallScript, SettingStep, ServiceStep
<1>11. CASE ConfigureFirewall \/ ConfigureConnection \/ CompileDriver
  BY <1>1, <1>11
  DEF ConfigureFirewall, ConfigureConnection, CompileDriver, FileStep, SettingStep, ServiceStep
<1>12. CASE OFEDInstall \/ InstallDriver \/ SLURMInstallServer
  BY <1>1, <1>2, <1>12
  DEF OFEDInstall, InstallDriver, SLURMInstallServer, FileStep, SettingStep, ServiceStep
<1>13. CASE Failures
  <2>1. UNCHANGED <<files, system, settled>>
    BY <1>13 DEF Failures, Drops, Throws, LoseConnection
  <2>2. ASSUME NEW c, run' = [run EXCEPT !.lost = @ \cup {c}]
        PROVE  run'.model = run.model /\ run'.dry = run.dry /\ run.lost \subseteq run'.lost
    BY <2>2, <1>0, LostGrows
  <2>3. run'.model = run.model /\ run'.dry = run.dry /\ run.lost \subseteq run'.lost
    BY <1>13, <2>2 DEF Failures, Drops, Throws, LoseConnection
  <2> QED BY <2>1, <2>3 DEF system, FileStep, SettingStep, ServiceStep
<1> QED BY <1>3, <1>4, <1>5, <1>6, <1>7, <1>8, <1>9, <1>10, <1>11, <1>12, <1>13 DEF InstallHeadnode
-----------------------------------------------------------------------------
(* No line is added twice                                                   *)

\* The line is among these.
Has(lines, line) == \E i \in DOMAIN lines : lines[i] = line

\* Appending lines that are not there, each once, makes no duplicate.
LEMMA ConcatInjective ==
  ASSUME NEW s \in Seq(Lines), NEW t \in Seq(Lines), IsInjective(s), IsInjective(t),
         \A i \in DOMAIN t : ~Has(s, t[i])
  PROVE  IsInjective(s \o t)
<1>1. /\ Len(s \o t) = Len(s) + Len(t) /\ s \o t \in Seq(Lines)
      /\ \A i \in 1..Len(s) + Len(t) :
           (s \o t)[i] = IF i <= Len(s) THEN s[i] ELSE t[i - Len(s)]
  BY ConcatProperties
<1> SUFFICES ASSUME NEW i \in 1..Len(s) + Len(t), NEW j \in 1..Len(s) + Len(t),
                    (s \o t)[i] = (s \o t)[j]
             PROVE  i = j
  BY <1>1 DEF IsInjective
<1>2. CASE i <= Len(s) /\ j <= Len(s)
  BY <1>1, <1>2 DEF IsInjective
<1>3. CASE i > Len(s) /\ j > Len(s)
  BY <1>1, <1>3 DEF IsInjective
<1>4. CASE i <= Len(s) /\ j > Len(s)
  BY <1>1, <1>4 DEF Has
<1>5. CASE i > Len(s) /\ j <= Len(s)
  BY <1>1, <1>5 DEF Has
<1> QED BY <1>2, <1>3, <1>4, <1>5

\* So it is with parts that have no line in common.
LEMMA ConcatParts ==
  ASSUME NEW s \in Seq(Lines), NEW t \in Seq(Lines), IsInjective(s), IsInjective(t),
         \A line : ~(Has(s, line) /\ Has(t, line))
  PROVE  /\ s \o t \in Seq(Lines) /\ IsInjective(s \o t)
         /\ \A line : Has(s \o t, line) => Has(s, line) \/ Has(t, line)
<1>1. \A i \in DOMAIN t : ~Has(s, t[i])
  BY DEF Has
<1>2. \A line : Has(s \o t, line) => Has(s, line) \/ Has(t, line)
  BY ConcatProperties DEF Has
<1> QED BY <1>1, <1>2, ConcatInjective, ConcatProperties

LEMMA OneLine ==
  ASSUME NEW line \in Lines
  PROVE  /\ <<line>> \in Seq(Lines) /\ IsInjective(<<line>>)
         /\ \A other : Has(<<line>>, other) => other = line
         /\ \A s \in Seq(Lines) : Append(s, line) = s \o <<line>>
BY DEF IsInjective, Has

\* A line that find and grep do not find is not there.
LEMMA NotFound ==
  ASSUME NEW f \in Files, NEW line, files[f] # None, ~Occurs(line, f)
  PROVE  ~Has(files[f], line)
BY DEF Occurs, Has

\* The lines that addStringToFile and grep ask for
LEMMA WithLineInjective ==
  ASSUME files \in [Files -> Seq(Lines) \cup {None}], NEW f \in Files, NEW line \in Lines,
         files[f] # None => IsInjective(files[f])
  PROVE  WithLine(f, line) # None => IsInjective(WithLine(f, line))
<1> DEFINE now == IF files[f] = None THEN <<>> ELSE files[f]
<1>1. now \in Seq(Lines) /\ IsInjective(now)
  BY DEF IsInjective
<1>2. ASSUME ~Occurs(line, f) PROVE IsInjective(Append(now, line))
  <2>1. ~Has(now, line)
    BY <1>2, NotFound DEF Has
  <2>2. IsInjective(now \o <<line>>)
    BY <1>1, <2>1, OneLine, ConcatInjective DEF Has
  <2> QED BY <1>1, <2>2, OneLine
<1> QED BY <1>1, <1>2 DEF WithLine

LEMMA MissingInjective ==
  ASSUME NEW s \in Seq(Lines), files["exports"] = s, s # None, IsInjective(s)
  PROVE  IsInjective(s \o MissingExports) /\ s \o MissingExports \in Seq(Lines)
<1> DEFINE M(i) == Missing(ExportLines[i])
<1>1. ASSUME NEW i \in 1..4
      PROVE  /\ M(i) \in Seq(Lines) /\ IsInjective(M(i))
             /\ \A line : Has(M(i), line) => line = ExportLines[i] /\ ~Has(s, line)
  <2>1. ExportLines[i] \in Lines
    BY LinesAdded
  <2>2. CASE Occurs(ExportLines[i], "exports")
    BY <2>2 DEF Missing, IsInjective, Has
  <2>3. CASE ~Occurs(ExportLines[i], "exports")
    <3>1. ~Has(s, ExportLines[i]) /\ M(i) = <<ExportLines[i]>>
      BY <2>3, NotFound DEF Files, Missing
    <3> QED BY <2>1, <3>1, OneLine
  <2> QED BY <2>2, <2>3
<1>2. \A i, j \in 1..4 : i # j => ExportLines[i] # ExportLines[j]
  BY DEF ExportLines, Line
<1> DEFINE t == M(1) \o M(2)
           u == t \o M(3)
           w == u \o M(4)
<1> HIDE DEF M, t, u, w
<1>3. /\ t \in Seq(Lines) /\ IsInjective(t)
      /\ \A line : Has(t, line) => Has(M(1), line) \/ Has(M(2), line)
  BY <1>1, <1>2, ConcatParts DEF t
<1>4. /\ u \in Seq(Lines) /\ IsInjective(u)
      /\ \A line : Has(u, line) => Has(t, line) \/ Has(M(3), line)
  <2>1. \A line : ~(Has(t, line) /\ Has(M(3), line))
    BY <1>1, <1>2, <1>3
  <2> QED BY <1>1, <1>3, <2>1, ConcatParts DEF u
<1>5. /\ w \in Seq(Lines) /\ IsInjective(w)
      /\ \A line : Has(w, line) => Has(u, line) \/ Has(M(4), line)
  <2>1. \A line : ~(Has(u, line) /\ Has(M(4), line))
    BY <1>1, <1>2, <1>3, <1>4
  <2> QED BY <1>1, <1>4, <2>1, ConcatParts DEF w
<1>6. \A line : Has(w, line) => ~Has(s, line)
  BY <1>1, <1>3, <1>4, <1>5
<1>7. MissingExports = w
  BY DEF MissingExports, w, u, t, M
<1> QED BY <1>5, <1>6, <1>7, ConcatParts
\* The lines of the packages' files are different.
LEMMA ShippedInjective ==
  /\ IsInjective(Shipped("chrony")) /\ Shipped("chrony") # None
  /\ \A f \in Files : Original(f) # None => IsInjective(Original(f))
<1>1. IsInjective(Shipped("chrony"))
  BY HeadnodeAssumption DEF Shipped, Line, Comment, IsInjective
<1> QED BY <1>1, LinesShipped, NoneAssumption DEF Original, Files, IsInjective

LEMMA NoDuplicateNext ==
  ASSUME Typed, NoDuplicateLines, [Next]_vars
  PROVE  NoDuplicateLines'
<1> USE DEF NoDuplicateLines
<1>0. /\ files \in [Files -> Seq(Lines) \cup {None}] /\ files["exports"] # None
      /\ at \in Nat \ {0} /\ run \in Runs
  BY DEF Typed, DiskOK, ProgramOK
<1>1. CASE UNCHANGED files
  BY <1>1
<1>2. ASSUME NEW f \in Files, NEW line \in Lines, Adds(f, line)
      PROVE  NoDuplicateLines'
  BY <1>0, <1>2, WithLineInjective DEF Adds
<1>3. ASSUME NEW f \in Files, NEW lines, files' = [files EXCEPT ![f] = lines],
             lines # None => IsInjective(lines)
      PROVE  NoDuplicateLines'
  BY <1>0, <1>3
<1>4. CASE InstallHeadnode
  <2>0. model \in Models
    BY <1>0, <1>4 DEF Runs, model, InstallHeadnode
  <2>1. ASSUME phase = "allow", Adds("chrony", AllowLine(Connection))
        PROVE  NoDuplicateLines'
    <3>1. Connection \in Connections
      BY <1>0, <2>0, <2>1, ConnectionsOf DEF Typed, LoopOK, Connection
    <3> QED BY <2>1, <3>1, <1>2, LinesAdded DEF Files
  <2>2. ASSUME files' = [files EXCEPT !["exports"] = @ \o MissingExports]
        PROVE  NoDuplicateLines'
    BY <1>0, <1>3, <2>2, MissingInjective DEF Files
  <2>3. ASSUME files' = [files EXCEPT !["selinux"] = <<Line("SELINUX", "disabled")>>]
        PROVE  NoDuplicateLines'
    BY <1>3, <2>3, LinesAdded, OneLine DEF Files
  <2>4. ASSUME NEW f \in Files, RemoveFile(f)
        PROVE  NoDuplicateLines'
    BY <1>1, <1>3, <2>4 DEF RemoveFile
  <2>5. ASSUME files' = [files EXCEPT !["chrony"] = Shipped("chrony")]
        PROVE  NoDuplicateLines'
    BY <1>3, <2>5, ShippedInjective DEF Files
  <2>6. FileStep
    BY <1>4, StepDoes DEF Does
  <2> QED BY <2>0, <2>1, <2>2, <2>3, <2>4, <2>5, <2>6, <1>1, <1>2, LinesAdded DEF FileStep, Files
<1>5. CASE Start \/ Exit \/ Die \/ Reboot \/ UNCHANGED vars
  BY <1>1, <1>5 DEF Start, Exit, Die, Reboot, vars
<1> QED BY <1>4, <1>5 DEF Next

\* Reruns, several networks that serve time and runs that died after a line was
\* written leave no line in a file twice (functions.cpp, addStringToFile, and the
\* greps of NFS.cpp, installScript).
THEOREM LinesOnce == Spec => []NoDuplicateLines
<1>1. Init => NoDuplicateLines
  BY ShippedInjective DEF Init, NoDuplicateLines
<1> QED BY <1>1, TypedInit, TypedNext, NoDuplicateNext, PTL DEF Spec
-----------------------------------------------------------------------------
(* What a run has done when it gets to a place                              *)

\* The places after each of the steps
Limited == {"development", "done"}
Served == {"chronyd", "base", "ofed", "makecache", "compile", "driver", "doca", "nfs"} \cup Exported
Timed == {"time-backup", "stratum", "allow"} \cup Served
Resolved == {"dns-restart", "time"} \cup Timed
Connected == {"dns-remove", "dns-line"} \cup Resolved
Located == {"networks", "connection"} \cup Connected
Zoned == {"locale"} \cup Located
Named == {"timezone"} \cup Zoned
Closed == {"hosts", "hosts-line"} \cup Named
Hosted == {"sshd"} \cup Closed
Enforced == {"firewall", "hostname"} \cup Hosted

Disabled == <<Line("SELINUX", "disabled")>>

\* The connections before the n-th have an address, and are served the time.
Connects(m, n) ==
  \A i \in 1..Len(m.connections) :
    i < n /\ m.connections[i].profile # "External" => addresses[m.connections[i].profile] # None

Serves(m, n) ==
  \A i \in 1..Len(m.connections) :
    i < n /\ ServesTime(m.connections[i]) =>
      Occurs(StratumLine, "chrony") /\ Occurs(AllowLine(m.connections[i]), "chrony")

ConnectsAll(m) == Connects(m, Len(m.connections) + 1)
ServesAll(m) == Serves(m, Len(m.connections) + 1)
ExportsAll == \A i \in 1..4 : Occurs(ExportLines[i], "exports")

\* The files and settings of a run that is not dry
FilesDone ==
  ~run.dry =>
    /\ phase \in Enforced /\ model.selinux = "disabled" => files["selinux"] = Disabled
    /\ phase \in Named => Occurs(HostsLine(model), "hosts")
    /\ phase \in Exported /\ run.lost = {} => ExportsAll
    /\ phase \in Limited => Occurs(MemlockLine, "limits")

SettingsDone ==
  ~run.dry =>
    /\ phase \in Hosted => settings["hostname"] = model.name
    /\ phase \in Closed => settings["sshd"] = "without-password"
    /\ phase \in Zoned => settings["timezone"] = model.timezone
    /\ phase \in Located => settings["locale"] = model.locale

\* The connections, and how names are resolved on them
NetworkDone ==
  ~run.dry =>
    /\ phase = "connection" /\ run.lost = {} => Connects(model, at)
    /\ phase \in Connected /\ run.lost = {} => ConnectsAll(model)
    /\ phase = "dns-line" => files["dns"] = None
    /\ phase \in Resolved => files["dns"] = <<DnsLine>>

TimeDone ==
  ~run.dry =>
    /\ phase \in {"stratum", "allow"} => Serves(model, at)
    /\ phase = "allow" => Occurs(StratumLine, "chrony")
    /\ phase \in Served => ServesAll(model)

\* A line that find sees among these, and sees among more of them
Found(lines, line) ==
  \E i \in DOMAIN lines : lines[i].text = line.text /\ lines[i].value = line.value

LEMMA FoundConcat ==
  ASSUME NEW s \in Seq(Lines), NEW t \in Seq(Lines), NEW line, Found(s, line) \/ Found(t, line)
  PROVE  Found(s \o t, line)
<1>1. /\ s \o t \in Seq(Lines) /\ Len(s \o t) = Len(s) + Len(t)
      /\ \A i \in 1..Len(s) + Len(t) : (s \o t)[i] = IF i <= Len(s) THEN s[i] ELSE t[i - Len(s)]
  BY ConcatProperties
<1>2. CASE Found(s, line)
  <2>1. PICK i \in DOMAIN s : s[i].text = line.text /\ s[i].value = line.value
    BY <1>2 DEF Found
  <2> QED BY <1>1, <2>1 DEF Found
<1>3. CASE Found(t, line)
  <2>1. PICK i \in DOMAIN t : t[i].text = line.text /\ t[i].value = line.value
    BY <1>3 DEF Found
  <2>2. Len(s) + i \in DOMAIN (s \o t) /\ (s \o t)[Len(s) + i] = t[i]
    BY <1>1
  <2> QED BY <2>1, <2>2 DEF Found
<1> QED BY <1>2, <1>3

\* A file that is not written anew keeps the lines it has.
LEMMA FilesGrow ==
  ASSUME Typed, InstallHeadnode, NEW f \in {"hosts", "chrony", "exports", "limits"}, files[f] # None
  PROVE  \E new \in Seq(Lines) : files'[f] = files[f] \o new
<1>0. /\ files \in [Files -> Seq(Lines) \cup {None}] /\ f \in Files /\ files[f] \in Seq(Lines)
      /\ at \in Nat \ {0} /\ model \in Models
  BY DEF Typed, DiskOK, ProgramOK, Runs, model, InstallHeadnode, Files
<1>1. ASSUME files'[f] = files[f] PROVE \E new \in Seq(Lines) : files'[f] = files[f] \o new
  <2>1. files'[f] = files[f] \o <<>> /\ <<>> \in Seq(Lines)
    BY <1>0, <1>1, ConcatProperties
  <2> QED BY <2>1
<1>2. ASSUME NEW g \in Files, NEW line \in Lines, Adds(g, line)
      PROVE  \E new \in Seq(Lines) : files'[f] = files[f] \o new
  <2>1. files'[f] = files[f] \/ files'[f] = Append(files[f], line)
    BY <1>0, <1>2 DEF Adds, WithLine
  <2> QED BY <1>0, <1>1, <2>1, OneLine
<1>3. ASSUME phase = "allow", Adds("chrony", AllowLine(Connection))
      PROVE  \E new \in Seq(Lines) : files'[f] = files[f] \o new
  <2>1. Connection \in Connections
    BY <1>0, <1>3, ConnectionsOf DEF Typed, LoopOK, Connection
  <2> QED BY <1>2, <1>3, <2>1, LinesAdded DEF Files
<1>4. ASSUME files' = [files EXCEPT !["exports"] = @ \o MissingExports]
      PROVE  \E new \in Seq(Lines) : files'[f] = files[f] \o new
  <2>1. MissingExports \in Seq(Lines)
    BY LinesAdded DEF MissingExports, Missing
  <2> QED BY <1>0, <1>1, <1>4, <2>1
<1>5. FileStep
  BY StepDoes DEF Does
<1> QED BY <1>0, <1>1, <1>2, <1>3, <1>4, <1>5, LinesAdded DEF FileStep, RemoveFile, Files

\* A line that was found is found again.
LEMMA OccursKept ==
  ASSUME Typed, InstallHeadnode, NEW f \in {"hosts", "chrony", "exports", "limits"}, NEW line,
         Occurs(line, f)
  PROVE  Occurs(line, f)'
<1>1. files[f] \in Seq(Lines) /\ files[f] # None /\ Found(files[f], line)
  BY DEF Typed, DiskOK, Occurs, Found, Files
<1>2. PICK new \in Seq(Lines) : files'[f] = files[f] \o new
  BY <1>1, FilesGrow
<1>3. files'[f] \in Seq(Lines) /\ Found(files'[f], line)
  BY <1>1, <1>2, FoundConcat, ConcatProperties
<1> QED BY <1>3, NoneAssumption DEF Occurs, Found

\* A line that a run adds, when it is not dry, is found.
LEMMA OccursAdded ==
  ASSUME Typed, ~run.dry, NEW f \in Files, NEW line \in Lines, Adds(f, line)
  PROVE  Occurs(line, f)'
<1>0. files \in [Files -> Seq(Lines) \cup {None}]
  BY DEF Typed, DiskOK
<1>1. CASE Occurs(line, f)
  BY <1>0, <1>1 DEF Adds, WithLine, Occurs
<1>2. CASE ~Occurs(line, f)
  <2> DEFINE now == IF files[f] = None THEN <<>> ELSE files[f]
  <2>1. now \in Seq(Lines) /\ files'[f] = Append(now, line)
    BY <1>0, <1>2 DEF Adds, WithLine
  <2>2. files'[f] \in Seq(Lines) /\ Len(now) + 1 \in DOMAIN files'[f]
        /\ files'[f][Len(now) + 1] = line
    BY <2>1
  <2> QED BY <2>2, NoneAssumption DEF Occurs
<1> QED BY <1>1, <1>2

\* What the script of NFS.cpp leaves exports everything.
LEMMA ExportsAdded ==
  ASSUME Typed, files' = [files EXCEPT !["exports"] = @ \o MissingExports]
  PROVE  ExportsAll'
<1> DEFINE s == files["exports"]
           M(i) == Missing(ExportLines[i])
           t == M(1) \o M(2)
           u == t \o M(3)
           w == u \o M(4)
<1>0. s \in Seq(Lines) /\ "exports" \in DOMAIN files /\ s # None
  BY DEF Typed, DiskOK, Files
<1>1. \A i \in 1..4 : M(i) \in Seq(Lines)
  BY LinesAdded DEF Missing
<1>2. \A i \in 1..4 : Found(s, ExportLines[i]) \/ Found(M(i), ExportLines[i])
  BY <1>0 DEF Missing, Occurs, Found
<1>3. files'["exports"] = s \o w
  BY <1>0 DEF MissingExports
<1> HIDE DEF s, M, t, u, w
<1>4. t \in Seq(Lines) /\ \A line : Found(M(1), line) \/ Found(M(2), line) => Found(t, line)
  BY <1>1, FoundConcat, ConcatProperties DEF t
<1>5. u \in Seq(Lines) /\ \A line : Found(t, line) \/ Found(M(3), line) => Found(u, line)
  BY <1>1, <1>4, FoundConcat, ConcatProperties DEF u
<1>6. w \in Seq(Lines) /\ \A line : Found(u, line) \/ Found(M(4), line) => Found(w, line)
  BY <1>1, <1>5, FoundConcat, ConcatProperties DEF w
<1>7. /\ files'["exports"] \in Seq(Lines)
      /\ \A line : Found(s, line) \/ Found(w, line) => Found(files'["exports"], line)
  BY <1>0, <1>3, <1>6, FoundConcat, ConcatProperties
<1>8. \A i \in 1..4 : Found(files'["exports"], ExportLines[i])
  BY <1>2, <1>4, <1>5, <1>6, <1>7
<1> QED BY <1>7, <1>8, NoneAssumption DEF ExportsAll, Occurs, Found
LEMMA FilesDoneNext ==
  ASSUME Typed, FilesDone, [Next]_vars
  PROVE  FilesDone'
<1> USE DEF FilesDone
<1>1. CASE InstallHeadnode
  <2>0. /\ model \in Models /\ model' = model /\ run'.dry = run.dry /\ run.lost \subseteq run'.lost
        /\ FileStep /\ files \in [Files -> Seq(Lines) \cup {None}]
    BY <1>1, StepDoes DEF Does, Typed, ProgramOK, DiskOK, Runs, model, InstallHeadnode
  <2> SUFFICES ASSUME ~run.dry
               PROVE  /\ phase' \in Enforced /\ model.selinux = "disabled" => files'["selinux"] = Disabled
                      /\ phase' \in Named => Occurs(HostsLine(model), "hosts")'
                      /\ phase' \in Exported /\ run'.lost = {} => ExportsAll'
                      /\ phase' \in Limited => Occurs(MemlockLine, "limits")'
    BY <2>0 DEF HostsLine, Address
  <2>1. ASSUME phase' \in Enforced, model.selinux = "disabled"
        PROVE  files'["selinux"] = Disabled
    <3>1. CASE phase \in Enforced
      <4>1. files'["selinux"] = files["selinux"] \/ files'["selinux"] = Disabled
        BY <2>0 DEF FileStep, Adds, RemoveFile, Disabled, Files
      <4> QED BY <2>1, <3>1, <4>1
    <3>2. CASE phase \notin Enforced
      <4>1. phase \in {"selinux", "selinux-value"} /\ phase' = "firewall"
        BY <1>1, <2>1, <3>2, StepsLead
        DEF Order, Enforced, Hosted, Closed, Named, Zoned, Located, Connected, Resolved, Timed, Served,
            Exported, Queued
      <4>2. DisableSELinux
        BY <1>1, <2>1, <4>1, StepsAt DEF StepAt, ConfigureSELinuxMode, BackupFile, From
      <4> QED BY <2>0, <4>2 DEF DisableSELinux, Disabled, Files
    <3> QED BY <3>1, <3>2
  <2>2. ASSUME phase' \in Named
        PROVE  Occurs(HostsLine(model), "hosts")'
    <3>1. CASE phase \in Named
      BY <1>1, <2>0, <3>1, OccursKept
    <3>2. CASE phase \notin Named
      <4>1. phase = "hosts-line" /\ phase' = "timezone"
        BY <1>1, <2>2, <3>2, StepsLead
        DEF Order, Named, Zoned, Located, Connected, Resolved, Timed, Served, Exported, Queued
      <4>2. Adds("hosts", HostsLine(model))
        BY <1>1, <4>1, StepsAt DEF StepAt, ConfigureHostsFile, BackupFile, AddStringToFile, Adds, From
      <4> QED BY <2>0, <4>2, OccursAdded, LinesAdded DEF Files
    <3> QED BY <3>1, <3>2
  <2>3. ASSUME phase' \in Exported, run'.lost = {}
        PROVE  ExportsAll'
    <3>1. CASE phase \in Exported
      BY <1>1, <2>0, <2>3, <3>1, OccursKept DEF ExportsAll
    <3>2. CASE phase \notin Exported
      <4>1. phase = "nfs" /\ phase' = "queue"
        BY <1>1, <2>3, <3>2, StepsLead DEF Order, Exported
      <4>2. NFSInstallScript
        BY <1>1, <2>3, <4>1, StepsAt DEF StepAt, Drops, Typed, ProgramOK, Runs
      <4> QED BY <4>2, ExportsAdded DEF NFSInstallScript
    <3> QED BY <3>1, <3>2
  <2>4. ASSUME phase' \in Limited
        PROVE  Occurs(MemlockLine, "limits")'
    <3>1. CASE phase \in Limited
      BY <1>1, <3>1, OccursKept
    <3>2. CASE phase \notin Limited
      <4>1. phase = "limits-line" /\ phase' = "development"
        BY <1>1, <2>4, <3>2, StepsLead DEF Order, Limited
      <4>2. Adds("limits", MemlockLine)
        BY <1>1, <4>1, StepsAt DEF StepAt, RemoveMemlockLimits, BackupFile, AddStringToFile, Adds, From
      <4> QED BY <2>0, <4>2, OccursAdded, LinesAdded DEF Files
    <3> QED BY <3>1, <3>2
  <2> QED BY <2>1, <2>2, <2>3, <2>4
<1>2. CASE Start \/ Exit \/ Die \/ Reboot
  <2>1. phase' \in {"off", "required"}
    BY <1>2 DEF Start, Exit, Die, Reboot
  <2> QED
    BY <2>1
    DEF Enforced, Hosted, Closed, Named, Zoned, Located, Connected, Resolved, Timed, Served, Exported,
        Queued, Limited
<1>3. CASE UNCHANGED vars
  BY <1>3 DEF vars, ExportsAll, Occurs, model
<1> QED BY <1>1, <1>2, <1>3 DEF Next

LEMMA SettingsDoneNext ==
  ASSUME Typed, SettingsDone, [Next]_vars
  PROVE  SettingsDone'
<1> USE DEF SettingsDone
<1>1. CASE InstallHeadnode
  <2>0. /\ model' = model /\ run'.dry = run.dry /\ SettingStep
        /\ settings \in [Settings -> Values \cup {None}]
    BY <1>1, StepDoes DEF Does, Typed, SystemOK, model
  <2>1. \A k \in Settings : phase # k => settings'[k] = settings[k]
    BY <2>0 DEF SettingStep, Puts, Settings
  <2> SUFFICES ASSUME ~run.dry
               PROVE  /\ phase' \in Hosted => settings'["hostname"] = model.name
                      /\ phase' \in Closed => settings'["sshd"] = "without-password"
                      /\ phase' \in Zoned => settings'["timezone"] = model.timezone
                      /\ phase' \in Located => settings'["locale"] = model.locale
    BY <2>0
  <2>2. ASSUME phase' \in Hosted PROVE settings'["hostname"] = model.name
    <3>1. phase \in Hosted \/ phase = "hostname"
      BY <1>1, <2>2, StepsLead
      DEF Order, Hosted, Closed, Named, Zoned, Located, Connected, Resolved, Timed, Served, Exported,
          Queued
    <3>2. CASE phase = "hostname"
      BY <1>1, <2>0, <3>2, StepsAt DEF StepAt, ConfigureFQDN, SetUp, Settings
    <3> QED BY <2>1, <3>1, <3>2 DEF Settings
  <2>3. ASSUME phase' \in Closed PROVE settings'["sshd"] = "without-password"
    <3>1. phase \in Closed \/ phase = "sshd"
      BY <1>1, <2>3, StepsLead
      DEF Order, Closed, Named, Zoned, Located, Connected, Resolved, Timed, Served, Exported, Queued
    <3>2. CASE phase = "sshd"
      BY <1>1, <2>0, <3>2, StepsAt DEF StepAt, DisallowSSHRootPasswordLogin, SetUp, Settings
    <3> QED BY <2>1, <3>1, <3>2 DEF Settings
  <2>4. ASSUME phase' \in Zoned PROVE settings'["timezone"] = model.timezone
    <3>1. phase \in Zoned \/ phase = "timezone"
      BY <1>1, <2>4, StepsLead
      DEF Order, Zoned, Located, Connected, Resolved, Timed, Served, Exported, Queued
    <3>2. CASE phase = "timezone"
      BY <1>1, <2>0, <3>2, StepsAt DEF StepAt, ConfigureTimezone, SetUp, Settings
    <3> QED BY <2>1, <3>1, <3>2 DEF Settings
  <2>5. ASSUME phase' \in Located PROVE settings'["locale"] = model.locale
    <3>1. phase \in Located \/ phase = "locale"
      BY <1>1, <2>5, StepsLead
      DEF Order, Located, Connected, Resolved, Timed, Served, Exported, Queued
    <3>2. CASE phase = "locale"
      BY <1>1, <2>0, <3>2, StepsAt DEF StepAt, ConfigureLocale, SetUp, Settings
    <3> QED BY <2>1, <3>1, <3>2 DEF Settings
  <2> QED BY <2>2, <2>3, <2>4, <2>5
<1>2. CASE Start \/ Exit \/ Die \/ Reboot
  <2>1. phase' \in {"off", "required"}
    BY <1>2 DEF Start, Exit, Die, Reboot
  <2> QED
    BY <2>1
    DEF Hosted, Closed, Named, Zoned, Located, Connected, Resolved, Timed, Served, Exported, Queued
<1>3. CASE UNCHANGED vars
  BY <1>3 DEF vars, system, model
<1> QED BY <1>1, <1>2, <1>3 DEF Next
\* The addresses that connections have are left alone.
LEMMA AddressesKept ==
  ASSUME Typed, InstallHeadnode, NEW p \in Profiles, addresses[p] # None
  PROVE  addresses'[p] = addresses[p]
<1>1. addresses' = addresses \/ ConfigureConnection
  BY StepDoes DEF Does
<1>2. CASE ConfigureConnection
  BY <1>2 DEF ConfigureConnection, Configured, Typed, SystemOK
<1> QED BY <1>1, <1>2

LEMMA NetworkDoneNext ==
  ASSUME Typed, NetworkDone, [Next]_vars
  PROVE  NetworkDone'
<1> USE DEF NetworkDone
<1>1. CASE InstallHeadnode
  <2>0. /\ model \in Models /\ model' = model /\ run'.dry = run.dry /\ run.lost \subseteq run'.lost
        /\ FileStep /\ files \in [Files -> Seq(Lines) \cup {None}] /\ at \in Nat \ {0}
        /\ addresses \in [Profiles -> {c.address : c \in Connections} \cup {None}]
    BY <1>1, StepDoes DEF Does, Typed, SystemOK, ProgramOK, DiskOK, Runs, model, InstallHeadnode
  <2>1. ASSUME NEW n \in Nat, Connects(model, n) PROVE Connects(model, n)'
    <3> SUFFICES ASSUME NEW i \in 1..Len(model.connections), i < n,
                        model.connections[i].profile # "External"
                 PROVE  addresses'[model.connections[i].profile] # None
      BY <2>0 DEF Connects
    <3>1. model.connections[i].profile \in Profiles
      BY <2>0, ConnectionsOf
    <3>2. addresses[model.connections[i].profile] # None
      BY <2>1 DEF Connects
    <3> QED BY <1>1, <3>1, <3>2, AddressesKept
  <2>2. Len(model.connections) \in Nat
    BY <2>0, HeadnodeAssumption
  <2> SUFFICES ASSUME ~run.dry
               PROVE  /\ phase' = "connection" /\ run'.lost = {} => Connects(model, at)'
                      /\ phase' \in Connected /\ run'.lost = {} => ConnectsAll(model)'
                      /\ phase' = "dns-line" => files'["dns"] = None
                      /\ phase' \in Resolved => files'["dns"] = <<DnsLine>>
    BY <2>0
  <2>3. ASSUME phase' = "connection", run'.lost = {}
        PROVE  Connects(model, at)'
    <3>1. phase \in {"networks", "connection"}
      BY <1>1, <2>3, StepsLead DEF Order
    <3>2. CASE phase = "networks"
      <4>1. at' = 1
        BY <1>1, <3>2, StepsAt DEF StepAt, ConfigureNetworks
      <4> QED BY <4>1, <2>0 DEF Connects
    <3>3. CASE phase = "connection"
      <4>1. ConfigureConnection
        BY <1>1, <2>3, <3>3, StepsAt
        DEF StepAt, LoseConnection, DisableNetworkManagerDNSOverride, From, Typed, ProgramOK, Runs
      <4>2. /\ at' = at + 1 /\ Connects(model, at)
            /\ Connection.profile # "External" => addresses'[Connection.profile] # None
        <5>1. Connection.profile \in Profiles /\ Connection.address # None
          BY <2>0, <4>1, ConnectionsOf DEF ConfigureConnection, Connection
        <5> QED BY <2>0, <2>3, <3>3, <4>1, <5>1 DEF ConfigureConnection, Configured
      <4> SUFFICES ASSUME NEW i \in 1..Len(model.connections), i < at + 1,
                          model.connections[i].profile # "External"
                   PROVE  addresses'[model.connections[i].profile] # None
        BY <2>0, <4>2 DEF Connects
      <4>3. CASE i = at
        BY <4>2, <4>3 DEF Connection
      <4>4. CASE i < at
        BY <2>0, <2>1, <4>2, <4>4 DEF Connects
      <4> QED BY <2>0, <4>3, <4>4
    <3> QED BY <3>1, <3>2, <3>3
  <2>4. ASSUME phase' \in Connected, run'.lost = {}
        PROVE  ConnectsAll(model)'
    <3>1. ConnectsAll(model)
      <4>1. CASE phase \in Connected
        BY <2>0, <2>4, <4>1
      <4>2. CASE phase \notin Connected
        <5>1. phase = "connection" /\ phase' = "dns-remove"
          BY <1>1, <2>4, <4>2, StepsLead
          DEF Order, Connected, Resolved, Timed, Served, Exported, Queued
        <5>2. at > Len(model.connections)
          BY <1>1, <5>1, StepsAt
          DEF StepAt, ConfigureConnection, LoseConnection, DisableNetworkManagerDNSOverride, From
        <5>3. Connects(model, at)
          BY <2>0, <2>4, <5>1
        <5> QED BY <2>0, <2>2, <5>2, <5>3 DEF Connects, ConnectsAll
      <4> QED BY <4>1, <4>2
    <3> QED BY <2>0, <2>1, <2>2, <3>1 DEF ConnectsAll
  <2>5. phase \notin {"dns-remove", "dns-line"} => files'["dns"] = files["dns"]
    BY <2>0 DEF FileStep, Adds, RemoveFile, Files
  <2>6. ASSUME phase' = "dns-line"
        PROVE  files'["dns"] = None
    <3>1. phase = "dns-remove"
      BY <1>1, <2>6, StepsLead DEF Order
    <3> QED BY <1>1, <2>0, <2>6, <3>1, StepsAt DEF StepAt, DisableNetworkManagerDNSOverride, From, RemoveFile, Files
  <2>7. ASSUME phase' \in Resolved
        PROVE  files'["dns"] = <<DnsLine>>
    <3>1. CASE phase \in Resolved
      BY <2>5, <3>1 DEF Resolved, Timed, Served, Exported, Queued
    <3>2. CASE phase \notin Resolved
      <4>1. phase = "dns-line" /\ phase' = "dns-restart"
        BY <1>1, <2>7, <3>2, StepsLead DEF Order, Resolved, Timed, Served, Exported, Queued
      <4>2. Adds("dns", DnsLine) /\ files["dns"] = None
        BY <1>1, <4>1, StepsAt DEF StepAt, DisableNetworkManagerDNSOverride, AddStringToFile, Adds, From
      <4> QED BY <2>0, <4>2, AppendToNothing DEF Adds, WithLine, Occurs, Files
    <3> QED BY <3>1, <3>2
  <2> QED BY <2>3, <2>4, <2>6, <2>7
<1>2. CASE Start \/ Exit \/ Die \/ Reboot
  <2>1. phase' \in {"off", "required"}
    BY <1>2 DEF Start, Exit, Die, Reboot
  <2> QED BY <2>1 DEF Connected, Resolved, Timed, Served, Exported, Queued
<1>3. CASE UNCHANGED vars
  BY <1>3 DEF vars, system, model, Connects, ConnectsAll
<1> QED BY <1>1, <1>2, <1>3 DEF Next

LEMMA TimeDoneNext ==
  ASSUME Typed, TimeDone, [Next]_vars
  PROVE  TimeDone'
<1> USE DEF TimeDone
<1>1. CASE InstallHeadnode
  <2>0. /\ model \in Models /\ model' = model /\ run'.dry = run.dry /\ FileStep /\ at \in Nat \ {0}
        /\ files \in [Files -> Seq(Lines) \cup {None}]
    BY <1>1, StepDoes DEF Does, Typed, ProgramOK, DiskOK, Runs, model, InstallHeadnode
  <2>1. ASSUME NEW n \in Nat, Serves(model, n) PROVE Serves(model, n)'
    <3> SUFFICES ASSUME NEW i \in 1..Len(model.connections), i < n, ServesTime(model.connections[i])
                 PROVE  Occurs(StratumLine, "chrony")' /\ Occurs(AllowLine(model.connections[i]), "chrony")'
      BY <2>0 DEF Serves
    <3>1. Occurs(StratumLine, "chrony") /\ Occurs(AllowLine(model.connections[i]), "chrony")
      BY <2>1 DEF Serves
    <3> QED BY <1>1, <2>0, <3>1, OccursKept
  <2>2. Len(model.connections) \in Nat
    BY <2>0, HeadnodeAssumption
  <2> SUFFICES ASSUME ~run.dry
               PROVE  /\ phase' \in {"stratum", "allow"} => Serves(model, at)'
                      /\ phase' = "allow" => Occurs(StratumLine, "chrony")'
                      /\ phase' \in Served => ServesAll(model)'
    BY <2>0
  <2>3. ASSUME phase' = "allow"
        PROVE  Serves(model, at)' /\ Occurs(StratumLine, "chrony")'
    <3>1. phase = "stratum"
      BY <1>1, <2>3, StepsLead DEF Order
    <3>2. Adds("chrony", StratumLine) /\ at' = at
      BY <1>1, <2>3, <3>1, StepsAt
      DEF StepAt, ConfigureTimeService, BackupFile, AddStringToFile, Adds, From
    <3>3. Occurs(StratumLine, "chrony")'
      BY <3>2, OccursAdded, LinesAdded DEF Files
    <3> QED BY <2>0, <2>1, <3>1, <3>2, <3>3 DEF Serves
  <2>4. ASSUME phase' = "stratum"
        PROVE  Serves(model, at)'
    <3>1. phase \in {"time-backup", "stratum", "allow"}
      BY <1>1, <2>4, StepsLead DEF Order
    <3>2. ConfigureTimeService
      BY <1>1, <3>1, StepsAt DEF StepAt
    <3>3. CASE phase = "time-backup"
      <4>1. at' = 1
        BY <3>2, <3>3 DEF ConfigureTimeService, From
      <4> QED BY <2>0, <4>1 DEF Serves
    <3>4. CASE phase = "stratum"
      <4>1. at' = at + 1 /\ ~ServesTime(Connection)
        BY <2>4, <3>2, <3>4 DEF ConfigureTimeService, BackupFile, From
      <4> QED BY <2>0, <2>1, <3>4, <4>1 DEF Serves, Connection
    <3>5. CASE phase = "allow"
      <4>1. at' = at + 1 /\ Adds("chrony", AllowLine(Connection)) /\ at <= Len(model.connections)
        BY <3>2, <3>5 DEF ConfigureTimeService, BackupFile, AddStringToFile, Adds, From, Typed, LoopOK
      <4>2. Occurs(StratumLine, "chrony")'
        BY <1>1, <3>5, OccursKept
      <4> PICK j \in Nat : j = at
        BY <2>0
      <4> PICK line : line = AllowLine(Connection)
        OBVIOUS
      <4>3. Occurs(line, "chrony")'
        <5>1. line \in Lines
          BY <2>0, <4>1, ConnectionsOf, LinesAdded DEF Connection
        <5> QED BY <4>1, <5>1, OccursAdded DEF Files
      <4>4. line = AllowLine(model.connections[j])
        BY DEF Connection
      <4>5. Serves(model, j)'
        BY <2>0, <2>1, <3>5
      <4>6. at' = j + 1
        BY <4>1
      <4> QED BY <2>0, <4>2, <4>3, <4>4, <4>5, <4>6 DEF Serves
    <3> QED BY <3>1, <3>3, <3>4, <3>5
  <2>5. ASSUME phase' \in Served
        PROVE  ServesAll(model)'
    <3>1. ServesAll(model)
      <4>1. CASE phase \in Served
        BY <4>1
      <4>2. CASE phase \notin Served
        <5>1. phase = "stratum" /\ phase' = "chronyd"
          BY <1>1, <2>5, <4>2, StepsLead DEF Order, Served, Exported, Queued
        <5>2. at > Len(model.connections)
          BY <1>1, <5>1, StepsAt DEF StepAt, ConfigureTimeService, BackupFile, From
        <5> QED BY <2>0, <2>2, <5>1, <5>2 DEF Serves, ServesAll
      <4> QED BY <4>1, <4>2
    <3> QED BY <2>0, <2>1, <2>2, <3>1 DEF ServesAll
  <2> QED BY <2>3, <2>4, <2>5
<1>2. CASE Start \/ Exit \/ Die \/ Reboot
  <2>1. phase' \in {"off", "required"}
    BY <1>2 DEF Start, Exit, Die, Reboot
  <2> QED BY <2>1 DEF Served, Exported, Queued
<1>3. CASE UNCHANGED vars
  BY <1>3 DEF vars, model, Serves, ServesAll, Occurs
<1> QED BY <1>1, <1>2, <1>3 DEF Next
-----------------------------------------------------------------------------
(* A rerun changes nothing                                                  *)

\* What a whole run for m has made of the files that it does not write anew, and of
\* the settings
FilesOf(m) ==
  /\ m.selinux = "disabled" => files["selinux"] = Disabled
  /\ Occurs(HostsLine(m), "hosts") /\ ExportsAll /\ Occurs(MemlockLine, "limits")
  /\ files["chrony"] # None /\ ServesAll(m)

SettingsOf(m) ==
  /\ settings["hostname"] = m.name /\ settings["sshd"] = "without-password"
  /\ settings["timezone"] = m.timezone /\ settings["locale"] = m.locale

Rewritten == {"dns", "slurm"}

\* A run is for a model, and gets to SELinux' and SLURM's configuration when the
\* model says so.
PlaceOK ==
  /\ phase # "off" => model \in Models
  /\ phase = "selinux-value" => model.selinux = "disabled"
  /\ phase \in {"slurm-remove", "slurm-conf", "slurm-enable"} => model.slurm

\* From the end of a whole run on, as long as the runs are for its model, the
\* machine is as that run left it; the files that each run removes and writes anew
\* are so again when they are written.
SettledInv ==
  settled # None =>
    /\ settled.model \in Models /\ (phase # "off" => model = settled.model)
    /\ FilesOf(settled.model) /\ SettingsOf(settled.model) /\ ConnectsAll(settled.model)
    /\ settled.files \in [Files -> Seq(Lines) \cup {None}]
    /\ \A f \in Files \ Rewritten : settled.files[f] = files[f]
    /\ settled.files["dns"] = <<DnsLine>>
    /\ IF settled.model.slurm THEN settled.files["slurm"] = <<SlurmConf(settled.model)>>
       ELSE settled.files["slurm"] = files["slurm"]
    /\ settled.settings = settings /\ settled.addresses = addresses

LEMMA PlaceNext ==
  ASSUME Typed, PlaceOK, [Next]_vars
  PROVE  PlaceOK'
<1> USE DEF PlaceOK
<1>1. CASE InstallHeadnode
  <2>0. model \in Models /\ model' = model
    BY <1>1, StepDoes DEF Does, Typed, ProgramOK, Runs, model, InstallHeadnode
  <2>1. ASSUME phase' = "slurm-remove" PROVE model.slurm
    <3>1. phase = "queue"
      BY <1>1, <2>1, StepsLead DEF Order
    <3> QED BY <1>1, <2>1, <3>1, StepsAt DEF StepAt, SLURMInstallServer
  <2>3. ASSUME phase' = "selinux-value" PROVE model.selinux = "disabled"
    <3>1. phase = "selinux"
      BY <1>1, <2>3, StepsLead DEF Order
    <3> QED BY <1>1, <2>3, <3>1, StepsAt DEF StepAt, ConfigureSELinuxMode, From
  <2>2. phase' \in {"slurm-conf", "slurm-enable"} => phase \in {"slurm-remove", "slurm-conf"}
    BY <1>1, StepsLead DEF Order
  <2> QED BY <2>0, <2>1, <2>2, <2>3
<1>2. CASE Start
  BY <1>2 DEF Start, model
<1>3. CASE Exit \/ Die \/ Reboot
  BY <1>3 DEF Exit, Die, Reboot
<1>4. CASE UNCHANGED vars
  BY <1>4 DEF vars, model
<1> QED BY <1>1, <1>2, <1>3, <1>4 DEF Next

\* A step for the model of the last whole run leaves the files alone that it does
\* not write anew, and the settings.
LEMMA FilesSettled ==
  ASSUME Typed, PlaceOK, InstallHeadnode, FilesOf(model)
  PROVE  \A f \in Files \ Rewritten : files'[f] = files[f]
<1>0. /\ files \in [Files -> Seq(Lines) \cup {None}] /\ files["exports"] # None /\ FileStep
      /\ at \in Nat \ {0} /\ model \in Models
  BY StepDoes DEF Does, Typed, DiskOK, ProgramOK, Runs, model, InstallHeadnode
<1>1. ASSUME NEW f \in Files, NEW line, Adds(f, line), Occurs(line, f)
      PROVE  files' = files
  BY <1>0, <1>1 DEF Adds, WithLine
<1>2. ASSUME at <= Len(model.connections), ServesTime(Connection)
      PROVE  Occurs(StratumLine, "chrony") /\ Occurs(AllowLine(Connection), "chrony")
  <2>1. at \in 1..Len(model.connections) /\ at < Len(model.connections) + 1
    BY <1>0, <1>2, HeadnodeAssumption
  <2> QED BY <1>2, <2>1 DEF FilesOf, ServesAll, Serves, Connection
<1>3. phase = "allow" => at <= Len(model.connections) /\ ServesTime(Connection)
  BY DEF Typed, LoopOK
<1>4. MissingExports = <<>>
  <2>1. \A i \in 1..4 : Missing(ExportLines[i]) = <<>>
    BY DEF FilesOf, ExportsAll, Missing
  <2> QED BY <2>1 DEF MissingExports
<1>5. files["exports"] \o <<>> = files["exports"]
  BY <1>0, ConcatProperties DEF Files
<1>6. CASE phase = "selinux-value"
  <2>1. files["selinux"] = Disabled
    BY <1>6 DEF PlaceOK, FilesOf
  <2> QED BY <1>0, <1>6, <2>1 DEF FileStep, Disabled, Files
<1>7. CASE phase \in {"hosts-line", "stratum", "allow", "limits-line"}
  <2>1. files' = files
    BY <1>0, <1>1, <1>2, <1>3, <1>7 DEF FileStep, FilesOf, Files
  <2> QED BY <2>1
<1>8. CASE phase \in {"dns-remove", "dns-line", "slurm-remove", "slurm-conf"}
  BY <1>0, <1>8 DEF FileStep, Adds, RemoveFile, Rewritten, Files
<1>9. CASE phase \in {"time", "nfs"}
  <2>1. files' = files
    BY <1>0, <1>4, <1>5, <1>9 DEF FileStep, FilesOf, Files
  <2> QED BY <2>1
<1> QED BY <1>0, <1>6, <1>7, <1>8, <1>9 DEF FileStep

LEMMA FilesOfKept ==
  ASSUME NEW m, FilesOf(m), \A f \in Files \ Rewritten : files'[f] = files[f]
  PROVE  FilesOf(m)'
<1>1. \A f \in {"selinux", "hosts", "exports", "limits", "chrony"} : files'[f] = files[f]
  BY DEF Files, Rewritten
<1>2. \A line, f : f \in {"hosts", "exports", "limits", "chrony"} /\ Occurs(line, f) => Occurs(line, f)'
  BY <1>1 DEF Occurs
<1> QED BY <1>1, <1>2 DEF FilesOf, ServesAll, Serves, ExportsAll

LEMMA SettledNext ==
  ASSUME Typed, PlaceOK, FilesDone, SettingsDone, NetworkDone, TimeDone, SlurmInv, SettledInv,
         [Next]_vars
  PROVE  SettledInv'
<1>0. /\ files \in [Files -> Seq(Lines) \cup {None}] /\ run \in Runs
      /\ settings \in [Settings -> Values \cup {None}]
  BY DEF Typed, DiskOK, SystemOK, ProgramOK
<1>1. CASE InstallHeadnode
  <2>0. /\ model \in Models /\ model' = model /\ settled' = settled /\ phase # "off"
        /\ FileStep /\ SettingStep /\ (addresses' = addresses \/ ConfigureConnection)
    <3>1. phase # "off"
      BY <1>1, StepsLead, StepsAt DEF StepAt
    <3> QED BY <1>0, <1>1, <3>1, StepDoes DEF Does, Runs, model, InstallHeadnode
  <2> SUFFICES ASSUME settled # None
               PROVE  SettledInv'
    BY <2>0 DEF SettledInv
  <2>1. model = settled.model
    BY <2>0 DEF SettledInv
  <2>2. \A f \in Files \ Rewritten : files'[f] = files[f]
    BY <1>1, <2>1, FilesSettled DEF SettledInv
  <2>3. FilesOf(model)'
    <3>1. PICK m \in Models : m = model
      BY <2>0
    <3>2. FilesOf(m)'
      BY <2>1, <2>2, <3>1, FilesOfKept DEF SettledInv
    <3> QED BY <2>0, <3>1, <3>2
  <2>4. settings' = settings
    BY <1>0, <2>0, <2>1 DEF SettledInv, SettingsOf, SettingStep, Puts
  <2>5. addresses' = addresses
    <3>1. ASSUME ConfigureConnection PROVE addresses' = addresses
      <4>1. at \in 1..Len(model.connections) /\ at < Len(model.connections) + 1
        BY <2>0, <3>1, HeadnodeAssumption DEF ConfigureConnection, Typed, ProgramOK
      <4>2. Connection.profile # "External" => addresses[Connection.profile] # None
        BY <2>1, <4>1 DEF SettledInv, ConnectsAll, Connects, Connection
      <4> QED BY <3>1, <4>2 DEF ConfigureConnection, Configured
    <3> QED BY <2>0, <3>1
  <2>6. ~model.slurm => files'["slurm"] = files["slurm"]
    BY <1>0, <2>0 DEF FileStep, Adds, RemoveFile, PlaceOK, Files
  <2> QED
    BY <2>0, <2>1, <2>2, <2>3, <2>4, <2>5, <2>6
    DEF SettledInv, SettingsOf, ConnectsAll, Connects
<1>2. CASE Exit /\ Settles
  <2>0. /\ settled' = [model |-> model, files |-> files, settings |-> settings, addresses |-> addresses]
        /\ UNCHANGED <<files, settings, addresses>> /\ phase' = "off"
        /\ phase = "done" /\ ~run.dry /\ run.lost = {} /\ model \in Models
    BY <1>2 DEF Exit, Settles, PlaceOK, system
  <2>1. FilesOf(model)
    <3>1. /\ model.selinux = "disabled" => files["selinux"] = Disabled
          /\ Occurs(HostsLine(model), "hosts") /\ ExportsAll /\ Occurs(MemlockLine, "limits")
          /\ ServesAll(model)
      BY <2>0
      DEF FilesDone, TimeDone, Enforced, Hosted, Closed, Named, Zoned, Located, Connected, Resolved,
          Timed, Served, Exported, Queued, Limited
    <3>2. PICK c \in Range(model.connections) : c.profile = "Management"
      BY <2>0, HeadnodeAssumption
    <3>3. PICK i \in 1..Len(model.connections) : model.connections[i] = c
      BY <2>0, HeadnodeAssumption DEF Range
    <3>4. files["chrony"] # None
      <4>1. i < Len(model.connections) + 1 /\ ServesTime(model.connections[i])
        BY <3>2, <3>3 DEF ServesTime
      <4> QED BY <3>1, <4>1 DEF ServesAll, Serves, Occurs
    <3> QED BY <3>1, <3>4 DEF FilesOf
  <2>2. SettingsOf(model)
    BY <2>0
    DEF SettingsDone, SettingsOf, Hosted, Closed, Named, Zoned, Located, Connected, Resolved, Timed,
        Served, Exported, Queued
  <2>3. ConnectsAll(model) /\ files["dns"] = <<DnsLine>>
    BY <2>0 DEF NetworkDone, Connected, Resolved, Timed, Served, Exported, Queued
  <2>4. model.slurm => files["slurm"] = <<SlurmConf(model)>>
    BY <2>0 DEF SlurmInv, Queued
  <2>5. /\ settled'.model = model /\ settled'.files = files /\ settled'.settings = settings
        /\ settled'.addresses = addresses
    BY <2>0
  <2> QED
    BY <1>0, <2>0, <2>1, <2>2, <2>3, <2>4, <2>5
    DEF SettledInv, FilesOf, ServesAll, Serves, ExportsAll, Occurs, SettingsOf, ConnectsAll, Connects
<1>3. CASE (Exit /\ ~Settles) \/ Die \/ Reboot \/ UNCHANGED vars
  <2>1. /\ UNCHANGED <<files, settings, addresses, settled>>
        /\ phase' = "off" \/ (phase' = phase /\ model' = model)
    BY <1>3 DEF Exit, Die, Reboot, vars, system, model
  <2> QED
    BY <2>1
    DEF SettledInv, FilesOf, ServesAll, Serves, ExportsAll, Occurs, SettingsOf, ConnectsAll, Connects
<1>4. CASE Start
  <2>1. /\ UNCHANGED <<files, settings, addresses>>
        /\ settled' = None \/ (settled' = settled /\ model' = settled.model)
    BY <1>4 DEF Start, system, model
  <2> QED
    BY <2>1
    DEF SettledInv, FilesOf, ServesAll, Serves, ExportsAll, Occurs, SettingsOf, ConnectsAll, Connects
<1> QED BY <1>1, <1>2, <1>3, <1>4 DEF Next

\* However many runs of the same model died, were dry or lost a command in between,
\* a run that comes to its end after a whole one leaves every file, setting and
\* address as that one did (functions.cpp, addStringToFile; network.cpp,
\* configureNetworks).
THEOREM RerunChangesNothing == Spec => []RerunSettles
<1> DEFINE Inv == /\ PlaceOK /\ FilesDone /\ SettingsDone /\ NetworkDone /\ TimeDone
                  /\ SlurmInv /\ SettledInv
<1>1. Init => Inv
  BY DEF Init, PlaceOK, FilesDone, SettingsDone, NetworkDone, TimeDone, SlurmInv, SettledInv, Limited,
         Served, Timed, Resolved, Connected, Located, Zoned, Named, Closed, Hosted, Enforced, Exported,
         Queued
<1>2. Typed /\ Inv /\ [Next]_vars => Inv'
  BY PlaceNext, FilesDoneNext, SettingsDoneNext, NetworkDoneNext, TimeDoneNext, SlurmNext, SettledNext
<1>3. Typed /\ Inv => RerunSettles
  <2> SUFFICES ASSUME Typed, Inv, phase = "done", ~run.dry, settled # None
               PROVE  /\ files = settled.files /\ settings = settled.settings
                      /\ addresses = settled.addresses
    BY DEF RerunSettles
  <2>1. model = settled.model
    BY DEF SettledInv
  <2>2. files["dns"] = <<DnsLine>>
    BY DEF NetworkDone, Resolved, Timed, Served, Exported, Queued
  <2>3. model.slurm => files["slurm"] = <<SlurmConf(model)>>
    BY DEF SlurmInv, Queued
  <2>4. \A f \in Files : files[f] = settled.files[f]
    BY <2>1, <2>2, <2>3 DEF SettledInv, Rewritten
  <2>5. files \in [Files -> Seq(Lines) \cup {None}] /\ settled.files \in [Files -> Seq(Lines) \cup {None}]
    BY DEF Typed, DiskOK, SettledInv
  <2> QED BY <2>4, <2>5 DEF SettledInv
<1> QED BY <1>1, <1>2, <1>3, TypedInit, TypedNext, PTL DEF Spec
-----------------------------------------------------------------------------
(* Addresses and services, while the models agree                           *)

\* The models give a network's connection the same address.
SameAddresses ==
  \A m, n \in Models : \A c \in Range(m.connections), d \in Range(n.connections) :
    c.profile = d.profile => c.address = d.address

AddressInv ==
  \A p \in Profiles : addresses[p] # None =>
    \E m \in Models : \E c \in Range(m.connections) : c.profile = p /\ c.address = addresses[p]

LEMMA AddressNext ==
  ASSUME Typed, AddressInv, [Next]_vars
  PROVE  AddressInv'
<1> USE DEF AddressInv
<1>1. CASE UNCHANGED addresses
  BY <1>1
<1>2. CASE InstallHeadnode
  <2>0. model \in Models /\ at \in Nat \ {0} /\ DOMAIN addresses = Profiles
    BY <1>2 DEF Typed, ProgramOK, SystemOK, Runs, model, InstallHeadnode
  <2>1. CASE ConfigureConnection
    <3>1. Connection \in Range(model.connections)
      BY <2>0, <2>1, ConnectionsOf DEF ConfigureConnection, Connection
    <3>2. \/ UNCHANGED addresses
          \/ addresses' = [addresses EXCEPT ![Connection.profile] = Connection.address]
      BY <2>1 DEF ConfigureConnection
    <3> QED BY <1>1, <2>0, <3>1, <3>2
  <2> QED BY <1>1, <1>2, <2>1, StepDoes DEF Does
<1>3. CASE Start \/ Exit \/ Die \/ Reboot \/ UNCHANGED vars
  BY <1>1, <1>3 DEF Start, Exit, Die, Reboot, vars, system
<1> QED BY <1>2, <1>3 DEF Next

\* Connections are made once and never changed (network.cpp, configureNetworks): as
\* long as the answerfiles of all runs agree on the head node's addresses, a run
\* that lost no command leaves each connection with the address of its model.
THEOREM AddressesGiven ==
  ASSUME SameAddresses
  PROVE  Spec => []AddressesOfModel
<1> DEFINE Inv == PlaceOK /\ NetworkDone /\ AddressInv
<1>1. Init => Inv
  BY DEF Init, PlaceOK, NetworkDone, AddressInv, Connected, Resolved, Timed, Served, Exported, Queued
<1>2. Typed /\ Inv /\ [Next]_vars => Inv'
  BY PlaceNext, NetworkDoneNext, AddressNext
<1>3. Typed /\ Inv => AddressesOfModel
  <2> SUFFICES ASSUME Typed, Inv, phase = "done", ~run.dry, run.lost = {},
                      NEW c \in Range(model.connections), c.profile # "External"
               PROVE  addresses[c.profile] = c.address
    BY DEF AddressesOfModel
  <2>0. model \in Models /\ model.connections \in Seq(Range(model.connections)) /\ c.profile \in Profiles
    BY HeadnodeAssumption DEF PlaceOK
  <2>1. PICK i \in 1..Len(model.connections) : model.connections[i] = c
    BY <2>0 DEF Range
  <2>2. addresses[c.profile] # None
    <3>1. ConnectsAll(model)
      BY DEF NetworkDone, Connected, Resolved, Timed, Served, Exported, Queued
    <3>2. i < Len(model.connections) + 1
      BY <2>0
    <3> QED BY <2>1, <3>1, <3>2 DEF ConnectsAll, Connects
  <2> QED BY <2>0, <2>2 DEF AddressInv, SameAddresses
<1> QED BY <1>1, <1>2, <1>3, TypedInit, TypedNext, PTL DEF Spec

\* The places after chronyd was enabled
Started == {"base", "ofed", "makecache", "compile", "driver", "doca", "nfs"} \cup Exported

\* NetworkManager was restarted after its file was written, and then not again.
NetworkManagerInv ==
  ~run.dry /\ phase \in {"time"} \cup Timed => loaded["NetworkManager"] = <<DnsLine>>

\* chronyd is started when its file has all lines of the model, and then nothing is
\* added to the file.
ChronydInv ==
  /\ "chronyd" \in enabled \/ loaded["chronyd"] # None =>
       files["chrony"] # None /\ \A m \in Models : ServesAll(m)
  /\ loaded["chronyd"] # None => loaded["chronyd"] = files["chrony"]
  /\ ~run.dry /\ run.lost = {} =>
       /\ phase \in Timed => "chrony" \in packages
       /\ phase \in Started => loaded["chronyd"] # None

\* slurmctld is started with a file that was written.
SlurmctldInv ==
  /\ files["slurm"] \in {None, <<>>} \cup {<<SlurmConf(m)>> : m \in Models}
  /\ loaded["slurmctld"] \in {None} \cup {<<SlurmConf(m)>> : m \in Models}
  /\ ~run.dry /\ run.lost = {} =>
       /\ phase \in {"slurm-remove", "slurm-conf", "slurm-enable"} => "slurm" \in packages
       /\ phase \in Queued /\ model.slurm => loaded["slurmctld"] # None

LEMMA NetworkManagerNext ==
  ASSUME Typed, NetworkDone, NetworkManagerInv, [Next]_vars
  PROVE  NetworkManagerInv'
<1> USE DEF NetworkManagerInv
<1>1. CASE InstallHeadnode
  <2>0. run'.dry = run.dry /\ ServiceStep /\ loaded \in [Services -> Seq(Lines) \cup {None}]
    BY <1>1, StepDoes DEF Does, Typed, ServicesOK
  <2> SUFFICES ASSUME ~run.dry, phase' \in {"time"} \cup Timed
               PROVE  loaded'["NetworkManager"] = <<DnsLine>>
    BY <2>0
  <2>1. CASE phase \in {"time"} \cup Timed
    <3>1. loaded'["NetworkManager"] = loaded["NetworkManager"]
      BY <2>0, <2>1 DEF ServiceStep, EnableService, Timed, Served, Exported, Queued, Services
    <3> QED BY <2>1, <3>1
  <2>2. CASE phase \notin {"time"} \cup Timed
    <3>1. phase = "dns-restart" /\ phase' = "time"
      BY <1>1, <2>2, StepsLead DEF Order, Timed, Served, Exported, Queued
    <3>2. RestartService("NetworkManager")
      BY <1>1, <3>1, StepsAt DEF StepAt, DisableNetworkManagerDNSOverride, From
    <3>3. files["dns"] = <<DnsLine>>
      BY <3>1 DEF NetworkDone, Resolved
    <3>4. Read("NetworkManager") = <<DnsLine>>
      BY <3>3, LinesAdded, OneLine, NoneAssumption DEF Read, ConfOf
    <3> QED BY <2>0, <3>2, <3>4 DEF RestartService, Services
  <2> QED BY <2>1, <2>2
<1>2. CASE Start \/ Exit \/ Die \/ Reboot
  <2>1. phase' \in {"off", "required"}
    BY <1>2 DEF Start, Exit, Die, Reboot
  <2> QED BY <2>1 DEF Timed, Served, Exported, Queued
<1>3. CASE UNCHANGED vars
  BY <1>3 DEF vars, system
<1> QED BY <1>1, <1>2, <1>3 DEF Next
OneModel == \A m, n \in Models : m = n

\* A model has a network whose nodes are served the time.
LEMMA ServesSome ==
  ASSUME NEW m \in Models, ServesAll(m)
  PROVE  files["chrony"] # None
<1>1. m.connections \in Seq(Range(m.connections))
  BY HeadnodeAssumption
<1>2. PICK c \in Range(m.connections) : c.profile = "Management"
  BY HeadnodeAssumption
<1>3. PICK i \in 1..Len(m.connections) : m.connections[i] = c
  BY <1>1 DEF Range
<1>4. i < Len(m.connections) + 1 /\ ServesTime(m.connections[i])
  BY <1>1, <1>2, <1>3 DEF ServesTime
<1> QED BY <1>4 DEF ServesAll, Serves, Occurs

\* A run for a model whose lines are there leaves chrony.conf alone.
LEMMA ChronyKept ==
  ASSUME Typed, InstallHeadnode, ServesAll(model)
  PROVE  files'["chrony"] = files["chrony"]
<1>0. /\ files \in [Files -> Seq(Lines) \cup {None}] /\ FileStep
      /\ at \in Nat \ {0} /\ model \in Models
  BY StepDoes DEF Does, Typed, DiskOK, ProgramOK, Runs, model, InstallHeadnode
<1>1. ASSUME NEW line, Adds("chrony", line), Occurs(line, "chrony")
      PROVE  files' = files
  BY <1>0, <1>1 DEF Adds, WithLine, Files
<1>2. ASSUME at <= Len(model.connections), ServesTime(Connection)
      PROVE  Occurs(StratumLine, "chrony") /\ Occurs(AllowLine(Connection), "chrony")
  <2>1. at \in 1..Len(model.connections) /\ at < Len(model.connections) + 1
    BY <1>0, <1>2, HeadnodeAssumption
  <2> QED BY <1>2, <2>1 DEF ServesAll, Serves, Connection
<1>3. phase = "allow" => at <= Len(model.connections) /\ ServesTime(Connection)
  BY DEF Typed, LoopOK
<1>4. files["chrony"] # None
  BY <1>0, ServesSome
<1>5. CASE phase \in {"stratum", "allow", "time"}
  BY <1>0, <1>1, <1>2, <1>3, <1>4, <1>5 DEF FileStep
<1>6. CASE phase \notin {"stratum", "allow", "time"}
  BY <1>0, <1>6 DEF FileStep, Adds, RemoveFile, Files
<1> QED BY <1>5, <1>6

LEMMA ChronydNext ==
  ASSUME Typed, OneModel, PlaceOK, TimeDone, ChronydInv, [Next]_vars
  PROVE  ChronydInv'
<1> USE DEF ChronydInv
<1>0. files \in [Files -> Seq(Lines) \cup {None}] /\ loaded \in [Services -> Seq(Lines) \cup {None}]
  BY DEF Typed, DiskOK, ServicesOK
<1>1. CASE InstallHeadnode
  <2>0. /\ model \in Models /\ model' = model /\ run'.dry = run.dry /\ run.lost \subseteq run'.lost
        /\ ServiceStep /\ packages \subseteq packages'
    BY <1>1, StepDoes DEF Does, Typed, ProgramOK, Runs, model, InstallHeadnode
  <2>1. ServesAll(model) => files'["chrony"] = files["chrony"] /\ ServesAll(model)'
    <3>1. PICK m \in Models : m = model
      BY <2>0
    <3>2. ServesAll(m) => files'["chrony"] = files["chrony"]
      BY <1>1, <3>1, ChronyKept
    <3>3. files'["chrony"] = files["chrony"] /\ ServesAll(m) => ServesAll(m)'
      BY DEF ServesAll, Serves, Occurs
    <3> QED BY <2>0, <3>1, <3>2, <3>3
  <2>2. ASSUME EnableService("chronyd"), phase = "chronyd"
        PROVE  /\ "chronyd" \in enabled' \/ loaded'["chronyd"] # None => ServesAll(model)
               /\ loaded'["chronyd"] # None => loaded'["chronyd"] = files["chrony"]
    <3>1. ~run.dry => ServesAll(model) /\ Read("chronyd") = files["chrony"]
      <4>1. ~run.dry => ServesAll(model)
        BY <2>2 DEF TimeDone, Served
      <4> QED BY <2>0, <4>1, ServesSome DEF Read, ConfOf
    <3>2. \/ run.dry /\ UNCHANGED <<enabled, loaded>>
          \/ ~run.dry /\ (loaded' = loaded \/ loaded' = [loaded EXCEPT !["chronyd"] = Read("chronyd")])
      BY <2>2 DEF EnableService
    <3> QED BY <1>0, <2>0, <3>1, <3>2 DEF Services
  <2>3. /\ "chronyd" \in enabled' \/ loaded'["chronyd"] # None => ServesAll(model)
        /\ loaded'["chronyd"] # None => loaded'["chronyd"] = files["chrony"]
    <3>1. CASE phase = "chronyd"
      BY <2>0, <2>2, <3>1 DEF ServiceStep
    <3>2. CASE phase # "chronyd"
      <4>1. loaded'["chronyd"] = loaded["chronyd"] /\ ("chronyd" \in enabled' => "chronyd" \in enabled)
        BY <1>0, <2>0, <3>2 DEF ServiceStep, EnableService, RestartService, Services
      <4> QED BY <2>0, <4>1
    <3> QED BY <3>1, <3>2
  <2>4. /\ "chronyd" \in enabled' \/ loaded'["chronyd"] # None =>
             files'["chrony"] # None /\ \A m \in Models : ServesAll(m)'
        /\ loaded'["chronyd"] # None => loaded'["chronyd"] = files'["chrony"]
    <3>1. "chronyd" \in enabled' \/ loaded'["chronyd"] # None =>
            /\ ServesAll(model)' /\ files'["chrony"] = files["chrony"] /\ files["chrony"] # None
      BY <2>0, <2>1, <2>3, ServesSome
    <3>2. \A m \in Models : m = model'
      BY <2>0 DEF OneModel
    <3> QED BY <2>3, <3>1, <3>2
  <2>5. ASSUME ~run'.dry, run'.lost = {}, phase' \in Timed
        PROVE  "chrony" \in packages'
    <3>1. CASE phase \in Timed
      BY <2>0, <2>5, <3>1
    <3>2. CASE phase \notin Timed
      <4>1. phase = "time" /\ phase' = "time-backup"
        BY <1>1, <2>5, <3>2, StepsLead DEF Order, Timed, Served, Exported, Queued
      <4>2. InstallChrony
        BY <1>1, <2>5, <4>1, StepsAt DEF StepAt, Drops, Typed, ProgramOK, Runs
      <4> QED BY <2>0, <2>5, <4>2 DEF InstallChrony, Install
    <3> QED BY <3>1, <3>2
  <2>6. ASSUME ~run'.dry, run'.lost = {}, phase' \in Started
        PROVE  loaded'["chronyd"] # None
    <3>1. CASE phase \in Started
      <4>1. loaded'["chronyd"] = loaded["chronyd"]
        BY <1>0, <2>0, <3>1 DEF ServiceStep, EnableService, RestartService, Services, Started, Exported, Queued
      <4> QED BY <2>0, <2>6, <3>1, <4>1
    <3>2. CASE phase \notin Started
      <4>1. phase = "chronyd" /\ phase' = "base"
        BY <1>1, <2>6, <3>2, StepsLead DEF Order, Started, Exported, Queued
      <4>2. EnableService("chronyd")
        BY <1>1, <2>6, <4>1, StepsAt DEF StepAt, EnableChronyd, Drops, Typed, ProgramOK, Runs
      <4>3. Starts("chronyd")
        BY <2>0, <2>6, <4>1 DEF Starts, Installed, Timed, Served
      <4>4. Read("chronyd") # None
        BY ReadTyped, NoneAssumption DEF Typed, Services
      <4> QED BY <1>0, <2>0, <2>6, <4>2, <4>3, <4>4 DEF EnableService, Services
    <3> QED BY <3>1, <3>2
  <2> QED BY <2>4, <2>5, <2>6
<1>2. CASE Start \/ Exit \/ Die \/ UNCHANGED vars
  <2>1. /\ UNCHANGED <<files, enabled, loaded, packages>>
        /\ phase' \in {"off", "required"} \/ UNCHANGED <<phase, run>>
    BY <1>2 DEF Start, Exit, Die, vars, system
  <2> QED BY <2>1 DEF ServesAll, Serves, Occurs, Timed, Served, Started, Exported, Queued
<1>3. CASE Reboot
  <2>1. /\ UNCHANGED <<files, enabled>> /\ phase' = "off"
        /\ loaded'["chronyd"] # None =>
             loaded'["chronyd"] = Read("chronyd") /\ "chronyd" \in enabled
    BY <1>3 DEF Reboot, Services
  <2>2. files["chrony"] # None => Read("chronyd") = files["chrony"]
    BY DEF Read, ConfOf
  <2> QED BY <2>1, <2>2 DEF ServesAll, Serves, Occurs, Timed, Served, Started, Exported, Queued
<1> QED BY <1>1, <1>2, <1>3 DEF Next
LEMMA SlurmctldNext ==
  ASSUME Typed, OneModel, PlaceOK, SlurmInv, SlurmctldInv, [Next]_vars
  PROVE  SlurmctldInv'
<1> USE DEF SlurmctldInv
<1>0. files \in [Files -> Seq(Lines) \cup {None}] /\ loaded \in [Services -> Seq(Lines) \cup {None}]
  BY DEF Typed, DiskOK, ServicesOK
<1>1. CASE InstallHeadnode
  <2>0. /\ model \in Models /\ model' = model /\ run'.dry = run.dry /\ run.lost \subseteq run'.lost
        /\ FileStep /\ ServiceStep /\ packages \subseteq packages'
    BY <1>1, StepDoes DEF Does, Typed, ProgramOK, Runs, model, InstallHeadnode
  <2>1. files'["slurm"] \in {None, <<>>} \cup {<<SlurmConf(m)>> : m \in Models}
    <3>1. CASE phase = "slurm-conf"
      <4>1. files'["slurm"] = files["slurm"] \/ files'["slurm"] = WithLine("slurm", SlurmConf(model))
        BY <1>0, <2>0, <3>1 DEF FileStep, Adds, Files
      <4>2. ASSUME files["slurm"] = <<SlurmConf(model)>> PROVE Occurs(SlurmConf(model), "slurm")
        <5>1. files["slurm"] # None
          BY <2>0, <4>2, LinesAdded, OneLine, NoneAssumption
        <5>2. 1 \in DOMAIN files["slurm"] /\ files["slurm"][1] = SlurmConf(model)
          BY <4>2
        <5> QED BY <5>1, <5>2 DEF Occurs
      <4>3. WithLine("slurm", SlurmConf(model)) \in {files["slurm"], <<>>, <<SlurmConf(model)>>}
        <5>1. files["slurm"] \in {None, <<>>, <<SlurmConf(model)>>}
          BY <2>0 DEF OneModel
        <5> QED BY <4>2, <5>1, AppendToNothing DEF WithLine
      <4> QED BY <2>0, <4>1, <4>3
    <3>2. CASE phase # "slurm-conf"
      <4>1. files'["slurm"] = files["slurm"] \/ files'["slurm"] = None
        BY <1>0, <2>0, <3>2 DEF FileStep, Adds, RemoveFile, Files
      <4> QED BY <4>1
    <3> QED BY <3>1, <3>2
  <2>2. loaded'["slurmctld"] # loaded["slurmctld"] =>
          EnableService("slurmctld") /\ Starts("slurmctld") /\ loaded'["slurmctld"] = files["slurm"]
    BY <1>0, <2>0 DEF ServiceStep, EnableService, RestartService, Services, Starts, Read, ConfOf
  <2>3. loaded'["slurmctld"] \in {None} \cup {<<SlurmConf(m)>> : m \in Models}
    BY <2>2 DEF Starts
  <2>4. ASSUME ~run'.dry, run'.lost = {}, phase' \in {"slurm-remove", "slurm-conf", "slurm-enable"}
        PROVE  "slurm" \in packages'
    <3>1. CASE phase \in {"slurm-remove", "slurm-conf", "slurm-enable"}
      BY <2>0, <2>4, <3>1
    <3>2. CASE phase \notin {"slurm-remove", "slurm-conf", "slurm-enable"}
      <4>1. phase = "queue" /\ phase' = "slurm-remove"
        BY <1>1, <2>4, <3>2, StepsLead DEF Order
      <4>2. SLURMInstallServer
        BY <1>1, <2>4, <4>1, StepsAt DEF StepAt, Drops, Typed, ProgramOK, Runs
      <4> QED BY <2>0, <2>4, <4>1, <4>2 DEF SLURMInstallServer, Install
    <3> QED BY <3>1, <3>2
  <2>5. ASSUME ~run'.dry, run'.lost = {}, phase' \in Queued, model.slurm
        PROVE  loaded'["slurmctld"] # None
    <3>1. CASE phase \in Queued
      <4>1. loaded'["slurmctld"] = loaded["slurmctld"]
        BY <1>0, <2>0, <3>1 DEF ServiceStep, EnableService, RestartService, Services, Queued
      <4> QED BY <2>0, <2>5, <3>1, <4>1
    <3>2. CASE phase \notin Queued
      <4>1. phase = "slurm-enable" /\ phase' = "mail"
        <5>1. phase = "queue" => phase' # "mail"
          BY <1>1, <2>5, StepsAt DEF StepAt, SLURMInstallServer, Drops, From
        <5> QED BY <1>1, <2>5, <3>2, <5>1, StepsLead DEF Order, Queued
      <4>2. EnableService("slurmctld")
        BY <1>1, <2>5, <4>1, StepsAt DEF StepAt, SLURMEnableServer, Drops, Typed, ProgramOK, Runs
      <4>3. files["slurm"] = <<SlurmConf(model)>> /\ files["slurm"] \notin {None, <<>>}
        <5>1. files["slurm"] = <<SlurmConf(model)>>
          BY <2>0, <2>5, <4>1 DEF SlurmInv
        <5>2. <<SlurmConf(model)>> \in Seq(Lines)
          BY <2>0, LinesAdded, OneLine
        <5>3. \A e : <<e>> # <<>>
          OBVIOUS
        <5> QED BY <5>1, <5>2, <5>3, NoneAssumption
      <4>4. Starts("slurmctld") /\ Read("slurmctld") # None
        BY <2>0, <2>5, <4>1, <4>3 DEF Starts, Installed, Read, ConfOf
      <4> QED BY <1>0, <2>0, <2>5, <4>2, <4>4 DEF EnableService, Services
    <3> QED BY <3>1, <3>2
  <2> QED BY <2>0, <2>1, <2>3, <2>4, <2>5
<1>2. CASE Start \/ Exit \/ Die \/ UNCHANGED vars
  <2>1. /\ UNCHANGED <<files, loaded, packages>>
        /\ phase' \in {"off", "required"} \/ UNCHANGED <<phase, run>>
    BY <1>2 DEF Start, Exit, Die, vars, system
  <2> QED BY <2>1 DEF Queued, model
<1>3. CASE Reboot
  <2>1. /\ UNCHANGED files /\ phase' = "off"
        /\ loaded'["slurmctld"] # None =>
             Starts("slurmctld") /\ loaded'["slurmctld"] = Read("slurmctld")
    BY <1>3 DEF Reboot, Services
  <2>2. Starts("slurmctld") => Read("slurmctld") \in {<<SlurmConf(m)>> : m \in Models}
    BY DEF Starts, Read, ConfOf
  <2> QED BY <2>1, <2>2 DEF Queued
<1> QED BY <1>1, <1>2, <1>3 DEF Next

\* Services are started and never restarted but for NetworkManager (osservice.cpp,
\* enableService): on a machine where chronyd was not running before, and while all
\* runs are for one model, a run that lost no command still ends with each service
\* running on its file as it is now, wherever earlier runs died.
THEOREM ServicesRunTheirFiles ==
  ASSUME OneModel, ~ChronydRuns
  PROVE  Spec => []ServicesCurrent
<1> DEFINE Inv == /\ PlaceOK /\ TimeDone /\ NetworkDone /\ SlurmInv
                  /\ NetworkManagerInv /\ ChronydInv /\ SlurmctldInv
<1> USE DEF Timed, Served, Started, Exported, Queued, Connected, Resolved
<1>1. Init => Inv
  BY DEF Init, PlaceOK, TimeDone, NetworkDone, SlurmInv, NetworkManagerInv, ChronydInv, SlurmctldInv,
         Original, Files, Services
<1>2. Typed /\ Inv /\ [Next]_vars => Inv'
  BY PlaceNext, TimeDoneNext, NetworkDoneNext, SlurmNext, NetworkManagerNext, ChronydNext, SlurmctldNext
<1>3. Typed /\ Inv => ServicesCurrent
  <2> SUFFICES ASSUME Typed, Inv, phase = "done", ~run.dry, run.lost = {}
               PROVE  /\ loaded["NetworkManager"] = files["dns"] /\ loaded["chronyd"] = files["chrony"]
                      /\ model.slurm => loaded["slurmctld"] = files["slurm"]
    BY DEF ServicesCurrent, ConfOf
  <2>1. loaded["NetworkManager"] = files["dns"]
    BY DEF NetworkManagerInv, NetworkDone
  <2>2. loaded["chronyd"] = files["chrony"]
    BY DEF ChronydInv
  <2>3. ASSUME model.slurm PROVE loaded["slurmctld"] = files["slurm"]
    <3>1. files["slurm"] = <<SlurmConf(model)>> /\ model \in Models
      BY <2>3 DEF SlurmInv, PlaceOK
    <3>2. PICK m \in Models : loaded["slurmctld"] = <<SlurmConf(m)>>
      BY <2>3 DEF SlurmctldInv
    <3> QED BY <3>1, <3>2 DEF OneModel
  <2> QED BY <2>1, <2>2, <2>3
<1> QED BY <1>1, <1>2, <1>3, TypedInit, TypedNext, PTL DEF Spec
=============================================================================
