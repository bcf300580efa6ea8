------------------------------ MODULE Headnode ------------------------------
(***************************************************************************)
(* The head node's part of Shell::install, services/shell.cpp, with the    *)
(* parts it calls: OFED::install, NFS::installScript, SLURM and the file   *)
(* operations of functions.cpp.  A run edits configuration files, installs *)
(* packages and starts services; it may die between any two of these, and  *)
(* the program may be run again, on a rebooted machine, for another model  *)
(* of the cluster, or dry.  What a file looked like, what a service has    *)
(* loaded and what the model says are related by the order of the steps.   *)
(***************************************************************************)
EXTENDS Naturals, FiniteSets, SequencesExt

CONSTANTS
  Models,        \* models of the cluster that the program is run for
  Commented,     \* does the package's chrony.conf have "#local stratum 10"?
  ChronydRuns,   \* did chronyd run before the first run?
  Dries,         \* is --dry given?
  Forces,        \* is --force infiniband-install given?
  Skips,         \* is --skip compile-doca-driver given?
  MayFail,       \* commands that may fail
  MaxRuns,       \* bound: how many times the program is started
  None           \* no such file, address or configuration

Profiles == {"External", "Management", "Application", "Service"}
Services == {"NetworkManager", "chronyd", "slurmctld"}
Files == {"selinux", "hosts", "dns", "chrony", "exports", "slurm", "limits"}
BackedUp == {"selinux", "hosts", "chrony", "limits"}
Packages == {"required", "chrony", "ohpc-base", "slurm", "nfs-utils", "@infiniband", "kernel",
             "doca-driver", "doca-ofed", "postfix", "development"}
Settings == {"hostname", "sshd", "timezone", "locale"}
Commands == {"firewall", "nmcli", "chrony", "systemctl", "group", "kernel", "compile", "driver",
             "doca", "nfs", "slurm"}

ASSUME HeadnodeAssumption ==
  /\ None \notin Models
  /\ \A m \in Models :
       /\ m.selinux \in {"permissive", "enforcing", "disabled"}
       /\ m.firewall \in BOOLEAN /\ m.slurm \in BOOLEAN /\ m.update \in BOOLEAN
       /\ m.mail \in BOOLEAN
       /\ m.ofed \in {"none", "inbox", "mellanox", "oracle"}
       /\ m.connections \in Seq(Range(m.connections))
       /\ \A c \in Range(m.connections) : c.profile \in Profiles /\ c.address # None
       \* Cluster::fillData adds one connection for each network.
       /\ \A c, d \in Range(m.connections) : c.profile = d.profile => c = d
       /\ \E c \in Range(m.connections) : c.profile = "Management"
       /\ m.firewall /\ m.ofed # "none" =>
            \E c \in Range(m.connections) : c.profile = "Application"
  /\ Commented \in BOOLEAN /\ ChronydRuns \in BOOLEAN
  /\ Dries \subseteq BOOLEAN /\ Forces \subseteq BOOLEAN /\ Skips \subseteq BOOLEAN
  /\ MayFail \subseteq Commands
  /\ MaxRuns \in Nat

VARIABLES
  \* the machine: it survives the program
  files,        \* lines of each configuration file, or None
  backups,      \* what is below installPath/backup: a file with its lines
  packages,     \* installed packages
  directories,  \* /etc/slurm, and /tmp/DOCA* with a compiled driver
  settings,     \* host name, root's login, time zone and locale, or None
  addresses,    \* address of NetworkManager's connection of each profile, or None
  firewall,     \* firewalld: is it enabled, and its permanent rules
  enabled,      \* services started at boot
  loaded,       \* the lines each running service has read, or None
  \* the running program
  phase, run,
  at,           \* connection that configureNetworks or configureTimeService is at
  settled       \* model, files and addresses of the last whole run, as long
                \* as no run with another model was started

system == <<packages, directories, settings, addresses, firewall, enabled, loaded>>
vars == <<files, backups, system, phase, run, at, settled>>

-----------------------------------------------------------------------------
(* Lines of the configuration files                                         *)

Line(text, value) == [text |-> text, value |-> value, comment |-> FALSE]
Comment(text, value) == [text |-> text, value |-> value, comment |-> TRUE]

Address(m, profile) ==
  (CHOOSE c \in Range(m.connections) : c.profile = profile).address

HostsLine(m) == Line("headnode", Address(m, "Management"))
DnsLine == Line("dns", "none")
StratumLine == Line("local-stratum", "10")
AllowLine(c) == Line("allow", c.address)
SlurmConf(m) == Line("slurm.conf", m.name)
MemlockLine == Line("memlock", "unlimited")
ExportLines == <<Line("export", "/home"), Line("export", "/opt/ohpc/pub"),
                 Line("export", "/tftpboot"), Line("export", "/install")>>

Shipped(package) ==
  CASE package = "chrony" /\ Commented -> <<Line("pool", "none"), Comment("local-stratum", "10")>>
    [] package = "chrony" /\ ~Commented -> <<Line("pool", "none")>>

Original(f) ==
  CASE f = "selinux" -> <<Line("SELINUX", "enforcing")>>
    [] f = "hosts" -> <<Line("localhost", "127.0.0.1")>>
    [] f = "chrony" -> IF ChronydRuns THEN Shipped("chrony") ELSE None
    [] f = "exports" -> <<>>
    [] f = "limits" -> <<Comment("End", "none")>>
    [] OTHER -> None

\* The lines that the program adds, and those of the packages' files
Connections == UNION {Range(m.connections) : m \in Models}
OwnLines ==
  {HostsLine(m) : m \in Models} \cup {SlurmConf(m) : m \in Models}
    \cup {AllowLine(c) : c \in Connections} \cup {ExportLines[i] : i \in 1..4}
    \cup {DnsLine, StratumLine, MemlockLine, Line("SELINUX", "disabled")}
ShippedLines ==
  {Line("SELINUX", "enforcing"), Line("localhost", "127.0.0.1"), Comment("End", "none"),
   Line("pool", "none"), Comment("local-stratum", "10")}
Lines == OwnLines \cup ShippedLines

\* None is not the lines of a file.
ASSUME NoneAssumption == None \notin Seq(Lines)

ConfOf(s) ==
  CASE s = "NetworkManager" -> "dns" [] s = "chronyd" -> "chrony" [] s = "slurmctld" -> "slurm"

Read(s) == IF files[ConfOf(s)] = None THEN <<>> ELSE files[ConfOf(s)]

Installed(s) ==
  CASE s = "NetworkManager" -> TRUE
    [] s = "chronyd" -> "chrony" \in packages
    [] s = "slurmctld" -> "slurm" \in packages

\* slurmctld does not start without its file, nor with the empty one that a dry run
\* may have left.
Starts(s) == Installed(s) /\ (s = "slurmctld" => files["slurm"] \notin {None, <<>>})

\* std::string::find also finds a line in its commented form.
Occurs(line, f) ==
  files[f] # None /\ \E i \in DOMAIN files[f] :
    files[f][i].text = line.text /\ files[f][i].value = line.value

-----------------------------------------------------------------------------
(* States                                                                   *)

\* Between two runs only their number is remembered.
Between(number) ==
  [number |-> number, model |-> None, dry |-> FALSE, force |-> FALSE, skip |-> FALSE,
   lost |-> {}]

Runs == [number : 0..MaxRuns, model : (Models \cup {None}), dry : BOOLEAN, force : BOOLEAN,
         skip : BOOLEAN, lost : SUBSET MayFail]

Phases ==
  {"off", "required", "update", "selinux", "selinux-value", "firewall", "hostname", "sshd",
   "hosts", "hosts-line", "timezone", "locale", "networks", "connection", "dns-remove",
   "dns-line", "dns-restart", "time", "time-backup", "stratum", "allow", "chronyd", "base",
   "ofed", "makecache", "compile", "driver", "doca", "nfs", "queue", "slurm-remove",
   "slurm-conf", "slurm-enable", "mail", "main.cf", "limits", "limits-line", "development",
   "done", "failed"}

Values ==
  {m.name : m \in Models} \cup {m.timezone : m \in Models} \cup {m.locale : m \in Models}
    \cup {"without-password"}

TypeOK ==
  /\ files \in [Files -> Seq(Lines) \cup {None}]
  /\ \A b \in backups : b.file \in BackedUp /\ b.lines # None
  /\ packages \subseteq Packages
  /\ directories \subseteq {"/etc/slurm", "/tmp/DOCA"}
  /\ settings \in [Settings -> Values \cup {None}]
  /\ addresses \in [Profiles -> {c.address : c \in Connections} \cup {None}]
  /\ addresses["External"] = None
  /\ firewall \in [on : BOOLEAN, trusted : SUBSET Profiles, nfs : BOOLEAN]
  /\ enabled \subseteq Services
  /\ loaded \in [Services -> Seq(Lines) \cup {None}]
  /\ phase \in Phases /\ run \in Runs
  /\ at \in Nat \ {0}

Init ==
  /\ files = [f \in Files |-> Original(f)]
  /\ backups = {}
  /\ packages = IF ChronydRuns THEN {"chrony"} ELSE {}
  /\ directories = {}
  /\ settings = [k \in Settings |-> None]
  /\ addresses = [p \in Profiles |-> None]
  /\ firewall = [on |-> TRUE, trusted |-> {}, nfs |-> FALSE]
  /\ enabled = {"NetworkManager"} \cup (IF ChronydRuns THEN {"chronyd"} ELSE {})
  /\ loaded = [s \in Services |-> IF s \in enabled THEN Read(s) ELSE None]
  /\ phase = "off" /\ run = Between(0) /\ at = 1 /\ settled = None

model == run.model

Start ==
  /\ phase = "off" /\ run.number < MaxRuns
  /\ \E m \in Models, d \in Dries, f \in Forces, s \in Skips :
       /\ run' = [number |-> run.number + 1, model |-> m, dry |-> d, force |-> f,
                  skip |-> s, lost |-> {}]
       /\ settled' = IF settled # None /\ settled.model = m THEN settled ELSE None
  /\ phase' = "required"
  /\ UNCHANGED <<files, backups, system, at>>

From(p, q) == phase = p /\ phase' = q

-----------------------------------------------------------------------------
(* The file operations of functions.cpp                                     *)

\* Mutant: the copy gets the same name each time.
BackupFileLatest(p, q, f) ==
  /\ IF run.dry \/ files[f] # None THEN From(p, q) ELSE From(p, "failed")
  /\ backups' = IF run.dry \/ files[f] = None THEN backups
                ELSE {b \in backups : b.file # f} \cup {[file |-> f, lines |-> files[f]]}
  /\ UNCHANGED <<files, system, run, settled>>

\* Mutant: copy_file throws when an earlier copy has the name.
BackupFileOnce(p, q, f) ==
  /\ IF run.dry \/ (files[f] # None /\ \A b \in backups : b.file # f)
     THEN From(p, q) ELSE From(p, "failed")
  /\ backups' = IF run.dry \/ files[f] = None THEN backups
                ELSE backups \cup {[file |-> f, lines |-> files[f]]}
  /\ UNCHANGED <<files, system, run, settled>>

\* The copy gets a name with the time, which no earlier copy has; copy_file
\* throws when there is nothing to copy.
BackupFile(p, q, f) ==
  /\ IF run.dry \/ files[f] # None THEN From(p, q) ELSE From(p, "failed")
  /\ backups' = IF run.dry \/ files[f] = None THEN backups
                ELSE backups \cup {[file |-> f, lines |-> files[f]]}
  /\ UNCHANGED <<files, system, run, settled>>

\* Mutant: the file is left alone.
RemoveFileNever(f) == files' = files

\* Mutant: --dry is not asked for.
RemoveFileDry(f) == files' = [files EXCEPT ![f] = None]

RemoveFile(f) == files' = IF run.dry THEN files ELSE [files EXCEPT ![f] = None]

CreateDirectory(d) == directories' = IF run.dry THEN directories ELSE directories \cup {d}

\* Mutant: the line is added whether it is there or not.
WithLineAlways(f, line) ==
  LET now == IF files[f] = None THEN <<>> ELSE files[f]
  IN IF run.dry THEN now ELSE Append(now, line)

\* The file with the lines that addStringToFile leaves in it.  A dry run has
\* opened the file, and by that created it, before it returns; only a directory
\* that is not there keeps it from that.
WithLine(f, line) ==
  LET now == IF files[f] = None THEN <<>> ELSE files[f]
  IN CASE Occurs(line, f) -> files[f]
       [] ~Occurs(line, f) /\ ~run.dry -> Append(now, line)
       [] OTHER -> IF f = "slurm" /\ "/etc/slurm" \notin directories THEN files[f] ELSE now

AddStringToFile(f, line) ==
  /\ files' = [files EXCEPT ![f] = WithLine(f, line)]
  /\ UNCHANGED <<backups, system, run, settled>>

-----------------------------------------------------------------------------
(* Commands, which a dry run does not execute                               *)

\* Mutant: enable without --now.
EnableServiceLater(s) ==
  /\ enabled' = IF run.dry \/ ~Installed(s) THEN enabled ELSE enabled \cup {s}
  /\ UNCHANGED loaded

\* enable --now, and start, leave a running service alone.
EnableService(s) ==
  /\ enabled' = IF run.dry \/ ~Installed(s) THEN enabled ELSE enabled \cup {s}
  /\ loaded' = IF ~run.dry /\ loaded[s] = None /\ Starts(s)
               THEN [loaded EXCEPT ![s] = Read(s)] ELSE loaded

RestartService(s) ==
  loaded' = IF run.dry THEN loaded ELSE [loaded EXCEPT ![s] = Read(s)]

\* dnf -y install; a file that is there is kept.
Install(names) == packages' = IF run.dry THEN packages ELSE packages \cup names

\* The exit code of c is dropped.
Drops(p, q, c) ==
  /\ From(p, q) /\ c \in MayFail /\ ~run.dry
  /\ run' = [run EXCEPT !.lost = @ \cup {c}]
  /\ UNCHANGED <<files, backups, system, at, settled>>

\* checkCommand throws.
Throws(p, c) ==
  /\ From(p, "failed") /\ c \in MayFail
  /\ UNCHANGED <<files, backups, system, run, at, settled>>

-----------------------------------------------------------------------------
(* Shell::install, step by step                                             *)

InstallPackages(p, q, names) ==
  /\ From(p, q) /\ Install(names)
  /\ UNCHANGED <<files, backups, directories, settings, addresses, firewall, enabled, loaded,
                 run, at, settled>>

\* hostnamectl, timedatectl, localectl and sed.
SetUp(p, q, k, value) ==
  /\ From(p, q)
  /\ settings' = IF run.dry THEN settings ELSE [settings EXCEPT ![k] = value]
  /\ UNCHANGED <<files, backups, packages, directories, addresses, firewall, enabled, loaded,
                 run, at, settled>>

InstallRequiredPackages == InstallPackages("required", "update", {"required"})

RunSystemUpdate ==
  /\ From("update", "selinux")
  /\ IF model.update THEN RestartService("NetworkManager") ELSE UNCHANGED loaded
  /\ UNCHANGED <<files, backups, packages, directories, settings, addresses, firewall, enabled,
                 run, at, settled>>

ConfigureSELinuxMode ==
  /\ UNCHANGED at
  /\ IF model.selinux = "disabled" THEN BackupFile("selinux", "selinux-value", "selinux")
     ELSE From("selinux", "firewall") /\ UNCHANGED <<files, backups, system, run, settled>>

DisableSELinux ==
  /\ From("selinux-value", "firewall")
  /\ files' = IF run.dry THEN files
              ELSE [files EXCEPT !["selinux"] = <<Line("SELINUX", "disabled")>>]
  /\ UNCHANGED <<backups, system, run, at, settled>>

ConfigureFirewall ==
  /\ From("firewall", "hostname")
  /\ firewall' = CASE run.dry -> firewall
       [] ~run.dry /\ ~model.firewall -> [firewall EXCEPT !.on = FALSE]
       [] OTHER -> [firewall EXCEPT !.on = TRUE, !.trusted = @ \cup {"Management"} \cup
                      IF model.ofed = "none" THEN {} ELSE {"Application"}]
  /\ UNCHANGED <<files, backups, packages, directories, settings, addresses, enabled, loaded,
                 run, at, settled>>

ConfigureFQDN == SetUp("hostname", "sshd", "hostname", model.name)

DisallowSSHRootPasswordLogin == SetUp("sshd", "hosts", "sshd", "without-password")

ConfigureHostsFile ==
  \/ BackupFile("hosts", "hosts-line", "hosts") /\ UNCHANGED at
  \/ /\ From("hosts-line", "timezone") /\ UNCHANGED at
     /\ AddStringToFile("hosts", HostsLine(model))

ConfigureTimezone == SetUp("timezone", "locale", "timezone", model.timezone)

ConfigureLocale == SetUp("locale", "networks", "locale", model.locale)

ConfigureNetworks ==
  /\ From("networks", "connection") /\ at' = 1
  /\ EnableService("NetworkManager")
  /\ UNCHANGED <<files, backups, packages, directories, settings, addresses, firewall, run, settled>>

Connection == model.connections[at]

\* Mutant: asks for any connection.
ConfiguredAny(profile) == ~run.dry /\ \E p \in Profiles : addresses[p] # None

Configured(profile) == ~run.dry /\ addresses[profile] # None

\* Mutant: also the external connection.
ConfigureEveryConnection ==
  /\ phase = "connection" /\ at <= Len(model.connections)
  /\ addresses' = IF run.dry \/ Configured(Connection.profile) THEN addresses
                  ELSE [addresses EXCEPT ![Connection.profile] = Connection.address]
  /\ at' = at + 1
  /\ UNCHANGED <<files, backups, packages, directories, settings, firewall, enabled, loaded,
                 phase, run, settled>>

\* One round of the loop: the external connection and the ones that exist are
\* left alone.  Nothing is deleted that NetworkManager has just not found.
ConfigureConnection ==
  /\ phase = "connection" /\ at <= Len(model.connections)
  /\ addresses' = IF run.dry \/ Connection.profile = "External" \/ Configured(Connection.profile)
                  THEN addresses
                  ELSE [addresses EXCEPT ![Connection.profile] = Connection.address]
  /\ at' = at + 1
  /\ UNCHANGED <<files, backups, packages, directories, settings, firewall, enabled, loaded,
                 phase, run, settled>>

LoseConnection ==
  /\ phase = "connection" /\ at <= Len(model.connections)
  /\ "nmcli" \in MayFail /\ ~run.dry
  /\ Connection.profile # "External" /\ ~Configured(Connection.profile)
  /\ at' = at + 1 /\ run' = [run EXCEPT !.lost = @ \cup {"nmcli"}]
  /\ UNCHANGED <<files, backups, system, phase, settled>>

DisableNetworkManagerDNSOverride ==
  \/ /\ From("connection", "dns-remove") /\ at > Len(model.connections)
     /\ UNCHANGED <<files, backups, system, run, at, settled>>
  \/ /\ From("dns-remove", "dns-line") /\ RemoveFile("dns")
     /\ UNCHANGED <<backups, system, run, at, settled>>
  \/ From("dns-line", "dns-restart") /\ AddStringToFile("dns", DnsLine) /\ UNCHANGED at
  \/ /\ From("dns-restart", "time") /\ RestartService("NetworkManager")
     /\ UNCHANGED <<files, backups, packages, directories, settings, addresses, firewall, enabled,
                    run, at, settled>>

InstallChrony ==
  /\ From("time", "time-backup") /\ Install({"chrony"})
  /\ files' = IF run.dry \/ files["chrony"] # None THEN files
              ELSE [files EXCEPT !["chrony"] = Shipped("chrony")]
  /\ UNCHANGED <<backups, directories, settings, addresses, firewall, enabled, loaded, run, at, settled>>

ServesTime(c) == c.profile \in {"Management", "Service"}

ConfigureTimeService ==
  \/ BackupFile("time-backup", "stratum", "chrony") /\ at' = 1
  \/ /\ phase = "stratum" /\ at <= Len(model.connections) /\ ~ServesTime(Connection)
     /\ at' = at + 1 /\ UNCHANGED <<files, backups, system, phase, run, settled>>
  \/ /\ at <= Len(model.connections) /\ ServesTime(Connection)
     /\ From("stratum", "allow")
     /\ AddStringToFile("chrony", StratumLine) /\ UNCHANGED at
  \/ From("allow", "stratum") /\ AddStringToFile("chrony", AllowLine(Connection)) /\ at' = at + 1
  \/ /\ From("stratum", "chronyd") /\ at > Len(model.connections)
     /\ UNCHANGED <<files, backups, system, run, at, settled>>

EnableChronyd ==
  /\ From("chronyd", "base") /\ EnableService("chronyd")
  /\ UNCHANGED <<files, backups, packages, directories, settings, addresses, firewall, run, at, settled>>

InstallOpenHPCBase == InstallPackages("base", "ofed", {"ohpc-base"})

\* `dnf group info` finds a group that the repositories merely know.
OFEDInstalled ==
  /\ ~run.force
  /\ \/ model.ofed = "mellanox" /\ "doca-ofed" \in packages
     \/ model.ofed = "inbox"

OFEDInstall ==
  /\ phase = "ofed"
  /\ phase' = CASE run.dry \/ model.ofed = "none" -> "nfs"
                [] ~run.dry /\ model.ofed = "oracle" -> "failed"
                [] ~run.dry /\ model.ofed = "inbox" -> "nfs"
                [] OTHER -> IF OFEDInstalled THEN "nfs" ELSE "makecache"
  /\ IF model.ofed = "inbox" /\ ~OFEDInstalled THEN Install({"@infiniband"})
     ELSE UNCHANGED packages
  /\ UNCHANGED <<files, backups, directories, settings, addresses, firewall, enabled, loaded,
                 run, at, settled>>

InstallKernel == InstallPackages("makecache", "compile", {"kernel"})

\* Mutant: a driver that an earlier run compiled is taken for an installed one.
CompileDriverOnce ==
  /\ From("compile", IF "/tmp/DOCA" \in directories THEN "doca" ELSE "driver")
  /\ directories' = IF run.skip THEN directories ELSE directories \cup {"/tmp/DOCA"}
  /\ UNCHANGED <<files, backups, packages, settings, addresses, firewall, enabled, loaded,
                 run, at, settled>>

CompileDriver ==
  /\ From("compile", "driver")
  /\ directories' = IF run.skip THEN directories ELSE directories \cup {"/tmp/DOCA"}
  /\ UNCHANGED <<files, backups, packages, settings, addresses, firewall, enabled, loaded,
                 run, at, settled>>

\* Without a driver the first line of no output is read.
InstallDriver ==
  /\ IF "/tmp/DOCA" \in directories
     THEN From("driver", "doca") /\ Install({"doca-driver"})
     ELSE From("driver", "failed") /\ UNCHANGED packages
  /\ UNCHANGED <<files, backups, directories, settings, addresses, firewall, enabled, loaded,
                 run, at, settled>>

InstallDOCA == InstallPackages("doca", "nfs", {"doca-ofed"})

\* Mutant: without grep.
MissingExportsAll == ExportLines

\* The lines that grep does not find: the script asks for each before it adds it.
Missing(line) == IF Occurs(line, "exports") THEN <<>> ELSE <<line>>
MissingExports ==
  Missing(ExportLines[1]) \o Missing(ExportLines[2]) \o Missing(ExportLines[3])
    \o Missing(ExportLines[4])

\* Mutant: the firewall is asked only when there is something new to export.
NFSInstallScriptOnce ==
  /\ From("nfs", "queue") /\ Install({"nfs-utils"})
  /\ files' = IF run.dry THEN files ELSE [files EXCEPT !["exports"] = @ \o MissingExports]
  /\ firewall' = IF run.dry \/ ~firewall.on \/ MissingExports = <<>> THEN firewall
                 ELSE [firewall EXCEPT !.nfs = TRUE]
  /\ UNCHANGED <<backups, directories, settings, addresses, enabled, loaded, run, at, settled>>

NFSInstallScript ==
  /\ From("nfs", "queue") /\ Install({"nfs-utils"})
  /\ files' = IF run.dry THEN files ELSE [files EXCEPT !["exports"] = @ \o MissingExports]
  /\ firewall' = IF run.dry \/ ~firewall.on THEN firewall ELSE [firewall EXCEPT !.nfs = TRUE]
  /\ UNCHANGED <<backups, directories, settings, addresses, enabled, loaded, run, at, settled>>

SLURMInstallServer ==
  /\ phase = "queue" /\ phase' = IF model.slurm THEN "slurm-remove" ELSE "mail"
  /\ IF model.slurm THEN Install({"slurm"}) ELSE UNCHANGED packages
  /\ IF model.slurm THEN CreateDirectory("/etc/slurm") ELSE UNCHANGED directories
  /\ UNCHANGED <<files, backups, settings, addresses, firewall, enabled, loaded, run, at, settled>>

SLURMConfigureServer ==
  \/ /\ From("slurm-remove", "slurm-conf") /\ RemoveFile("slurm")
     /\ CreateDirectory("/etc/slurm")
     /\ UNCHANGED <<backups, packages, settings, addresses, firewall, enabled, loaded, run, at, settled>>
  \/ /\ From("slurm-conf", "slurm-enable") /\ UNCHANGED at
     /\ AddStringToFile("slurm", SlurmConf(model))

SLURMEnableServer ==
  /\ From("slurm-enable", "mail") /\ EnableService("slurmctld")
  /\ UNCHANGED <<files, backups, packages, directories, settings, addresses, firewall, run, at, settled>>

\* KeyFile takes no file, and loadData no text, with a key before the first
\* group: neither postfix' own main.cf nor the template, which have no groups.
ConfigureMailSystem ==
  \/ From("mail", "limits") /\ ~model.mail
     /\ UNCHANGED <<files, backups, system, run, at, settled>>
  \/ model.mail /\ InstallPackages("mail", "main.cf", {"postfix"})
  \/ From("main.cf", "failed") /\ UNCHANGED <<files, backups, system, run, at, settled>>

RemoveMemlockLimits ==
  \/ BackupFile("limits", "limits-line", "limits") /\ UNCHANGED at
  \/ From("limits-line", "development") /\ AddStringToFile("limits", MemlockLine) /\ UNCHANGED at

InstallDevelopmentComponents == InstallPackages("development", "done", {"development"})

Failures ==
  \/ Drops("firewall", "hostname", "firewall")
  \/ LoseConnection
  \/ Drops("time", "time-backup", "chrony")
  \/ Drops("chronyd", "base", "systemctl")
  \/ /\ model.ofed = "inbox" /\ ~OFEDInstalled
     /\ Drops("ofed", "nfs", "group")
  \/ Throws("makecache", "kernel")
  \/ ~run.skip /\ Throws("compile", "compile")
  \/ "/tmp/DOCA" \in directories /\ Drops("driver", "doca", "driver")
  \/ Throws("doca", "doca")
  \/ Drops("nfs", "queue", "nfs")
  \/ model.slurm /\ Drops("queue", "slurm-remove", "slurm")
  \/ Drops("slurm-enable", "mail", "systemctl")

-----------------------------------------------------------------------------
(* The end of a run                                                         *)

Settles == phase = "done" /\ ~run.dry /\ run.lost = {}

Exit ==
  /\ phase \in {"done", "failed"}
  /\ settled' = IF Settles THEN [model |-> model, files |-> files, settings |-> settings,
                                 addresses |-> addresses]
                ELSE settled
  /\ phase' = "off" /\ run' = Between(run.number) /\ at' = 1
  /\ UNCHANGED <<files, backups, system>>

\* The run is cut short, also by --stop-after.  The last of the MaxRuns runs is
\* left alone.
Die ==
  /\ phase # "off" /\ run.number < MaxRuns
  /\ phase' = "off" /\ run' = Between(run.number) /\ at' = 1
  /\ UNCHANGED <<files, backups, system, settled>>

Reboot ==
  /\ phase = "off"
  /\ loaded' = [s \in Services |-> IF s \in enabled /\ Starts(s) THEN Read(s) ELSE None]
  /\ UNCHANGED <<files, backups, packages, directories, settings, addresses, firewall, enabled,
                 phase, run, at, settled>>

InstallHeadnode ==
  /\ model # None
  /\ \/ InstallRequiredPackages \/ RunSystemUpdate \/ ConfigureSELinuxMode \/ DisableSELinux
     \/ ConfigureFirewall \/ ConfigureFQDN \/ DisallowSSHRootPasswordLogin
     \/ ConfigureHostsFile \/ ConfigureTimezone \/ ConfigureLocale
     \/ ConfigureNetworks \/ ConfigureConnection \/ DisableNetworkManagerDNSOverride
     \/ InstallChrony \/ ConfigureTimeService \/ EnableChronyd
     \/ InstallOpenHPCBase
     \/ OFEDInstall \/ InstallKernel \/ CompileDriver \/ InstallDriver \/ InstallDOCA
     \/ NFSInstallScript
     \/ SLURMInstallServer \/ SLURMConfigureServer \/ SLURMEnableServer
     \/ ConfigureMailSystem \/ RemoveMemlockLimits \/ InstallDevelopmentComponents
     \/ Failures

Next == Start \/ InstallHeadnode \/ Exit \/ Die \/ Reboot

Spec == Init /\ [][Next]_vars

\* A program that runs executes its next statement, unless it dies.
FairSpec == Spec /\ WF_vars(InstallHeadnode)

-----------------------------------------------------------------------------
(* Properties                                                               *)

\* What a file is before the program has added a line; a dry run may have
\* created chrony.conf before its package was there.
Untouched(f) == IF f = "chrony" THEN {Shipped("chrony"), <<>>, None} ELSE {Original(f)}

\* Whatever the runs did, and wherever they died, a file that is backed up
\* before it is changed (functions.cpp, backupFile) has a copy of what it was
\* before the first run.
PristineKept ==
  \A f \in BackedUp :
    files[f] \notin Untouched(f) =>
      \E lines \in Untouched(f) : [file |-> f, lines |-> lines] \in backups

\* "Check if file already contains the string to avoid duplicate lines"
\* (functions.cpp): reruns and several networks that serve time add no line twice.
NoDuplicateLines == \A f \in Files : files[f] # None => IsInjective(files[f])

\* slurm.conf is written anew in each run, so that it describes the nodes of the
\* model alone, also after a dry run or a run that died while writing it.
SlurmConfOfModel ==
  phase = "done" /\ ~run.dry /\ model.slurm => files["slurm"] = <<SlurmConf(model)>>

\* A whole run with the model of the last whole run changes no file, setting or
\* connection, whatever died in between.
RerunSettles ==
  phase = "done" /\ ~run.dry /\ settled # None =>
    /\ files = settled.files /\ settings = settled.settings
    /\ addresses = settled.addresses

\* Where firewalld is enabled at the end of a run, because the model has a
\* firewall or because firewalld could not be disabled, it lets the nodes reach
\* the head node's NFS: the script asks systemd, not the model.
FirewallLetsNFS ==
  phase = "done" /\ ~run.dry /\ "nfs" \notin run.lost /\ firewall.on => firewall.nfs

\* doca-ofed, by which a later run recognizes an InfiniBand stack, comes after
\* the kernel and the driver compiled for it, unless dnf may fail to install the
\* driver: that exit code alone is dropped (OFED::install), and a later run then
\* takes the stack for installed.
DriverBeforeOFED ==
  "doca-ofed" \in packages =>
    "kernel" \in packages /\ ("doca-driver" \in packages \/ "driver" \in MayFail)

\* When install() comes to an end, a service that was configured runs with the
\* configuration file as it is now.
ServicesCurrent ==
  phase = "done" /\ ~run.dry /\ run.lost = {} =>
    \A s \in {"NetworkManager", "chronyd"} \cup (IF model.slurm THEN {"slurmctld"} ELSE {}) :
      loaded[s] = files[ConfOf(s)]

\* "set default settings and addresses based on data available on the model"
\* (shell.cpp)
AddressesOfModel ==
  phase = "done" /\ ~run.dry /\ run.lost = {} =>
    \A c \in Range(model.connections) :
      c.profile # "External" => addresses[c.profile] = c.address

\* "Perform a dry run installation" (options.cpp): a dry run changes nothing but
\* for the files it creates, empty, when it opens them for appending
\* (functions.cpp, addStringToFile).
DryRunOnlyCreates ==
  [][run.dry => /\ UNCHANGED <<backups, system>>
                /\ \A f \in Files :
                     files[f] # files'[f] => files[f] = None /\ files'[f] = <<>>]_vars

\* Whatever earlier runs left behind, the last one reaches the end, unless the
\* model has a mail system (postfix.cpp, createFiles), or the compilation of the
\* driver is to be skipped and no run has done it (ofed.cpp, install).
LastRunCompletes ==
  (/\ phase = "required" /\ run.number = MaxRuns /\ ~model.mail
   /\ run.skip => "/tmp/DOCA" \in directories) ~> (phase = "done")

\* "Setting up the mail system" (shell.cpp) is one step of the installation, which
\* goes on after it (example.answerfile.ini, section [postfix]).
MailGetsSetUp == (phase = "mail" /\ run.number = MaxRuns) ~> (phase = "limits")
=============================================================================
