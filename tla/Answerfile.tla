----------------------------- MODULE Answerfile ------------------------------
(***************************************************************************)
(* The answerfile, from the operator's editor to the model of the cluster: *)
(* AnswerFile::loadOptions (models/answerfile.cpp) reads and validates it, *)
(* Cluster::fillData (models/cluster.cpp) makes the model of what was read *)
(* and of the machine, and Cluster::dumpData writes it over the answerfile *)
(* it came from.  Which value is demanded, which has a default and which   *)
(* is checked is decided in many places; any of them may throw, which ends *)
(* the program, and the operator edits the file and tries again.           *)
(***************************************************************************)
EXTENDS Naturals, FiniteSets, TLC

CONSTANTS
  Bases,         \* answerfiles before they are edited
  Changes,       \* edits: <<section, key, value>>, or None to take out the key, or the section
  MaxEdits,      \* bound: how many edits are made
  Dries,         \* is --dry given?
  Number,        \* number that a section "node.<number>" has
  Formatted(_, _, _),   \* prefix and number, padded with zeros to a width
  Addresses, Macs, Numbers, Domains, Masks, Versions,   \* values that are well-formed
  Distros, Kinds, MailProfiles,                         \* the enumerations
  Images,        \* ISO files on the machine
  Interfaces,    \* interfaces of the machine
  MachineAddress, MachineMask,   \* what an interface has
  MachineDomain, \* the machine's domain name
  NetworkOf,     \* address of the network that an address is in, by mask
  Unspecified,   \* 0.0.0.0
  None           \* no value

ASSUME AnswerfileAssumption ==
  /\ MaxEdits \in Nat /\ Dries \subseteq BOOLEAN
  /\ Unspecified \in Addresses \cap Masks /\ Masks \subseteq Addresses
  /\ NetworkOf \in [Addresses -> [Masks -> Addresses]]
  /\ MachineAddress \in [Interfaces -> Addresses] /\ MachineMask \in [Interfaces -> Masks]

\* A network's address is in the network.
ASSUME NetworkAssumption ==
  \A a \in Addresses, m \in Masks : NetworkOf[NetworkOf[a][m]][m] = NetworkOf[a][m]

\* An attribute that has no value
Blank == ""

ASSUME BlankAssumption ==
  Blank \notin Macs \cup Numbers \cup Domains \cup Versions \cup Addresses \cup Interfaces

VARIABLES
  file,      \* the answerfile: keys and values of each section
  edits,     \* number of edits
  dry,       \* --dry
  phase,
  cluster,   \* the model that fillData made, or None
  dumped     \* what dumpFile wrote over the answerfile, or None

vars == <<file, edits, dry, phase, cluster, dumped>>

-----------------------------------------------------------------------------
(* class KeyFile                                                            *)

Groups == DOMAIN file

Has(s, k) == s \in Groups /\ k \in DOMAIN file[s]

HasAll(s, keys) == \A k \in keys : Has(s, k)

\* What an attribute is that nobody gave.
Empty(k) == IF k = "node_ip" THEN Unspecified ELSE Blank

Value(s, k) == IF Has(s, k) THEN file[s][k] ELSE Empty(k)

WellFormed(s, keys, values) == \A k \in keys : Has(s, k) => file[s][k] \in values

-----------------------------------------------------------------------------
(* AnswerFile::loadOptions: what it takes for each part not to throw        *)

LoadsNetwork(s) ==
  /\ Has(s, "interface")
  /\ WellFormed(s, {"ip_address", "subnet_mask", "gateway"}, Addresses)

\* Settings that have no default and are not checked.
Demanded ==
  [information |-> {"cluster_name", "company_name", "administrator_email"},
   time |-> {"timezone", "timeserver", "locale"},
   hostname |-> {"hostname", "domain_name"}]

LoadsSettings == \A s \in DOMAIN Demanded : HasAll(s, Demanded[s])

\* A dry run goes on with an unsupported distribution, and without the rest.
LoadsSystem ==
  /\ HasAll("system", {"disk_image", "distro"})
  /\ \/ file["system"]["distro"] \in Distros /\ HasAll("system", {"version", "kernel"})
     \/ file["system"]["distro"] \notin Distros /\ dry

LoadsNode(s) ==
  /\ HasAll(s, IF s = "node" THEN {"prefix", "padding"} ELSE {"mac_address"})
  /\ WellFormed(s, {"node_ip"}, Addresses)

\* node.0 and sections without a number are passed over.
Nodes == {s \in Groups \cap DOMAIN Number : Number[s] > 0}

Counts == {"sockets", "cores_per_socket", "threads_per_core", "bmc_serialport", "bmc_serialspeed"}

Inheritable ==
  Counts \cup {"node_ip", "node_root_password", "bmc_address", "bmc_username", "bmc_password"}

\* Mutant: the generic value wins.
ValidatedGeneric(s, k) ==
  IF Value("node", k) # Empty(k) THEN Value("node", k) ELSE Value(s, k)

\* The attribute of a node after validateAttribute.
Validated(s, k) == IF Value(s, k) # Empty(k) THEN Value(s, k) ELSE Value("node", k)

\* std::stoi(padding) throws as well.
IsNamed(s) ==
  \/ Value(s, "hostname") # Blank
  \/ Value("node", "prefix") # Blank /\ Value("node", "padding") \in Numbers

LoadsNodes ==
  /\ LoadsNode("node")
  /\ \A s \in Nodes :
       LoadsNode(s) /\ IsNamed(s) /\ \A k \in Inheritable : Validated(s, k) # Empty(k)

\* What is read of the mail system, and of the server of each of its profiles.
Mailing == {"destination", "profile", "smtpd_tls_cert_file", "smtpd_tls_key_file"}

Smtp == [relay |-> {"server", "port"}, sasl |-> {"server", "port", "username", "password"},
         local |-> {}]

SmtpSection(profile) == IF profile = "relay" THEN "postfix.relay" ELSE "postfix.sasl"

LoadsPostfix ==
  "postfix" \in Groups =>
    /\ HasAll("postfix", Mailing)
    /\ file["postfix"]["profile"] \in MailProfiles
    /\ LET profile == file["postfix"]["profile"] s == SmtpSection(profile)
       IN HasAll(s, Smtp[profile]) /\ ("port" \in Smtp[profile] => file[s]["port"] \in Numbers)

LoadsOFED == Has("ofed", "kind") /\ (file["ofed"]["kind"] # Blank => Has("ofed", "version"))

\* network_service is never loaded.
LoadsAllButOFED ==
  /\ LoadsNetwork("network_external") /\ LoadsNetwork("network_management")
  /\ "network_application" \in Groups => LoadsNetwork("network_application")
  /\ LoadsSettings /\ LoadsSystem /\ LoadsNodes /\ LoadsPostfix

Loads == LoadsAllButOFED /\ LoadsOFED

-----------------------------------------------------------------------------
(* The setters of the model, each true of what it takes without throwing    *)

SetsInterface(interface) == interface \in Interfaces
SetsMAC(mac) == mac \in Macs
SetsAddress(address) == address \in Addresses \ {Unspecified}
SetsSubnetMask(mask) == mask \in Masks
SetsDomainName(name) == name \in Domains
SetsNameservers(s) == WellFormed(s, {"nameservers"}, Addresses)
SetsDiskImage(path) == path \in Images

\* The network's address is calculated with a mask, and set.
SetsCalculated(address, mask) ==
  mask # Unspecified /\ SetsAddress(NetworkOf[address][mask])

-----------------------------------------------------------------------------
(* Cluster::fillData: what it takes not to throw, and what it makes         *)

Networks == {"network_management", "network_external"} \cup
            ({"network_application"} \cap Groups)

\* Only the external network's are fetched from the interface; one that does
\* not exist has none.
Fetched(machine, s) ==
  IF s = "network_external" /\ Value(s, "interface") \in Interfaces
  THEN machine[Value(s, "interface")] ELSE Unspecified

Address(s) == IF Has(s, "ip_address") THEN file[s]["ip_address"] ELSE Fetched(MachineAddress, s)

Mask(s) == IF Has(s, "subnet_mask") THEN file[s]["subnet_mask"] ELSE Fetched(MachineMask, s)

FetchedDomainName == MachineDomain

Domain(s) ==
  IF s = "network_external" /\ Value(s, "domain_name") = Blank THEN FetchedDomainName
  ELSE Value(s, "domain_name")

\* Mutant: the address is not compared with 0.0.0.0.
FillsAddressAny(s) == SetsSubnetMask(Mask(s)) /\ Mask(s) # Unspecified

\* The connection's address and the network's
FillsAddress(s) ==
  /\ SetsSubnetMask(Mask(s)) /\ SetsAddress(Address(s))
  /\ SetsCalculated(Address(s), Mask(s))

\* A MAC address may be left out.
FillsConnection(s) ==
  /\ SetsInterface(Value(s, "interface"))
  /\ Value(s, "mac_address") # Blank => SetsMAC(Value(s, "mac_address"))

\* Mutant: only what throwIfEmpty checks.
FillsNetworkUnnamed(s) == FillsAddress(s) /\ SetsNameservers(s) /\ FillsConnection(s)

FillsNetwork(s) ==
  /\ FillsAddress(s) /\ SetsNameservers(s) /\ FillsConnection(s)
  /\ SetsDomainName(Domain(s))

\* throwIfEmpty; domain_name always has a value, be it Blank.
FillsApplication ==
  "network_application" \in Groups =>
    HasAll("network_application", {"subnet_mask", "gateway", "nameservers"})

\* Mutant: the version is not parsed.
FillsSystemUnparsed ==
  /\ SetsDiskImage(Value("system", "disk_image"))
  /\ Value("ofed", "kind") \in Kinds \cup {Blank}

\* Of an unsupported distribution no version is loaded, which OS::setVersion
\* does not take.
FillsSystem ==
  /\ SetsDiskImage(Value("system", "disk_image"))
  /\ Value("system", "distro") \in Distros /\ Value("system", "version") \in Versions
  /\ Value("ofed", "kind") \in Kinds \cup {Blank}

FillsNode(s) ==
  SetsMAC(Value(s, "mac_address")) /\ \A k \in Counts : Validated(s, k) \in Numbers

Fills ==
  /\ HasAll("network_management", {"subnet_mask", "ip_address"})
  /\ FillsApplication /\ \A s \in Networks : FillsNetwork(s)
  /\ FillsSystem
  /\ \A s \in Nodes : FillsNode(s)

Mail ==
  IF "postfix" \notin Groups THEN None
  ELSE LET profile == file["postfix"]["profile"]
       IN [profile |-> profile,
           smtp |-> [k \in Smtp[profile] |-> Value(SmtpSection(profile), k)]]

Hostname(s) ==
  IF Value(s, "hostname") # Blank THEN Value(s, "hostname")
  ELSE Formatted(Value("node", "prefix"), Value("node", "padding"), Number[s])

ModelNetwork(s) ==
  [address |-> NetworkOf[Address(s)][Mask(s)], mask |-> Mask(s), domain |-> Domain(s),
   gateway |-> IF Has(s, "gateway") THEN file[s]["gateway"] ELSE Unspecified]

ModelConnection(s) == [interface |-> Value(s, "interface"), address |-> Address(s)]

ModelNode(s) ==
  [hostname |-> Hostname(s), mac |-> Value(s, "mac_address"),
   values |-> [k \in Inheritable |-> Validated(s, k)]]

Cluster ==
  [networks |-> [s \in Networks |-> ModelNetwork(s)],
   connections |-> [s \in Networks |-> ModelConnection(s)],
   distro |-> Value("system", "distro"),
   ofed |-> IF Value("ofed", "kind") = Blank THEN "inbox" ELSE Value("ofed", "kind"),
   nodes |-> [s \in Nodes |-> ModelNode(s)],
   mail |-> Mail]

-----------------------------------------------------------------------------
(* Cluster::dumpData and AnswerFile::dumpOptions: what they write           *)

\* What f has, and g where f has nothing
Over(f, g) ==
  [x \in DOMAIN f \cup DOMAIN g |-> IF x \in DOMAIN f THEN f[x] ELSE g[x]]

With(f, x, y) == [z \in DOMAIN f \cup {x} |-> IF z = x THEN y ELSE f[z]]

\* Mutant: two addresses change places.
DumpedNetworkSwapped(s) ==
  [interface |-> Value(s, "interface"), mac_address |-> Value(s, "mac_address"),
   ip_address |-> cluster.networks[s].address, subnet_mask |-> cluster.networks[s].gateway,
   gateway |-> cluster.networks[s].mask, domain_name |-> cluster.networks[s].domain]

\* The interface and its MAC are the ones loaded; the address is the network's.
DumpedNetwork(s) ==
  [interface |-> Value(s, "interface"), mac_address |-> Value(s, "mac_address"),
   ip_address |-> cluster.networks[s].address, subnet_mask |-> cluster.networks[s].mask,
   gateway |-> cluster.networks[s].gateway, domain_name |-> cluster.networks[s].domain]

\* Neither the MAC nor the address of a node.
DumpedNode(s) ==
  Over([k \in Inheritable \ {"node_ip"} |-> cluster.nodes[s].values[k]],
       [hostname |-> cluster.nodes[s].hostname])

\* The nodes in an order of their sections.
Orders == {q \in [1..Cardinality(Nodes) -> Nodes] : \A i, j \in DOMAIN q : i # j => q[i] # q[j]}

Section(s) == IF s \in Groups THEN file[s] ELSE [k \in {} |-> Blank]

\* The nodes of the model come after the ones that were loaded, which are the
\* same, and all of them are numbered from one.
DumpedNodes(q) ==
  LET n == Cardinality(Nodes)
      sections == {s \in DOMAIN Number : Number[s] \in 1..2*n}
  IN [s \in sections |-> Over(DumpedNode(q[((Number[s] - 1) % n) + 1]), Section(s))]

\* All else is written as it was loaded, but for the key of the address.
DumpedSettings ==
  [information |-> With(file["information"], "admm_keyfilestrator_email",
                        file["information"]["administrator_email"])]

DumpedOptions(q) ==
  Over([s \in Networks |-> Over(DumpedNetwork(s), Section(s))],
       Over(DumpedNodes(q), Over(DumpedSettings, file)))

-----------------------------------------------------------------------------
(* States                                                                   *)

Init ==
  /\ file \in Bases /\ edits = 0 /\ dry = FALSE
  /\ phase = "edit" /\ cluster = None /\ dumped = None

Without(f, x) == [z \in DOMAIN f \ {x} |-> f[z]]

\* The operator; the environment of the program.
Edit ==
  /\ phase = "edit" /\ edits < MaxEdits
  /\ \E c \in Changes :
       file' = CASE c[2] = None -> Without(file, c[1])
                 [] c[2] # None /\ c[3] = None -> With(file, c[1], Without(Section(c[1]), c[2]))
                 [] OTHER -> With(file, c[1], With(Section(c[1]), c[2], c[3]))
  /\ edits' = edits + 1
  /\ UNCHANGED <<dry, phase, cluster, dumped>>

Start ==
  /\ phase = "edit" /\ phase' = "load"
  /\ dry' \in Dries
  /\ UNCHANGED <<file, edits, cluster, dumped>>

LoadOptions ==
  /\ phase = "load" /\ phase' = IF Loads THEN "fill" ELSE "failed"
  /\ UNCHANGED <<file, edits, dry, cluster, dumped>>

FillData ==
  /\ phase = "fill"
  /\ phase' = IF Fills THEN "install" ELSE "failed"
  /\ cluster' = IF Fills THEN Cluster ELSE None
  /\ UNCHANGED <<file, edits, dry, dumped>>

\* --dump-answerfile with the path of the answerfile, also in a dry run.
DumpData ==
  /\ phase = "install" /\ dumped = None
  /\ \E q \in Orders : dumped' = DumpedOptions(q)
  /\ UNCHANGED <<file, edits, dry, phase, cluster>>

\* With another path: the file that is to be written is loaded first.
DumpNewFile ==
  /\ phase = "install" /\ phase' = "failed" /\ dumped = None
  /\ cluster' = None
  /\ UNCHANGED <<file, edits, dry, dumped>>

\* The program ends, and with it its model.
Exit ==
  /\ phase \in {"install", "failed"} /\ phase' = "edit"
  /\ file' = IF dumped = None THEN file ELSE dumped
  /\ dry' = FALSE /\ cluster' = None /\ dumped' = None
  /\ UNCHANGED edits

Next == Edit \/ Start \/ LoadOptions \/ FillData \/ DumpData \/ DumpNewFile \/ Exit

Spec == Init /\ [][Next]_vars

-----------------------------------------------------------------------------
(* Properties                                                               *)

TypeOK ==
  /\ \A s \in Groups : \A k \in DOMAIN file[s] : file[s][k] # None
  /\ edits \in 0..MaxEdits /\ dry \in BOOLEAN
  /\ phase \in {"edit", "load", "fill", "install", "failed"}
  /\ (phase = "install") = (cluster # None)

\* "Supported distros" (example.answerfile.ini): a model is only ever made for a
\* supported one, in a dry run too, which goes on after it has found another
\* (answerfile.cpp, loadSystemSettings).
SupportedDistro == cluster # None => cluster.distro \in Distros

\* "These options MUST exist, either specifically in the node.XX sections or in
\* the generic section [node]" (example.answerfile.ini): a node of the model has
\* its section's value where there is one and the generic one elsewhere.
NodesInherit ==
  cluster # None =>
    \A s \in DOMAIN cluster.nodes : \A k \in Inheritable :
      LET v == cluster.nodes[s].values[k]
      IN /\ v # Empty(k)
         /\ v = IF Has(s, k) /\ file[s][k] # Empty(k) THEN file[s][k] ELSE file["node"][k]

\* "Must inform all options if enabled" (example.answerfile.ini, of
\* network_application): an application network is in the model only with all of
\* them, though the test for the domain name cannot fail (cluster.cpp,
\* throwIfEmpty) and none is made for the address.
ApplicationComplete ==
  cluster # None /\ "network_application" \in DOMAIN cluster.networks =>
    \A k \in {"interface", "ip_address", "subnet_mask", "gateway", "domain_name", "nameservers"} :
      Value("network_application", k) # Blank

\* Every connection of the head node has an interface of the machine and an
\* address, and its network an address, whether they come from the answerfile or
\* from the machine: configureNetworks and the hosts file take them as they are.
ConnectionsUsable ==
  cluster # None =>
    /\ {"network_management", "network_external"} \subseteq DOMAIN cluster.connections
    /\ \A s \in DOMAIN cluster.connections :
         /\ cluster.connections[s].interface \in Interfaces
         /\ cluster.connections[s].address \notin {Blank, Unspecified}
         /\ cluster.networks[s].address # Unspecified

\* "You must fill the SMTP values in their subsections" (example.answerfile.ini):
\* what a mail system knows of its server is from the subsection of its own
\* profile, and nothing that it needs is made up.
MailComplete ==
  cluster # None /\ cluster.mail # None =>
    LET s == SmtpSection(cluster.mail.profile)
    IN \A k \in DOMAIN cluster.mail.smtp : Has(s, k) /\ cluster.mail.smtp[k] = file[s][k]

\* "Do the inverse of `loadOptions`, i.e, move the stored settings into the
\* answerfile" (answerfile.h): of a model that is dumped into its own file the
\* same networks are loaded again.  Nodes are not: the file gets sections for
\* them that have no MAC address, and is refused.
DumpKeepsNetworks ==
  [][dumped # None =>
      /\ \A s \in DOMAIN cluster.networks : ModelNetwork(s)' = cluster.networks[s]
      /\ DOMAIN cluster.nodes = {} => Loads' /\ Fills']_vars
=============================================================================
