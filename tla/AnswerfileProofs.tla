-------------------------- MODULE AnswerfileProofs ---------------------------
(***************************************************************************)
(* Proofs about Answerfile, for every file, every edit and every machine.  *)
(***************************************************************************)
EXTENDS Answerfile, FiniteSetTheorems, TLAPS

\* The file is not edited while the program runs, so that what was loaded and
\* filled is still what the file says.
IInv ==
  /\ phase \in {"fill", "install"} => Loads
  /\ phase = "install" => Fills /\ cluster = Cluster
  /\ phase # "install" => cluster = None

USE DEF vars

-----------------------------------------------------------------------------
(* IInv is inductive                                                        *)

\* What the predicates of a file read is the file, and whether the run is dry.
LEMMA Frame ==
  ASSUME UNCHANGED <<file, dry>>
  PROVE  Loads' = Loads /\ Fills' = Fills /\ Cluster' = Cluster
<1>1. Groups' = Groups /\ \A s, k : Has(s, k)' = Has(s, k) /\ Value(s, k)' = Value(s, k)
  BY DEF Groups, Has, Value
<1>2. \A s, keys : HasAll(s, keys)' = HasAll(s, keys)
  BY DEF HasAll, Groups, Has
<1>3. \A s, keys, values : WellFormed(s, keys, values)' = WellFormed(s, keys, values)
  BY DEF WellFormed, Groups, Has
<1>4. Loads' = Loads
  <2>1. LoadsSettings' = LoadsSettings /\ LoadsSystem' = LoadsSystem
    BY <1>2 DEF LoadsSettings, LoadsSystem
  <2>2. \A s : LoadsNetwork(s)' = LoadsNetwork(s)
    BY <1>1, <1>3 DEF LoadsNetwork
  <2>3. LoadsNodes' = LoadsNodes
    BY DEF LoadsNodes, LoadsNode, Nodes, IsNamed, Validated, Groups, Has, HasAll, Value, WellFormed
  <2>4. LoadsPostfix' = LoadsPostfix /\ LoadsOFED' = LoadsOFED
    BY DEF LoadsPostfix, LoadsOFED, Groups, Has, HasAll
  <2> QED BY <1>1, <2>1, <2>2, <2>3, <2>4 DEF Loads, LoadsAllButOFED
<1>5. Fills' = Fills
  BY DEF Fills, FillsApplication, FillsNetwork, FillsAddress, FillsConnection, FillsSystem,
         FillsNode, SetsNameservers, FetchedDomainName, Networks, Nodes, Address, Mask, Domain, Fetched, Validated, Groups, Has, HasAll, Value, WellFormed
<1>6. Cluster' = Cluster
  BY DEF Cluster, ModelNetwork, ModelConnection, ModelNode, Mail, Hostname, Networks, Nodes,
         Address, Mask, Domain, FetchedDomainName, Fetched, Validated, Groups, Has, Value,
         SmtpSection
<1> QED BY <1>4, <1>5, <1>6

\* No model before the first run.
LEMMA InitInv == Init => IInv
BY DEF Init, IInv

\* Only LoadOptions and FillData lead into the phases that promise something.
LEMMA NextInv == IInv /\ [Next]_vars => IInv'
<1> SUFFICES ASSUME IInv, [Next]_vars PROVE IInv'
  OBVIOUS
<1>1. CASE Edit
  BY <1>1 DEF Edit, IInv
<1>2. CASE Start
  BY <1>2 DEF Start, IInv
<1>3. CASE LoadOptions
  BY <1>3, Frame DEF LoadOptions, IInv
<1>4. CASE FillData
  BY <1>4, Frame DEF FillData, IInv
<1>5. CASE DumpData
  BY <1>5, Frame DEF DumpData, IInv
<1>6. CASE DumpNewFile
  BY <1>6 DEF DumpNewFile, IInv
<1>7. CASE Exit
  BY <1>7 DEF Exit, IInv
<1>8. CASE UNCHANGED vars
  BY <1>8, Frame DEF IInv
<1> QED BY <1>1, <1>2, <1>3, <1>4, <1>5, <1>6, <1>7, <1>8 DEF Next

\* The program has a model exactly when the file was accepted.
THEOREM Invariant == Spec => []IInv
BY InitInv, NextInv, PTL DEF Spec

\* A model is the one of the file, which was accepted.
LEMMA Accepted ==
  ASSUME IInv, phase = "install"
  PROVE  Loads /\ Fills /\ cluster = Cluster
BY DEF IInv

\* Its fields.
LEMMA Fields ==
  ASSUME IInv, phase = "install"
  PROVE  /\ cluster.networks = [s \in Networks |-> ModelNetwork(s)]
         /\ cluster.connections = [s \in Networks |-> ModelConnection(s)]
         /\ cluster.distro = Value("system", "distro")
         /\ cluster.nodes = [s \in Nodes |-> ModelNode(s)]
         /\ cluster.mail = Mail
<1>1. cluster = Cluster
  BY Accepted
<1> QED BY <1>1 DEF Cluster

-----------------------------------------------------------------------------
(* What an accepted file promises                                           *)

\* A cluster has a supported distribution, whatever loadSystemSettings let pass
\* in a dry run.
THEOREM Supported == Spec => []SupportedDistro
<1>1. IInv => SupportedDistro
  <2> SUFFICES ASSUME IInv, phase = "install" PROVE cluster.distro \in Distros
    BY DEF SupportedDistro, IInv
  <2>1. cluster.distro = Value("system", "distro")
    BY Fields
  <2> QED BY <2>1, Accepted DEF Fills, FillsSystem
<1> QED BY <1>1, Invariant, PTL

\* validateNode gives a node the value of its section, or else the generic one,
\* and leaves none without.
THEOREM Inherited == Spec => []NodesInherit
<1>1. IInv => NodesInherit
  <2> SUFFICES ASSUME IInv, phase = "install",
                      NEW s \in DOMAIN cluster.nodes, NEW k \in Inheritable
               PROVE  LET v == cluster.nodes[s].values[k]
                      IN /\ v # Empty(k)
                         /\ v = IF Has(s, k) /\ file[s][k] # Empty(k) THEN file[s][k]
                                ELSE file["node"][k]
    BY DEF NodesInherit, IInv
  <2>1. s \in Nodes /\ cluster.nodes[s].values[k] = Validated(s, k)
    BY Fields DEF ModelNode
  <2>2. Validated(s, k) # Empty(k)
    BY <2>1, Accepted DEF Loads, LoadsAllButOFED, LoadsNodes
  <2> QED BY <2>1, <2>2 DEF Validated, Value
<1> QED BY <1>1, Invariant, PTL

\* What a network that was filled has: the setters refuse all else.
LEMMA Filled ==
  ASSUME NEW s \in Networks, IInv, phase = "install"
  PROVE  /\ Value(s, "interface") \in Interfaces
         /\ Address(s) \in Addresses \ {Unspecified}
         /\ Mask(s) \in Masks /\ Domain(s) \in Domains
         /\ NetworkOf[Address(s)][Mask(s)] # Unspecified
         /\ LoadsNetwork(s)
<1>1. FillsNetwork(s)
  BY Accepted DEF Fills
<1>2. LoadsNetwork(s)
  BY Accepted DEF Loads, LoadsAllButOFED, Networks
<1>3. Address(s) \in Addresses
  <2>1. CASE Has(s, "ip_address")
    BY <2>1, <1>2 DEF Address, LoadsNetwork, WellFormed
  <2>2. CASE ~Has(s, "ip_address")
    BY <2>2, AnswerfileAssumption, BlankAssumption DEF Address, Fetched
  <2> QED BY <2>1, <2>2
<1> QED BY <1>1, <1>2, <1>3 DEF FillsNetwork, FillsAddress, FillsConnection,
     SetsInterface, SetsAddress, SetsSubnetMask, SetsDomainName, SetsCalculated

\* Each connection of the head node has an interface of the machine, an address
\* and a network.
THEOREM Usable == Spec => []ConnectionsUsable
<1>1. IInv => ConnectionsUsable
  <2> SUFFICES ASSUME IInv, phase = "install"
               PROVE  /\ {"network_management", "network_external"} \subseteq
                            DOMAIN cluster.connections
                      /\ \A s \in DOMAIN cluster.connections :
                           /\ cluster.connections[s].interface \in Interfaces
                           /\ cluster.connections[s].address \notin {Blank, Unspecified}
                           /\ cluster.networks[s].address # Unspecified
    BY DEF ConnectionsUsable, IInv
  <2>1. DOMAIN cluster.connections = Networks
    BY Fields
  <2>2. \A s \in Networks :
          /\ cluster.connections[s].interface = Value(s, "interface")
          /\ cluster.connections[s].address = Address(s)
          /\ cluster.networks[s].address = NetworkOf[Address(s)][Mask(s)]
    BY Fields DEF ModelConnection, ModelNetwork
  <2>3. {"network_management", "network_external"} \subseteq Networks
    BY DEF Networks
  <2>4. \A s \in Networks :
          /\ Value(s, "interface") \in Interfaces
          /\ Address(s) \notin {Blank, Unspecified}
          /\ NetworkOf[Address(s)][Mask(s)] # Unspecified
    BY Filled, AnswerfileAssumption, BlankAssumption
  <2> QED BY <2>1, <2>2, <2>3, <2>4
<1> QED BY <1>1, Invariant, PTL

\* An application network has all of its options, though fillData does not ask
\* for the address and cannot miss the domain name.
THEOREM Complete == Spec => []ApplicationComplete
<1>1. IInv => ApplicationComplete
  <2> DEFINE s == "network_application"
  <2> SUFFICES ASSUME IInv, phase = "install", s \in DOMAIN cluster.networks
               PROVE  \A k \in {"interface", "ip_address", "subnet_mask", "gateway",
                                "domain_name", "nameservers"} : Value(s, k) # Blank
    BY DEF ApplicationComplete, IInv
  <2>1. s \in Networks /\ s \in Groups
    BY Fields DEF Networks
  <2>2. Value(s, "interface") # Blank /\ Value(s, "domain_name") # Blank
    BY <2>1, Filled, AnswerfileAssumption, BlankAssumption DEF Domain
  <2>3. Has(s, "ip_address")
    BY <2>1, Filled DEF Address, Fetched
  <2>4. Has(s, "subnet_mask") /\ Has(s, "gateway") /\ Has(s, "nameservers")
    BY <2>1, Accepted DEF Fills, FillsApplication, HasAll
  <2>5. \A k \in {"ip_address", "subnet_mask", "gateway"} : file[s][k] \in Addresses
    BY <2>1, <2>3, <2>4, Filled DEF LoadsNetwork, WellFormed
  <2>6. file[s]["nameservers"] \in Addresses
    BY <2>1, <2>4, Accepted DEF Fills, FillsNetwork, SetsNameservers, WellFormed
  <2> QED BY <2>2, <2>3, <2>4, <2>5, <2>6, AnswerfileAssumption, BlankAssumption DEF Value
<1> QED BY <1>1, Invariant, PTL

\* What a mail system knows of its server is what the subsection of its profile
\* says.
THEOREM MailKnown == Spec => []MailComplete
<1>1. IInv => MailComplete
  <2> SUFFICES ASSUME IInv, phase = "install", cluster.mail # None,
                      NEW k \in DOMAIN cluster.mail.smtp
               PROVE  LET s == SmtpSection(cluster.mail.profile)
                      IN Has(s, k) /\ cluster.mail.smtp[k] = file[s][k]
    BY DEF MailComplete, IInv
  <2> DEFINE profile == file["postfix"]["profile"]
  <2>1. "postfix" \in Groups /\ cluster.mail = Mail
    BY Fields DEF Mail
  <2>2. /\ cluster.mail.profile = profile
        /\ k \in Smtp[profile]
        /\ cluster.mail.smtp[k] = Value(SmtpSection(profile), k)
    BY <2>1 DEF Mail
  <2>3. HasAll(SmtpSection(profile), Smtp[profile])
    BY <2>1, Accepted DEF Loads, LoadsAllButOFED, LoadsPostfix
  <2> QED BY <2>2, <2>3 DEF HasAll, Value
<1> QED BY <1>1, Invariant, PTL
-----------------------------------------------------------------------------
(* The dump, loaded again                                                   *)

\* While something is dumped, the program has the model that it was made of.
DumpInv ==
  dumped # None => phase = "install" /\ \E q \in Orders : dumped = DumpedOptions(q)

\* What is dumped is made of the file and the model.
LEMMA DumpFrame ==
  ASSUME UNCHANGED <<file, cluster>>
  PROVE  Orders' = Orders /\ \A q : DumpedOptions(q)' = DumpedOptions(q)
<1>1. Groups' = Groups /\ Nodes' = Nodes /\ Networks' = Networks
  BY DEF Groups, Nodes, Networks
<1>2. \A s, k : Value(s, k)' = Value(s, k)
  BY DEF Value, Has, Groups
<1>3. \A s : Section(s)' = Section(s)
  BY <1>1 DEF Section
<1>4. \A s : DumpedNetwork(s)' = DumpedNetwork(s) /\ DumpedNode(s)' = DumpedNode(s)
  BY <1>2 DEF DumpedNetwork, DumpedNode
<1>5. \A q : DumpedNodes(q)' = DumpedNodes(q)
  BY <1>1, <1>3, <1>4 DEF DumpedNodes
<1>6. DumpedSettings' = DumpedSettings
  BY DEF DumpedSettings
<1> QED BY <1>1, <1>3, <1>4, <1>5, <1>6 DEF Orders, DumpedOptions

LEMMA DumpNext == IInv /\ DumpInv /\ [Next]_vars => DumpInv'
<1> SUFFICES ASSUME IInv, DumpInv, [Next]_vars, dumped' # None
             PROVE  phase' = "install" /\ \E q \in Orders' : dumped' = DumpedOptions(q)'
  BY DEF DumpInv
<1>1. CASE DumpData
  <2>1. UNCHANGED <<file, cluster>>
    BY <1>1 DEF DumpData
  <2>2. Orders' = Orders /\ \A q : DumpedOptions(q)' = DumpedOptions(q)
    BY <2>1, DumpFrame
  <2> QED BY <1>1, <2>2 DEF DumpData
<1>2. CASE UNCHANGED vars
  <2>1. Orders' = Orders /\ \A q : DumpedOptions(q)' = DumpedOptions(q)
    BY <1>2, DumpFrame
  <2> QED BY <1>2, <2>1 DEF DumpInv
<1>3. CASE Edit \/ Start \/ LoadOptions \/ FillData \/ DumpNewFile \/ Exit
  BY <1>3 DEF Edit, Start, LoadOptions, FillData, DumpNewFile, Exit, DumpInv
<1> QED BY <1>1, <1>2, <1>3 DEF Next

\* The keys of a network's section that the dump sets
NetworkKeys ==
  {"interface", "mac_address", "ip_address", "subnet_mask", "gateway", "domain_name"}

\* What the next run finds of a network's section: what the model said of it
\* under the keys that the dump sets, and what was there under the others.
LEMMA DumpedSection ==
  ASSUME NEW q, NEW s \in Networks, file' = DumpedOptions(q)
  PROVE  /\ s \in Groups'
         /\ \A k \in NetworkKeys : Has(s, k)' /\ Value(s, k)' = DumpedNetwork(s)[k]
         /\ \A k : k \notin NetworkKeys => /\ Has(s, k)' = Has(s, k)
                                           /\ Has(s, k) => file'[s][k] = file[s][k]
<1>1. s \in DOMAIN file' /\ file'[s] = Over(DumpedNetwork(s), Section(s))
  BY DEF DumpedOptions, Over
<1>2. DOMAIN DumpedNetwork(s) = NetworkKeys
  BY DEF DumpedNetwork, NetworkKeys
<1>3. /\ DOMAIN file'[s] = NetworkKeys \cup DOMAIN Section(s)
      /\ \A k \in NetworkKeys : file'[s][k] = DumpedNetwork(s)[k]
      /\ \A k \in DOMAIN Section(s) \ NetworkKeys : file'[s][k] = Section(s)[k]
  BY <1>1, <1>2 DEF Over
<1>4. \A k : Has(s, k) <=> k \in DOMAIN Section(s)
  BY DEF Has, Section
<1>5. \A k : Has(s, k) => Section(s)[k] = file[s][k]
  BY DEF Has, Section
<1> QED BY <1>1, <1>3, <1>4, <1>5 DEF Has, Value, Groups

\* Without nodes, the dump writes no section but the networks' and information.
LEMMA DumpedRest ==
  ASSUME NEW q, IInv, phase = "install", Nodes = {}, file' = DumpedOptions(q)
  PROVE  /\ Groups' = Groups
         /\ \A s \in Groups \ (Networks \cup {"information"}) : file'[s] = file[s]
         /\ \A k : Has("information", k) => Has("information", k)'
<1>1. DOMAIN DumpedNodes(q) = {}
  <2>1. Cardinality(Nodes) = 0
    BY FS_EmptySet
  <2>2. DOMAIN DumpedNodes(q) = {t \in DOMAIN Number : Number[t] \in 1 .. 2 * Cardinality(Nodes)}
    BY DEF DumpedNodes
  <2>3. 1 .. 2 * Cardinality(Nodes) = {}
    BY <2>1
  <2> QED BY <2>2, <2>3
<1>2. Networks \subseteq Groups /\ "information" \in Groups
  <2>1. \A s \in Networks : Has(s, "interface")
    BY Filled DEF LoadsNetwork
  <2>2. Has("information", "cluster_name")
    BY Accepted DEF Loads, LoadsAllButOFED, LoadsSettings, Demanded, HasAll
  <2> QED BY <2>1, <2>2 DEF Has
<1>3. DOMAIN DumpedSettings = {"information"}
  BY DEF DumpedSettings
<1>4. DOMAIN file' = DOMAIN file
  BY <1>1, <1>2, <1>3 DEF DumpedOptions, Over, Groups
<1>5. \A s \in DOMAIN file \ (Networks \cup {"information"}) : file'[s] = file[s]
  BY <1>1, <1>3 DEF DumpedOptions, Over
<1>6. "information" \notin Networks
  BY DEF Networks
<1>7. file'["information"] = DumpedSettings["information"]
  BY <1>1, <1>2, <1>3, <1>6 DEF DumpedOptions, Over
<1>8. DOMAIN file["information"] \subseteq DOMAIN file'["information"]
  BY <1>7 DEF DumpedSettings, With
<1> QED BY <1>4, <1>5, <1>8 DEF Groups, Has

\* A network that is dumped is loaded again as the model has it: its address,
\* which is written for the connection's, is in the network.
LEMMA NetworkAgain ==
  ASSUME NEW q, NEW s \in Networks, IInv, phase = "install", file' = DumpedOptions(q)
  PROVE  /\ Value(s, "interface")' = Value(s, "interface")
         /\ Value(s, "mac_address")' = Value(s, "mac_address")
         /\ Address(s)' = NetworkOf[Address(s)][Mask(s)]
         /\ Mask(s)' = Mask(s) /\ Domain(s)' = Domain(s)
         /\ ModelNetwork(s)' = ModelNetwork(s)
<1>1. \A k \in NetworkKeys : Has(s, k)' /\ Value(s, k)' = DumpedNetwork(s)[k]
  BY DumpedSection
<1>2. cluster.networks[s] = ModelNetwork(s)
  BY Fields
<1>3. /\ Value(s, "interface")' = Value(s, "interface")
      /\ Value(s, "mac_address")' = Value(s, "mac_address")
      /\ Value(s, "ip_address")' = NetworkOf[Address(s)][Mask(s)]
      /\ Value(s, "subnet_mask")' = Mask(s)
      /\ Value(s, "gateway")' = ModelNetwork(s).gateway
      /\ Value(s, "domain_name")' = Domain(s)
  BY <1>1, <1>2 DEF NetworkKeys, DumpedNetwork, ModelNetwork
<1>4. \A k \in NetworkKeys : Value(s, k)' = file'[s][k]
  BY <1>1 DEF Value
<1>5. Address(s)' = NetworkOf[Address(s)][Mask(s)] /\ Mask(s)' = Mask(s)
  BY <1>1, <1>3, <1>4 DEF NetworkKeys, Address, Mask
<1>6. Domain(s)' = Domain(s)
  <2>1. Domain(s) # Blank
    BY Filled, AnswerfileAssumption, BlankAssumption
  <2> QED BY <2>1, <1>3 DEF Domain
<1>7. NetworkOf[Address(s)'][Mask(s)'] = NetworkOf[Address(s)][Mask(s)]
  BY <1>5, Filled, NetworkAssumption
<1>8. Has(s, "gateway")' /\ file'[s]["gateway"] = ModelNetwork(s).gateway
  BY <1>1, <1>3, <1>4 DEF NetworkKeys
<1>9. ModelNetwork(s)' = [address |-> NetworkOf[Address(s)'][Mask(s)'], mask |-> Mask(s)',
                          domain |-> Domain(s)', gateway |-> ModelNetwork(s).gateway]
  BY <1>8 DEF ModelNetwork
<1>10. ModelNetwork(s) = [address |-> NetworkOf[Address(s)][Mask(s)], mask |-> Mask(s),
                          domain |-> Domain(s), gateway |-> ModelNetwork(s).gateway]
  BY DEF ModelNetwork
<1> QED BY <1>3, <1>5, <1>6, <1>7, <1>9, <1>10

\* The next run loads the file that was dumped, if it has no nodes ...
LEMMA LoadsAgain ==
  ASSUME NEW q, IInv, phase = "install", Nodes = {}, file' = DumpedOptions(q)
  PROVE  Loads'
<1>1. Loads /\ Fills
  BY Accepted
<1>2. Groups' = Groups /\ Nodes' = Nodes /\ Networks' = Networks
  BY DumpedRest DEF Nodes, Networks
<1>3. \A s \in Groups \ (Networks \cup {"information"}) : file'[s] = file[s]
  BY DumpedRest
<1>4. \A s : s \notin Networks \cup {"information"} =>
        \A k : Has(s, k)' = Has(s, k) /\ (Has(s, k) => file'[s][k] = file[s][k])
  BY <1>2, <1>3 DEF Has
<1>5. \A s : s \notin Networks \cup {"information"} =>
        \A keys : HasAll(s, keys)' = HasAll(s, keys)
  BY <1>4 DEF HasAll
<1>6. \A s \in Networks : LoadsNetwork(s)'
  <2> SUFFICES ASSUME NEW s \in Networks PROVE LoadsNetwork(s)'
    OBVIOUS
  <2>1. \A k \in NetworkKeys : Has(s, k)' /\ Value(s, k)' = file'[s][k]
    BY DumpedSection DEF Value
  <2>2. ModelNetwork(s).gateway \in Addresses
    <3>1. Has(s, "gateway") => file[s]["gateway"] \in Addresses
      BY Filled DEF LoadsNetwork, WellFormed
    <3> QED BY <3>1, AnswerfileAssumption, BlankAssumption DEF ModelNetwork
  <2>3. /\ file'[s]["ip_address"] = NetworkOf[Address(s)][Mask(s)]
        /\ file'[s]["subnet_mask"] = Mask(s)
        /\ file'[s]["gateway"] = ModelNetwork(s).gateway
    <3>1. cluster.networks[s] = ModelNetwork(s)
      BY Fields
    <3>2. \A k \in NetworkKeys : file'[s][k] = DumpedNetwork(s)[k]
      BY <2>1, DumpedSection
    <3> QED BY <3>1, <3>2 DEF NetworkKeys, DumpedNetwork, ModelNetwork
  <2>4. Mask(s) \in Addresses /\ NetworkOf[Address(s)][Mask(s)] \in Addresses
    <3>1. Address(s) \in Addresses /\ Mask(s) \in Masks
      BY Filled
    <3> QED BY <3>1, AnswerfileAssumption
  <2>5. \A k \in {"ip_address", "subnet_mask", "gateway"} : file'[s][k] \in Addresses
    BY <2>2, <2>3, <2>4
  <2> QED BY <2>1, <2>5 DEF LoadsNetwork, WellFormed, NetworkKeys
<1>7. LoadsSettings'
  <2>1. \A s \in DOMAIN Demanded : HasAll(s, Demanded[s])
    BY <1>1 DEF Loads, LoadsAllButOFED, LoadsSettings
  <2>2. \A s \in DOMAIN Demanded : s \notin Networks
    BY DEF Demanded, Networks
  <2>3. \A s \in DOMAIN Demanded : \A k : Has(s, k) => Has(s, k)'
    BY <1>4, <2>2, DumpedRest
  <2> QED BY <2>1, <2>3 DEF LoadsSettings, HasAll
<1>8. LoadsSystem'
  <2>1. "system" \notin Networks \cup {"information"}
    BY DEF Networks
  <2>2. LoadsSystem /\ Value("system", "distro") \in Distros
    BY <1>1 DEF Loads, LoadsAllButOFED, Fills, FillsSystem
  <2>3. Has("system", "distro")
    BY <2>2 DEF LoadsSystem, HasAll
  <2>4. file["system"]["distro"] \in Distros /\ file'["system"]["distro"] = file["system"]["distro"]
    BY <1>4, <2>1, <2>2, <2>3 DEF Value
  <2> QED BY <1>5, <2>1, <2>2, <2>4 DEF LoadsSystem
<1>9. LoadsNodes'
  <2>1. "node" \notin Networks \cup {"information"}
    BY DEF Networks
  <2>2. LoadsNode("node")
    BY <1>1 DEF Loads, LoadsAllButOFED, LoadsNodes
  <2>3. LoadsNode("node")'
    BY <1>4, <1>5, <2>1, <2>2 DEF LoadsNode, WellFormed
  <2> QED BY <1>2, <2>3 DEF LoadsNodes
<1>10. LoadsPostfix'
  <2>1. "postfix" \notin Networks \cup {"information"}
    BY DEF Networks
  <2>2. \A p : SmtpSection(p) \notin Networks \cup {"information"}
    BY DEF Networks, SmtpSection
  <2>3. LoadsPostfix
    BY <1>1 DEF Loads, LoadsAllButOFED
  <2> SUFFICES ASSUME "postfix" \in Groups PROVE LoadsPostfix'
    BY <1>2 DEF LoadsPostfix
  <2>4. file'["postfix"] = file["postfix"]
    BY <1>3, <2>1
  <2> SUFFICES ASSUME NEW p, p = file["postfix"]["profile"] PROVE LoadsPostfix'
    OBVIOUS
  <2>5. /\ HasAll("postfix", Mailing) /\ p \in MailProfiles
        /\ HasAll(SmtpSection(p), Smtp[p])
        /\ "port" \in Smtp[p] => file[SmtpSection(p)]["port"] \in Numbers
    BY <2>3 DEF LoadsPostfix
  <2>6. HasAll("postfix", Mailing)' /\ HasAll(SmtpSection(p), Smtp[p])'
    BY <1>5, <2>1, <2>2, <2>5
  <2>7. "port" \in Smtp[p] => file'[SmtpSection(p)]["port"] \in Numbers
    BY <1>4, <2>2, <2>5 DEF HasAll
  <2> QED BY <2>4, <2>5, <2>6, <2>7 DEF LoadsPostfix
<1>11. LoadsOFED'
  <2>1. "ofed" \notin Networks \cup {"information"}
    BY DEF Networks
  <2>2. LoadsOFED
    BY <1>1 DEF Loads
  <2> QED BY <1>4, <2>1, <2>2 DEF LoadsOFED
<1>12. {"network_external", "network_management"} \subseteq Networks
  BY DEF Networks
<1>13. "network_application" \in Groups' => "network_application" \in Networks
  BY <1>2 DEF Networks
<1> QED BY <1>6, <1>7, <1>8, <1>9, <1>10, <1>11, <1>12, <1>13 DEF Loads, LoadsAllButOFED

\* ... and makes a model of it.
LEMMA FillsAgain ==
  ASSUME NEW q, IInv, phase = "install", Nodes = {}, file' = DumpedOptions(q)
  PROVE  Fills'
<1>1. Fills
  BY Accepted
<1>2. Groups' = Groups /\ Nodes' = Nodes /\ Networks' = Networks
  BY DumpedRest DEF Nodes, Networks
<1>3. \A s \in Networks : FillsNetwork(s)'
  <2> SUFFICES ASSUME NEW s \in Networks PROVE FillsNetwork(s)'
    OBVIOUS
  <2>1. FillsNetwork(s)
    BY <1>1 DEF Fills
  <2>2. FillsAddress(s)'
    <3>1. NetworkOf[Address(s)'][Mask(s)'] = Address(s)' /\ Mask(s)' = Mask(s)
      BY NetworkAgain, Filled, NetworkAssumption
    <3>2. Address(s)' = NetworkOf[Address(s)][Mask(s)]
      BY NetworkAgain
    <3> QED BY <2>1, <3>1, <3>2 DEF FillsNetwork, FillsAddress, SetsCalculated, SetsAddress, SetsSubnetMask
  <2>3. SetsNameservers(s)'
    <3>1. "nameservers" \notin NetworkKeys
      BY DEF NetworkKeys
    <3>2. /\ Has(s, "nameservers")' = Has(s, "nameservers")
          /\ Has(s, "nameservers") => file'[s]["nameservers"] = file[s]["nameservers"]
      BY <3>1, DumpedSection
    <3> QED BY <2>1, <3>2 DEF FillsNetwork, SetsNameservers, WellFormed
  <2>4. FillsConnection(s)'
    BY <2>1, NetworkAgain DEF FillsNetwork, FillsConnection
  <2>5. SetsDomainName(Domain(s)')
    BY <2>1, NetworkAgain DEF FillsNetwork
  <2> QED BY <2>2, <2>3, <2>4, <2>5 DEF FillsNetwork, SetsDomainName
<1>4. FillsSystem'
  <2>1. \A s \in {"system", "ofed"} : s \notin Networks \cup {"information"}
    BY DEF Networks
  <2>2. \A s \in {"system", "ofed"} : \A k : Value(s, k)' = Value(s, k)
    BY <1>2, <2>1, DumpedRest DEF Value, Has
  <2>3. FillsSystem
    BY <1>1 DEF Fills
  <2> QED BY <2>2, <2>3 DEF FillsSystem, SetsDiskImage
<1>5. HasAll("network_management", {"subnet_mask", "ip_address"})'
  <2>1. "network_management" \in Networks
    BY DEF Networks
  <2> QED BY <2>1, DumpedSection DEF NetworkKeys, HasAll
<1>6. FillsApplication'
  <2> SUFFICES ASSUME "network_application" \in Groups PROVE FillsApplication'
    BY <1>2 DEF FillsApplication
  <2>1. "network_application" \in Networks
    BY DEF Networks
  <2>2. Has("network_application", "nameservers")
    BY <1>1 DEF Fills, FillsApplication, HasAll
  <2>3. "nameservers" \notin NetworkKeys
    BY DEF NetworkKeys
  <2>4. Has("network_application", "nameservers")'
    BY <2>1, <2>2, <2>3, DumpedSection
  <2>5. Has("network_application", "subnet_mask")' /\ Has("network_application", "gateway")'
    BY <2>1, DumpedSection DEF NetworkKeys
  <2> QED BY <2>4, <2>5 DEF FillsApplication, HasAll
<1> QED BY <1>2, <1>3, <1>4, <1>5, <1>6 DEF Fills

\* Of what --dump-answerfile wrote, loadOptions and fillData make the networks
\* that were dumped, and, where there are no nodes, accept all of it.
THEOREM NetworksKept == Spec => DumpKeepsNetworks
<1> DEFINE KeepsThem == dumped # None =>
      /\ \A s \in DOMAIN cluster.networks : ModelNetwork(s)' = cluster.networks[s]
      /\ DOMAIN cluster.nodes = {} => Loads' /\ Fills'
<1>1. Init => DumpInv
  BY DEF Init, DumpInv
<1>2. IInv /\ DumpInv /\ [Next]_vars => [KeepsThem]_vars
  <2> SUFFICES ASSUME IInv, DumpInv, [Next]_vars, dumped # None, ~UNCHANGED vars
               PROVE  /\ \A s \in DOMAIN cluster.networks : ModelNetwork(s)' = cluster.networks[s]
                      /\ DOMAIN cluster.nodes = {} => Loads' /\ Fills'
    OBVIOUS
  <2>1. PICK q \in Orders : dumped = DumpedOptions(q)
    BY DEF DumpInv
  <2>2. phase = "install" /\ cluster = Cluster
    BY DEF DumpInv, IInv
  <2>3. Exit
    BY <2>2 DEF Next, Edit, Start, LoadOptions, FillData, DumpData, DumpNewFile
  <2>4. file' = DumpedOptions(q)
    BY <2>1, <2>3 DEF Exit
  <2>5. cluster.networks = [s \in Networks |-> ModelNetwork(s)]
    BY <2>2 DEF Cluster
  <2>6. DOMAIN cluster.nodes = Nodes
    BY <2>2 DEF Cluster
  <2>7. \A s \in Networks : ModelNetwork(s)' = ModelNetwork(s)
    BY <2>2, <2>4, NetworkAgain
  <2>8. Nodes = {} => Loads' /\ Fills'
    BY <2>2, <2>4, LoadsAgain, FillsAgain
  <2> QED BY <2>5, <2>6, <2>7, <2>8
<1> QED BY <1>1, <1>2, Invariant, DumpNext, PTL DEF Spec, DumpKeepsNetworks
=============================================================================
