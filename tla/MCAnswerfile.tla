---------------------------- MODULE MCAnswerfile -----------------------------
(***************************************************************************)
(* Answerfile in small: the sample correct.answerfile.ini with a section   *)
(* [ofed], also with an application network or a mail system, and edits of *)
(* every kind the code tells apart.                                        *)
(***************************************************************************)
EXTENDS Answerfile, Sequences

Sample ==
  [information |-> [cluster_name |-> "c", company_name |-> "c", administrator_email |-> "a@b"],
   time |-> [timezone |-> "UTC", timeserver |-> "t", locale |-> "C"],
   hostname |-> [hostname |-> "h", domain_name |-> "a.b"],
   network_external |-> [interface |-> "eth1", domain_name |-> "x.b"],
   network_management |-> [interface |-> "eth2", ip_address |-> "10.0.0.9",
                           subnet_mask |-> "255.0.0.0", domain_name |-> "m.b"],
   system |-> [disk_image |-> "a.iso", distro |-> "rocky", version |-> "9.5", kernel |-> "k"],
   node |-> [prefix |-> "n", padding |-> "2", node_ip |-> "10.0.0.1",
             node_root_password |-> "p", sockets |-> "1", cores_per_socket |-> "2",
             threads_per_core |-> "1", bmc_address |-> "b", bmc_username |-> "u",
             bmc_password |-> "p", bmc_serialport |-> "1", bmc_serialspeed |-> "1"],
   ofed |-> [kind |-> "inbox", version |-> "latest"]]
  @@ ("node.1" :> [mac_address |-> "ca:fe", bmc_address |-> "b1"])

Application ==
  [network_application |-> [interface |-> "eth3", ip_address |-> "10.0.0.9",
                            subnet_mask |-> "255.0.0.0", gateway |-> "0.0.0.0",
                            domain_name |-> "a.b", nameservers |-> "10.0.0.9"]]

WithMail(profile) ==
  [postfix |-> [profile |-> profile, destination |-> "a.b", smtpd_tls_cert_file |-> "c",
                smtpd_tls_key_file |-> "k"]]
  @@ ("postfix.relay" :> [server |-> "s", port |-> "2"])
  @@ ("postfix.sasl" :> [server |-> "s", port |-> "2", username |-> "u", password |-> "p"])

MCBases ==
  {Sample, Sample @@ Application} \cup {Sample @@ WithMail(p) : p \in {"local", "relay", "sasl"}}

Set(s, k, v) == <<s, k, v>>
Unset(s, k) == <<s, k, None>>
Remove(s) == <<s, None, None>>

Network(s) ==
  {Set(s, "interface", "nosuch"), Set(s, "ip_address", "10.0.0.9"),
   Set(s, "ip_address", "0.0.0.5"), Set(s, "ip_address", "0.0.0.0"),
   Set(s, "ip_address", "text"), Set(s, "subnet_mask", "255.0.0.0"),
   Set(s, "subnet_mask", "0.0.0.0"), Set(s, "subnet_mask", "10.0.0.9"),
   Set(s, "domain_name", ""), Set(s, "domain_name", "x.b"),
   Set(s, "nameservers", "text"), Set(s, "nameservers", "10.0.0.9"),
   Set(s, "gateway", "10.0.0.9"), Set(s, "mac_address", "ca:fe"),
   Set(s, "mac_address", "text"), Unset(s, "subnet_mask"), Unset(s, "interface"),
   Unset(s, "domain_name"), Unset(s, "ip_address"), Remove(s)}

MCChanges ==
  UNION {Network(s) : s \in {"network_external", "network_management", "network_application"}}
  \cup {Set("network_external", "interface", "eth3"),
        Unset("information", "administrator_email"), Remove("time"),
        Unset("hostname", "hostname"),
        Set("system", "distro", "other"), Set("system", "version", "7"),
        Unset("system", "kernel"), Set("system", "disk_image", "none.iso"),
        Set("node", "prefix", ""), Set("node", "padding", "x"), Unset("node", "padding"),
        Unset("node", "sockets"), Unset("node", "node_ip"), Unset("node", "bmc_address"),
        Set("node", "node_ip", "text"),
        Set("node.1", "sockets", "2"), Set("node.1", "sockets", "x"),
        Set("node.1", "node_ip", "10.0.0.9"), Set("node.1", "hostname", "h1"),
        Unset("node.1", "mac_address"), Set("node.1", "mac_address", "text"),
        Set("node.0", "sockets", "x"), Set("node.x", "sockets", "x"),
        Set("node.4", "mac_address", "be:ef"), Remove("node.1"),
        Set("ofed", "kind", ""), Set("ofed", "kind", "other"), Unset("ofed", "version"),
        Remove("ofed"), Remove("postfix"),
        Set("postfix", "profile", "sasl"), Set("postfix", "profile", "text"),
        Unset("postfix", "destination"), Remove("postfix.relay"), Remove("postfix.sasl"),
        Unset("postfix.sasl", "username"), Set("postfix.relay", "port", "x"),
        Set("postfix.relay", "server", "")}

Interface == {"eth1", "eth2", "eth3"}

MCNumber ==
  ("node.0" :> 0) @@ ("node.1" :> 1) @@ ("node.2" :> 2) @@ ("node.3" :> 3) @@ ("node.4" :> 4)
MCFormatted(prefix, width, n) == prefix \o (IF width = "2" THEN "0" ELSE "") \o ToString(n)
MCAddresses == {"0.0.0.0", "0.0.0.5", "10.0.0.0", "10.0.0.1", "10.0.0.9", "255.0.0.0"}
MCMasks == {"0.0.0.0", "255.0.0.0"}
MCNetworkOf ==
  [a \in MCAddresses |-> [m \in MCMasks |->
    IF m = "255.0.0.0" /\ a \in {"10.0.0.0", "10.0.0.1", "10.0.0.9"} THEN "10.0.0.0"
    ELSE IF m = "255.0.0.0" /\ a = "255.0.0.0" THEN "255.0.0.0" ELSE "0.0.0.0"]]
MCMachineAddress == [i \in Interface |-> IF i = "eth1" THEN "10.0.0.1" ELSE "0.0.0.0"]
MCMachineMask == [i \in Interface |-> IF i = "eth3" THEN "0.0.0.0" ELSE "255.0.0.0"]
=============================================================================
