----------------------------- MODULE MCHeadnode ------------------------------
(***************************************************************************)
(* Headnode in small: a model as an answerfile makes it, without a         *)
(* firewall; that of Cluster::fillTestData, whose call in main is commented *)
(* out, with a firewall and with other addresses and nodes; one without a  *)
(* queue system or a system update, with an unsupported stack and a mail   *)
(* system, as the class Cluster allows for; and one of an answerfile with  *)
(* a section [postfix].                                                    *)
(***************************************************************************)
EXTENDS Headnode

On(profile, address) == [profile |-> profile, address |-> address]

First == [name |-> "first", selinux |-> "disabled", firewall |-> FALSE, slurm |-> TRUE,
          update |-> TRUE, ofed |-> "mellanox", mail |-> FALSE,
          timezone |-> "UTC", locale |-> "C",
          connections |-> <<On("Management", "10.1"), On("External", "200.1"),
                            On("Application", "172.1")>>]
Second == [First EXCEPT !.name = "second", !.firewall = TRUE, !.ofed = "inbox",
                        !.connections[1].address = "10.2"]
Third == [First EXCEPT !.name = "third", !.slurm = FALSE, !.update = FALSE,
                       !.ofed = "oracle", !.mail = TRUE,
                       !.connections = SubSeq(@, 1, 2)]
Fourth == [First EXCEPT !.name = "fourth", !.mail = TRUE, !.ofed = "inbox"]

CONSTANT Names   \* the models of the run

MCModels == {m \in {First, Second, Third, Fourth} : m.name \in Names}
=============================================================================
