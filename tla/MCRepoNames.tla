---------------------------- MODULE MCRepoNames -----------------------------
(***************************************************************************)
(* Repos with the names of RepoNames: the four distributions as shipped,   *)
(* with the files of their own .conf and of repos.conf that a constant     *)
(* names.                                                                  *)
(***************************************************************************)
EXTENDS RepoAssembly, RepoNames

CONSTANTS distro, releasever, files, flaky

Conf == DistroConf(distro) \cup CommonConf
Instance == {e \in Conf : e.filename \in files}

ASSUME distro \in Distros /\ files = {e.filename : e \in Instance}

MCDistro == Grouped(Instance \cap DistroConf(distro))
MCCommon == Grouped(Instance \cap CommonConf)
MCConfigured == {Group(e) : e \in Instance}

\* What resolveReposNames asks for, without the names of the files left out.
LeftOut == {Group(e) : e \in Conf \ Instance}
MCWanted == SelectSeq(ResolveReposNames(distro, releasever), LAMBDA i : i \notin LeftOut)

\* What the vendor ships: Rocky under the names that the project generates as
\* well, the others under names of their own.
MCVendor ==
  CASE distro = "Rocky" -> [f \in {"rocky.repo"} |-> MCDistro[f]]
    [] distro = "OL" -> [f \in {"oracle-linux-ol9.repo"} |->
                           {Plain("ol9_baseos_latest"),
                            Filled("ol{releasever}_codeready_builder", releasever)}]
    [] OTHER -> [f \in {"redhat.repo"} |-> {Plain("vendor")}]

MCFiles == files \cup DOMAIN MCVendor
MCIds == MCConfigured \cup Ranged(MCWanted) \cup UNION {MCVendor[f] : f \in DOMAIN MCVendor}

MCNoMirror == Without(Instance, "mirror.repo")
MCNoMirrorKey == Without(Instance, "mirror.gpgkey")
MCNoUpstreamKey == Without(Instance, "upstream.gpgkey")
MCFlaky == {Plain(i) : i \in flaky}

MCPackage == [f \in {} |-> {}]

\* Shell::install
MCSingles == [id : {i \in MCConfigured : i[1] = "xcat-core"}, value : {TRUE}]

\* The names that resolveReposNames asks for are groups of the .conf files, for
\* Rocky Linux alone of the distributions that the runs take.
ASSUME NamesAgree <=> distro = "Rocky"
=============================================================================
