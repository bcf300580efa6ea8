----------------------------- MODULE RepoNames ------------------------------
(***************************************************************************)
(* Which repositories a distribution gets and which of them are enabled:   *)
(* the [groups] and filenames of the .conf files under repos/, and the     *)
(* names RepoNames::resolveReposNames asks RPMRepoManager to enable.       *)
(*                                                                         *)
(* A repository name is <<template, n>>: n is the number that was put in   *)
(* the place of the template's {releasever}, 0 when nothing was.           *)
(***************************************************************************)
EXTENDS Naturals, Sequences

Distros == {"Rocky", "RHEL", "AlmaLinux", "OL"}

Plain(template) == <<template, 0>>
Filled(template, releasever) == <<template, releasever>>

\* A [group] of a .conf file: where it goes, and which of the optional keys
\* mirror.repo, mirror.gpgkey and upstream.gpgkey it has.
Entries(templates, filename, keys) ==
  {[group |-> t, filename |-> filename, keys |-> keys] : t \in templates}

Upstream == {"upstream.gpgkey"}
Both == {"mirror.repo", "upstream.gpgkey"}
Signed == {"mirror.repo", "mirror.gpgkey", "upstream.gpgkey"}

\* repos/rocky-upstream.conf and rocky-vault.conf, rhel.conf, alma.conf and
\* oracle.conf, one of which RepoConfigParser::load parses.
DistroConf(distro) ==
  CASE distro = "Rocky" ->
         Entries({"baseos", "appstream", "crb"}, "rocky.repo", Signed) \cup
         Entries({"extras", "plus"}, "rocky-extras.repo", Signed) \cup
         Entries({"devel"}, "rocky-devel.repo", Signed) \cup
         Entries({"highavailability", "resilientstorage", "nfv", "rt"},
                 "rocky-addons.repo", Signed)
    [] distro = "RHEL" ->
         Entries({"rhel-{releasever}-codeready-builder", "rhel-{releasever}-baseos"},
                 "rhel.repo", Signed)
    [] distro = "AlmaLinux" ->
         Entries({"AlmaLinux {releasever} - CRB", "AlmaLinuxBaseOS"},
                 "almalinux.repo", Signed)
    [] distro = "OL" ->
         Entries({"ol{releasever}_codeready_builder", "OLBaseOS"}, "oracle.repo", Both)

\* repos/repos.conf, those of its files that hold a repository enabled by
\* default or by Shell::install.
CommonConf ==
  Entries({"beegfs"}, "beegfs.repo", Signed) \cup
  Entries({"elrepo"}, "elrepo.repo", Both) \cup
  Entries({"rpmfusion"}, "rpmfusion.repo", Signed) \cup
  Entries({"epel", "epel-debuginfo", "epel-source"}, "epel.repo", Signed) \cup
  Entries({"OpenHPC", "OpenHPC-Updates"}, "OpenHPC.repo", {"mirror.repo"}) \cup
  Entries({"xcat-core"}, "xcat-core.repo", Upstream) \cup
  Entries({"xcat-dep"}, "xcat-deps.repo", Upstream) \cup
  Entries({"doca"}, "mlx-doca.repo", Upstream)

\* RepoConfigParser::parse: the id of a repository is its [group] as it stands.
Group(entry) == Plain(entry.group)

\* RepoConfFile: the ids of a .conf, grouped by the names of their files
Grouped(conf) ==
  [f \in {e.filename : e \in conf} |-> {Group(e) : e \in {e \in conf : e.filename = f}}]

\* The ids of a .conf whose groups do not have the key.
Without(conf, key) == {Group(e) : e \in {e \in conf : key \notin e.keys}}

\* resolveCodeReadyBuilderName, as resolveReposNames calls it
CodeReadyBuilderName == Plain("crb")

\* RepoNames::resolveReposNames, in the order of the calls of addToOutput
ResolveReposNames(distro, releasever) ==
  (CASE distro = "AlmaLinux" ->
          <<Plain("AlmaLinuxBaseOS"),
            Filled("\"AlmaLinux {releasever} - CRB\"", releasever)>>
     [] distro = "Rocky" ->
          <<Plain("appstream"), Plain("baseos"), CodeReadyBuilderName>>
     [] distro = "RHEL" ->
          <<Filled("rhel-{releasever}-baseos", releasever),
            Filled("rhel-{releasever}-codeready-builder", releasever)>>
     [] distro = "OL" ->
          <<Plain("OLBaseOS"),
            Filled("ol{releasever}_codeready_builder", releasever)>>)
  \o <<Plain("epel"), Plain("OpenHPC"), Plain("OpenHPC-Updates"),
       Plain("rpmfusion"), Plain("elrepo"), Plain("beegfs")>>
=============================================================================
