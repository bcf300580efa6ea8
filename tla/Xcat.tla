-------------------------------- MODULE Xcat --------------------------------
(***************************************************************************)
(* The provisioner, services/xcat.cpp, as Shell::install drives it: patch  *)
(* xCAT, build the stateless image, add the nodes, boot them into it.  A   *)
(* run of the program is a sequence of external commands.  Those it runs   *)
(* with checkCommand end the run when they fail; the exit code of those it *)
(* runs with executeCommand is dropped.  A run may die between two of them *)
(* and may be started again, with other options and another answerfile.    *)
(***************************************************************************)
EXTENDS Naturals, FiniteSets, RepoNames

CONSTANTS
  distro,       \* distribution of the head node and of the image
  Nodes,        \* the compute nodes an answerfile may list; its queue system is SLURM
  Versions,     \* versions of the OS it may give them: an image is named after it
  Ofeds,        \* InfiniBand stacks it may name; without one it is "inbox"
  Vaults,       \* what RockyLinux::shouldUseVault may answer
  Forces,       \* is --force genimage given?
  Skips,        \* is --skip copycds given?
  MayFail,      \* commands that may fail
  ChdefCreates, \* does chdef create an osimage definition that is not there?
  MaxRuns,      \* bound: how many times the program is started
  None          \* no such file, definition, directory or image

Commands == {"ln", "httpd", "dnf", "sed", "xcatconfig", "site", "copycds", "rm", "doca", "chdef", "cp",
             "script", "genimage", "packimage", "mkdef", "nodeset", "rsetboot", "rpower"}

ASSUME XcatAssumption ==
  /\ distro \in Distros
  /\ Ofeds \subseteq {"inbox", "mellanox", "oracle"}
  /\ Vaults \subseteq BOOLEAN /\ Forces \subseteq BOOLEAN /\ Skips \subseteq BOOLEAN
  /\ MayFail \subseteq Commands
  /\ ChdefCreates \in BOOLEAN
  /\ MaxRuns \in Nat
  /\ None \notin Versions

VARIABLES
  \* the disk and the nodes: they survive the program
  patched,    \* which parts of xCAT patchInstall has changed
  links,      \* are configureEL9's symbolic links there?
  httpRepo,   \* the .conf of the DOCA kernel modules: written, loaded by httpd?
  files,      \* compute.otherpkglist, .postinstall and .synclists, of all images
  \* of each image
  osimage,    \* attributes and package directories of the definition, or None
  rootimg,    \* what its root directory has, or None
  packed,     \* the packed image, or None
  script,     \* /tmp/<hash>.sh, whose text has the image's name
  \* of the nodes
  defined,    \* nodes xCAT knows
  target,     \* the osimage nodeset told each node to boot
  booted,     \* the image each node was last reset into
  \* the running program
  phase,
  stateless,  \* m_stateless
  run         \* its options and answerfile, and whether a command's failure
              \* was dropped

xcatVars == <<patched, links, httpRepo>>
imageVars == <<osimage, files, rootimg, packed, script>>
nodeVars == <<defined, target, booted>>
vars == <<xcatVars, imageVars, nodeVars, phase, stateless, run>>

Parts == {"client", "server", "certs"}
Lists == {"otherpkglist", "postinstall", "synclists"}
DistroFiles == {entry.filename : entry \in DistroConf(distro)}
RepoFiles == DistroFiles \cup {"epel.repo", "OpenHPC.repo"}
Attributes == Lists \cup RepoFiles \cup {"doca", "doca-kernel"}
Packages == {"ohpc-base-compute", "chrony", "@infiniband", "doca-ofed",
             "ohpc-slurm-client", "autofs"}
Settings == {"selinux", "chrony", "slurm", "limits", "firewalld", "autofs"}
Synced == {"accounts", "munge.key"}
Lines == Packages \cup Settings \cup Synced
Things == ({"package"} \X Packages) \cup ({"setting"} \X Settings)
            \cup ({"file"} \X {"accounts", "munge", "automount"})
Packs == [run : 1..MaxRuns, skip : BOOLEAN, ofed : Ofeds, lost : BOOLEAN,
           root : SUBSET Things]

ASSUME NoneAssumption ==
  /\ \A S \in (SUBSET Lines) \cup (SUBSET Attributes) \cup (SUBSET Things) : S # None
  /\ None \notin Packs

\* struct XCAT::Image
Images == [osimage : Versions \cup {None}, chroot : Versions \cup {None},
           otherpkgs : SUBSET Packages, postinstall : SUBSET Settings]
Runs == [number : 0..MaxRuns, force : BOOLEAN, skip : BOOLEAN, vault : BOOLEAN,
         ofed : Ofeds \cup {"none"}, nodes : SUBSET Nodes,
         version : Versions \cup {None}, lost : BOOLEAN]
Phases ==
  {"off", "construct", "packages", "patch", "patch server", "patch certs", "setup", "arguments",
   "EL9", "exists", "media", "configure", "infiniband", "test httpd",
   "restart httpd", "doca", "slurm", "define", "repos", "customize", "install script",
   "write script", "run script", "genimage", "packimage", "nodes", "addNodes nodeset", "nodeset",
   "boot", "reset", "done", "failed",
   "remove otherpkglist", "remove postinstall", "remove synclists",
   "write otherpkglist", "write postinstall", "write synclists"}

TypeOK ==
  /\ patched \subseteq Parts /\ links \in BOOLEAN
  /\ httpRepo \in {None, "written", "served"}
  /\ files \in [Lists -> (SUBSET Lines) \cup {None}]
  /\ osimage \in [Versions -> (SUBSET Attributes) \cup {None}]
  /\ rootimg \in [Versions -> (SUBSET Things) \cup {None}]
  /\ packed \in [Versions -> Packs \cup {None}]
  /\ script \in [Versions -> {None, "partial", "whole"}]
  /\ defined \subseteq Nodes
  /\ target \in [Nodes -> Versions \cup {None}]
  /\ booted \in [Nodes -> Packs \cup {None}]
  /\ phase \in Phases
  /\ stateless \in Images /\ run \in Runs

NoImage == [osimage |-> None, chroot |-> None, otherpkgs |-> {}, postinstall |-> {}]
Image == stateless.osimage

\* Between two runs only their number is remembered.
Between(number) ==
  [number |-> number, force |-> FALSE, skip |-> FALSE, vault |-> FALSE,
   ofed |-> "none", nodes |-> {}, version |-> None, lost |-> FALSE]

Init ==
  /\ patched = {} /\ links = FALSE /\ httpRepo = None
  /\ files = [l \in Lists |-> None]
  /\ osimage = [v \in Versions |-> None] /\ rootimg = [v \in Versions |-> None]
  /\ packed = [v \in Versions |-> None] /\ script = [v \in Versions |-> None]
  /\ defined = {} /\ target = [n \in Nodes |-> None]
  /\ booted = [n \in Nodes |-> None]
  /\ phase = "off" /\ stateless = NoImage /\ run = Between(0)

-----------------------------------------------------------------------------
(* Commands                                                                 *)

From(p, q) == phase = p /\ phase' = q

\* IRunner::checkCommand throws when the command c fails.
Throws(p, c) ==
  /\ phase = p /\ c \in MayFail
  /\ phase' = "failed"
  /\ UNCHANGED <<xcatVars, imageVars, nodeVars, stateless, run>>

\* The exit code that IRunner::executeCommand returns is dropped.
Drops(p, q, c) ==
  /\ From(p, q) /\ c \in MayFail
  /\ run' = [run EXCEPT !.lost = TRUE]
  /\ UNCHANGED <<xcatVars, imageVars, nodeVars, stateless>>

Start ==
  /\ phase = "off" /\ run.number < MaxRuns
  /\ run' \in [number : {run.number + 1}, force : Forces, skip : Skips, vault : Vaults,
               ofed : Ofeds, nodes : SUBSET Nodes, version : Versions, lost : {FALSE}]
  /\ phase' = "construct"
  /\ UNCHANGED <<xcatVars, imageVars, nodeVars, stateless>>

-----------------------------------------------------------------------------
(* The constructor, patchInstall and setup                                  *)

\* generateOSImageName: the distribution of the installation media, then the
\* version and the architecture that the first node has.
OSImageName == run.version

\* generateOSImagePath: the same, without the kind of the image, which is a netboot
\* image of a compute node in every call
OSImagePath == run.version

\* XCAT::XCAT reads getNodes()[0], and the process dies when there is none.
Construct ==
  /\ From("construct", IF run.nodes = {} THEN "failed" ELSE "packages")
  /\ stateless' = IF run.nodes = {} THEN stateless
                  ELSE [stateless EXCEPT !.osimage = OSImageName]
  /\ UNCHANGED <<xcatVars, imageVars, nodeVars, run>>

\* initscripts and xCAT: dnf install leaves what is installed alone.
InstallPackages ==
  /\ From("packages", "patch")
  /\ UNCHANGED <<xcatVars, imageVars, nodeVars, stateless, run>>

\* grep for what the first sed removes
PatchClient ==
  /\ IF "client" \in patched
     THEN From("patch", "setup") /\ UNCHANGED patched
     ELSE From("patch", "patch server") /\ patched' = patched \cup {"client"}
  /\ UNCHANGED <<links, httpRepo, imageVars, nodeVars, stateless, run>>

PatchServer ==
  /\ From("patch server", "patch certs")
  /\ patched' = patched \cup {"server"}
  /\ UNCHANGED <<links, httpRepo, imageVars, nodeVars, stateless, run>>

\* xcatconfig -f makes the certificates anew, with the scripts as they are.
PatchCerts ==
  /\ From("patch certs", "setup")
  /\ patched' = patched \cup {"certs"}
  /\ UNCHANGED <<links, httpRepo, imageVars, nodeVars, stateless, run>>

\* setDHCPInterfaces and setDomain
Setup ==
  /\ From("setup", "arguments")
  /\ UNCHANGED <<xcatVars, imageVars, nodeVars, stateless, run>>

\* Mutant: the path of the root directory is left to createImage.
GetImageInstallArgsName ==
  /\ From("arguments", "EL9")
  /\ stateless' = [stateless EXCEPT !.osimage = OSImageName]
  /\ UNCHANGED <<xcatVars, imageVars, nodeVars, run>>

\* getImageInstallArgs: generateOSImageName and generateOSImagePath
GetImageInstallArgs ==
  /\ From("arguments", "EL9")
  /\ stateless' = [stateless EXCEPT !.osimage = OSImageName, !.chroot = OSImagePath]
  /\ UNCHANGED <<xcatVars, imageVars, nodeVars, run>>

-----------------------------------------------------------------------------
(* createImage                                                              *)

\* ln -sf makes each link anew.
ConfigureEL9 ==
  /\ From("EL9", "exists")
  /\ links' = TRUE
  /\ UNCHANGED <<patched, httpRepo, imageVars, nodeVars, stateless, run>>

\* Mutant: --force genimage is not looked at.
ImageExistsUnforced ==
  /\ From("exists", IF osimage[Image] # None /\ ~run.skip THEN "nodes" ELSE "media")
  /\ UNCHANGED <<xcatVars, imageVars, nodeVars, stateless, run>>

\* Mutant: --skip copycds goes on with an image that exists where it was left.
ImageExistsResumed ==
  LET found == osimage[Image] # None /\ ~run.force
  IN /\ From("exists", IF ~found THEN "media" ELSE IF run.skip THEN "genimage" ELSE "nodes")
     /\ osimage' = IF run.force THEN [osimage EXCEPT ![Image] = None] ELSE osimage
     /\ UNCHANGED <<xcatVars, files, rootimg, packed, script, nodeVars, stateless, run>>

\* imageExists: does the definition exist, once --force genimage removed it?
ImageExists ==
  LET found == osimage[Image] # None /\ ~run.force
  IN /\ From("exists", IF found /\ ~run.skip THEN "nodes" ELSE "media")
     /\ osimage' = IF run.force THEN [osimage EXCEPT ![Image] = None] ELSE osimage
     /\ UNCHANGED <<xcatVars, files, rootimg, packed, script, nodeVars, stateless, run>>

\* copycds creates the osimage definitions of the distribution.
CopyCDs ==
  /\ From("media", "configure") /\ ~run.skip
  /\ osimage' = [osimage EXCEPT ![Image] = IF @ = None THEN {} ELSE @]
  /\ UNCHANGED <<xcatVars, files, rootimg, packed, script, nodeVars, stateless, run>>

\* --skip copycds: rm -rf the root directory, empty two of the lists.  Without a
\* path rm -rf removes nothing.
CleanUp ==
  /\ From("media", "configure") /\ run.skip
  /\ rootimg' = IF stateless.chroot = None THEN rootimg
                ELSE [rootimg EXCEPT ![stateless.chroot] = None]
  /\ files' = [files EXCEPT !["otherpkglist"] = {}, !["postinstall"] = {}]
  /\ UNCHANGED <<xcatVars, osimage, packed, script, nodeVars, stateless, run>>

\* createDirectoryTree, configureSELinux, configureOpenHPC, configureTimeService
Configure ==
  /\ From("configure", "infiniband")
  /\ stateless' = [osimage |-> Image, chroot |-> OSImagePath,
                   otherpkgs |-> {"ohpc-base-compute", "chrony"},
                   postinstall |-> {"selinux", "chrony"}]
  /\ UNCHANGED <<xcatVars, imageVars, nodeVars, run>>

AddPackage(p) == stateless' = [stateless EXCEPT !.otherpkgs = @ \cup {p}]

\* chdef -t osimage --plus
PlusWorks == osimage[Image] # None \/ ChdefCreates
Plus(attributes) ==
  osimage' = IF PlusWorks
             THEN [osimage EXCEPT ![Image] = attributes \cup (IF @ = None THEN {} ELSE @)]
             ELSE osimage

\* configureInfiniband without the packages of Mellanox
ConfigureInfiniband ==
  /\ \/ /\ From("infiniband", "slurm") /\ run.ofed = "inbox"
        /\ AddPackage("@infiniband")
     \/ /\ From("infiniband", "failed") /\ run.ofed = "oracle"
        /\ UNCHANGED stateless
  /\ UNCHANGED <<xcatVars, imageVars, nodeVars, run>>

\* createHTTPRepo returns at once when the .conf is there, whether httpd has read
\* it or not.
CreateHTTPRepo ==
  /\ run.ofed = "mellanox"
  /\ \/ /\ From("infiniband", "doca") /\ httpRepo # None
        /\ UNCHANGED httpRepo
     \/ /\ From("infiniband", "test httpd") /\ httpRepo = None
        /\ httpRepo' = "written"
  /\ UNCHANGED <<patched, links, imageVars, nodeVars, stateless, run>>

\* apachectl configtest
TestHTTPd ==
  /\ From("test httpd", "restart httpd")
  /\ UNCHANGED <<xcatVars, imageVars, nodeVars, stateless, run>>

RestartHTTPd ==
  /\ From("restart httpd", "doca")
  /\ httpRepo' = "served"
  /\ UNCHANGED <<patched, links, imageVars, nodeVars, stateless, run>>

\* The repository's content, then a chdef for DOCA and one for its kernel modules
AddDoca ==
  /\ \/ /\ From("doca", "slurm") /\ PlusWorks
        /\ AddPackage("doca-ofed")
        /\ Plus({"doca", "doca-kernel"})
     \/ /\ From("doca", "failed")
        /\ ~PlusWorks \/ "doca" \in MayFail
        /\ Plus({"doca"}) /\ UNCHANGED stateless
  /\ UNCHANGED <<xcatVars, files, rootimg, packed, script, nodeVars, run>>

\* Mutant: the settings go to the list of packages.
ConfigureSLURMSwapped ==
  /\ From("slurm", "remove otherpkglist")
  /\ stateless' = [stateless EXCEPT !.otherpkgs =
                      @ \cup {"ohpc-slurm-client", "slurm", "limits", "firewalld"}]
  /\ UNCHANGED <<xcatVars, imageVars, nodeVars, run>>

\* configureSLURM; generatePostinstallFile adds two settings of its own to
\* m_stateless.
ConfigureSLURM ==
  /\ From("slurm", "remove otherpkglist")
  /\ stateless' = [stateless EXCEPT !.otherpkgs = @ \cup {"ohpc-slurm-client"},
                                   !.postinstall = @ \cup {"slurm", "limits", "firewalld"}]
  /\ UNCHANGED <<xcatVars, imageVars, nodeVars, run>>

\* The lines that generateOtherPkgListFile, generatePostinstallFile and
\* generateSynclistsFile write; the last ignores m_stateless.synclists.
Content(l) ==
  CASE l = "otherpkglist" -> stateless.otherpkgs
    [] l = "postinstall" -> stateless.postinstall
    [] l = "synclists" -> Synced

\* removeFile(filename)
RemoveList(l, p, q) ==
  /\ From(p, q)
  /\ files' = [files EXCEPT ![l] = None]
  /\ UNCHANGED <<xcatVars, osimage, rootimg, packed, script, nodeVars, stateless, run>>

\* addStringToFile appends what the file does not have.
WriteList(l, p, q) ==
  /\ From(p, q)
  /\ files' = [files EXCEPT ![l] = Content(l) \cup (IF @ = None THEN {} ELSE @)]
  /\ UNCHANGED <<xcatVars, osimage, rootimg, packed, script, nodeVars, stateless, run>>

GenerateOtherPkgListFile ==
  \/ RemoveList("otherpkglist", "remove otherpkglist", "write otherpkglist")
  \/ WriteList("otherpkglist", "write otherpkglist", "remove postinstall")

GeneratePostinstallFile ==
  \/ RemoveList("postinstall", "remove postinstall", "write postinstall")
  \/ WriteList("postinstall", "write postinstall", "remove synclists")

GenerateSynclistsFile ==
  \/ RemoveList("synclists", "remove synclists", "write synclists")
  \/ WriteList("synclists", "write synclists", "define")

\* configureOSImageDefinition, the lists: one chdef each
DefineLists ==
  /\ From("define", "repos")
  /\ \E attached \in IF "chdef" \in MayFail THEN SUBSET Lists ELSE {Lists} :
       /\ Plus(attached)
       /\ run' = [run EXCEPT !.lost = @ \/ attached # Lists]
  /\ UNCHANGED <<xcatVars, files, rootimg, packed, script, nodeVars, stateless>>

\* Mutant: the file is named after the .conf.
OSRepoFileOfConf ==
  CASE distro = "RHEL" -> "rhel.repo"
    [] distro = "OL" -> "oracle.repo"
    [] distro = "Rocky" -> IF run.vault THEN "rocky-vault.repo" ELSE "rocky-upstream.repo"
    [] distro = "AlmaLinux" -> "alma.repo"

\* getxCATOSImageRepos: the enabled repositories of three files; a file that is
\* not there has none.
OSRepoFile ==
  CASE distro = "RHEL" -> "rhel.repo"
    [] distro = "OL" -> "oracle.repo"
    [] distro = "Rocky" -> IF run.vault THEN "rocky-vault.repo" ELSE "rocky.repo"
    [] distro = "AlmaLinux" -> "almalinux.repo"
ImageRepos == {OSRepoFile, "epel.repo", "OpenHPC.repo"} \cap RepoFiles

\* configureOSImageDefinition, otherpkgdir
DefineRepos ==
  /\ From("repos", "customize")
  /\ Plus(ImageRepos)
  /\ UNCHANGED <<xcatVars, files, rootimg, packed, script, nodeVars, stateless, run>>

\* customizeImage, the fixes for munge: createDirectory makes the root directory
\* when there is none yet, the commands that fill it may fail.
CustomizeMunge ==
  /\ From("customize", "install script")
  /\ \E made \in IF "cp" \in MayFail THEN SUBSET {"accounts", "munge"}
                 ELSE {{"accounts", "munge"}} :
       /\ rootimg' = [rootimg EXCEPT ![stateless.chroot] =
                        ({"file"} \X made) \cup (IF @ = None THEN {} ELSE @)]
       /\ run' = [run EXCEPT !.lost = @ \/ made # {"accounts", "munge"}]
  /\ UNCHANGED <<xcatVars, osimage, files, packed, script, nodeVars, stateless>>

\* Runner::run: installFile skips a file that exists, whatever is in it; the
\* text reaches the disk when the stream is closed.
InstallScript ==
  /\ \/ /\ From("install script", "write script") /\ script[Image] = None
        /\ script' = [script EXCEPT ![Image] = "partial"]
     \/ /\ From("install script", "run script") /\ script[Image] # None
        /\ UNCHANGED script
  /\ UNCHANGED <<xcatVars, osimage, files, rootimg, packed, nodeVars, stateless, run>>

WriteScript ==
  /\ From("write script", "run script")
  /\ script' = [script EXCEPT ![Image] = "whole"]
  /\ UNCHANGED <<xcatVars, osimage, files, rootimg, packed, nodeVars, stateless, run>>

\* NFS::imageInstallScript under bash -e, which stops at the first line that
\* fails: a line each for two of the lists, the maps of autofs, a chdef.  An empty
\* script does nothing, and Runner::run returns 0 all the same.
RunScript ==
  /\ From("run script", "genimage")
  /\ \E lines \in IF script[Image] # "whole" THEN {0}
                  ELSE IF "script" \in MayFail THEN 0..4 ELSE {4} :
       /\ files' = [files EXCEPT !["postinstall"] = IF lines < 1 THEN @ ELSE @ \cup {"autofs"},
                                !["otherpkglist"] = IF lines < 2 THEN @ ELSE @ \cup {"autofs"}]
       /\ rootimg' = IF lines < 3 THEN rootimg
                     ELSE [rootimg EXCEPT ![stateless.chroot] = @ \cup {<<"file", "automount">>}]
       /\ IF lines < 4 THEN UNCHANGED osimage ELSE Plus({"postinstall"})
       /\ run' = [run EXCEPT !.lost = @ \/ lines < 4]
  /\ UNCHANGED <<xcatVars, packed, script, nodeVars, stateless>>

\* What genimage installs and runs: the lists that the definition names.
Named(l) == IF l \in osimage[Image] /\ files[l] # None THEN files[l] ELSE {}

\* A definition that is not there, lists it cannot find, packages that httpd does
\* not hand out
GenimageRefuses ==
  \/ osimage[Image] = None \/ ~links
  \/ "doca-kernel" \in osimage[Image] /\ httpRepo # "served"

Genimage ==
  /\ \/ /\ From("genimage", "packimage") /\ osimage[Image] # None
        /\ rootimg' = [rootimg EXCEPT ![Image] =
                         ({"package"} \X Named("otherpkglist"))
                           \cup ({"setting"} \X Named("postinstall"))
                           \cup (IF @ = None THEN {} ELSE @)]
     \/ From("genimage", "failed") /\ GenimageRefuses /\ UNCHANGED rootimg
  /\ UNCHANGED <<xcatVars, osimage, files, packed, script, nodeVars, stateless, run>>

Packimage ==
  /\ From("packimage", "nodes")
  /\ packed' = [packed EXCEPT ![Image] =
                   [run |-> run.number, skip |-> run.skip, ofed |-> run.ofed,
                    lost |-> run.lost, root |-> rootimg[Image]]]
  /\ UNCHANGED <<xcatVars, osimage, files, rootimg, script, nodeVars, stateless, run>>

-----------------------------------------------------------------------------
(* The nodes                                                                *)

\* addNode for each node, then the commands that make the services' files
AddNodes ==
  /\ From("nodes", "addNodes nodeset")
  /\ \E added \in IF "mkdef" \in MayFail THEN SUBSET run.nodes ELSE {run.nodes} :
       /\ defined' = defined \cup added
       /\ run' = [run EXCEPT !.lost = @ \/ added # run.nodes]
  /\ UNCHANGED <<xcatVars, imageVars, target, booted, stateless>>

\* nodeset of the group compute: all nodes xCAT knows, listed or not.  It refuses
\* an osimage that is not defined, and may refuse one that is not packed.
Nodeset(p, q) ==
  /\ \/ /\ From(p, q) /\ osimage[Image] # None
        /\ target' = [n \in Nodes |-> IF n \in defined THEN Image ELSE target[n]]
     \/ From(p, "failed") /\ None \in {osimage[Image], packed[Image]} /\ UNCHANGED target
  /\ UNCHANGED <<xcatVars, imageVars, defined, booted, stateless, run>>

\* setNodesImage, called by addNodes and then by Shell::install
SetNodesImage == Nodeset("addNodes nodeset", "nodeset") \/ Nodeset("nodeset", "boot")

\* rsetboot compute net
SetNodesBoot ==
  /\ From("boot", "reset")
  /\ UNCHANGED <<xcatVars, imageVars, nodeVars, stateless, run>>

\* Mutant: nodes that were booted before are left alone.
ResetNewNodes ==
  /\ From("reset", "done")
  /\ booted' = [n \in Nodes |-> IF target[n] # None /\ booted[n] = None
                                THEN packed[target[n]] ELSE booted[n]]
  /\ UNCHANGED <<xcatVars, imageVars, defined, target, stateless, run>>

\* rpower compute reset
ResetNodes ==
  /\ From("reset", "done")
  /\ booted' = [n \in Nodes |-> IF target[n] # None THEN packed[target[n]] ELSE booted[n]]
  /\ UNCHANGED <<xcatVars, imageVars, defined, target, stateless, run>>

-----------------------------------------------------------------------------

Failures ==
  \/ Throws("packages", "dnf") \/ Throws("setup", "site")
  \/ ~run.skip /\ Throws("media", "copycds")
  \/ Throws("test httpd", "httpd") \/ Throws("restart httpd", "httpd")
  \/ Throws("doca", "doca") \/ Drops("EL9", "exists", "ln")
  \/ Throws("genimage", "genimage") \/ Throws("packimage", "packimage")
  \/ Throws("addNodes nodeset", "nodeset") \/ Throws("nodeset", "nodeset")
  \/ Drops("patch", "setup", "sed") \/ Drops("patch server", "patch certs", "sed")
  \/ Drops("patch certs", "setup", "xcatconfig")
  \/ run.skip /\ Drops("media", "configure", "rm")
  \/ Drops("repos", "customize", "chdef")
  \/ Drops("boot", "reset", "rsetboot") \/ Drops("reset", "done", "rpower")

\* install() returned or an exception reached main.
Exit ==
  /\ phase \in {"done", "failed"}
  /\ phase' = "off" /\ stateless' = NoImage /\ run' = Between(run.number)
  /\ UNCHANGED <<xcatVars, imageVars, nodeVars>>

\* The run is cut short.  The last of the MaxRuns runs is left alone.
Die ==
  /\ phase # "off" /\ run.number < MaxRuns
  /\ phase' = "off" /\ stateless' = NoImage /\ run' = Between(run.number)
  /\ UNCHANGED <<xcatVars, imageVars, nodeVars>>

Install ==
  \/ Construct \/ InstallPackages \/ PatchClient \/ PatchServer \/ PatchCerts \/ Setup
  \/ GetImageInstallArgs \/ ConfigureEL9 \/ ImageExists \/ CopyCDs \/ CleanUp
  \/ Configure \/ ConfigureInfiniband \/ CreateHTTPRepo \/ TestHTTPd
  \/ RestartHTTPd \/ AddDoca \/ ConfigureSLURM
  \/ GenerateOtherPkgListFile \/ GeneratePostinstallFile \/ GenerateSynclistsFile
  \/ DefineLists \/ DefineRepos
  \/ CustomizeMunge \/ InstallScript \/ WriteScript \/ RunScript
  \/ Genimage \/ Packimage
  \/ AddNodes \/ SetNodesImage \/ SetNodesBoot \/ ResetNodes
  \/ Failures

Next == Start \/ Install \/ Exit \/ Die

Spec == Init /\ [][Next]_vars

\* A program that runs executes its next statement, unless it dies.
FairSpec == Spec /\ WF_vars(Install)

-----------------------------------------------------------------------------
(* Properties                                                               *)

\* What the image is to have, for an answerfile.
Demanded(ofed) ==
  {<<"package", p>> : p \in {"ohpc-base-compute", "chrony", "ohpc-slurm-client", "autofs"}}
    \cup (CASE ofed = "inbox" -> {<<"package", "@infiniband">>}
            [] ofed = "mellanox" -> {<<"package", "doca-ofed">>}
            [] OTHER -> {})
    \cup ({"setting"} \X Settings)
    \cup ({"file"} \X {"accounts", "munge", "automount"})

\* No sequence of crashes and reruns packs an image that misses a package, a
\* setting or a customization the answerfile demands, as long as the run that
\* packs it drops no failure: the lists are written, customized and named in the
\* definition before genimage, all in one run (XCAT::createImage).
PackedHasAll ==
  \A v \in Versions :
    packed[v] # None /\ ~packed[v].lost => Demanded(packed[v].ofed) \subseteq packed[v].root

\* An image rebuilt with --skip copycds has nothing left of an earlier answerfile:
\* the root directory and the lists are cleaned up first.
SkipRebuildsClean ==
  \A v \in Versions :
    packed[v] # None /\ packed[v].skip /\ ~packed[v].lost =>
      packed[v].root \subseteq Demanded(packed[v].ofed)

\* When install() returns, each node xCAT knows, those that only an earlier
\* answerfile lists included, has been reset into the image that is packed now:
\* not into an earlier one, nor into that of another version.
NodesBootLatest ==
  phase = "done" /\ ~run.lost =>
    /\ run.nodes \subseteq defined
    /\ \A n \in defined : booted[n] = packed[run.version]

\* --force genimage and --skip copycds do pack anew.
ForcedRunRefreshes ==
  phase = "done" /\ (run.force \/ run.skip) =>
    packed[run.version] # None /\ packed[run.version].run = run.number

\* --force genimage repairs what any earlier run left behind, but for a .conf that
\* was written and never loaded (createHTTPRepo).
ForceRecovers ==
  (/\ run.number = MaxRuns /\ phase = "exists" /\ run.force /\ ~run.skip
   /\ links /\ httpRepo # "written")
    ~> (phase = "done")

\* The addition of nodes starts with a packed image: "image exists", as
\* imageExists puts it, or createImage has just packed it.
ExistingImageIsPacked == phase = "nodes" => packed[Image] # None

\* genimage has run with a definition that has a repository of the distribution
\* among its package directories, whatever earlier runs attached, unless the
\* vault is used: its .conf goes to rocky.repo, and rocky-vault.repo is read.
OSReposAttached ==
  phase = "packimage" /\ ~run.lost /\ ~run.vault =>
    osimage[Image] # None /\ osimage[Image] \cap DistroFiles # {}
=============================================================================
