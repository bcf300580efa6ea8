----------------------------- MODULE XcatTypes ------------------------------
(***************************************************************************)
(* The type invariant of Xcat, for every distribution, every set of nodes, *)
(* versions and InfiniBand stacks, every set of commands that may fail and *)
(* every number of runs, with the facts about its actions that XcatProofs  *)
(* needs as well.                                                          *)
(***************************************************************************)
EXTENDS Xcat, TLAPS

\* Where a run of the provisioner is: before it knows the image's name and path,
\* then once the lists are collected, written, the image customized.
Unnamed == {"off", "construct", "failed"}
Unplaced == Unnamed \cup {"packages", "patch", "patch server", "patch certs", "setup", "arguments"}

Installing == {"install script", "write script", "run script"}
SettingsListed == {"remove synclists", "write synclists", "define", "repos", "customize"} \cup Installing
PackagesListed == {"remove postinstall", "write postinstall"} \cup SettingsListed
Rooted == Installing \cup {"genimage", "packimage"}

\* TypeOK, in parts
XcatOK ==
  /\ patched \subseteq Parts /\ links \in BOOLEAN
  /\ httpRepo \in {None, "written", "served"}

ImagesOK ==
  /\ files \in [Lists -> (SUBSET Lines) \cup {None}]
  /\ osimage \in [Versions -> (SUBSET Attributes) \cup {None}]
  /\ rootimg \in [Versions -> (SUBSET Things) \cup {None}]
  /\ packed \in [Versions -> Packs \cup {None}]
  /\ script \in [Versions -> {None, "partial", "whole"}]

NodesOK ==
  /\ defined \subseteq Nodes
  /\ target \in [Nodes -> Versions \cup {None}]
  /\ booted \in [Nodes -> Packs \cup {None}]

RunOK == phase \in Phases /\ stateless \in Images /\ run \in Runs

\* TypeOK is not inductive: the script appends to lists, and packimage packs a
\* directory, that have to be there.
WhereOK ==
  /\ files["otherpkglist"] \in (SUBSET Packages) \cup {None}
  /\ files["postinstall"] \in (SUBSET Settings) \cup {None}
  /\ phase # "off" =>
       run.number \in 1..MaxRuns /\ run.ofed \in Ofeds /\ run.version \in Versions
  /\ phase \notin Unnamed => Image = run.version
  /\ phase \notin Unplaced => stateless.chroot = run.version
  /\ phase \in PackagesListed => files["otherpkglist"] \in SUBSET Packages
  /\ phase \in SettingsListed => files["postinstall"] \in SUBSET Settings
  /\ phase \in Rooted => rootimg[run.version] \in SUBSET Things

Typed == XcatOK /\ ImagesOK /\ NodesOK /\ RunOK /\ WhereOK

\* What a step leaves alone keeps its types.
LEMMA XcatKept == XcatOK /\ UNCHANGED xcatVars => XcatOK'
BY DEF XcatOK, xcatVars

\* The same of the images
LEMMA ImagesKept == ImagesOK /\ UNCHANGED imageVars => ImagesOK'
BY DEF ImagesOK, imageVars

\* and of the nodes
LEMMA NodesKept == NodesOK /\ UNCHANGED nodeVars => NodesOK'
BY DEF NodesOK, nodeVars

-----------------------------------------------------------------------------
(* What steps have in common                                                *)

\* What every command leaves of the run
SameRun ==
  /\ run' \in Runs /\ run'.number = run.number /\ run'.force = run.force
  /\ run'.skip = run.skip /\ run'.vault = run.vault /\ run'.ofed = run.ofed
  /\ run'.nodes = run.nodes /\ run'.version = run.version /\ (run.lost => run'.lost)

\* The script under bash -e: the first so many of its lines are executed.
Scripted(lines) ==
  /\ phase = "run script" /\ phase' = "genimage"
  /\ lines = 4 => script[Image] = "whole"
  /\ files' = [files EXCEPT
        !["postinstall"] = IF lines < 1 THEN files["postinstall"]
                           ELSE files["postinstall"] \cup {"autofs"},
        !["otherpkglist"] = IF lines < 2 THEN files["otherpkglist"]
                            ELSE files["otherpkglist"] \cup {"autofs"}]
  /\ rootimg' = IF lines < 3 THEN rootimg
                ELSE [rootimg EXCEPT ![stateless.chroot] =
                        rootimg[stateless.chroot] \cup {<<"file", "automount">>}]
  /\ IF lines < 4 THEN UNCHANGED osimage ELSE Plus({"postinstall"})
  /\ run' = [run EXCEPT !.lost = run.lost \/ lines < 4]
  /\ UNCHANGED <<xcatVars, nodeVars, packed, script, stateless>>

\* Where a command's failure is dropped
Dropped(p, q) ==
  \/ p = "EL9" /\ q = "exists"
  \/ p = "patch" /\ q = "setup"
  \/ p = "patch server" /\ q = "patch certs"
  \/ p = "patch certs" /\ q = "setup"
  \/ p = "media" /\ q = "configure"
  \/ p = "repos" /\ q = "customize"
  \/ p = "boot" /\ q = "reset"
  \/ p = "reset" /\ q = "done"

-----------------------------------------------------------------------------
(* What the updates of the run's records leave alone                        *)

\* A dropped failure is all that a command changes of the run.
LEMMA RunLost ==
  ASSUME NEW r \in Runs, NEW b \in BOOLEAN
  PROVE  LET s == [r EXCEPT !.lost = b]
         IN /\ s \in Runs /\ s.lost = b
            /\ s.number = r.number /\ s.force = r.force /\ s.skip = r.skip
            /\ s.vault = r.vault /\ s.ofed = r.ofed /\ s.nodes = r.nodes /\ s.version = r.version
BY DEF Runs

\* What Start chooses is a run.
LEMMA RunStarted ==
  ASSUME NEW r \in Runs, r.number < MaxRuns,
         NEW s \in [number : {r.number + 1}, force : Forces, skip : Skips, vault : Vaults,
                    ofed : Ofeds, nodes : SUBSET Nodes, version : Versions, lost : {FALSE}]
  PROVE  s \in Runs /\ s.number \in 1..MaxRuns /\ s.ofed \in Ofeds /\ s.version \in Versions
<1>1. s.number \in 1..MaxRuns /\ s.ofed \in Ofeds /\ s.version \in Versions
  BY XcatAssumption DEF Runs
<1>2. s.force \in BOOLEAN /\ s.skip \in BOOLEAN /\ s.vault \in BOOLEAN /\ s.lost \in BOOLEAN
  BY XcatAssumption
<1>3. s = [number |-> s.number, force |-> s.force, skip |-> s.skip, vault |-> s.vault,
           ofed |-> s.ofed, nodes |-> s.nodes, version |-> s.version, lost |-> s.lost]
  OBVIOUS
<1> QED BY <1>1, <1>2, <1>3 DEF Runs

\* The updates of m_stateless
LEMMA ImageUpdates ==
  ASSUME NEW s \in Images, NEW v \in Versions \cup {None},
         NEW p \in SUBSET Packages, NEW t \in SUBSET Settings
  PROVE  /\ [s EXCEPT !.osimage = v] \in Images
         /\ [s EXCEPT !.osimage = v].osimage = v
         /\ [s EXCEPT !.osimage = v, !.chroot = v] \in Images
         /\ [s EXCEPT !.osimage = v, !.chroot = v].osimage = v
         /\ [s EXCEPT !.osimage = v, !.chroot = v].chroot = v
         /\ [osimage |-> v, chroot |-> v, otherpkgs |-> p, postinstall |-> t] \in Images
         /\ [s EXCEPT !.otherpkgs = p] \in Images
         /\ [s EXCEPT !.otherpkgs = p].osimage = s.osimage
         /\ [s EXCEPT !.otherpkgs = p].chroot = s.chroot
         /\ [s EXCEPT !.otherpkgs = p].postinstall = s.postinstall
         /\ [s EXCEPT !.otherpkgs = p].otherpkgs = p
         /\ [s EXCEPT !.otherpkgs = p, !.postinstall = t] \in Images
         /\ [s EXCEPT !.otherpkgs = p, !.postinstall = t].osimage = s.osimage
         /\ [s EXCEPT !.otherpkgs = p, !.postinstall = t].chroot = s.chroot
         /\ [s EXCEPT !.otherpkgs = p, !.postinstall = t].postinstall = t
         /\ [s EXCEPT !.otherpkgs = p, !.postinstall = t].otherpkgs = p
BY DEF Images

\* The fields of m_stateless
LEMMA ImageFields ==
  ASSUME NEW s \in Images
  PROVE  /\ s.osimage \in Versions \cup {None} /\ s.chroot \in Versions \cup {None}
         /\ s.otherpkgs \in SUBSET Packages /\ s.postinstall \in SUBSET Settings
BY DEF Images

\* The fields of a run
LEMMA RunFields ==
  ASSUME NEW r \in Runs
  PROVE  /\ r.number \in 0..MaxRuns /\ r.skip \in BOOLEAN /\ r.force \in BOOLEAN
         /\ r.lost \in BOOLEAN /\ r.vault \in BOOLEAN
         /\ r.nodes \in SUBSET Nodes /\ r.version \in Versions \cup {None}
BY DEF Runs

\* A package more in m_stateless
LEMMA PackageAdded ==
  ASSUME stateless \in Images, NEW p \in Packages, AddPackage(p)
  PROVE  /\ stateless' \in Images /\ stateless'.osimage = stateless.osimage
         /\ stateless'.chroot = stateless.chroot
         /\ stateless'.postinstall = stateless.postinstall
         /\ stateless'.otherpkgs = stateless.otherpkgs \cup {p}
<1>1. stateless.otherpkgs \cup {p} \in SUBSET Packages
  BY ImageFields
<1> QED BY <1>1, ImageUpdates DEF AddPackage

\* chdef --plus keeps the definitions what they are.
LEMMA PlusOK ==
  ASSUME osimage \in [Versions -> (SUBSET Attributes) \cup {None}],
         NEW attributes \in SUBSET Attributes, Plus(attributes)
  PROVE  osimage' \in [Versions -> (SUBSET Attributes) \cup {None}]
BY DEF Plus

\* RunScript executes some first lines of the script, all if no failure is dropped.
LEMMA ScriptLines ==
  ASSUME RunScript
  PROVE  \E lines \in 0..4 : Scripted(lines)
<1>1. PICK lines \in IF script[Image] # "whole" THEN {0}
                     ELSE IF "script" \in MayFail THEN 0..4 ELSE {4} :
        /\ files' = [files EXCEPT !["postinstall"] = IF lines < 1 THEN @ ELSE @ \cup {"autofs"},
                                 !["otherpkglist"] = IF lines < 2 THEN @ ELSE @ \cup {"autofs"}]
        /\ rootimg' = IF lines < 3 THEN rootimg
                      ELSE [rootimg EXCEPT ![stateless.chroot] = @ \cup {<<"file", "automount">>}]
        /\ IF lines < 4 THEN UNCHANGED osimage ELSE Plus({"postinstall"})
        /\ run' = [run EXCEPT !.lost = @ \/ lines < 4]
  BY DEF RunScript
<1>2. lines \in 0..4 /\ (lines = 4 => script[Image] = "whole")
  BY <1>1
<1>3. /\ phase = "run script" /\ phase' = "genimage"
      /\ UNCHANGED <<xcatVars, nodeVars, packed, script, stateless>>
  BY DEF RunScript, From
<1> QED BY <1>1, <1>2, <1>3 DEF Scripted

\* A command that fails ends the run, or its failure is dropped.
LEMMA FailuresDo ==
  ASSUME run \in Runs, Failures
  PROVE  /\ UNCHANGED <<xcatVars, imageVars, nodeVars, stateless>> /\ SameRun
         /\ \/ phase # "off" /\ phase' = "failed"
            \/ Dropped(phase, phase') /\ run'.lost
<1>1. /\ UNCHANGED <<xcatVars, imageVars, nodeVars, stateless>>
      /\ \/ phase # "off" /\ phase' = "failed" /\ run' = run
         \/ Dropped(phase, phase') /\ run' = [run EXCEPT !.lost = TRUE]
  BY DEF Failures, Throws, Drops, From, Dropped
<1>2. CASE phase # "off" /\ phase' = "failed" /\ run' = run
  BY <1>1, <1>2 DEF SameRun
<1>3. CASE Dropped(phase, phase') /\ run' = [run EXCEPT !.lost = TRUE]
  BY <1>1, <1>3 DEF SameRun, Runs
<1> QED BY <1>1, <1>2, <1>3

-----------------------------------------------------------------------------
(* The types                                                                *)


\* The initial state satisfies it.
LEMMA TypedInit == Init => Typed
<1> SUFFICES ASSUME Init PROVE Typed
  OBVIOUS
<1> USE XcatAssumption DEF Init
<1>1. XcatOK /\ NodesOK
  BY DEF XcatOK, NodesOK
<1>2. ImagesOK
  BY DEF ImagesOK, Lists
<1>3. RunOK
  BY DEF RunOK, Phases, NoImage, Between, Images, Runs
<1>4. files["otherpkglist"] = None /\ files["postinstall"] = None
  BY DEF Lists
<1> QED
  BY <1>1, <1>2, <1>3, <1>4
  DEF Typed, WhereOK, Unnamed, Unplaced, PackagesListed, SettingsListed, Installing, Rooted

\* Each action preserves it.
LEMMA TypedNext ==
  ASSUME Typed, Next
  PROVE  Typed'
<1> USE DEF Typed
<1>1. CASE Start
  <2>1. /\ phase = "off" /\ phase' = "construct" /\ run.number < MaxRuns
        /\ run' \in [number : {run.number + 1}, force : Forces, skip : Skips, vault : Vaults,
                    ofed : Ofeds, nodes : SUBSET Nodes, version : Versions, lost : {FALSE}]
        /\ UNCHANGED <<xcatVars, imageVars, nodeVars, stateless>>
    BY <1>1 DEF Start
  <2>2. /\ run' \in Runs /\ run'.number \in 1..MaxRuns /\ run'.ofed \in Ofeds
        /\ run'.version \in Versions
    BY <2>1, RunStarted DEF RunOK
  <2>3. RunOK' /\ WhereOK'
    BY <2>1, <2>2 DEF RunOK, Phases, imageVars, WhereOK, Unnamed, Unplaced, PackagesListed,
        SettingsListed, Installing, Rooted, Image
  <2> QED BY <2>1, <2>2, <2>3, XcatKept, ImagesKept, NodesKept
<1>2. CASE Construct
  <2>1. /\ phase = "construct" /\ phase' \in {"failed", "packages"}
        /\ UNCHANGED <<xcatVars, imageVars, nodeVars, run>>
        /\ \/ phase' = "failed" /\ UNCHANGED stateless
           \/ stateless' = [stateless EXCEPT !.osimage = run.version]
    BY <1>2 DEF Construct, From, OSImageName
  <2>2. RunOK' /\ (phase' = "packages" => Image' = run.version)
    BY <1>2, <2>1, ImageUpdates, RunFields DEF Construct, From, OSImageName, RunOK, Image, Phases
  <2>3. WhereOK'
    BY <2>1, <2>2 DEF imageVars, WhereOK, Unnamed, Unplaced, PackagesListed, SettingsListed,
        Installing, Rooted, Image
  <2> QED BY <2>1, <2>2, <2>3, XcatKept, ImagesKept, NodesKept
<1>3. CASE InstallPackages \/ Setup \/ SetNodesBoot \/ TestHTTPd
  <2>1. UNCHANGED <<xcatVars, imageVars, nodeVars>>
    BY <1>3 DEF InstallPackages, Setup, SetNodesBoot, TestHTTPd
  <2>2. RunOK'
    BY <1>3 DEF InstallPackages, Setup, SetNodesBoot, TestHTTPd, RunOK, Phases, From
  <2>3. WhereOK'
    BY <1>3 DEF InstallPackages, Setup, SetNodesBoot, TestHTTPd, From, imageVars, WhereOK,
        Unnamed, Unplaced, PackagesListed, SettingsListed, Installing, Rooted, Image
  <2> QED BY <2>1, <2>2, <2>3, XcatKept, ImagesKept, NodesKept
<1>4. CASE PatchClient \/ PatchServer \/ PatchCerts
  <2>1. UNCHANGED <<imageVars, nodeVars>>
    BY <1>4 DEF PatchClient, PatchServer, PatchCerts
  <2>2. XcatOK'
    BY <1>4 DEF PatchClient, PatchServer, PatchCerts, Parts, XcatOK
  <2>3. RunOK'
    BY <1>4 DEF PatchClient, PatchServer, PatchCerts, RunOK, Phases, From
  <2>4. WhereOK'
    BY <1>4 DEF PatchClient, PatchServer, PatchCerts, From, imageVars, WhereOK, Unnamed, Unplaced,
        PackagesListed, SettingsListed, Installing, Rooted, Image
  <2> QED BY <2>1, <2>2, <2>3, <2>4, ImagesKept, NodesKept
<1>5. CASE GetImageInstallArgs
  <2>1. /\ phase = "arguments" /\ phase' = "EL9"
        /\ UNCHANGED <<xcatVars, imageVars, nodeVars, run>>
        /\ stateless' = [stateless EXCEPT !.osimage = run.version, !.chroot = run.version]
    BY <1>5 DEF GetImageInstallArgs, From, OSImageName, OSImagePath
  <2>2. /\ stateless' \in Images /\ stateless'.osimage = run.version
        /\ stateless'.chroot = run.version
    BY <2>1, ImageUpdates, RunFields DEF RunOK
  <2>3. RunOK' /\ WhereOK'
    BY <2>1, <2>2 DEF RunOK, Phases, imageVars, WhereOK, Unnamed, Unplaced, PackagesListed,
        SettingsListed, Installing, Rooted, Image
  <2> QED BY <2>1, <2>2, <2>3, XcatKept, ImagesKept, NodesKept
<1>6. CASE ConfigureEL9 \/ RestartHTTPd
  <2>1. UNCHANGED <<imageVars, nodeVars>>
    BY <1>6 DEF ConfigureEL9, RestartHTTPd
  <2>2. XcatOK'
    BY <1>6 DEF ConfigureEL9, RestartHTTPd, XcatOK
  <2>3. RunOK'
    BY <1>6 DEF ConfigureEL9, RestartHTTPd, RunOK, Phases, From
  <2>4. WhereOK'
    BY <1>6 DEF ConfigureEL9, RestartHTTPd, From, imageVars, WhereOK, Unnamed, Unplaced,
        PackagesListed, SettingsListed, Installing, Rooted, Image
  <2> QED BY <2>1, <2>2, <2>3, <2>4, ImagesKept, NodesKept
<1>7. CASE ImageExists
  <2>1. UNCHANGED <<xcatVars, nodeVars>>
    BY <1>7 DEF ImageExists
  <2>2. ImagesOK'
    BY <1>7 DEF ImageExists, ImagesOK
  <2>3. RunOK'
    BY <1>7 DEF ImageExists, RunOK, Phases, From
  <2>4. WhereOK'
    BY <1>7 DEF ImageExists, From, imageVars, WhereOK, Unnamed, Unplaced, PackagesListed,
        SettingsListed, Installing, Rooted, Image
  <2> QED BY <2>1, <2>2, <2>3, <2>4, XcatKept, NodesKept
<1>8. CASE CopyCDs
  <2>1. UNCHANGED <<xcatVars, nodeVars>>
    BY <1>8 DEF CopyCDs
  <2>2. ImagesOK'
    BY <1>8 DEF CopyCDs, ImagesOK
  <2>3. RunOK'
    BY <1>8 DEF CopyCDs, RunOK, Phases, From
  <2>4. WhereOK'
    BY <1>8 DEF CopyCDs, From, imageVars, WhereOK, Unnamed, Unplaced, PackagesListed,
        SettingsListed, Installing, Rooted, Image
  <2> QED BY <2>1, <2>2, <2>3, <2>4, XcatKept, NodesKept
<1>9. CASE CleanUp
  <2>1. phase = "media" /\ phase' = "configure" /\ UNCHANGED <<xcatVars, nodeVars, stateless, run>>
    BY <1>9 DEF CleanUp, From
  <2>2. ImagesOK'
    BY <1>9 DEF CleanUp, ImagesOK, Lists
  <2>3. files'["otherpkglist"] = {} /\ files'["postinstall"] = {}
    BY <1>9 DEF CleanUp, ImagesOK, Lists
  <2>4. RunOK' /\ WhereOK'
    BY <2>1, <2>3 DEF RunOK, Phases, WhereOK, Unnamed, Unplaced, PackagesListed, SettingsListed,
        Installing, Rooted, Image
  <2> QED BY <2>1, <2>2, <2>3, <2>4, XcatKept, ImagesKept, NodesKept
<1>10. CASE Configure
  <2>1. /\ phase = "configure" /\ phase' = "infiniband"
        /\ UNCHANGED <<xcatVars, imageVars, nodeVars, run>>
        /\ stateless' = [osimage |-> run.version, chroot |-> run.version,
                         otherpkgs |-> {"ohpc-base-compute", "chrony"},
                         postinstall |-> {"selinux", "chrony"}]
    BY <1>10 DEF Configure, From, OSImagePath, WhereOK, Unnamed, Unplaced, PackagesListed,
        SettingsListed, Installing, Rooted, Image
  <2>2. /\ stateless' \in Images /\ stateless'.osimage = run.version
        /\ stateless'.chroot = run.version
    BY <2>1, RunFields DEF RunOK, Images, Packages, Settings
  <2>3. RunOK' /\ WhereOK'
    BY <2>1, <2>2 DEF RunOK, Phases, imageVars, WhereOK, Unnamed, Unplaced, PackagesListed,
        SettingsListed, Installing, Rooted, Image
  <2> QED BY <2>1, <2>2, <2>3, XcatKept, ImagesKept, NodesKept
<1>11. CASE ConfigureInfiniband
  <2>1. /\ phase = "infiniband" /\ phase' \in {"slurm", "failed"}
        /\ UNCHANGED <<xcatVars, imageVars, nodeVars, run>>
        /\ \/ UNCHANGED stateless
           \/ AddPackage("@infiniband")
    BY <1>11 DEF ConfigureInfiniband, From
  <2>2. stateless' \in Images /\ stateless'.osimage = Image /\ stateless'.chroot = stateless.chroot
    BY <2>1, PackageAdded DEF RunOK, Image, Packages
  <2>3. RunOK' /\ WhereOK'
    BY <2>1, <2>2 DEF RunOK, Phases, imageVars, WhereOK, Unnamed, Unplaced, PackagesListed,
        SettingsListed, Installing, Rooted, Image
  <2> QED BY <2>1, <2>2, <2>3, XcatKept, ImagesKept, NodesKept
<1>12. CASE CreateHTTPRepo
  <2>1. UNCHANGED <<imageVars, nodeVars>>
    BY <1>12 DEF CreateHTTPRepo
  <2>2. XcatOK'
    BY <1>12 DEF CreateHTTPRepo, XcatOK
  <2>3. RunOK'
    BY <1>12 DEF CreateHTTPRepo, RunOK, Phases, From
  <2>4. WhereOK'
    BY <1>12 DEF CreateHTTPRepo, From, imageVars, WhereOK, Unnamed, Unplaced, PackagesListed,
        SettingsListed, Installing, Rooted, Image
  <2> QED BY <2>1, <2>2, <2>3, <2>4, ImagesKept, NodesKept
<1>13. CASE AddDoca
  <2>1. /\ phase = "doca" /\ phase' \in {"slurm", "failed"}
        /\ UNCHANGED <<xcatVars, nodeVars, files, rootimg, packed, script, run>>
        /\ \/ UNCHANGED stateless
           \/ AddPackage("doca-ofed")
        /\ Plus({"doca"}) \/ Plus({"doca", "doca-kernel"})
    BY <1>13 DEF AddDoca, From
  <2>2. stateless' \in Images /\ stateless'.osimage = Image /\ stateless'.chroot = stateless.chroot
    BY <2>1, PackageAdded DEF RunOK, Image, Packages
  <2>3. ImagesOK'
    BY <2>1, PlusOK DEF ImagesOK, Attributes
  <2>4. RunOK' /\ WhereOK'
    BY <2>1, <2>2 DEF RunOK, Phases, WhereOK, Unnamed, Unplaced, PackagesListed, SettingsListed,
        Installing, Rooted, Image
  <2> QED BY <2>1, <2>2, <2>3, <2>4, XcatKept, ImagesKept, NodesKept
<1>14. CASE ConfigureSLURM
  <2>1. /\ phase = "slurm" /\ phase' = "remove otherpkglist"
        /\ UNCHANGED <<xcatVars, imageVars, nodeVars, run>>
    BY <1>14 DEF ConfigureSLURM, From
  <2>2. stateless' \in Images /\ stateless'.osimage = Image /\ stateless'.chroot = stateless.chroot
    <3>1. /\ stateless.otherpkgs \cup {"ohpc-slurm-client"} \in SUBSET Packages
          /\ stateless.postinstall \cup {"slurm", "limits", "firewalld"} \in SUBSET Settings
      BY ImageFields DEF RunOK, Packages, Settings
    <3>2. stateless' = [stateless EXCEPT
            !.otherpkgs = stateless.otherpkgs \cup {"ohpc-slurm-client"},
            !.postinstall = stateless.postinstall \cup {"slurm", "limits", "firewalld"}]
      BY <1>14 DEF ConfigureSLURM
    <3> QED BY <3>1, <3>2 DEF RunOK, Image, Images
  <2>3. RunOK' /\ WhereOK'
    BY <2>1, <2>2 DEF RunOK, Phases, imageVars, WhereOK, Unnamed, Unplaced, PackagesListed,
        SettingsListed, Installing, Rooted, Image
  <2> QED BY <2>1, <2>2, <2>3, XcatKept, ImagesKept, NodesKept
<1>15. CASE GenerateOtherPkgListFile
  <2>1. UNCHANGED <<xcatVars, nodeVars, osimage, rootimg, packed, script, stateless, run>>
    BY <1>15 DEF GenerateOtherPkgListFile, RemoveList, WriteList
  <2>2. \/ /\ phase = "remove otherpkglist" /\ phase' = "write otherpkglist"
           /\ files' = [files EXCEPT !["otherpkglist"] = None]
        \/ /\ phase = "write otherpkglist" /\ phase' = "remove postinstall"
           /\ files' = [files EXCEPT !["otherpkglist"] =
                          stateless.otherpkgs
                            \cup (IF files["otherpkglist"] = None THEN {} ELSE files["otherpkglist"])]
    BY <1>15 DEF GenerateOtherPkgListFile, RemoveList, WriteList, Content, From
  <2>3. stateless.otherpkgs \in SUBSET Packages /\ Packages \subseteq Lines
    BY ImageFields DEF RunOK, Lines
  <2>4. ImagesOK'
    BY <2>1, <2>2, <2>3 DEF ImagesOK, Lists
  <2>5. RunOK' /\ WhereOK'
    BY <2>1, <2>2, <2>3 DEF RunOK, Phases, ImagesOK, Lists, WhereOK, Unnamed, Unplaced,
        PackagesListed, SettingsListed, Installing, Rooted, Image
  <2> QED BY <2>1, <2>2, <2>3, <2>4, <2>5, XcatKept, ImagesKept, NodesKept
<1>16. CASE GeneratePostinstallFile
  <2>1. UNCHANGED <<xcatVars, nodeVars, osimage, rootimg, packed, script, stateless, run>>
    BY <1>16 DEF GeneratePostinstallFile, RemoveList, WriteList
  <2>2. \/ /\ phase = "remove postinstall" /\ phase' = "write postinstall"
           /\ files' = [files EXCEPT !["postinstall"] = None]
        \/ /\ phase = "write postinstall" /\ phase' = "remove synclists"
           /\ files' = [files EXCEPT !["postinstall"] =
                          stateless.postinstall
                            \cup (IF files["postinstall"] = None THEN {} ELSE files["postinstall"])]
    BY <1>16 DEF GeneratePostinstallFile, RemoveList, WriteList, Content, From
  <2>3. stateless.postinstall \in SUBSET Settings /\ Settings \subseteq Lines
    BY ImageFields DEF RunOK, Lines
  <2>4. ImagesOK'
    BY <2>1, <2>2, <2>3 DEF ImagesOK, Lists
  <2>5. RunOK' /\ WhereOK'
    BY <2>1, <2>2, <2>3 DEF RunOK, Phases, ImagesOK, Lists, WhereOK, Unnamed, Unplaced,
        PackagesListed, SettingsListed, Installing, Rooted, Image
  <2> QED BY <2>1, <2>2, <2>3, <2>4, <2>5, XcatKept, ImagesKept, NodesKept
<1>17. CASE GenerateSynclistsFile
  <2>1. UNCHANGED <<xcatVars, nodeVars, osimage, rootimg, packed, script, stateless, run>>
    BY <1>17 DEF GenerateSynclistsFile, RemoveList, WriteList
  <2>2. \/ /\ phase = "remove synclists" /\ phase' = "write synclists"
           /\ files' = [files EXCEPT !["synclists"] = None]
        \/ /\ phase = "write synclists" /\ phase' = "define"
           /\ files' = [files EXCEPT !["synclists"] =
                          Synced \cup (IF files["synclists"] = None THEN {} ELSE files["synclists"])]
    BY <1>17 DEF GenerateSynclistsFile, RemoveList, WriteList, Content, From
  <2>3. Synced \in SUBSET Synced /\ Synced \subseteq Lines
    BY ImageFields DEF RunOK, Lines
  <2>4. ImagesOK'
    BY <2>1, <2>2, <2>3 DEF ImagesOK, Lists
  <2>5. RunOK' /\ WhereOK'
    BY <2>1, <2>2, <2>3 DEF RunOK, Phases, ImagesOK, Lists, WhereOK, Unnamed, Unplaced,
        PackagesListed, SettingsListed, Installing, Rooted, Image
  <2> QED BY <2>1, <2>2, <2>3, <2>4, <2>5, XcatKept, ImagesKept, NodesKept
<1>18. CASE DefineLists
  <2>1. PICK attached \in SUBSET Lists :
          /\ phase = "define" /\ phase' = "repos" /\ Plus(attached)
          /\ run' = [run EXCEPT !.lost = run.lost \/ attached # Lists]
          /\ UNCHANGED <<xcatVars, nodeVars, files, rootimg, packed, script, stateless>>
    BY <1>18 DEF DefineLists, From
  <2>2. ImagesOK'
    BY <2>1, PlusOK DEF ImagesOK, Attributes
  <2>3. SameRun
    BY <2>1, RunLost DEF RunOK, SameRun
  <2>4. RunOK' /\ WhereOK'
    BY <2>1, <2>3 DEF SameRun, RunOK, Phases, WhereOK, Unnamed, Unplaced, PackagesListed,
        SettingsListed, Installing, Rooted, Image
  <2> QED BY <2>1, <2>2, <2>3, <2>4, XcatKept, ImagesKept, NodesKept
<1>19. CASE DefineRepos
  <2>1. UNCHANGED <<xcatVars, nodeVars>>
    BY <1>19 DEF DefineRepos
  <2>2. ImagesOK'
    BY <1>19 DEF DefineRepos, Plus, PlusWorks, ImageRepos, Attributes, ImagesOK
  <2>3. RunOK'
    BY <1>19 DEF DefineRepos, Plus, PlusWorks, ImageRepos, RunOK, Phases, From
  <2>4. WhereOK'
    BY <1>19 DEF DefineRepos, Plus, PlusWorks, ImageRepos, From, imageVars, WhereOK, Unnamed,
        Unplaced, PackagesListed, SettingsListed, Installing, Rooted, Image
  <2> QED BY <2>1, <2>2, <2>3, <2>4, XcatKept, NodesKept
<1>20. CASE CustomizeMunge
  <2>1. PICK made \in SUBSET {"accounts", "munge"} :
          /\ phase = "customize" /\ phase' = "install script"
          /\ rootimg' = [rootimg EXCEPT ![stateless.chroot] =
                           ({"file"} \X made) \cup (IF rootimg[stateless.chroot] = None THEN {}
                                                    ELSE rootimg[stateless.chroot])]
          /\ run' = [run EXCEPT !.lost = run.lost \/ made # {"accounts", "munge"}]
          /\ UNCHANGED <<xcatVars, nodeVars, osimage, files, packed, script, stateless>>
    BY <1>20 DEF CustomizeMunge, From
  <2>2. stateless.chroot = run.version /\ run.version \in Versions /\ stateless.osimage = run.version
    BY <2>1 DEF WhereOK, Unnamed, Unplaced, PackagesListed, SettingsListed, Installing, Rooted,
        Image
  <2>3. {"file"} \X made \in SUBSET Things
    BY <2>1 DEF Things
  <2>4. ImagesOK' /\ rootimg'[run.version] \in SUBSET Things
    BY <2>1, <2>2, <2>3 DEF ImagesOK
  <2>5. SameRun
    BY <2>1, RunLost DEF RunOK, SameRun
  <2>6. RunOK' /\ WhereOK'
    BY <2>1, <2>4, <2>5 DEF SameRun, RunOK, Phases, WhereOK, Unnamed, Unplaced, PackagesListed,
        SettingsListed, Installing, Rooted, Image
  <2> QED BY <2>1, <2>2, <2>3, <2>4, <2>5, <2>6, XcatKept, ImagesKept, NodesKept
<1>21. CASE InstallScript
  <2>1. UNCHANGED <<xcatVars, nodeVars>>
    BY <1>21 DEF InstallScript
  <2>2. ImagesOK'
    BY <1>21 DEF InstallScript, ImagesOK
  <2>3. RunOK'
    BY <1>21 DEF InstallScript, RunOK, Phases, From
  <2>4. WhereOK'
    BY <1>21 DEF InstallScript, From, imageVars, WhereOK, Unnamed, Unplaced, PackagesListed,
        SettingsListed, Installing, Rooted, Image
  <2> QED BY <2>1, <2>2, <2>3, <2>4, XcatKept, NodesKept
<1>22. CASE WriteScript
  <2>1. UNCHANGED <<xcatVars, nodeVars>>
    BY <1>22 DEF WriteScript
  <2>2. ImagesOK'
    BY <1>22 DEF WriteScript, ImagesOK
  <2>3. RunOK'
    BY <1>22 DEF WriteScript, RunOK, Phases, From
  <2>4. WhereOK'
    BY <1>22 DEF WriteScript, From, imageVars, WhereOK, Unnamed, Unplaced, PackagesListed,
        SettingsListed, Installing, Rooted, Image
  <2> QED BY <2>1, <2>2, <2>3, <2>4, XcatKept, NodesKept
<1>23. CASE RunScript
  <2>1. PICK lines \in 0..4 : Scripted(lines)
    BY <1>23, ScriptLines
  <2>2. phase = "run script" /\ stateless.chroot = run.version /\ run.version \in Versions
    BY <2>1 DEF Scripted, WhereOK, Unnamed, Unplaced, PackagesListed, SettingsListed, Installing,
        Rooted, Image
  <2>3. /\ files["otherpkglist"] \in SUBSET Packages /\ files["postinstall"] \in SUBSET Settings
        /\ rootimg[run.version] \in SUBSET Things
    BY <2>2 DEF WhereOK, Unnamed, Unplaced, PackagesListed, SettingsListed, Installing, Rooted,
        Image
  <2>4. /\ files' \in [Lists -> (SUBSET Lines) \cup {None}]
        /\ files'["otherpkglist"] \in SUBSET Packages /\ files'["postinstall"] \in SUBSET Settings
    BY <2>1, <2>3 DEF ImagesOK, Lists, Scripted, Packages, Settings, Lines
  <2>5. /\ rootimg' \in [Versions -> (SUBSET Things) \cup {None}]
        /\ rootimg'[run.version] \in SUBSET Things
    <3>1. CASE lines < 3
      BY <2>1, <2>3, <3>1 DEF ImagesOK, Scripted
    <3>2. CASE ~(lines < 3)
      <4>1. rootimg' = [rootimg EXCEPT ![run.version] =
                          rootimg[run.version] \cup {<<"file", "automount">>}]
        BY <2>1, <2>2, <3>2 DEF Scripted
      <4>2. {<<"file", "automount">>} \in SUBSET Things
        BY DEF Things
      <4> QED BY <4>1, <4>2, <2>2, <2>3 DEF ImagesOK
    <3> QED BY <3>1, <3>2
  <2>6. ImagesOK'
    BY <2>1, <2>4, <2>5, PlusOK DEF ImagesOK, Scripted, Attributes, Lists
  <2>7. SameRun /\ UNCHANGED <<xcatVars, nodeVars>>
    BY <2>1, RunLost DEF RunOK, SameRun, Scripted
  <2>8. phase' = "genimage" /\ UNCHANGED stateless
    BY <2>1 DEF Scripted
  <2>9. RunOK' /\ WhereOK'
    BY <2>2, <2>4, <2>5, <2>7, <2>8 DEF SameRun, RunOK, Phases, WhereOK, Unnamed, Unplaced,
        PackagesListed, SettingsListed, Installing, Rooted, Image
  <2> QED BY <2>1, <2>2, <2>3, <2>4, <2>5, <2>6, <2>7, <2>8, <2>9, XcatKept, ImagesKept, NodesKept
<1>24. CASE Genimage
  <2>1. /\ phase = "genimage" /\ phase' \in {"packimage", "failed"}
        /\ UNCHANGED <<xcatVars, nodeVars, osimage, files, packed, script, stateless, run>>
    BY <1>24 DEF Genimage, From
  <2>2. Image = run.version /\ run.version \in Versions /\ rootimg[run.version] \in SUBSET Things
    BY <2>1 DEF WhereOK, Unnamed, Unplaced, PackagesListed, SettingsListed, Installing, Rooted,
        Image
  <2>3. \/ UNCHANGED rootimg
        \/ rootimg' = [rootimg EXCEPT ![run.version] =
                         ({"package"} \X Named("otherpkglist")) \cup ({"setting"} \X Named("postinstall"))
                           \cup (IF rootimg[run.version] = None THEN {} ELSE rootimg[run.version])]
    BY <1>24, <2>2 DEF Genimage
  <2>4. ({"package"} \X Named("otherpkglist")) \cup ({"setting"} \X Named("postinstall")) \in SUBSET Things
    <3>1. Named("otherpkglist") \subseteq Packages /\ Named("postinstall") \subseteq Settings
      BY DEF Named, WhereOK
    <3> QED BY <3>1 DEF Things
  <2>5. ImagesOK' /\ rootimg'[run.version] \in SUBSET Things
    BY <2>1, <2>2, <2>3, <2>4 DEF ImagesOK
  <2>6. RunOK' /\ WhereOK'
    BY <2>1, <2>5 DEF RunOK, Phases, WhereOK, Unnamed, Unplaced, PackagesListed, SettingsListed,
        Installing, Rooted, Image
  <2> QED BY <2>1, <2>2, <2>3, <2>4, <2>5, <2>6, XcatKept, ImagesKept, NodesKept
<1>25. CASE Packimage
  <2>1. /\ phase = "packimage" /\ phase' = "nodes"
        /\ UNCHANGED <<xcatVars, nodeVars, osimage, files, rootimg, script, stateless, run>>
    BY <1>25 DEF Packimage, From
  <2>2. /\ Image = run.version /\ rootimg[run.version] \in SUBSET Things
        /\ run.number \in 1..MaxRuns /\ run.ofed \in Ofeds
        /\ run.skip \in BOOLEAN /\ run.lost \in BOOLEAN
    BY <2>1, RunFields DEF RunOK, WhereOK, Unnamed, Unplaced, PackagesListed, SettingsListed,
        Installing, Rooted, Image
  <2>3. ImagesOK'
    BY <1>25, <2>1, <2>2 DEF Packimage, ImagesOK, Packs
  <2>4. RunOK' /\ WhereOK'
    BY <2>1 DEF RunOK, Phases, WhereOK, Unnamed, Unplaced, PackagesListed, SettingsListed,
        Installing, Rooted, Image
  <2> QED BY <2>1, <2>2, <2>3, <2>4, XcatKept, ImagesKept, NodesKept
<1>26. CASE AddNodes
  <2>1. PICK added \in SUBSET run.nodes :
          /\ phase = "nodes" /\ phase' = "addNodes nodeset"
          /\ defined' = defined \cup added
          /\ run' = [run EXCEPT !.lost = run.lost \/ added # run.nodes]
          /\ UNCHANGED <<xcatVars, imageVars, target, booted, stateless>>
    BY <1>26 DEF AddNodes, From
  <2>2. NodesOK'
    BY <2>1, RunFields DEF RunOK, NodesOK
  <2>3. SameRun
    BY <2>1, RunLost DEF RunOK, SameRun
  <2>4. RunOK' /\ WhereOK'
    BY <2>1, <2>3 DEF SameRun, RunOK, Phases, imageVars, WhereOK, Unnamed, Unplaced,
        PackagesListed, SettingsListed, Installing, Rooted, Image
  <2> QED BY <2>1, <2>2, <2>3, <2>4, XcatKept, ImagesKept, NodesKept
<1>27. CASE SetNodesImage
  <2>1. /\ <<phase, phase'>> \in {<<"addNodes nodeset", "nodeset">>, <<"addNodes nodeset", "failed">>,
                                 <<"nodeset", "boot">>, <<"nodeset", "failed">>}
        /\ UNCHANGED <<xcatVars, imageVars, defined, booted, stateless, run>>
        /\ \/ target' = [n \in Nodes |-> IF n \in defined THEN Image ELSE target[n]]
           \/ UNCHANGED target
    BY <1>27 DEF SetNodesImage, Nodeset, From
  <2>2. NodesOK'
    BY <2>1, ImageFields DEF NodesOK, RunOK, Image
  <2>3. RunOK' /\ WhereOK'
    BY <2>1 DEF RunOK, Phases, imageVars, WhereOK, Unnamed, Unplaced, PackagesListed,
        SettingsListed, Installing, Rooted, Image
  <2> QED BY <2>1, <2>2, <2>3, XcatKept, ImagesKept, NodesKept
<1>28. CASE ResetNodes
  <2>1. UNCHANGED <<xcatVars, imageVars>>
    BY <1>28 DEF ResetNodes
  <2>2. NodesOK'
    BY <1>28 DEF ResetNodes, NodesOK, ImagesOK
  <2>3. RunOK'
    BY <1>28 DEF ResetNodes, RunOK, Phases, From
  <2>4. WhereOK'
    BY <1>28 DEF ResetNodes, From, imageVars, WhereOK, Unnamed, Unplaced, PackagesListed,
        SettingsListed, Installing, Rooted, Image
  <2> QED BY <2>1, <2>2, <2>3, <2>4, XcatKept, ImagesKept
<1>29. CASE Failures
  <2>1. UNCHANGED <<xcatVars, imageVars, nodeVars, stateless>> /\ SameRun
    BY <1>29, FailuresDo DEF RunOK
  <2>2. \/ phase # "off" /\ phase' = "failed"
        \/ Dropped(phase, phase')
    BY <1>29, FailuresDo DEF RunOK
  <2>3. RunOK'
    BY <2>1, <2>2 DEF RunOK, Phases, SameRun, Dropped
  <2>4. WhereOK'
    BY <2>1, <2>2 DEF SameRun, Dropped, imageVars, WhereOK, Unnamed, Unplaced, PackagesListed,
        SettingsListed, Installing, Rooted, Image
  <2> QED BY <2>1, <2>2, <2>3, <2>4, XcatKept, ImagesKept, NodesKept
<1>30. CASE Exit \/ Die
  <2>1. /\ phase' = "off" /\ stateless' = NoImage /\ run' = Between(run.number)
        /\ UNCHANGED <<xcatVars, imageVars, nodeVars>>
    BY <1>30 DEF Exit, Die
  <2>2. NoImage \in Images /\ Between(run.number) \in Runs
    BY RunFields DEF RunOK, NoImage, Between, Images, Runs
  <2>3. RunOK' /\ WhereOK'
    BY <2>1, <2>2 DEF RunOK, Phases, imageVars, WhereOK, Unnamed, Unplaced, PackagesListed,
        SettingsListed, Installing, Rooted, Image
  <2> QED BY <2>1, <2>2, <2>3, XcatKept, ImagesKept, NodesKept
<1> QED
  BY <1>1, <1>2, <1>3, <1>4, <1>5, <1>6, <1>7, <1>8, <1>9, <1>10, <1>11, <1>12, <1>13, <1>14,
        <1>15, <1>16, <1>17, <1>18, <1>19, <1>20, <1>21, <1>22, <1>23, <1>24, <1>25, <1>26, <1>27,
        <1>28, <1>29, <1>30 DEF Next, Install

\* So does a step that changes nothing.
LEMMA TypedKept == Typed /\ UNCHANGED vars => Typed'
BY XcatKept, ImagesKept, NodesKept
DEF vars, Typed, RunOK, WhereOK, imageVars, Unnamed, Unplaced, PackagesListed, SettingsListed,
    Installing, Rooted, Image

\* In every state the variables have their types.
THEOREM TypeCorrect == Spec => []TypeOK
<1>1. Typed => TypeOK
  BY DEF Typed, TypeOK, XcatOK, ImagesOK, NodesOK, RunOK
<1>2. Typed /\ [Next]_vars => Typed'
  BY TypedKept, TypedNext
<1> QED BY TypedInit, <1>1, <1>2, PTL DEF Spec
=============================================================================
