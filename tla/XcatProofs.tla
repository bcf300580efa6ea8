----------------------------- MODULE XcatProofs -----------------------------
(***************************************************************************)
(* What Xcat's image has and what the nodes boot, for every distribution,  *)
(* every set of nodes, versions and InfiniBand stacks, every set of        *)
(* commands that may fail and every number of runs.                        *)
(***************************************************************************)
EXTENDS XcatTypes

-----------------------------------------------------------------------------
(* What the image gets, one place of a run after the other                  *)

\* Where configureInfiniband is, where the lists are written, where the definition
\* has them, where a clean-up has left no root directory, where the nodes are set up
Fabrics == {"infiniband", "test httpd", "restart httpd", "doca"}
Writing == {"remove otherpkglist", "write otherpkglist", "remove postinstall", "write postinstall",
            "remove synclists", "write synclists"}
Attaching == {"repos", "customize"} \cup Installing \cup {"genimage"}
Cleaned == {"configure", "slurm", "define", "repos", "customize"} \cup Fabrics \cup Writing
Booting == {"nodes", "addNodes nodeset", "nodeset", "boot", "reset", "done"}

\* The parts of Demanded(ofed)
Fabric(ofed) ==
  CASE ofed = "inbox" -> {"@infiniband"}
    [] ofed = "mellanox" -> {"doca-ofed"}
    [] OTHER -> {}
PackagesOf(ofed) == {"ohpc-base-compute", "chrony", "ohpc-slurm-client"} \cup Fabric(ofed)
OwnSettings == {"selinux", "chrony", "slurm", "limits", "firewalld"}
Munge == {<<"file", "accounts">>, <<"file", "munge">>}
Automount == <<"file", "automount">>

\* m_stateless
Collected ==
  /\ phase \in Fabrics => stateless.otherpkgs = {"ohpc-base-compute", "chrony"}
  /\ phase \in Fabrics \ {"infiniband"} => run.ofed = "mellanox"
  /\ phase = "slurm" =>
       stateless.otherpkgs = {"ohpc-base-compute", "chrony"} \cup Fabric(run.ofed)
  /\ phase \in Fabrics \cup {"slurm"} => stateless.postinstall = {"selinux", "chrony"}
  /\ phase \in Writing =>
       stateless.otherpkgs = PackagesOf(run.ofed) /\ stateless.postinstall = OwnSettings

\* The lists, without and then with what the script adds
Listed ==
  /\ phase = "write otherpkglist" => files["otherpkglist"] = None
  /\ phase = "write postinstall" => files["postinstall"] = None
  /\ phase \in PackagesListed => files["otherpkglist"] = PackagesOf(run.ofed)
  /\ phase \in SettingsListed => files["postinstall"] = OwnSettings
  /\ phase = "genimage" /\ ~run.lost =>
       /\ files["otherpkglist"] = PackagesOf(run.ofed) \cup {"autofs"}
       /\ files["postinstall"] = OwnSettings \cup {"autofs"}

\* The definition of the image
Attached ==
  phase \in Attaching /\ ~run.lost =>
    \/ osimage[run.version] = None /\ ~ChdefCreates
    \/ osimage[run.version] # None /\ Lists \subseteq osimage[run.version]

\* Its root directory
Customized ==
  /\ phase \in Installing \cup {"genimage"} /\ ~run.lost => Munge \subseteq rootimg[run.version]
  /\ phase = "genimage" /\ ~run.lost => Automount \in rootimg[run.version]
  /\ run.skip /\ ~run.lost =>
       /\ phase \in Cleaned => rootimg[run.version] = None
       /\ phase \in Installing => rootimg[run.version] \subseteq Munge
       /\ phase = "genimage" => rootimg[run.version] \subseteq Munge \cup {Automount}
  /\ phase = "packimage" /\ ~run.lost =>
       /\ Demanded(run.ofed) \subseteq rootimg[run.version]
       /\ run.skip => rootimg[run.version] \subseteq Demanded(run.ofed)

Gathering == Collected /\ Listed /\ Attached /\ Customized

\* Neither PackedHasAll nor SkipRebuildsClean is inductive: what is packed was
\* gathered before, in lists, a definition and a directory.
Packing == PackedHasAll /\ SkipRebuildsClean

\* Nor is NodesBootLatest: what is packed, told to the nodes and booted agrees.
Resetting ==
  /\ phase \in Booting /\ (run.force \/ run.skip) =>
       packed[run.version] # None /\ packed[run.version].run = run.number
  /\ phase \in Booting \ {"nodes"} /\ ~run.lost => run.nodes \subseteq defined
  /\ phase \in {"nodeset", "boot", "reset"} => \A n \in defined : target[n] = run.version
  /\ NodesBootLatest

\* Nor is OSReposAttached: chdef gave the definition its package directories before
\* genimage, and nothing takes them away.
Sources == {"customize"} \cup Installing \cup {"genimage"}
Providing ==
  /\ phase \in Sources /\ ~run.lost =>
       \/ osimage[run.version] = None /\ ~ChdefCreates
       \/ osimage[run.version] # None /\ ImageRepos \subseteq osimage[run.version]
  /\ phase = "packimage" /\ ~run.lost =>
       osimage[run.version] # None /\ ImageRepos \subseteq osimage[run.version]

IInv == Typed /\ Gathering /\ Packing /\ Resetting /\ Providing

\* chdef --plus: a definition that is there keeps what it has; one that is not
\* there may be made.
LEMMA PlusAttaches ==
  ASSUME Typed, NEW attributes \in SUBSET Attributes, Plus(attributes), Image \in Versions
  PROVE  \/ osimage[Image] = None /\ osimage'[Image] = None /\ ~ChdefCreates
         \/ /\ osimage'[Image] # None /\ attributes \subseteq osimage'[Image]
            /\ osimage[Image] # None => osimage[Image] \subseteq osimage'[Image]
            /\ osimage[Image] # None \/ ChdefCreates
<1>1. CASE ~PlusWorks
  BY <1>1 DEF Plus, PlusWorks
<1>2. CASE PlusWorks
  <2>1. osimage'[Image] = attributes \cup (IF osimage[Image] = None THEN {} ELSE osimage[Image])
    BY <1>2 DEF Plus, Typed, ImagesOK
  <2>2. osimage'[Image] \in SUBSET Attributes
    BY <2>1 DEF Typed, ImagesOK
  <2>3. osimage'[Image] # None
    BY <2>2, NoneAssumption
  <2>4. osimage[Image] # None \/ ChdefCreates
    BY <1>2 DEF PlusWorks
  <2> QED BY <2>1, <2>3, <2>4
<1> QED BY <1>1, <1>2

\* What is demanded comes from the lists, from munge and from the script.
LEMMA DemandedParts ==
  ASSUME NEW ofed
  PROVE  Demanded(ofed) = ({"package"} \X (PackagesOf(ofed) \cup {"autofs"}))
                            \cup ({"setting"} \X Settings) \cup Munge \cup {Automount}
<1>1. CASE ofed = "inbox"
  BY <1>1 DEF Demanded, PackagesOf, Fabric, Munge, Automount
<1>2. CASE ofed = "mellanox"
  BY <1>2 DEF Demanded, PackagesOf, Fabric, Munge, Automount
<1>3. CASE ofed \notin {"inbox", "mellanox"}
  BY <1>3 DEF Demanded, PackagesOf, Fabric, Munge, Automount
<1> QED BY <1>1, <1>2, <1>3

\* Places of a run where nothing is known of what the image gets yet
Early == {"off", "failed", "construct", "packages", "patch", "patch server", "patch certs", "setup",
          "arguments", "EL9", "exists", "media"}

\* There Gathering holds whatever the step did.
LEMMA EarlyGathers ==
  ASSUME phase' \in Early
  PROVE  Gathering'
BY DEF Early, Gathering, Collected, Listed, Attached, Customized, Fabrics, Writing, Attaching, Cleaned,
       PackagesListed, SettingsListed, Installing

\* Nor is anything needed any more once the nodes are added.
LEMMA LateGathers ==
  ASSUME phase' \in Booting
  PROVE  Gathering'
BY DEF Booting, Gathering, Collected, Listed, Attached, Customized, Fabrics, Writing, Attaching, Cleaned,
       PackagesListed, SettingsListed, Installing

\* The steps between the same places that change nothing of it
LEMMA GatheringKept ==
  ASSUME Gathering, SameRun, UNCHANGED <<stateless, files, osimage, rootimg>>,
         \/ phase \in Fabrics /\ phase' \in Fabrics \ {"infiniband"} /\ run.ofed = "mellanox"
         \/ phase = "repos" /\ phase' = "customize"
         \/ phase \in Installing /\ phase' \in Installing
  PROVE  Gathering'
BY DEF Gathering, Collected, Listed, Attached, Customized, Fabrics, Writing, Attaching, Cleaned,
       PackagesListed, SettingsListed, Installing, SameRun

\* Each step gathers what the next one needs.
LEMMA GatheringNext ==
  ASSUME Typed, Typed', Gathering, Next
  PROVE  Gathering'
<1>1. CASE \/ Start \/ Construct \/ InstallPackages \/ Setup \/ PatchClient \/ PatchServer \/ PatchCerts
           \/ GetImageInstallArgs \/ ConfigureEL9 \/ ImageExists \/ Exit \/ Die
  <2>1. phase' \in Early \cup Booting
    BY <1>1 DEF Start, Construct, InstallPackages, Setup, PatchClient, PatchServer, PatchCerts,
       GetImageInstallArgs, ConfigureEL9, ImageExists, Exit, Die, From, Early, Booting
  <2> QED BY <2>1, EarlyGathers, LateGathers
<1>2. CASE Packimage \/ AddNodes \/ SetNodesImage \/ SetNodesBoot \/ ResetNodes
  <2>1. phase' \in Early \cup Booting
    BY <1>2 DEF Packimage, AddNodes, SetNodesImage, Nodeset, SetNodesBoot, ResetNodes, From, Early,
       Booting
  <2> QED BY <2>1, EarlyGathers, LateGathers
<1>3. CASE CreateHTTPRepo \/ TestHTTPd \/ RestartHTTPd
  <2>1. /\ phase \in Fabrics /\ phase' \in Fabrics \ {"infiniband"}
        /\ phase = "infiniband" => run.ofed = "mellanox"
        /\ UNCHANGED <<stateless, files, osimage, rootimg, run>>
    BY <1>3 DEF CreateHTTPRepo, TestHTTPd, RestartHTTPd, From, Fabrics, imageVars
  <2>2. run.ofed = "mellanox"
    BY <2>1 DEF Gathering, Collected, Fabrics
  <2> QED BY <2>1, <2>2, GatheringKept DEF SameRun, Typed, RunOK
<1>4. CASE InstallScript \/ WriteScript
  <2>1. /\ phase \in Installing /\ phase' \in Installing
        /\ UNCHANGED <<stateless, files, osimage, rootimg, run>>
    BY <1>4 DEF InstallScript, WriteScript, From, Installing
  <2> QED BY <2>1, GatheringKept DEF SameRun, Typed, RunOK
<1>5. CASE CopyCDs
  <2>1. phase' = "configure" /\ ~run.skip /\ UNCHANGED run
    BY <1>5 DEF CopyCDs, From
  <2> QED
    BY <2>1 DEF Gathering, Collected, Listed, Attached, Customized, Fabrics, Writing, Attaching, Cleaned,
                PackagesListed, SettingsListed, Installing
<1>6. CASE CleanUp
  <2>1. phase = "media" /\ phase' = "configure" /\ UNCHANGED run
    BY <1>6 DEF CleanUp, From
  <2>2. stateless.chroot = run.version /\ run.version \in Versions /\ run.version # None
    BY <2>1, XcatAssumption DEF Typed, WhereOK, Unplaced, Unnamed
  <2>3. rootimg'[run.version] = None
    BY <1>6, <2>2 DEF CleanUp, Typed, ImagesOK
  <2> QED
    BY <2>1, <2>3
    DEF Gathering, Collected, Listed, Attached, Customized, Fabrics, Writing, Attaching, Cleaned,
        PackagesListed, SettingsListed, Installing
<1>7. CASE Configure
  <2>1. /\ phase = "configure" /\ phase' = "infiniband" /\ UNCHANGED <<rootimg, run>>
        /\ stateless'.otherpkgs = {"ohpc-base-compute", "chrony"}
        /\ stateless'.postinstall = {"selinux", "chrony"}
    BY <1>7 DEF Configure, From, imageVars
  <2> QED
    BY <2>1 DEF Gathering, Collected, Listed, Attached, Customized, Fabrics, Writing, Attaching, Cleaned,
                PackagesListed, SettingsListed, Installing
<1>8. CASE ConfigureInfiniband \/ AddDoca
  <2>1. CASE phase' = "failed"
    BY <2>1, EarlyGathers DEF Early
  <2>2. CASE phase' # "failed"
    <3>1. /\ phase \in Fabrics /\ phase' = "slurm" /\ UNCHANGED <<rootimg, run>>
          /\ \/ AddPackage("@infiniband") /\ run.ofed = "inbox"
             \/ AddPackage("doca-ofed") /\ phase = "doca"
      BY <1>8, <2>2 DEF ConfigureInfiniband, AddDoca, From, imageVars, Fabrics
    <3>2. /\ stateless'.otherpkgs = {"ohpc-base-compute", "chrony"} \cup Fabric(run.ofed)
          /\ stateless'.postinstall = {"selinux", "chrony"}
      BY <3>1, PackageAdded DEF Typed, RunOK, Gathering, Collected, Fabrics, Fabric, Packages
    <3> QED
      BY <3>1, <3>2
      DEF Gathering, Collected, Listed, Attached, Customized, Fabrics, Writing, Attaching, Cleaned,
          PackagesListed, SettingsListed, Installing
  <2> QED BY <2>1, <2>2
<1>9. CASE ConfigureSLURM
  <2>1. /\ phase = "slurm" /\ phase' = "remove otherpkglist" /\ UNCHANGED <<rootimg, run>>
        /\ stateless' = [stateless EXCEPT
             !.otherpkgs = stateless.otherpkgs \cup {"ohpc-slurm-client"},
             !.postinstall = stateless.postinstall \cup {"slurm", "limits", "firewalld"}]
    BY <1>9 DEF ConfigureSLURM, From, imageVars
  <2>2. /\ stateless'.otherpkgs = PackagesOf(run.ofed)
        /\ stateless'.postinstall = OwnSettings
    BY <2>1 DEF Typed, RunOK, Images, Gathering, Collected, PackagesOf, OwnSettings
  <2> QED
    BY <2>1, <2>2
    DEF Gathering, Collected, Listed, Attached, Customized, Fabrics, Writing, Attaching, Cleaned,
        PackagesListed, SettingsListed, Installing
<1>10. CASE GenerateOtherPkgListFile \/ GeneratePostinstallFile \/ GenerateSynclistsFile
  <2>1. UNCHANGED <<rootimg, stateless, run>>
    BY <1>10 DEF GenerateOtherPkgListFile, GeneratePostinstallFile, GenerateSynclistsFile, RemoveList,
                 WriteList
  <2>2. \/ /\ phase = "remove otherpkglist" /\ phase' = "write otherpkglist"
           /\ files' = [files EXCEPT !["otherpkglist"] = None]
        \/ /\ phase = "write otherpkglist" /\ phase' = "remove postinstall"
           /\ files' = [files EXCEPT !["otherpkglist"] =
                          stateless.otherpkgs \cup (IF files["otherpkglist"] = None THEN {}
                                                    ELSE files["otherpkglist"])]
        \/ /\ phase = "remove postinstall" /\ phase' = "write postinstall"
           /\ files' = [files EXCEPT !["postinstall"] = None]
        \/ /\ phase = "write postinstall" /\ phase' = "remove synclists"
           /\ files' = [files EXCEPT !["postinstall"] =
                          stateless.postinstall \cup (IF files["postinstall"] = None THEN {}
                                                      ELSE files["postinstall"])]
        \/ /\ phase = "remove synclists" /\ phase' = "write synclists"
           /\ files' = [files EXCEPT !["synclists"] = None]
        \/ /\ phase = "write synclists" /\ phase' = "define"
           /\ files' = [files EXCEPT !["synclists"] =
                          Synced \cup (IF files["synclists"] = None THEN {} ELSE files["synclists"])]
    BY <1>10 DEF GenerateOtherPkgListFile, GeneratePostinstallFile, GenerateSynclistsFile, RemoveList,
                 WriteList, Content, From
  <2>3. Collected' /\ Attached' /\ Customized'
    BY <2>1, <2>2 DEF Gathering, Collected, Attached, Customized, Fabrics, Writing, Attaching, Cleaned,
                      Installing
  <2>4. Listed'
    <3>1. CASE phase \in {"remove otherpkglist", "remove postinstall"}
      BY <2>1, <2>2, <3>1
      DEF Gathering, Listed, PackagesListed, SettingsListed, Installing, Typed, ImagesOK, Lists
    <3>2. CASE phase = "write otherpkglist"
      <4>1. files'["otherpkglist"] = stateless.otherpkgs
        <5>1. files["otherpkglist"] = None
          BY <3>2 DEF Gathering, Listed
        <5>2. files' = [files EXCEPT !["otherpkglist"] = stateless.otherpkgs \cup {}]
          BY <2>2, <3>2, <5>1
        <5>3. stateless.otherpkgs \cup {} = stateless.otherpkgs
          OBVIOUS
        <5> QED BY <5>2, <5>3 DEF Typed, ImagesOK, Lists
      <4> QED
        BY <2>1, <2>2, <3>2, <4>1
        DEF Gathering, Collected, Listed, PackagesListed, SettingsListed, Installing, Writing
    <3>3. CASE phase = "write postinstall"
      <4>1. /\ files'["postinstall"] = stateless.postinstall
            /\ files'["otherpkglist"] = files["otherpkglist"]
        <5>1. files["postinstall"] = None
          BY <3>3 DEF Gathering, Listed
        <5>2. files' = [files EXCEPT !["postinstall"] = stateless.postinstall \cup {}]
          BY <2>2, <3>3, <5>1
        <5>3. stateless.postinstall \cup {} = stateless.postinstall
          OBVIOUS
        <5> QED BY <5>2, <5>3 DEF Typed, ImagesOK, Lists
      <4> QED
        BY <2>1, <2>2, <3>3, <4>1
        DEF Gathering, Collected, Listed, PackagesListed, SettingsListed, Installing, Writing
    <3>4. CASE phase \in {"remove synclists", "write synclists"}
      <4>1. /\ files'["postinstall"] = files["postinstall"]
            /\ files'["otherpkglist"] = files["otherpkglist"]
        BY <2>2, <3>4 DEF Typed, ImagesOK, Lists
      <4> QED
        BY <2>1, <2>2, <3>4, <4>1
        DEF Gathering, Listed, PackagesListed, SettingsListed, Installing
    <3> QED BY <2>2, <3>1, <3>2, <3>3, <3>4
  <2> QED BY <2>3, <2>4 DEF Gathering
<1>11. CASE DefineLists
  <2>1. PICK attached \in SUBSET Lists :
          /\ phase = "define" /\ phase' = "repos" /\ Plus(attached)
          /\ run' = [run EXCEPT !.lost = run.lost \/ attached # Lists]
          /\ UNCHANGED <<files, rootimg, stateless>>
    BY <1>11 DEF DefineLists, From
  <2>2. SameRun /\ (~run'.lost => attached = Lists)
    BY <2>1, RunLost DEF Typed, RunOK, SameRun
  <2>3. ~run'.lost =>
          \/ osimage'[run.version] = None /\ ~ChdefCreates
          \/ osimage'[run.version] # None /\ Lists \subseteq osimage'[run.version]
    <3>1. Image = run.version /\ run.version \in Versions
      BY <2>1 DEF Typed, WhereOK, Unnamed
    <3>2. attached \in SUBSET Attributes
      BY <2>1 DEF Attributes
    <3> QED BY <2>1, <2>2, <3>1, <3>2, PlusAttaches
  <2> QED
    BY <2>1, <2>2, <2>3
    DEF Gathering, Collected, Listed, Attached, Customized, Fabrics, Writing, Attaching, Cleaned,
        PackagesListed, SettingsListed, Installing, SameRun
<1>12. CASE DefineRepos
  <2>1. phase = "repos" /\ phase' = "customize" /\ UNCHANGED <<files, rootimg, stateless, run>>
    BY <1>12 DEF DefineRepos, From
  <2>2. Attached'
    <3>1. Image = run.version /\ run.version \in Versions
      BY <2>1 DEF Typed, WhereOK, Unnamed
    <3>2. Plus(ImageRepos) /\ ImageRepos \in SUBSET Attributes
      BY <1>12 DEF DefineRepos, ImageRepos, Attributes
    <3>3. \/ osimage[Image] = None /\ osimage'[Image] = None /\ ~ChdefCreates
          \/ /\ osimage'[Image] # None
             /\ osimage[Image] # None => osimage[Image] \subseteq osimage'[Image]
             /\ osimage[Image] # None \/ ChdefCreates
      BY <3>1, <3>2, PlusAttaches
    <3>4. ~run.lost => \/ osimage[Image] = None /\ ~ChdefCreates
                       \/ osimage[Image] # None /\ Lists \subseteq osimage[Image]
      BY <2>1, <3>1 DEF Gathering, Attached, Attaching
    <3>5. ~run.lost => \/ osimage'[Image] = None /\ ~ChdefCreates
                       \/ osimage'[Image] # None /\ Lists \subseteq osimage'[Image]
      BY <3>3, <3>4
    <3> QED BY <2>1, <3>1, <3>5 DEF Attached
  <2> QED
    BY <2>1, <2>2
    DEF Gathering, Collected, Listed, Customized, Fabrics, Writing, Cleaned,
        PackagesListed, SettingsListed, Installing
<1>13. CASE CustomizeMunge
  <2>1. PICK made \in SUBSET {"accounts", "munge"} :
          /\ phase = "customize" /\ phase' = "install script"
          /\ rootimg' = [rootimg EXCEPT ![stateless.chroot] =
                           ({"file"} \X made) \cup (IF rootimg[stateless.chroot] = None THEN {}
                                                    ELSE rootimg[stateless.chroot])]
          /\ run' = [run EXCEPT !.lost = run.lost \/ made # {"accounts", "munge"}]
          /\ UNCHANGED <<osimage, files, stateless>>
    BY <1>13 DEF CustomizeMunge, From
  <2>2. SameRun /\ (~run'.lost => made = {"accounts", "munge"})
    BY <2>1, RunLost DEF Typed, RunOK, SameRun
  <2>3. stateless.chroot = run.version /\ run.version \in Versions
    BY <2>1 DEF Typed, WhereOK, Unplaced, Unnamed
  <2>4. ~run'.lost => {"file"} \X made = Munge
    BY <2>2 DEF Munge
  <2>5. rootimg'[run.version] = ({"file"} \X made) \cup (IF rootimg[run.version] = None THEN {}
                                                         ELSE rootimg[run.version])
    BY <2>1, <2>3 DEF Typed, ImagesOK
  <2>6. Customized'
    BY <2>1, <2>2, <2>4, <2>5
    DEF Gathering, Customized, Cleaned, Fabrics, Writing, Installing, SameRun
  <2> QED
    BY <2>1, <2>2, <2>6
    DEF Gathering, Collected, Listed, Attached, Fabrics, Writing, Attaching,
        PackagesListed, SettingsListed, Installing, SameRun
<1>14. CASE RunScript
  <2>1. PICK lines \in 0..4 : Scripted(lines)
    BY <1>14, ScriptLines
  <2>2. SameRun /\ (~run'.lost => ~run.lost /\ lines = 4)
    <3>1. run' = [run EXCEPT !.lost = run.lost \/ lines < 4]
      BY <2>1 DEF Scripted
    <3>2. SameRun /\ run'.lost = (run.lost \/ lines < 4)
      BY <3>1, RunLost DEF Typed, RunOK, SameRun
    <3>3. ~(lines < 4) => lines = 4
      BY <2>1
    <3> QED BY <3>2, <3>3
  <2>3. CASE run'.lost
    BY <2>1, <2>3
    DEF Gathering, Collected, Listed, Attached, Customized, Fabrics, Writing, Attaching, Cleaned,
        PackagesListed, SettingsListed, Installing, Scripted
  <2>4. CASE ~run'.lost
    <3>1. /\ phase = "run script" /\ phase' = "genimage" /\ ~run.lost
          /\ Image = run.version /\ stateless.chroot = run.version /\ run.version \in Versions
          /\ files["otherpkglist"] \in SUBSET Packages /\ files["postinstall"] \in SUBSET Settings
          /\ rootimg[run.version] \in SUBSET Things
      BY <2>1, <2>2, <2>4
      DEF Scripted, Typed, WhereOK, Unplaced, Unnamed, PackagesListed, SettingsListed, Installing, Rooted
    <3>2. /\ files' = [files EXCEPT !["postinstall"] = files["postinstall"] \cup {"autofs"},
                                   !["otherpkglist"] = files["otherpkglist"] \cup {"autofs"}]
          /\ rootimg' = [rootimg EXCEPT ![run.version] =
                           rootimg[run.version] \cup {<<"file", "automount">>}]
          /\ Plus({"postinstall"})
      <4>1. ~(lines < 1) /\ ~(lines < 2) /\ ~(lines < 3) /\ ~(lines < 4)
        BY <2>2, <2>4
      <4> QED BY <2>1, <3>1, <4>1 DEF Scripted
    <3>3. Listed'
      BY <2>2, <3>1, <3>2
      DEF Gathering, Listed, PackagesListed, SettingsListed, Installing, SameRun, Typed, ImagesOK, Lists
    <3>4. Attached'
      <4>1. {"postinstall"} \in SUBSET Attributes
        BY DEF Attributes, Lists
      <4>2. \/ osimage[Image] = None /\ osimage'[Image] = None /\ ~ChdefCreates
            \/ /\ osimage'[Image] # None
               /\ osimage[Image] # None => osimage[Image] \subseteq osimage'[Image]
               /\ osimage[Image] # None \/ ChdefCreates
        BY <3>1, <3>2, <4>1, PlusAttaches
      <4>3. \/ osimage[Image] = None /\ ~ChdefCreates
            \/ osimage[Image] # None /\ Lists \subseteq osimage[Image]
        BY <3>1 DEF Gathering, Attached, Attaching, Installing
      <4>4. \/ osimage'[Image] = None /\ ~ChdefCreates
            \/ osimage'[Image] # None /\ Lists \subseteq osimage'[Image]
        BY <4>2, <4>3
      <4> QED BY <2>2, <3>1, <4>4 DEF Attached, SameRun
    <3>5. rootimg'[run.version] = rootimg[run.version] \cup {Automount}
      BY <3>1, <3>2 DEF Typed, ImagesOK, Automount
    <3>6. Customized'
      BY <2>2, <3>1, <3>5 DEF Gathering, Customized, Cleaned, Fabrics, Writing, Installing, SameRun
    <3>7. Collected'
      BY <3>1 DEF Collected, Fabrics, Writing
    <3> QED BY <3>3, <3>4, <3>6, <3>7 DEF Gathering
  <2> QED BY <2>3, <2>4
<1>15. CASE Genimage
  <2>1. CASE phase' = "failed"
    BY <2>1, EarlyGathers DEF Early
  <2>2. CASE phase' # "failed"
    <3>1. /\ phase = "genimage" /\ phase' = "packimage" /\ osimage[Image] # None /\ UNCHANGED run
          /\ Image = run.version /\ run.version \in Versions
          /\ rootimg[run.version] \in SUBSET Things
      BY <1>15, <2>2 DEF Genimage, From, Typed, WhereOK, Unnamed, Rooted
    <3>2. rootimg'[run.version] =
            ({"package"} \X Named("otherpkglist")) \cup ({"setting"} \X Named("postinstall"))
              \cup rootimg[run.version]
      BY <1>15, <2>2, <3>1, NoneAssumption DEF Genimage, From, Typed, ImagesOK
    <3>3. ASSUME ~run.lost
          PROVE  /\ Named("otherpkglist") = PackagesOf(run.ofed) \cup {"autofs"}
                 /\ Named("postinstall") = Settings
      <4>1. /\ files["otherpkglist"] = PackagesOf(run.ofed) \cup {"autofs"}
            /\ files["postinstall"] = Settings
            /\ Lists \subseteq osimage[Image]
        BY <3>1, <3>3 DEF Gathering, Listed, Attached, Attaching, OwnSettings, Settings
      <4>2. files["otherpkglist"] # None /\ files["postinstall"] # None
        <5>1. files["otherpkglist"] \in SUBSET Lines /\ files["postinstall"] \in SUBSET Lines
          BY <4>1, <3>1 DEF PackagesOf, Fabric, Packages, Settings, Lines
        <5> QED BY <5>1, NoneAssumption
      <4> QED BY <4>1, <4>2 DEF Named, Lists
    <3>4. ASSUME ~run.lost
          PROVE  /\ Demanded(run.ofed) \subseteq rootimg'[run.version]
                 /\ run.skip => rootimg'[run.version] \subseteq Demanded(run.ofed)
      <4>1. /\ Munge \cup {Automount} \subseteq rootimg[run.version]
            /\ run.skip => rootimg[run.version] \subseteq Munge \cup {Automount}
        BY <3>1, <3>4 DEF Gathering, Customized
      <4>2. Demanded(run.ofed) = ({"package"} \X (PackagesOf(run.ofed) \cup {"autofs"}))
                                   \cup ({"setting"} \X Settings) \cup Munge \cup {Automount}
        BY DemandedParts
      <4> QED BY <3>2, <3>3, <3>4, <4>1, <4>2
    <3> QED
      BY <3>1, <3>4
      DEF Gathering, Collected, Listed, Attached, Customized, Fabrics, Writing, Attaching, Cleaned,
          PackagesListed, SettingsListed, Installing
  <2> QED BY <2>1, <2>2
<1>16. CASE Failures
  <2>1. UNCHANGED <<xcatVars, imageVars, nodeVars, stateless>> /\ SameRun
    BY <1>16, FailuresDo DEF Typed, RunOK
  <2>2. \/ phase' \in Early \cup Booting
        \/ phase = "media" /\ phase' = "configure" /\ run'.lost
        \/ phase = "repos" /\ phase' = "customize"
    BY <1>16, FailuresDo DEF Typed, RunOK, Dropped, Early, Booting
  <2>3. CASE phase' \in Early \cup Booting
    BY <2>3, EarlyGathers, LateGathers
  <2>4. CASE phase = "media" /\ phase' = "configure" /\ run'.lost
    BY <2>4
    DEF Gathering, Collected, Listed, Attached, Customized, Fabrics, Writing, Attaching, Cleaned,
        PackagesListed, SettingsListed, Installing
  <2>5. CASE phase = "repos" /\ phase' = "customize"
    BY <2>1, <2>5, GatheringKept DEF imageVars
  <2> QED BY <2>2, <2>3, <2>4, <2>5
<1> QED
  BY <1>1, <1>2, <1>3, <1>4, <1>5, <1>6, <1>7, <1>8, <1>9, <1>10, <1>11, <1>12, <1>13, <1>14, <1>15,
     <1>16 DEF Next, Install

\* What is packed has what was demanded, and nothing else after a clean-up.
LEMMA PackingNext ==
  ASSUME Typed, Gathering, Packing, Next
  PROVE  Packing'
<1>1. CASE Packimage
  <2>1. /\ phase = "packimage" /\ Image = run.version /\ run.version \in Versions
        /\ packed' = [packed EXCEPT ![run.version] =
                        [run |-> run.number, skip |-> run.skip, ofed |-> run.ofed,
                         lost |-> run.lost, root |-> rootimg[run.version]]]
    BY <1>1 DEF Packimage, From, Typed, WhereOK, Unnamed
  <2>2. ~run.lost => /\ Demanded(run.ofed) \subseteq rootimg[run.version]
                     /\ run.skip => rootimg[run.version] \subseteq Demanded(run.ofed)
    BY <2>1 DEF Gathering, Customized
  <2>3. /\ packed'[run.version].lost = run.lost /\ packed'[run.version].ofed = run.ofed
        /\ packed'[run.version].root = rootimg[run.version]
        /\ packed'[run.version].skip = run.skip
        /\ \A v \in Versions \ {run.version} : packed'[v] = packed[v]
    BY <2>1 DEF Typed, ImagesOK
  <2>4. PackedHasAll'
    BY <2>2, <2>3 DEF Packing, PackedHasAll
  <2>5. SkipRebuildsClean'
    BY <2>2, <2>3 DEF Packing, SkipRebuildsClean
  <2> QED BY <2>4, <2>5 DEF Packing
<1>2. CASE ~Packimage
  <2>1. UNCHANGED packed
    BY <1>2 DEF Next, Install, Start, Exit, Die, Construct, InstallPackages, PatchClient, PatchServer,
       PatchCerts, Setup, GetImageInstallArgs, ConfigureEL9, ImageExists, CopyCDs, CleanUp, Configure,
       ConfigureInfiniband, CreateHTTPRepo, TestHTTPd, RestartHTTPd, AddDoca, ConfigureSLURM,
       GenerateOtherPkgListFile, GeneratePostinstallFile, GenerateSynclistsFile, RemoveList, WriteList,
       DefineLists, DefineRepos, CustomizeMunge, InstallScript, WriteScript, RunScript, Genimage,
       AddNodes, SetNodesImage, Nodeset, SetNodesBoot, ResetNodes, Failures, Throws, Drops, imageVars
  <2> QED BY <2>1 DEF Packing, PackedHasAll, SkipRebuildsClean
<1> QED BY <1>1, <1>2

\* Outside the last places of a run nothing is said of the nodes.
LEMMA ElsewhereResets ==
  ASSUME phase' \notin Booting
  PROVE  Resetting'
BY DEF Resetting, Booting, NodesBootLatest

\* The nodes' image is packed, told to them and booted, in that order.
LEMMA ResettingNext ==
  ASSUME Typed, Typed', Resetting, Next
  PROVE  Resetting'
<1>1. CASE phase' \notin Booting
  BY <1>1, ElsewhereResets
<1>2. CASE ImageExists /\ phase' \in Booting
  BY <1>2 DEF ImageExists, From, Resetting, Booting, NodesBootLatest, Typed, RunOK, Runs
<1>3. CASE Packimage
  <2>1. /\ phase = "packimage" /\ phase' = "nodes" /\ Image = run.version /\ run.version \in Versions
        /\ packed' = [packed EXCEPT ![run.version] =
                        [run |-> run.number, skip |-> run.skip, ofed |-> run.ofed,
                         lost |-> run.lost, root |-> rootimg[run.version]]]
        /\ UNCHANGED run
    BY <1>3 DEF Packimage, From, Typed, WhereOK, Unnamed
  <2>2. packed'[run.version].run = run.number /\ packed'[run.version] \in Packs
    <3>1. /\ run.number \in 1..MaxRuns /\ run.ofed \in Ofeds
          /\ rootimg[run.version] \in SUBSET Things
          /\ run.skip \in BOOLEAN /\ run.lost \in BOOLEAN
      BY <2>1, RunFields DEF Typed, RunOK, WhereOK, Rooted
    <3> QED BY <2>1, <3>1 DEF Typed, ImagesOK, Packs
  <2>3. packed'[run.version] # None
    BY <2>2, NoneAssumption
  <2> QED BY <2>1, <2>2, <2>3 DEF Resetting, Booting, NodesBootLatest
<1>4. CASE AddNodes
  <2>1. PICK added \in SUBSET run.nodes :
          /\ phase = "nodes" /\ phase' = "addNodes nodeset"
          /\ defined' = defined \cup added
          /\ run' = [run EXCEPT !.lost = run.lost \/ added # run.nodes]
          /\ UNCHANGED packed
    BY <1>4 DEF AddNodes, From, imageVars
  <2>2. SameRun /\ (~run'.lost => added = run.nodes)
    BY <2>1, RunLost DEF Typed, RunOK, SameRun
  <2> QED BY <2>1, <2>2 DEF Resetting, Booting, NodesBootLatest, SameRun
<1>5. CASE SetNodesImage /\ phase' \in Booting
  <2>1. /\ \/ phase = "addNodes nodeset" /\ phase' = "nodeset"
           \/ phase = "nodeset" /\ phase' = "boot"
        /\ target' = [n \in Nodes |-> IF n \in defined THEN Image ELSE target[n]]
        /\ UNCHANGED <<packed, defined, run>>
    BY <1>5 DEF SetNodesImage, Nodeset, From, Booting, imageVars
  <2>2. \A n \in defined : target'[n] = run.version
    BY <2>1 DEF Typed, NodesOK, WhereOK, Unnamed
  <2> QED BY <2>1, <2>2 DEF Resetting, Booting, NodesBootLatest
<1>6. CASE SetNodesBoot
  <2>1. phase = "boot" /\ phase' = "reset" /\ UNCHANGED <<packed, defined, target, run>>
    BY <1>6 DEF SetNodesBoot, From, imageVars, nodeVars
  <2> QED BY <2>1 DEF Resetting, Booting, NodesBootLatest
<1>7. CASE ResetNodes
  <2>1. /\ phase = "reset" /\ phase' = "done" /\ UNCHANGED <<packed, defined, run>>
        /\ booted' = [n \in Nodes |-> IF target[n] # None THEN packed[target[n]] ELSE booted[n]]
    BY <1>7 DEF ResetNodes, From, imageVars
  <2>2. run.version # None
    BY <2>1, XcatAssumption DEF Typed, WhereOK
  <2>3. \A n \in defined : booted'[n] = packed[run.version]
    BY <2>1, <2>2 DEF Resetting, Typed, NodesOK
  <2> QED BY <2>1, <2>3 DEF Resetting, Booting, NodesBootLatest
<1>8. CASE Failures /\ phase' \in Booting
  <2>1. /\ UNCHANGED <<packed, defined, target>> /\ SameRun /\ run'.lost
        /\ \/ phase = "boot" /\ phase' = "reset"
           \/ phase = "reset" /\ phase' = "done"
    BY <1>8, FailuresDo DEF Typed, RunOK, Dropped, Booting, imageVars, nodeVars
  <2> QED BY <2>1 DEF Resetting, Booting, NodesBootLatest, SameRun
<1> QED
  <2>1. \/ phase' \notin Booting
        \/ ImageExists \/ Packimage \/ AddNodes \/ SetNodesImage \/ SetNodesBoot \/ ResetNodes
        \/ Failures
    BY DEF Next, Install, Start, Exit, Die, Construct, InstallPackages, PatchClient, PatchServer,
       PatchCerts, Setup, GetImageInstallArgs, ConfigureEL9, CopyCDs, CleanUp, Configure,
       ConfigureInfiniband, CreateHTTPRepo, TestHTTPd, RestartHTTPd, AddDoca, ConfigureSLURM,
       GenerateOtherPkgListFile, GeneratePostinstallFile, GenerateSynclistsFile, RemoveList, WriteList,
       DefineLists, DefineRepos, CustomizeMunge, InstallScript, WriteScript, RunScript, Genimage,
       From, Booting
  <2> QED BY <1>1, <1>2, <1>3, <1>4, <1>5, <1>6, <1>7, <1>8, <2>1

\* The files of repositories are named in the answerfile's terms: they stay the
\* same in a run.
LEMMA SameRepos ==
  ASSUME SameRun
  PROVE  ImageRepos' = ImageRepos
BY DEF SameRun, ImageRepos, OSRepoFile

\* The steps that keep the definition provide what was provided.
LEMMA ProvidingKept ==
  ASSUME Providing, SameRun, UNCHANGED osimage, phase' \in Sources,
         phase \in Sources \/ run'.lost
  PROVE  Providing'
BY SameRepos DEF Providing, Sources, Installing, SameRun

\* The definition has the repositories' directories from configureOSImageDefinition on.
LEMMA ProvidingNext ==
  ASSUME Typed, Providing, Next
  PROVE  Providing'
<1>1. CASE phase' \notin Sources \cup {"packimage"}
  BY <1>1 DEF Providing, Sources
<1>2. CASE DefineRepos
  <2>1. /\ phase = "repos" /\ phase' = "customize" /\ UNCHANGED run
        /\ Plus(ImageRepos) /\ ImageRepos \in SUBSET Attributes
    BY <1>2 DEF DefineRepos, From, ImageRepos, Attributes
  <2>2. Image = run.version /\ run.version \in Versions
    BY <2>1 DEF Typed, WhereOK, Unnamed
  <2>3. \/ osimage'[run.version] = None /\ ~ChdefCreates
        \/ osimage'[run.version] # None /\ ImageRepos \subseteq osimage'[run.version]
    BY <2>1, <2>2, PlusAttaches
  <2>4. ImageRepos' = ImageRepos
    BY <2>1, SameRepos DEF SameRun, Typed, RunOK
  <2> QED BY <2>1, <2>3, <2>4 DEF Providing, Sources, Installing
<1>3. CASE CustomizeMunge
  <2>1. /\ phase = "customize" /\ phase' = "install script" /\ UNCHANGED osimage
        /\ \E lost \in BOOLEAN : run' = [run EXCEPT !.lost = run.lost \/ lost]
    BY <1>3 DEF CustomizeMunge, From
  <2>2. SameRun
    BY <2>1, RunLost DEF Typed, RunOK, SameRun
  <2> QED BY <2>1, <2>2, ProvidingKept DEF Sources, Installing
<1>4. CASE InstallScript \/ WriteScript
  <2>1. /\ phase \in Installing /\ phase' \in Installing /\ UNCHANGED <<osimage, run>>
    BY <1>4 DEF InstallScript, WriteScript, From, Installing
  <2> QED BY <2>1, ProvidingKept DEF Sources, SameRun, Typed, RunOK
<1>5. CASE RunScript
  <2>1. PICK lines \in 0..4 : Scripted(lines)
    BY <1>5, ScriptLines
  <2>2. SameRun /\ phase = "run script" /\ phase' = "genimage"
    BY <2>1, RunLost DEF Scripted, Typed, RunOK, SameRun
  <2>3. CASE UNCHANGED osimage
    BY <2>2, <2>3, ProvidingKept DEF Sources, Installing
  <2>4. CASE Plus({"postinstall"})
    <3>1. Image = run.version /\ run.version \in Versions
      BY <2>2 DEF Typed, WhereOK, Unnamed
    <3>2. {"postinstall"} \in SUBSET Attributes
      BY DEF Attributes, Lists
    <3>3. \/ osimage[run.version] = None /\ osimage'[run.version] = None /\ ~ChdefCreates
          \/ /\ osimage'[run.version] # None
             /\ osimage[run.version] # None => osimage[run.version] \subseteq osimage'[run.version]
             /\ osimage[run.version] # None \/ ChdefCreates
      BY <2>4, <3>1, <3>2, PlusAttaches
    <3>4. ~run'.lost =>
            \/ osimage[run.version] = None /\ ~ChdefCreates
            \/ osimage[run.version] # None /\ ImageRepos \subseteq osimage[run.version]
      BY <2>2 DEF Providing, Sources, Installing, SameRun
    <3>5. ~run'.lost =>
            \/ osimage'[run.version] = None /\ ~ChdefCreates
            \/ osimage'[run.version] # None /\ ImageRepos \subseteq osimage'[run.version]
      BY <3>3, <3>4
    <3> QED BY <2>2, <3>5, SameRepos DEF Providing, Sources, Installing, SameRun
  <2> QED BY <2>1, <2>3, <2>4 DEF Scripted
<1>6. CASE Genimage /\ phase' = "packimage"
  <2>1. /\ phase = "genimage" /\ osimage[Image] # None /\ UNCHANGED <<osimage, run>>
        /\ Image = run.version
    BY <1>6 DEF Genimage, From, Typed, WhereOK, Unnamed
  <2>2. ImageRepos' = ImageRepos
    BY <2>1, SameRepos DEF SameRun, Typed, RunOK
  <2> QED BY <1>6, <2>1, <2>2 DEF Providing, Sources, Installing
<1>7. CASE Failures /\ phase' \in Sources \cup {"packimage"}
  <2>1. /\ phase' = "customize" /\ run'.lost /\ SameRun /\ UNCHANGED osimage
    BY <1>7, FailuresDo DEF Typed, RunOK, Dropped, Sources, Installing, imageVars
  <2> QED BY <2>1, ProvidingKept DEF Sources
<1> QED
  <2>1. \/ phase' \notin Sources \cup {"packimage"}
        \/ DefineRepos \/ CustomizeMunge \/ InstallScript \/ WriteScript \/ RunScript \/ Genimage
        \/ Failures
    BY DEF Next, Install, Start, Exit, Die, Construct, InstallPackages, PatchClient, PatchServer,
       PatchCerts, Setup, GetImageInstallArgs, ConfigureEL9, ImageExists, CopyCDs, CleanUp, Configure,
       ConfigureInfiniband, CreateHTTPRepo, TestHTTPd, RestartHTTPd, AddDoca, ConfigureSLURM,
       GenerateOtherPkgListFile, GeneratePostinstallFile, GenerateSynclistsFile, RemoveList, WriteList,
       DefineLists, Packimage, AddNodes, SetNodesImage, Nodeset, SetNodesBoot, ResetNodes,
       From, Sources, Installing
  <2>2. Genimage => phase' \in {"packimage", "failed"}
    BY DEF Genimage, From
  <2> QED BY <1>1, <1>2, <1>3, <1>4, <1>5, <1>6, <1>7, <2>1, <2>2 DEF Sources, Installing

\* The file getxCATOSImageRepos reads is one that the distribution's .conf fills,
\* but for the vault's.
LEMMA RepoFileOfDistro ==
  ASSUME ~run.vault
  PROVE  OSRepoFile \in DistroFiles
<1>0. \A entry \in DistroConf(distro) : entry.filename \in DistroFiles
  BY DEF DistroFiles
<1>1. CASE distro = "RHEL"
  <2> DEFINE entry == [group |-> "rhel-{releasever}-baseos", filename |-> "rhel.repo", keys |-> Signed]
  <2>1. entry \in DistroConf(distro)
    BY <1>1 DEF DistroConf, Entries
  <2>2. OSRepoFile = entry.filename
    BY <1>1 DEF OSRepoFile
  <2> QED BY <2>1, <2>2, <1>0
<1>2. CASE distro = "OL"
  <2> DEFINE entry == [group |-> "OLBaseOS", filename |-> "oracle.repo", keys |-> Both]
  <2>1. entry \in DistroConf(distro)
    BY <1>2 DEF DistroConf, Entries
  <2>2. OSRepoFile = entry.filename
    BY <1>2 DEF OSRepoFile
  <2> QED BY <2>1, <2>2, <1>0
<1>3. CASE distro = "Rocky"
  <2> DEFINE entry == [group |-> "baseos", filename |-> "rocky.repo", keys |-> Signed]
  <2>1. entry \in DistroConf(distro)
    BY <1>3 DEF DistroConf, Entries
  <2>2. OSRepoFile = entry.filename
    BY <1>3 DEF OSRepoFile
  <2> QED BY <2>1, <2>2, <1>0
<1>4. CASE distro = "AlmaLinux"
  <2> DEFINE entry == [group |-> "AlmaLinuxBaseOS", filename |-> "almalinux.repo", keys |-> Signed]
  <2>1. entry \in DistroConf(distro)
    BY <1>4 DEF DistroConf, Entries
  <2>2. OSRepoFile = entry.filename
    BY <1>4 DEF OSRepoFile
  <2> QED BY <2>1, <2>2, <1>0
<1> QED BY <1>1, <1>2, <1>3, <1>4, XcatAssumption DEF Distros

-----------------------------------------------------------------------------
(* What holds in every state                                                *)

\* The initial state satisfies the strengthened invariant,
LEMMA InductiveInit == Init => IInv
<1> SUFFICES ASSUME Init PROVE IInv
  OBVIOUS
<1>1. Gathering
  BY DEF Init, Gathering, Collected, Listed, Attached, Customized, Fabrics, Writing, Attaching, Cleaned,
         PackagesListed, SettingsListed, Installing
<1>2. Packing
  BY DEF Init, Packing, PackedHasAll, SkipRebuildsClean
<1>3. Resetting
  BY DEF Init, Resetting, Booting, NodesBootLatest
<1>4. Providing
  BY DEF Init, Providing, Sources, Installing
<1> QED BY <1>1, <1>2, <1>3, <1>4, TypedInit DEF IInv

\* each step preserves it,
LEMMA InductiveStep == IInv /\ [Next]_vars => IInv'
<1>1. IInv /\ Next => IInv'
  BY TypedNext, GatheringNext, PackingNext, ResettingNext, ProvidingNext DEF IInv
<1>2. IInv /\ UNCHANGED vars => IInv'
  <2> SUFFICES ASSUME IInv, UNCHANGED vars PROVE IInv'
    OBVIOUS
  <2>1. Typed'
    BY TypedKept DEF IInv
  <2>2. Gathering'
    <3>1. Collected'
      BY DEF IInv, vars, Gathering, Collected
    <3>2. Listed'
      BY DEF IInv, vars, imageVars, Gathering, Listed
    <3>3. Attached'
      BY DEF IInv, vars, imageVars, Gathering, Attached
    <3>4. Customized'
      BY DEF IInv, vars, imageVars, Gathering, Customized
    <3> QED BY <3>1, <3>2, <3>3, <3>4 DEF Gathering
  <2>3. Packing' /\ Resetting'
    BY DEF IInv, vars, imageVars, nodeVars, Packing, PackedHasAll, SkipRebuildsClean, Resetting,
           NodesBootLatest
  <2>4. Providing'
    BY DEF IInv, vars, imageVars, Providing, ImageRepos, OSRepoFile
  <2> QED BY <2>1, <2>2, <2>3, <2>4 DEF IInv
<1> QED BY <1>1, <1>2

\* and so every state satisfies it.
LEMMA Inductive == Spec => []IInv
BY InductiveInit, InductiveStep, PTL DEF Spec

\* A run that drops no failure packs no image without what its answerfile demands,
\* wherever earlier runs were cut short.
THEOREM PacksAll == Spec => []PackedHasAll
<1>1. IInv => PackedHasAll
  BY DEF IInv, Packing
<1> QED BY <1>1, Inductive, PTL

\* An image that is rebuilt with --skip copycds has nothing of an earlier answerfile.
THEOREM PacksClean == Spec => []SkipRebuildsClean
<1>1. IInv => SkipRebuildsClean
  BY DEF IInv, Packing
<1> QED BY <1>1, Inductive, PTL

\* When install() returns, every node xCAT knows was reset into the image packed last.
THEOREM BootsLatest == Spec => []NodesBootLatest
<1>1. IInv => NodesBootLatest
  BY DEF IInv, Resetting
<1> QED BY <1>1, Inductive, PTL

\* A run with --force genimage or --skip copycds that ends has packed the image.
THEOREM RefreshesForced == Spec => []ForcedRunRefreshes
<1>1. IInv => ForcedRunRefreshes
  BY DEF IInv, Resetting, Booting, ForcedRunRefreshes
<1> QED BY <1>1, Inductive, PTL

\* Without the vault, genimage never runs, in a run that drops no failure, with a
\* definition that has no repository of the distribution among its directories.
THEOREM ReposAttached == Spec => []OSReposAttached
<1>1. IInv => OSReposAttached
  <2> SUFFICES ASSUME IInv, phase = "packimage", ~run.lost, ~run.vault
               PROVE  osimage[Image] # None /\ osimage[Image] \cap DistroFiles # {}
    BY DEF OSReposAttached
  <2>1. Image = run.version
    BY DEF IInv, Typed, WhereOK, Unnamed
  <2>2. osimage[Image] # None /\ ImageRepos \subseteq osimage[Image]
    BY <2>1 DEF IInv, Providing
  <2>3. OSRepoFile \in DistroFiles /\ OSRepoFile \in ImageRepos
    BY RepoFileOfDistro DEF ImageRepos, RepoFiles
  <2> QED BY <2>2, <2>3
<1> QED BY <1>1, Inductive, PTL
=============================================================================
