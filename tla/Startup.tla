------------------------------- MODULE Startup -------------------------------
(***************************************************************************)
(* From the command line to the execution engine: main (main.cpp),         *)
(* options::factory (services/options.cpp), the singletons                 *)
(* (patterns/singleton.h, services/init.cpp), what the constructor of the  *)
(* model finds out about the machine (models/os.cpp, services/timezone.cpp)*)
(* and the guided installation (presenter/), whose windows are module Newt.*)
(* An exception leaves main uncaught: the program ends.  The choices of    *)
(* the operator and what the machine has are nondeterministic.             *)
(***************************************************************************)
EXTENDS Newt, FiniteSets

CONSTANTS
  CommandLines,    \* sets of options: those given by the operator
  ConfigFiles,     \* what the file of --config gives: a set of options, None or Missing
  Builds,          \* "debug" has --test, "release" does not
  OsReleases,      \* what /etc/os-release says: [id, platform, version], or Missing
  Archs,           \* architectures of the machine
  ZoneNames,       \* names of the machine's time zones, split at the first slash
  TestCommands,    \* what is given to --test
  Missing,         \* a file that is not there
  None

Options == {"version", "help", "unknown", "dry", "cli", "unattended", "answerfile", "dump", "test"}

ASSUME StartupAssumption ==
  /\ \A line \in CommandLines : line \subseteq Options
  /\ \A conf \in ConfigFiles \ {None, Missing} : conf \subseteq Options \ {"help"}
  /\ Builds \subseteq {"debug", "release"}
  /\ IsFiniteSet(ZoneNames) /\ ZoneNames # {}
  /\ \A name \in ZoneNames : Len(name) \in {1, 2}

VARIABLES
  world,       \* command line, build, and whether root runs the program
  pc,          \* where main is; in the guided installation, what is asked for
  opts,        \* the options in force, the singleton Options
  singletons,  \* the singletons that were initialized
  runner,      \* "dry" or "real", the singleton IRunner
  os,          \* what the model knows of the operating system
  zones,       \* the time zones on offer: areas and locations
  answers,     \* what the operator has said in the guided installation
  filled,      \* fillData made the model of the answerfile
  consent,     \* the operator's Y
  done         \* what the program has begun to do

setup == <<opts, singletons, runner>>
cluster == <<os, zones, answers, filled>>
effects == <<consent, done>>
main == <<world, pc, setup, cluster, effects>>
vars == <<main, view>>

Singletons == {"Options", "MessageBus", "IRunner", "Cluster", "RepoManager", "IOSService"}

Questions == {"names", "boot-target", "area", "location", "timeservers"}

Init ==
  /\ world \in [argv : CommandLines, conf : ConfigFiles, build : Builds, root : BOOLEAN]
  /\ pc = "options" /\ opts = {} /\ singletons = {} /\ runner = None
  /\ os = None /\ zones = {} /\ answers = [question \in Questions |-> <<>>] /\ filled = FALSE
  /\ consent = FALSE /\ done = {}
  /\ windows = <<>> /\ returned = <<>> /\ exit = "none"

\* main is there, and no window is in front of it.
At(label) == pc = label /\ exit = "none" /\ windows = <<>>

GoTo(label) == pc' = label /\ UNCHANGED <<world, view>>

Stop(how) == End(how) /\ UNCHANGED main

Throw == Stop("exception")

Has(option) == option \in opts

-----------------------------------------------------------------------------
(* options::factory and the singletons that depend on the options only      *)

Config == IF world.conf \in {None, Missing} THEN {} ELSE world.conf

\* A debug build alone knows --test.  A parse that ends at --help has not
\* come to the unknown option yet; the file of --config is parsed after it.
ParsingError ==
  LET Fails(given) == "unknown" \in given \/ ("test" \in given /\ world.build = "release")
  IN Fails(Config) \/ (Fails(world.argv) /\ "help" \notin world.argv)

Factory ==
  /\ At("options")
  /\ \/ world.conf = Missing /\ Throw
     \/ /\ world.conf # Missing
        /\ opts' = world.argv \cup Config
        /\ GoTo("singletons")
        /\ UNCHANGED <<singletons, runner, cluster, effects>>

\* Mutant: the dry run gets the runner that executes.
InitializeSingletonsRunning ==
  /\ At("singletons")
  /\ \/ Throw
     \/ /\ singletons' = {"Options", "MessageBus", "IRunner"}
        /\ runner' = "real"
        /\ GoTo("checks")
        /\ UNCHANGED <<opts, cluster, effects>>

\* Before any option is looked at: without a system bus DBusClient throws.
InitializeSingletonsOptions ==
  /\ At("singletons")
  /\ \/ Throw
     \/ /\ singletons' = {"Options", "MessageBus", "IRunner"}
        /\ runner' = IF Has("dry") THEN "dry" ELSE "real"
        /\ GoTo("checks")
        /\ UNCHANGED <<opts, cluster, effects>>

-----------------------------------------------------------------------------
(* main, up to the model                                                    *)

Rejected == ParsingError \/ Has("version") \/ Has("help") \/ (~Has("test") /\ ~world.root)

Reject ==
  /\ At("checks") /\ Rejected
  /\ IF ParsingError THEN Stop("failure")
     ELSE IF Has("version") \/ Has("help") THEN Stop("success")
     ELSE Throw                                       \* checkEffectiveUserId

\* Mutant: --test does not imply --unattended.
AcceptAttended ==
  /\ At("checks") /\ ~Rejected
  /\ GoTo("prompt")
  /\ UNCHANGED <<setup, cluster, effects>>

Accept ==
  /\ At("checks") /\ ~Rejected
  /\ opts' = IF Has("test") THEN opts \cup {"unattended"} ELSE opts
  /\ GoTo("prompt")
  /\ UNCHANGED <<singletons, runner, cluster, effects>>

Asks == ~Has("dry") /\ ~Has("unattended")

NoPrompt ==
  /\ At("prompt") /\ ~Asks
  /\ GoTo("cli")
  /\ UNCHANGED <<setup, cluster, effects>>

Yes ==
  /\ At("prompt") /\ Asks
  /\ consent' = TRUE
  /\ GoTo("cli")
  /\ UNCHANGED <<setup, cluster, done>>

\* Mutant: at the end of the input the installation goes on.
NoGoesOn ==
  /\ At("prompt") /\ Asks
  /\ \/ Stop("success")
     \/ GoTo("cli") /\ UNCHANGED <<setup, cluster, effects>>

\* N, and the end of the input, which leaves the response at 'N'.
No == At("prompt") /\ Asks /\ Stop("success")

\* Any other letter: the question is asked again.
AskAgain == At("prompt") /\ Asks /\ UNCHANGED vars

CLI ==
  /\ At("cli")
  /\ \/ Has("cli") /\ Stop("failure")
     \/ ~Has("cli") /\ GoTo("model") /\ UNCHANGED <<setup, cluster, effects>>

-----------------------------------------------------------------------------
(* The model's constructor: OS::OS, and Timezone::fetchAvailableTimezones   *)

Distros == {"rhel", "ol", "rocky", "almalinux"}
Platforms == {"el8", "el9", "el10"}

\* setVersion takes M.N, from release 8 on.
IsVersion(version) == Len(version) = 2 /\ version[1] >= 8

\* Each line of the file that is there is checked; none has to be there.
Supported(release) ==
  /\ release # Missing
  /\ release.id \in Distros \cup {None}
  /\ release.platform \in Platforms \cup {None}
  /\ release.version = None \/ IsVersion(release.version)

Given(line, value) == IF line = None THEN None ELSE value

\* During tests the lines count, but not what they say.
Discovered(release) ==
  IF Has("test") THEN [id |-> Given(release.id, "rocky"),
                       platform |-> Given(release.platform, "el9"),
                       version |-> Given(release.version, <<9, 5>>)]
  ELSE release

\* "UTC" has no slash: it is taken for the area and for the location, so that
\* choosing it makes "UTC/UTC".
Split(name) == <<name[1], name[Len(name)]>>

\* Mutant: the dry run is the one that asks the machine.
FetchedZonesInverted == IF Has("dry") THEN {Split(name) : name \in ZoneNames} ELSE {}

FetchedZones == IF Has("dry") THEN {} ELSE {Split(name) : name \in ZoneNames}

\* A debug build prints the model, which needs a distribution.
MakeModel ==
  /\ At("model")
  /\ \E arch \in Archs, release \in OsReleases :
       IF \/ arch # "x86_64" \/ release = Missing
          \/ ~Has("test") /\ ~Supported(release)
       THEN Throw
       ELSE /\ os' = Discovered(release)
            /\ zones' = FetchedZones
            /\ GoTo("answerfile")
            /\ UNCHANGED <<setup, answers, filled, effects>>

\* timedatectl fails.
NoZones == At("model") /\ ~Has("dry") /\ Throw

FillData ==
  /\ At("answerfile")
  /\ \/ Has("answerfile") /\ Throw
     \/ /\ filled' = Has("answerfile")
        /\ GoTo("print")
        /\ UNCHANGED <<setup, os, zones, answers, effects>>

PrintData ==
  /\ At("print")
  /\ \/ world.build = "debug" /\ os.id = None /\ Throw
     \/ /\ world.build = "release" \/ os.id # None
        /\ GoTo(IF Has("answerfile") \/ Has("test") THEN "dump" ELSE "welcome")
        /\ UNCHANGED <<setup, cluster, effects>>

-----------------------------------------------------------------------------
(* The guided installation: PresenterInstall calls one presenter after the  *)
(* other.  Each action takes what the last window has returned and opens    *)
(* the next one.                                                            *)

BootTargets == <<"Text", "Graphical">>

\* pc becomes the question that the window asks.
Ask(label, window) ==
  /\ pc' = label
  /\ Open(window)
  /\ UNCHANGED <<world, setup, os, zones, filled, effects>>

Answer(question) == answers' = [answers EXCEPT ![question] = returned]

PresentWelcome == At("welcome") /\ Ask("instructions", Message) /\ UNCHANGED answers

PresentInstructions == At("instructions") /\ Ask("general", Message) /\ UNCHANGED answers

PresentGeneralSettings ==
  /\ At("general")
  /\ Ask("names", Fields(3))
  /\ UNCHANGED answers

PresentBootTarget ==
  /\ At("names")
  /\ Answer("names")
  /\ Ask("boot-target", List(BootTargets))

PresentAreas ==
  /\ At("boot-target")
  /\ Answer("boot-target")
  /\ Ask("area", List(SetToSeq({zone[1] : zone \in zones})))

\* equal_range of the area that was chosen
PresentLocations ==
  /\ At("area")
  /\ Answer("area")
  /\ Ask("location", List(SetToSeq({zone[2] : zone \in {z \in zones : z[1] = returned[1]}})))

PresentTimeservers ==
  /\ At("location")
  /\ Answer("location")
  /\ Ask("timeservers", Collect(<<"0.br.pool.ntp.org">>))

\* What PresenterLocale asks for is made by initializeSingletonsModel, which
\* main calls when the guided installation is over: Singleton<IOSService>::get
\* throws, and no presenter after this one is ever called.
PresentLocale ==
  /\ At("timeservers")
  /\ "IOSService" \notin singletons
  /\ Answer("timeservers")
  /\ pc' = "locale"
  /\ End("exception")
  /\ UNCHANGED <<world, setup, os, zones, filled, effects>>

Presenters ==
  \/ PresentWelcome \/ PresentInstructions \/ PresentGeneralSettings \/ PresentBootTarget
  \/ PresentAreas \/ PresentLocations \/ PresentTimeservers \/ PresentLocale

-----------------------------------------------------------------------------
(* main, from the model to the engine                                       *)

\* dumpData reads the file that it is about to write, in a dry run as well: a
\* new path, or a file that is no answerfile, makes it throw.
Dump ==
  /\ At("dump")
  /\ \/ Has("dump") /\ Throw
     \/ /\ done' = IF Has("dump") THEN done \cup {"dump"} ELSE done
        /\ GoTo("init")
        /\ UNCHANGED <<setup, cluster, consent>>

\* IOSService::factory asks for the distribution.
InitializeSingletonsModel ==
  /\ At("init")
  /\ \/ os.id = None /\ Throw
     \/ /\ os.id # None
        /\ singletons' = singletons \cup {"Cluster", "RepoManager", "IOSService"}
        /\ GoTo(IF Has("test") THEN "test" ELSE "engine")
        /\ UNCHANGED <<opts, runner, cluster, effects>>

NeedsArgument == {"execute-command", "create-http-repo", "parse-key-file"}

Known == NeedsArgument
  \cup {"initialize-repos", "install-mellanox-ofed", "image-install-mellanox-ofed",
        "dump-headnode-os", "dump-xcat-osimage"}

\* The first argument is read, or asserted to be there, before anything else.
RunTestCommand ==
  /\ At("test")
  /\ \E command \in TestCommands, arguments \in BOOLEAN :
       IF command \notin Known THEN Stop("failure")
       ELSE IF command \in NeedsArgument /\ ~arguments THEN Stop("crash")
       ELSE /\ done' = done \cup {"test"}
            /\ End("success") \/ End("exception")
            /\ UNCHANGED <<world, pc, setup, cluster, consent>>

\* Shell::install: module Headnode.  A step given to --stop-after ends the
\* program with success as well.
Install ==
  /\ At("engine")
  /\ done' = done \cup {"engine"}
  /\ End("success") \/ End("exception")
  /\ UNCHANGED <<world, pc, setup, cluster, consent>>

Work ==
  \/ Factory \/ InitializeSingletonsOptions \/ Reject \/ Accept \/ NoPrompt \/ CLI
  \/ MakeModel \/ NoZones \/ FillData \/ PrintData \/ Presenters \/ Dump
  \/ InitializeSingletonsModel \/ RunTestCommand \/ Install

Operator == Yes \/ No \/ AskAgain \/ (Press /\ UNCHANGED main)

Next == Work \/ Operator

\* The program runs on; nothing makes the operator answer.
Spec == Init /\ [][Next]_vars /\ WF_vars(Work)

-----------------------------------------------------------------------------
(* Properties                                                               *)

TypeOK ==
  /\ pc \in {"options", "singletons", "checks", "prompt", "cli", "model", "answerfile", "print",
             "welcome", "instructions", "general", "names", "boot-target", "area", "location",
             "timeservers", "locale", "dump", "init", "test", "engine"}
  /\ opts \subseteq Options /\ singletons \subseteq Singletons
  /\ runner \in {None, "dry", "real"}
  /\ filled \in BOOLEAN /\ consent \in BOOLEAN /\ done \subseteq {"dump", "test", "engine"}
  /\ exit \in {"none", "success", "failure", "exception", "crash"}

\* Nothing is done to the machine without the operator's Y, unless the options
\* say that nobody is asked, and only a test is run by another user than root:
\* the prompt and the checks of main come before all that.
ConsentFirst ==
  done # {} => /\ consent \/ Has("unattended") \/ Has("dry")
               /\ world.root \/ Has("test")

\* The engine and the tests find every singleton that they read, the runner
\* that the options ask for, a distribution, and the model of an answerfile.
EngineFindsAll ==
  done \cap {"engine", "test"} # {} =>
    /\ singletons = Singletons
    /\ runner = IF Has("dry") THEN "dry" ELSE "real"
    /\ os.id \in Distros
    /\ "engine" \in done => filled

\* The program reads past the end of a vector only in a list that has no entry:
\* the areas in a dry run, the time servers when the last one was removed, and
\* the arguments of a test that has none.
CrashesOnEmptyLists ==
  exit = "crash" => (pc = "area" /\ Has("dry")) \/ pc \in {"timeservers", "test"}

\* A run that was told not to ask, and has its model from a file or needs none,
\* ends without an operator.
EndsUnattended ==
  (Has("test") \/ (Has("answerfile") /\ (Has("unattended") \/ Has("dry")))) ~> exit # "none"

\* "The user initialize a class C with Singleton<C>::init(value), and then get
\* the instance": no presenter comes before the singleton that it reads.
LocaleAfterService == pc = "locale" => "IOSService" \in singletons

=============================================================================
