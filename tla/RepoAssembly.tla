---------------------------- MODULE RepoAssembly -----------------------------
(***************************************************************************)
(* Repos with what a generated repository says of its packages: the side   *)
(* they are fetched from (the project's mirror or the upstream), the key   *)
(* that signs them and whether dnf is to check it.  The assembler of       *)
(* repos.cpp asks the network, once per question, and the network may      *)
(* answer the same question in two ways within one run.                    *)
(***************************************************************************)
EXTENDS Repos

CONSTANTS
  NoMirror,       \* ids whose .conf group has no mirror.repo
  NoMirrorKey,    \* ... no mirror.gpgkey
  NoUpstreamKey,  \* ... no upstream.gpgkey
  Flaky,          \* ids whose probes may fail; all others are answered with 200
  DisableChoices  \* values of --disable-mirrors a run may be given

ASSUME AssemblyAssumption ==
  /\ NoMirror \cup NoMirrorKey \cup NoUpstreamKey \cup Flaky \subseteq Ids
  /\ DisableChoices \subseteq BOOLEAN

VARIABLES
  settings,       \* on disk: file -> id -> what the group of the id says
  loaded,         \* the same, of the objects in memory
  assembled,      \* id -> what RepoAssembler made of it in this run
  disableMirrors, \* Options::disableMirrors of this run
  unanswered      \* bookkeeping: ids whose upstream key was once not found

assemblyVars == <<settings, loaded, assembled, disableMirrors, unanswered>>
allVars == <<vars, assemblyVars>>

NoSetting == [base |-> "none", key |-> "none", check |-> FALSE]
OfOthers == [base |-> "vendor", key |-> "vendor", check |-> TRUE]
Setting == [base : {"vendor", "mirror", "upstream", "none"},
            key : {"vendor", "mirror", "upstream", "none"}, check : BOOLEAN]

Blank == [i \in Ids |-> NoSetting]
Foreign(ids) == [i \in Ids |-> IF i \in ids THEN OfOthers ELSE NoSetting]

AssemblyInit ==
  /\ Init
  /\ settings = [f \in Files |-> IF On(f) THEN Foreign(disk[f].ids) ELSE Blank]
  /\ loaded = [f \in Files |-> Blank] /\ assembled = Blank
  /\ disableMirrors = FALSE /\ unanswered = {}

-----------------------------------------------------------------------------
(* RepoAssembler                                                            *)

\* What the network answers while one repository is assembled: is there a
\* repomd.xml on the mirror, and is the upstream's key there when asked for the
\* first and for the second time?  (UpstreamRepo::exists is only logged.)
Answers == [mirror : BOOLEAN, key : BOOLEAN, again : BOOLEAN]
AllThere == [mirror |-> TRUE, key |-> TRUE, again |-> TRUE]

\* Mutant: --disable-mirrors is forgotten.
UsesMirrorAnyway(i, a) == i \notin NoMirror /\ a.mirror

\* RepoChooser::choose and MirrorRepo::exists
UsesMirror(i, a) == ~disableMirrors /\ i \notin NoMirror /\ a.mirror

\* UpstreamRepo::gpgkey, which the assembler calls twice
UpstreamKey(i, answer) == i \notin NoUpstreamKey /\ answer

\* Mutant: the mirror's key is probed like the upstream's.
MirrorKeyProbed(i, a) == i \notin NoMirrorKey /\ a.again

\* MirrorRepo::gpgkey, which is not probed
MirrorKey(i, a) == i \notin NoMirrorKey

AssembledAs(i, a) ==
  IF UsesMirror(i, a)
  THEN [base |-> "mirror", key |-> IF MirrorKey(i, a) THEN "mirror" ELSE "none",
        check |-> MirrorKey(i, a)]
  ELSE [base |-> "upstream", key |-> IF UpstreamKey(i, a.key) THEN "upstream" ELSE "none",
        check |-> UpstreamKey(i, a.again)]

\* RepoConfAdapter::fromConfFile: every repository of the files to generate,
\* before the first of them is saved.
ToAssemble == UNION {Assembled(f).ids : f \in pending'}

AssembleAll ==
  \E answers \in [Flaky \cap ToAssemble -> Answers] :
    LET Answer(i) == IF i \in DOMAIN answers THEN answers[i] ELSE AllThere IN
    /\ assembled' = [i \in Ids |-> IF i \in ToAssemble THEN AssembledAs(i, Answer(i))
                                                      ELSE NoSetting]
    /\ unanswered' = unanswered \cup
         {i \in DOMAIN answers : /\ ~UsesMirror(i, answers[i])
                                 /\ ~(answers[i].key /\ answers[i].again)}

\* RPMRepositoryParser::unparse: KeyFile::setString of a key that is absent
\* leaves the one in the file.
Overlaid(old, new, ids) ==
  [i \in Ids |->
     IF i \notin ids THEN old[i]
     ELSE [new[i] EXCEPT !.key = IF @ = "none" THEN old[i].key ELSE @]]

-----------------------------------------------------------------------------
(* The steps of Repos                                                       *)

AStart ==
  /\ Start
  /\ disableMirrors' \in DisableChoices
  /\ UNCHANGED <<settings, loaded, assembled, unanswered>>

ARemoveFile(f) ==
  /\ RemoveFile(f)
  /\ settings' = [settings EXCEPT ![f] = Blank]
  /\ UNCHANGED <<loaded, assembled, disableMirrors, unanswered>>

AListExisting ==
  /\ ListExisting
  /\ AssembleAll
  /\ UNCHANGED <<settings, loaded, disableMirrors>>

AGenerateFile(f) ==
  /\ GenerateFile(f)
  /\ settings' = [settings EXCEPT ![f] = Overlaid(@, assembled, Assembled(f).ids)]
  /\ UNCHANGED <<loaded, assembled, disableMirrors, unanswered>>

\* Mutant: gpgcheck keeps its default, which is true, while a file is parsed.
ALoadFileUnchecked(f) ==
  /\ LoadFile(f)
  /\ loaded' = [loaded EXCEPT ![f] = [i \in Ids |-> [settings[f][i] EXCEPT !.check = TRUE]]]
  /\ UNCHANGED <<settings, assembled, disableMirrors, unanswered>>

ALoadFile(f) ==
  /\ LoadFile(f)
  /\ loaded' = IF Parses(f) THEN [loaded EXCEPT ![f] = settings[f]] ELSE loaded
  /\ UNCHANGED <<settings, assembled, disableMirrors, unanswered>>

\* A save writes every key of every repository in memory.
ASaveFile(f) ==
  /\ SaveFile(f)
  /\ settings' = [settings EXCEPT ![f] = Overlaid(@, loaded[f], mem[f].ids)]
  /\ UNCHANGED <<loaded, assembled, disableMirrors, unanswered>>

AEnableOne(s) ==
  /\ EnableOne(s)
  /\ settings' = [f \in Files |-> IF f = index[s.id]
                                  THEN Overlaid(settings[f], loaded[f], mem[f].ids)
                                  ELSE settings[f]]
  /\ UNCHANGED <<loaded, assembled, disableMirrors, unanswered>>

APackageDrops(f) ==
  /\ PackageDrops(f)
  /\ settings' = [settings EXCEPT ![f] = Foreign(Package[f])]
  /\ UNCHANGED <<loaded, assembled, disableMirrors, unanswered>>

ALost ==
  /\ Exit \/ Die
  /\ loaded' = [f \in Files |-> Blank] /\ assembled' = Blank /\ disableMirrors' = FALSE
  /\ UNCHANGED <<settings, unanswered>>

AInitialize ==
  \/ /\ \/ PurgeDone \/ CheckBackup \/ CopyDone \/ RemoveDone \/ GenerateDone
        \/ LoadDone \/ MarkNext \/ MarkDone \/ SaveDone
        \/ \E f \in Files : PurgeBackup(f) \/ CopyBegin(f) \/ CopyEnd(f)
     /\ UNCHANGED assemblyVars
  \/ AListExisting
  \/ \E f \in Files : ARemoveFile(f) \/ AGenerateFile(f) \/ ALoadFile(f) \/ ASaveFile(f)

AssemblyNext ==
  \/ AStart \/ ALost
  \/ AInitialize
  \/ \E c \in Calls : EnableMany(c) /\ UNCHANGED assemblyVars
  \/ \E s \in Singles : AEnableOne(s)
  \/ \E f \in DOMAIN Package : APackageDrops(f)

AssemblySpec == AssemblyInit /\ [][AssemblyNext]_allVars /\ WF_allVars(AInitialize)

-----------------------------------------------------------------------------
(* Properties                                                               *)

GeneratedGroups == {p \in Files \X Ids : /\ On(p[1]) /\ disk[p[1]].origin \in Generated
                                         /\ p[2] \in disk[p[1]].ids}

\* dnf leaves the signatures of a generated repository unchecked, or checks
\* them without a key, only where the .conf has no key for the side the
\* packages come from or where a probe for the upstream's key failed: neither a
\* save of another repository of the file nor a later run loses either of the
\* two (RepoAssembler::assemble, RPMRepositoryFile::save).
SignedUnlessUnanswered ==
  \A p \in GeneratedGroups :
    LET i == p[2]
        s == settings[p[1]][i]
    IN \/ s.base = "upstream" /\ i \in unanswered
       \/ IF i \in (IF s.base = "mirror" THEN NoMirrorKey ELSE NoUpstreamKey)
          THEN ~s.check /\ s.key = "none"
          ELSE s.check /\ s.key = s.base

\* --disable-mirrors together with --force backups leaves no generated file
\* that sends dnf to the mirror.  (Without --force backups the files that an
\* earlier run generated stay, with the mirror's addresses.)
DisabledMirrorsUnused ==
  phase = "ready" /\ forced /\ disableMirrors =>
    \A p \in GeneratedGroups : settings[p[1]][p[2]].base # "mirror"

\* Enabling repositories changes nothing else of them: once a file is there, no
\* later call writes another address, key or check into it until it is removed.
SettingsKept ==
  [][\A f \in Files, i \in Ids :
       On(f) /\ i \in disk[f].ids /\ disk'[f] # NoFile =>
         settings'[f][i] = settings[f][i]]_allVars
=============================================================================
