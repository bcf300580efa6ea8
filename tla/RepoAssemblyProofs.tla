------------------------- MODULE RepoAssemblyProofs --------------------------
(***************************************************************************)
(* What the groups of the generated files say, for every set of files and  *)
(* ids, every .conf, and every answer of the network.                      *)
(***************************************************************************)
EXTENDS RepoAssembly, RepoStoreProofs

-----------------------------------------------------------------------------
(* RepoAssembly is Repos with more said of each file                        *)

\* A step of AssemblyNext is a step of Repos, or leaves its variables alone.
LEMMA AssemblyStep == [AssemblyNext]_allVars => [Next]_vars
<1> SUFFICES ASSUME [AssemblyNext]_allVars PROVE [Next]_vars
  OBVIOUS
<1>1. CASE AStart \/ ALost
  BY <1>1 DEF AStart, ALost, Next
<1>2. CASE AInitialize
  BY <1>2 DEF AInitialize, AListExisting, ARemoveFile, AGenerateFile, ALoadFile, ASaveFile,
              Initialize, Next
<1>3. CASE \E c \in Calls : EnableMany(c) /\ UNCHANGED assemblyVars
  BY <1>3 DEF Next
<1>4. CASE \E s \in Singles : AEnableOne(s)
  BY <1>4 DEF AEnableOne, Next
<1>5. CASE \E f \in DOMAIN Package : APackageDrops(f)
  BY <1>5 DEF APackageDrops, Next
<1>6. CASE UNCHANGED allVars
  BY <1>6 DEF allVars
<1> QED BY <1>1, <1>2, <1>3, <1>4, <1>5, <1>6 DEF AssemblyNext

\* Every behaviour with the network's answers is one of Repos: what is proved of
\* Repos holds in RepoAssembly.
THEOREM AssemblyIsRepos == AssemblySpec => Spec
BY AssemblyStep, PTL DEF AssemblySpec, AssemblyInit, Spec

\* What Repos keeps.
ReposInv == TypeOK /\ PendingInv /\ AgreeInv /\ ForceInv

LEMMA ReposKept == AssemblySpec => []ReposInv
<1>1. TypeOK /\ PendingInv /\ AgreeInv /\ ForceInv => ReposInv
  BY DEF ReposInv
<1> QED BY <1>1, AssemblyIsRepos, Agreement, Forced, PTL

\* Where names agree, configuring the repositories does not abort either when
\* the network answers as it likes (RPMRepoManager::enable).
THEOREM AssemblyConfigures ==
  ASSUME NamesAgree
  PROVE  AssemblySpec => []ConfigurationSucceeds
BY AssemblyIsRepos, Configures, PTL

-----------------------------------------------------------------------------
(* Types, and what is in memory                                             *)

AssemblyTypes ==
  /\ settings \in [Files -> [Ids -> Setting]]
  /\ loaded \in [Files -> [Ids -> Setting]]
  /\ assembled \in [Ids -> Setting]
  /\ disableMirrors \in BOOLEAN
  /\ unanswered \subseteq Ids

\* A file that is not there says nothing, a file to be generated is not there,
\* and an object says what its file says.
GroupsInv ==
  /\ \A f \in Files : ~On(f) => settings[f] = Blank
  /\ phase = "generate" => \A f \in pending : ~On(f)
  /\ phase \in Active => \A f \in Files : mem[f] # NoFile => loaded[f] = settings[f]

\* What nobody has written, and what others have.
LEMMA GivenSettings ==
  /\ NoSetting \in Setting /\ OfOthers \in Setting
  /\ Blank \in [Ids -> Setting] /\ \A ids : Foreign(ids) \in [Ids -> Setting]
BY DEF NoSetting, OfOthers, Setting, Blank, Foreign

\* Whatever the network answers, a repository is assembled.
LEMMA AssembledSetting ==
  ASSUME NEW i, NEW a \in Answers
  PROVE  AssembledAs(i, a) \in Setting
BY DEF AssembledAs, Answers, Setting, UpstreamKey, MirrorKey

\* Saving what was read from the file, over that file, changes nothing.
LEMMA OverlaidSame ==
  ASSUME NEW old \in [Ids -> Setting], NEW ids
  PROVE  Overlaid(old, old, ids) = old
<1>1. ASSUME NEW i \in Ids
      PROVE  [old[i] EXCEPT !.key = IF @ = "none" THEN old[i].key ELSE @] = old[i]
  BY DEF Setting
<1> QED BY <1>1 DEF Overlaid

\* Saving over a group that says nothing writes all that was assembled.
LEMMA OverlaidBlank ==
  ASSUME NEW new \in [Ids -> Setting], NEW ids
  PROVE  /\ Overlaid(Blank, new, ids) \in [Ids -> Setting]
         /\ \A i \in ids \cap Ids : Overlaid(Blank, new, ids)[i] = new[i]
<1>1. ASSUME NEW i \in Ids
      PROVE  [new[i] EXCEPT !.key = IF @ = "none" THEN Blank[i].key ELSE @] = new[i]
  BY DEF Setting, Blank, NoSetting
<1> QED BY <1>1, GivenSettings DEF Overlaid
-----------------------------------------------------------------------------
(* What a step does to a file and what it says                              *)

\* Nothing but switches changes in the file.
Left(f) ==
  /\ On(f)' <=> On(f)
  /\ On(f) => disk'[f].origin = disk[f].origin /\ disk'[f].ids = disk[f].ids
  /\ settings'[f] = settings[f]

Removed(f) == disk'[f] = NoFile /\ settings'[f] = Blank

Made(f) ==
  /\ phase = "generate" /\ f \in pending /\ ~On(f)
  /\ disk'[f] = Assembled(f)
  /\ settings'[f] \in [Ids -> Setting]
  /\ \A i \in Assembled(f).ids : settings'[f][i] = assembled[i]

Dropped(f) ==
  /\ phase \in {"off", "ready"} /\ ~On(f)
  /\ On(f)' /\ disk'[f].origin = "package"
  /\ settings'[f] \in [Ids -> Setting]

Fate == \A f \in Files : Left(f) \/ Removed(f) \/ Made(f) \/ Dropped(f)

\* A step that touches neither the files nor what they say.
LEMMA FateOfNone ==
  ASSUME UNCHANGED <<disk, settings>>
  PROVE  Fate
BY DEF Fate, Left, On

\* A step that touches one file leaves the others.
LEMMA FateOfOne ==
  ASSUME NEW f \in Files, Left(f) \/ Removed(f) \/ Made(f) \/ Dropped(f),
         \A g \in Files : g # f => disk'[g] = disk[g] /\ settings'[g] = settings[g]
  PROVE  Fate
BY DEF Fate, Left, On

\* A save of an object with other switches leaves what the file says.
LEMMA FateOfSave ==
  ASSUME ReposInv, AssemblyTypes, GroupsInv, phase \in Active,
         NEW f \in Files, mem[f] # NoFile, NEW new \in Content, new.ids = mem[f].ids,
         disk' = [disk EXCEPT ![f] = Merged(disk[f], new)],
         settings'[f] = Overlaid(settings[f], loaded[f], mem[f].ids)
  PROVE  Left(f)
<1>1. disk[f] \in Content /\ disk[f] # NoFile /\ disk[f].ids = new.ids
  BY DEF ReposInv, TypeOK, AgreeInv
<1>2. disk'[f] = Merged(disk[f], new)
  BY DEF ReposInv, TypeOK
<1>3. disk'[f] # NoFile /\ disk'[f].origin = disk[f].origin /\ disk'[f].ids = disk[f].ids
  BY <1>1, <1>2, MergedFacts, MergedAgrees
<1>4. settings'[f] = settings[f]
  BY OverlaidSame DEF GroupsInv, AssemblyTypes
<1> QED BY <1>1, <1>3, <1>4 DEF Left, On

\* So each step leaves a file alone but for its switches, removes it, generates
\* it where there was none, or is a package that brings it where there was none.
LEMMA StepFate ==
  ASSUME ReposInv, AssemblyTypes, GroupsInv, [AssemblyNext]_allVars
  PROVE  Fate
<1> USE DEF diskVars, progVars, histVars, assemblyVars
<1>0. disk \in [Files -> Content \cup {NoFile}] /\ mem \in [Files -> Content \cup {NoFile}]
      /\ DOMAIN settings = Files
  BY DEF ReposInv, TypeOK, AssemblyTypes
<1>1. CASE AStart \/ ALost
  BY <1>1, FateOfNone DEF AStart, Start, ALost, Exit, Die, MemoryLost
<1>2. CASE AInitialize
  <2>1. CASE /\ \/ PurgeDone \/ CheckBackup \/ CopyDone \/ RemoveDone \/ GenerateDone
                \/ LoadDone \/ MarkNext \/ MarkDone \/ SaveDone
                \/ \E f \in Files : PurgeBackup(f) \/ CopyBegin(f) \/ CopyEnd(f)
             /\ UNCHANGED assemblyVars
    <3>1. UNCHANGED disk
      BY <2>1 DEF PurgeDone, CheckBackup, CopyDone, RemoveDone, GenerateDone, LoadDone, MarkNext,
                  MarkDone, SaveDone, PurgeBackup, CopyBegin, CopyEnd
    <3> QED BY <2>1, <3>1, FateOfNone
  <2>2. CASE AListExisting
    BY <2>2, FateOfNone DEF AListExisting, ListExisting
  <2>3. ASSUME NEW f \in Files, ARemoveFile(f) PROVE Fate
    <3>1. disk' = [disk EXCEPT ![f] = NoFile] /\ settings' = [settings EXCEPT ![f] = Blank]
      BY <2>3 DEF ARemoveFile, RemoveFile
    <3>2. Removed(f)
      BY <1>0, <3>1 DEF Removed
    <3> QED BY <1>0, <3>1, <3>2, FateOfOne
  <2>4. ASSUME NEW f \in Files, AGenerateFile(f) PROVE Fate
    <3>1. /\ phase = "generate" /\ f \in pending
          /\ disk' = [disk EXCEPT ![f] = Merged(disk[f], Assembled(f))]
          /\ settings' = [settings EXCEPT ![f] = Overlaid(settings[f], assembled, Assembled(f).ids)]
      BY <2>4, <1>0 DEF AGenerateFile, GenerateFile
    <3>2. Assembled(f) \in Content
      BY <3>1, AssembledFacts DEF ReposInv, PendingInv
    <3>3. ~On(f) /\ settings[f] = Blank
      BY <3>1 DEF GroupsInv
    <3>4. disk'[f] = Assembled(f)
      BY <1>0, <3>1, <3>3 DEF On, Merged
    <3>5. settings'[f] = Overlaid(Blank, assembled, Assembled(f).ids)
      BY <1>0, <3>1, <3>3
    <3>6. Assembled(f).ids \subseteq Ids
      BY <3>2 DEF Content
    <3>7. Made(f)
      BY <3>1, <3>3, <3>4, <3>5, <3>6, OverlaidBlank DEF AssemblyTypes, Made
    <3> QED BY <1>0, <3>1, <3>7, FateOfOne
  <2>5. ASSUME NEW f \in Files, ALoadFile(f) PROVE Fate
    BY <2>5, FateOfNone DEF ALoadFile, LoadFile
  <2>6. ASSUME NEW f \in Files, ASaveFile(f) PROVE Fate
    <3>1. /\ phase = "save" /\ mem[f] # NoFile
          /\ disk' = [disk EXCEPT ![f] = Merged(disk[f], mem[f])]
          /\ settings' = [settings EXCEPT ![f] = Overlaid(settings[f], loaded[f], mem[f].ids)]
      BY <2>6, <1>0 DEF ASaveFile, SaveFile, ReposInv, PendingInv
    <3>2. Left(f)
      BY <1>0, <3>1, FateOfSave DEF Active
    <3> QED BY <1>0, <3>1, <3>2, FateOfOne
  <2> QED BY <1>2, <2>1, <2>2, <2>3, <2>4, <2>5, <2>6 DEF AInitialize
<1>3. ASSUME NEW c \in Calls, EnableMany(c) /\ UNCHANGED assemblyVars PROVE Fate
  BY <1>3, FateOfNone DEF EnableMany
<1>4. ASSUME NEW s \in Singles, AEnableOne(s) PROVE Fate
  <2> DEFINE f == index[s.id]
  <2>0. phase = "ready" /\ s.id \in Ids /\ s.value \in BOOLEAN
    BY <1>4, CallsAssumption DEF AEnableOne, EnableOne
  <2>1. settings' = [g \in Files |-> IF g = f THEN Overlaid(settings[g], loaded[g], mem[g].ids)
                                              ELSE settings[g]]
    BY <1>4 DEF AEnableOne
  <2>2. CASE f = NoFile
    <3>1. UNCHANGED disk
      BY <1>4, <2>2 DEF AEnableOne, EnableOne
    <3>2. \A g \in Files : settings'[g] = settings[g]
      BY <2>1, <2>2, NoFileAssumption
    <3> QED BY <3>1, <3>2 DEF Fate, Left, On
  <2>3. CASE f # NoFile
    <3> DEFINE new == Switched(mem[f], s.id, s.value)
    <3>1. f \in Files /\ mem[f] # NoFile /\ mem[f] \in Content
      BY <2>0, <2>3, <1>0 DEF ReposInv, TypeOK, PendingInv
    <3>2. new \in Content /\ new.ids = mem[f].ids
      BY <2>0, <3>1, SwitchedFacts, SwitchedOnly
    <3>3. disk' = [disk EXCEPT ![f] = Merged(disk[f], new)]
      BY <1>4, <2>3 DEF AEnableOne, EnableOne
    <3>4. settings'[f] = Overlaid(settings[f], loaded[f], mem[f].ids)
      BY <2>1, <3>1
    <3>5. \A g \in Files : g # f => disk'[g] = disk[g] /\ settings'[g] = settings[g]
      BY <1>0, <2>1, <3>3
    <3> HIDE DEF f, new
    <3>6. Left(f)
      BY <2>0, <3>1, <3>2, <3>3, <3>4, FateOfSave DEF Active
    <3> QED BY <3>1, <3>5, <3>6, FateOfOne
  <2> QED BY <2>2, <2>3
<1>5. ASSUME NEW p \in DOMAIN Package, APackageDrops(p) PROVE Fate
  <2> DEFINE new == [origin |-> "package", ids |-> Package[p], on |-> Package[p]]
  <2>1. /\ p \in Files /\ phase \in {"off", "ready"} /\ disk[p] = NoFile
        /\ disk' = [disk EXCEPT ![p] = new]
        /\ settings' = [settings EXCEPT ![p] = Foreign(Package[p])]
    BY <1>5, FilesAssumption DEF APackageDrops, PackageDrops
  <2>2. new \in Content
    BY <2>1, FilesAssumption DEF Content, Origins
  <2>3. disk'[p] # NoFile /\ disk'[p].origin = "package"
    BY <1>0, <2>1, <2>2, NoFileAssumption
  <2>4. settings'[p] \in [Ids -> Setting]
    BY <1>0, <2>1, GivenSettings
  <2>5. Dropped(p)
    BY <2>1, <2>3, <2>4 DEF Dropped, On
  <2> QED BY <1>0, <2>1, <2>5, FateOfOne
<1>6. CASE UNCHANGED allVars
  BY <1>6, FateOfNone DEF allVars, vars
<1> QED BY <1>1, <1>2, <1>3, <1>4, <1>5, <1>6 DEF AssemblyNext
\* What is in memory keeps its type, and what is on disk is said of each file.
LEMMA MemoryTypes ==
  ASSUME AssemblyTypes, \A f \in Files : settings'[f] \in [Ids -> Setting], [AssemblyNext]_allVars
  PROVE  /\ settings' \in [Files -> [Ids -> Setting]]
         /\ loaded' \in [Files -> [Ids -> Setting]]
         /\ assembled' \in [Ids -> Setting]
         /\ disableMirrors' \in BOOLEAN /\ unanswered' \subseteq Ids
<1> USE DEF assemblyVars
<1>0. /\ settings' = [f \in Files |-> settings'[f]] => settings' \in [Files -> [Ids -> Setting]]
      /\ settings \in [Files -> [Ids -> Setting]]
      /\ loaded \in [Files -> [Ids -> Setting]]
      /\ assembled \in [Ids -> Setting]
      /\ disableMirrors \in BOOLEAN /\ unanswered \subseteq Ids
  BY DEF AssemblyTypes
<1>1. CASE AStart
  BY <1>0, <1>1, AssemblyAssumption DEF AStart
<1>2. CASE ALost
  BY <1>0, <1>2, GivenSettings DEF ALost
<1>3. CASE UNCHANGED assemblyVars
  BY <1>0, <1>3
<1>4. CASE AListExisting
  <2>1. PICK answers \in [Flaky \cap ToAssemble -> Answers] :
          LET Answer(i) == IF i \in DOMAIN answers THEN answers[i] ELSE AllThere IN
          /\ assembled' = [i \in Ids |-> IF i \in ToAssemble THEN AssembledAs(i, Answer(i))
                                                             ELSE NoSetting]
          /\ unanswered' = unanswered \cup
               {i \in DOMAIN answers : /\ ~UsesMirror(i, answers[i])
                                       /\ ~(answers[i].key /\ answers[i].again)}
    BY <1>4 DEF AListExisting, AssembleAll
  <2>2. \A i : (IF i \in DOMAIN answers THEN answers[i] ELSE AllThere) \in Answers
    BY DEF AllThere, Answers
  <2>3. \A i : AssembledAs(i, IF i \in DOMAIN answers THEN answers[i] ELSE AllThere) \in Setting
    BY <2>2, AssembledSetting
  <2>4. assembled' \in [Ids -> Setting]
    BY <2>1, <2>3, GivenSettings
  <2>5. unanswered' \subseteq Ids
    BY <1>0, <2>1, AssemblyAssumption
  <2> QED BY <1>0, <1>4, <2>4, <2>5 DEF AListExisting
<1>5. ASSUME NEW f \in Files, ARemoveFile(f) \/ AGenerateFile(f) \/ ASaveFile(f)
      PROVE  /\ settings' = [g \in Files |-> settings'[g]]
             /\ UNCHANGED <<loaded, assembled, disableMirrors, unanswered>>
  BY <1>0, <1>5 DEF ARemoveFile, AGenerateFile, ASaveFile
<1>6. ASSUME NEW f \in Files, ALoadFile(f)
      PROVE  /\ UNCHANGED <<settings, assembled, disableMirrors, unanswered>>
             /\ loaded' \in [Files -> [Ids -> Setting]]
  BY <1>0, <1>6 DEF ALoadFile
<1>7. ASSUME NEW s \in Singles, AEnableOne(s)
      PROVE  /\ settings' = [g \in Files |-> settings'[g]]
             /\ UNCHANGED <<loaded, assembled, disableMirrors, unanswered>>
  BY <1>7 DEF AEnableOne
<1>8. ASSUME NEW p \in DOMAIN Package, APackageDrops(p)
      PROVE  /\ settings' = [g \in Files |-> settings'[g]]
             /\ UNCHANGED <<loaded, assembled, disableMirrors, unanswered>>
  BY <1>0, <1>8 DEF APackageDrops
<1> QED
  BY <1>0, <1>1, <1>2, <1>3, <1>4, <1>5, <1>6, <1>7, <1>8 DEF AssemblyNext, AInitialize, allVars

\* How a step comes to, or stays in, the loop that generates files.
LEMMA Generating ==
  ASSUME [AssemblyNext]_allVars, phase' = "generate"
  PROVE  \/ AListExisting
         \/ \E g \in Files : AGenerateFile(g)
         \/ phase = "generate" /\ UNCHANGED <<disk, pending, allVars>>
<1> USE DEF assemblyVars, diskVars, progVars, histVars
<1>1. CASE AStart \/ ALost
  BY <1>1 DEF AStart, Start, ALost, Exit, Die, MemoryLost
<1>2. CASE /\ \/ PurgeDone \/ CheckBackup \/ CopyDone \/ RemoveDone \/ GenerateDone
              \/ LoadDone \/ MarkNext \/ MarkDone \/ SaveDone
              \/ \E f \in Files : PurgeBackup(f) \/ CopyBegin(f) \/ CopyEnd(f)
  BY <1>2 DEF PurgeDone, CheckBackup, CopyDone, RemoveDone, GenerateDone, LoadDone, MarkNext,
              MarkDone, SaveDone, PurgeBackup, CopyBegin, CopyEnd
<1>3. ASSUME NEW f \in Files, ARemoveFile(f) \/ ALoadFile(f) \/ ASaveFile(f)
      PROVE  FALSE
  BY <1>3 DEF ARemoveFile, ALoadFile, ASaveFile, RemoveFile, LoadFile, SaveFile
<1>4. ASSUME NEW c \in Calls, EnableMany(c) PROVE FALSE
  BY <1>4 DEF EnableMany
<1>5. ASSUME NEW s \in Singles, AEnableOne(s) PROVE FALSE
  BY <1>5 DEF AEnableOne, EnableOne
<1>6. ASSUME NEW p \in DOMAIN Package, APackageDrops(p) PROVE FALSE
  BY <1>6 DEF APackageDrops, PackageDrops
<1>7. CASE UNCHANGED allVars
  BY <1>7 DEF allVars, vars
<1> QED BY <1>1, <1>2, <1>3, <1>4, <1>5, <1>6, <1>7 DEF AssemblyNext, AInitialize

\* How an object comes to be, or stays, in memory.
LEMMA Loading ==
  ASSUME ReposInv, AssemblyTypes, [AssemblyNext]_allVars, phase' \in Active,
         NEW f \in Files, mem'[f] # NoFile
  PROVE  \/ phase \in Active /\ mem[f] # NoFile /\ loaded'[f] = loaded[f]
         \/ loaded'[f] = settings'[f]
<1> USE DEF assemblyVars, diskVars, progVars, histVars, Active
<1>0. mem \in [Files -> Content \cup {NoFile}] /\ DOMAIN loaded = Files
  BY DEF ReposInv, TypeOK, AssemblyTypes
<1>1. CASE AStart \/ ALost \/ AListExisting
  BY <1>1 DEF AStart, Start, ALost, Exit, Die, MemoryLost, AListExisting, ListExisting
<1>2. CASE PurgeDone \/ CheckBackup \/ CopyDone \/ RemoveDone
           \/ \E g \in Files : PurgeBackup(g) \/ CopyBegin(g) \/ CopyEnd(g)
  BY <1>2 DEF PurgeDone, CheckBackup, CopyDone, RemoveDone, PurgeBackup, CopyBegin, CopyEnd
<1>3. CASE GenerateDone
  BY <1>3 DEF GenerateDone, ReposInv, AgreeInv, Unloaded
<1>4. CASE (LoadDone \/ MarkDone \/ SaveDone) /\ UNCHANGED assemblyVars
  BY <1>4 DEF LoadDone, MarkDone, SaveDone
<1>5. CASE MarkNext /\ UNCHANGED assemblyVars
  <2>1. Head(call.ids) \in Ids /\ phase = "mark"
    BY <1>5 DEF MarkNext, ReposInv, TypeOK
  <2>2. mem[f] # NoFile
    BY <1>0, <1>5, <2>1 DEF MarkNext, ReposInv, PendingInv
  <2> QED BY <1>5, <2>1, <2>2
<1>6. ASSUME NEW g \in Files, ARemoveFile(g) \/ AGenerateFile(g) PROVE FALSE
  BY <1>6 DEF ARemoveFile, AGenerateFile, RemoveFile, GenerateFile
<1>7. ASSUME NEW g \in Files, ALoadFile(g)
      PROVE  \/ phase \in Active /\ mem[f] # NoFile /\ loaded'[f] = loaded[f]
             \/ loaded'[f] = settings'[f]
  BY <1>0, <1>7 DEF ALoadFile, LoadFile
<1>8. ASSUME NEW g \in Files, ASaveFile(g)
      PROVE  phase \in Active /\ mem[f] # NoFile /\ loaded'[f] = loaded[f]
  BY <1>8 DEF ASaveFile, SaveFile
<1>9. ASSUME NEW c \in Calls, EnableMany(c) /\ UNCHANGED assemblyVars
      PROVE  phase \in Active /\ mem[f] # NoFile /\ loaded'[f] = loaded[f]
  BY <1>9 DEF EnableMany
<1>10. ASSUME NEW s \in Singles, AEnableOne(s)
       PROVE  phase \in Active /\ mem[f] # NoFile /\ loaded'[f] = loaded[f]
  BY <1>0, <1>10, CallsAssumption DEF AEnableOne, EnableOne, ReposInv, PendingInv
<1>11. ASSUME NEW p \in DOMAIN Package, APackageDrops(p)
       PROVE  phase \in Active /\ mem[f] # NoFile /\ loaded'[f] = loaded[f]
  BY <1>11 DEF APackageDrops, PackageDrops
<1>12. CASE UNCHANGED allVars
  BY <1>12 DEF allVars, vars
<1> QED
  BY <1>1, <1>2, <1>3, <1>4, <1>5, <1>6, <1>7, <1>8, <1>9, <1>10, <1>11, <1>12
  DEF AssemblyNext, AInitialize

\* Types are kept, a file that is not there says nothing, none of the files that
\* are still to be generated is there, and objects are made from what files say.
LEMMA GroupsNext ==
  ASSUME ReposInv, ReposInv', AssemblyTypes, GroupsInv, [AssemblyNext]_allVars
  PROVE  AssemblyTypes' /\ GroupsInv'
<1> USE DEF diskVars, progVars, histVars, assemblyVars
<1>0. Fate /\ DOMAIN settings = Files
  BY StepFate DEF AssemblyTypes
<1>1. /\ \A f \in Files : settings'[f] \in [Ids -> Setting]
      /\ \A f \in Files : ~On(f)' => settings'[f] = Blank
  <2> SUFFICES ASSUME NEW f \in Files
               PROVE  settings'[f] \in [Ids -> Setting] /\ (~On(f)' => settings'[f] = Blank)
    OBVIOUS
  <2>1. CASE Left(f)
    BY <2>1 DEF Left, AssemblyTypes, GroupsInv
  <2>2. CASE Removed(f)
    BY <2>2, GivenSettings DEF Removed
  <2>3. CASE Made(f)
    <3>1. Assembled(f) \in Content
      BY <2>3, AssembledFacts DEF Made, ReposInv, PendingInv
    <3> QED BY <2>3, <3>1, NoFileAssumption DEF Made, On
  <2>4. CASE Dropped(f)
    BY <2>4 DEF Dropped
  <2> QED BY <1>0, <2>1, <2>2, <2>3, <2>4 DEF Fate
<1>2. AssemblyTypes'
  BY <1>1, MemoryTypes DEF AssemblyTypes
<1>3. ASSUME phase' = "generate", NEW f \in pending' PROVE ~On(f)'
  <2>1. CASE AListExisting
    <3>1. f \in (DOMAIN Distro \cup DOMAIN Common) \ Listed /\ UNCHANGED disk
      BY <1>3, <2>1 DEF AListExisting, ListExisting
    <3> QED BY <3>1, FilesAssumption DEF Listed, On
  <2>2. ASSUME NEW g \in Files, AGenerateFile(g) PROVE ~On(f)'
    <3>1. /\ phase = "generate" /\ f \in pending /\ f # g /\ f \in Files
          /\ disk' = [disk EXCEPT ![g] = Merged(disk[g], Assembled(g))]
      BY <1>3, <2>2 DEF AGenerateFile, GenerateFile, ReposInv, TypeOK
    <3> QED BY <3>1 DEF GroupsInv, On, ReposInv, TypeOK
  <2>3. CASE phase = "generate" /\ UNCHANGED <<disk, pending>>
    BY <1>3, <2>3 DEF GroupsInv, On
  <2> QED BY <1>3, <2>1, <2>2, <2>3, Generating
<1>4. ASSUME phase' \in Active, NEW f \in Files, mem'[f] # NoFile PROVE loaded'[f] = settings'[f]
  <2>1. CASE phase \in Active /\ mem[f] # NoFile /\ loaded'[f] = loaded[f]
    <3>1. On(f) /\ On(f)' /\ loaded[f] = settings[f]
      BY <1>4, <2>1 DEF ReposInv, AgreeInv, On, GroupsInv
    <3>2. Left(f)
      BY <1>0, <2>1, <3>1 DEF Fate, Removed, Made, Dropped, On, Active
    <3> QED BY <2>1, <3>1, <3>2 DEF Left
  <2> QED BY <1>4, <2>1, Loading
<1> QED BY <1>1, <1>2, <1>3, <1>4 DEF GroupsInv
\* Every behaviour keeps all this.
LEMMA GroupsKept == AssemblySpec => [](ReposInv /\ AssemblyTypes /\ GroupsInv)
<1>1. AssemblyInit => AssemblyTypes /\ GroupsInv
  <2> SUFFICES ASSUME AssemblyInit PROVE AssemblyTypes /\ GroupsInv
    OBVIOUS
  <2>1. AssemblyTypes
    BY GivenSettings DEF AssemblyInit, AssemblyTypes
  <2>2. phase = "off" /\ \A f \in Files : ~On(f) => settings[f] = Blank
    BY DEF AssemblyInit, Init
  <2> QED BY <2>1, <2>2 DEF GroupsInv, Active
<1>2. /\ AssemblyTypes /\ GroupsInv /\ ReposInv /\ ReposInv' /\ [AssemblyNext]_allVars
      => AssemblyTypes' /\ GroupsInv'
  BY GroupsNext
<1> QED BY <1>1, <1>2, ReposKept, PTL DEF AssemblySpec

\* Once a file is there, enabling repositories writes no other address, key or
\* check into it (RPMRepositoryFile::save sets what was loaded from it).
THEOREM OnlySwitches == AssemblySpec => SettingsKept
<1>1. ReposInv /\ AssemblyTypes /\ GroupsInv /\ [AssemblyNext]_allVars =>
        [\A f \in Files, i \in Ids :
           On(f) /\ i \in disk[f].ids /\ disk'[f] # NoFile =>
             settings'[f][i] = settings[f][i]]_allVars
  BY StepFate DEF Fate, Left, Removed, Made, Dropped
<1> QED BY <1>1, GroupsKept, PTL DEF AssemblySpec, SettingsKept

-----------------------------------------------------------------------------
(* Keys, checks and mirrors                                                 *)

\* What the group of a repository says that is signed, or one of those ids
\* whose upstream key was not found.
SignedAs(i, s, ids) ==
  \/ s.base = "upstream" /\ i \in ids
  \/ IF i \in (IF s.base = "mirror" THEN NoMirrorKey ELSE NoUpstreamKey)
     THEN ~s.check /\ s.key = "none"
     ELSE s.check /\ s.key = s.base

\* What is assembled and not written yet is signed, and upstream's when the
\* mirrors are disabled.
AssembledInv ==
  phase = "generate" =>
    \A f \in pending : \A i \in Assembled(f).ids :
      /\ SignedAs(i, assembled[i], unanswered)
      /\ disableMirrors => assembled[i].base # "mirror"

\* A repository is assembled with the key of its side, or without one and
\* unchecked, unless the upstream's key was asked for and not found.
LEMMA AssembledSigned ==
  ASSUME NEW i, NEW a \in Answers, NEW ids,
         ~UsesMirror(i, a) /\ ~(a.key /\ a.again) => i \in ids
  PROVE  /\ SignedAs(i, AssembledAs(i, a), ids)
         /\ disableMirrors => AssembledAs(i, a).base # "mirror"
<1> DEFINE s == AssembledAs(i, a)
<1>1. CASE UsesMirror(i, a)
  <2>1. s.base = "mirror" /\ s.key = (IF i \notin NoMirrorKey THEN "mirror" ELSE "none")
    BY <1>1 DEF AssembledAs, MirrorKey
  <2>2. s.check = (i \notin NoMirrorKey)
    BY <1>1 DEF AssembledAs, MirrorKey
  <2>3. ~disableMirrors
    BY <1>1 DEF UsesMirror
  <2> HIDE DEF s
  <2>4. SignedAs(i, s, ids) /\ ~disableMirrors
    BY <2>1, <2>2, <2>3 DEF SignedAs
  <2> QED BY <2>4 DEF s
<1>2. CASE ~UsesMirror(i, a)
  <2>1. /\ s.base = "upstream"
        /\ s.key = (IF i \notin NoUpstreamKey /\ a.key THEN "upstream" ELSE "none")
    BY <1>2 DEF AssembledAs, UpstreamKey
  <2>2. s.check = (i \notin NoUpstreamKey /\ a.again)
    BY <1>2 DEF AssembledAs, UpstreamKey
  <2>3. i \in ids \/ (a.key /\ a.again)
    BY <1>2
  <2> HIDE DEF s
  <2>4. SignedAs(i, s, ids) /\ s.base # "mirror"
    BY <2>1, <2>2, <2>3 DEF SignedAs
  <2> QED BY <2>4 DEF s
<1> QED BY <1>1, <1>2

\* So is each repository of the files that are to be generated.
LEMMA AssembledNext ==
  ASSUME ReposInv, ReposInv', AssembledInv, [AssemblyNext]_allVars
  PROVE  AssembledInv'
<1> SUFFICES ASSUME phase' = "generate", NEW f \in pending', NEW i \in Assembled(f)'.ids
             PROVE  /\ SignedAs(i, assembled'[i], unanswered')
                    /\ disableMirrors' => assembled'[i].base # "mirror"
  BY DEF AssembledInv
<1> USE DEF assemblyVars, diskVars, progVars, histVars
<1>1. CASE AListExisting
  <2>1. Assembled(f)' = Assembled(f) /\ f \in DOMAIN Distro \cup DOMAIN Common
    BY <1>1 DEF AListExisting, ListExisting, Assembled
  <2>2. i \in ToAssemble /\ i \in Ids
    BY <2>1, AssembledFacts DEF ToAssemble, ReposInv, Content
  <2>3. PICK answers \in [Flaky \cap ToAssemble -> Answers] :
          LET Answer(j) == IF j \in DOMAIN answers THEN answers[j] ELSE AllThere IN
          /\ assembled' = [j \in Ids |-> IF j \in ToAssemble THEN AssembledAs(j, Answer(j))
                                                             ELSE NoSetting]
          /\ unanswered' = unanswered \cup
               {j \in DOMAIN answers : /\ ~UsesMirror(j, answers[j])
                                       /\ ~(answers[j].key /\ answers[j].again)}
    BY <1>1 DEF AListExisting, AssembleAll
  <2> DEFINE a == IF i \in DOMAIN answers THEN answers[i] ELSE AllThere
  <2>4. a \in Answers /\ assembled'[i] = AssembledAs(i, a)
    BY <2>2, <2>3 DEF AllThere, Answers
  <2>5. ~UsesMirror(i, a) /\ ~(a.key /\ a.again) => i \in unanswered'
    BY <2>3 DEF AllThere
  <2>6. disableMirrors' = disableMirrors
    BY <1>1 DEF AListExisting
  <2> HIDE DEF a
  <2> QED BY <2>4, <2>5, <2>6, AssembledSigned
<1>2. ASSUME NEW g \in Files, AGenerateFile(g)
      PROVE  /\ SignedAs(i, assembled'[i], unanswered')
             /\ disableMirrors' => assembled'[i].base # "mirror"
  BY <1>2 DEF AGenerateFile, GenerateFile, Assembled, AssembledInv
<1>3. CASE phase = "generate" /\ UNCHANGED <<disk, pending, allVars>>
  BY <1>3 DEF allVars, vars, Assembled, AssembledInv
<1> QED BY <1>1, <1>2, <1>3, Generating

\* What was asked and not answered is not forgotten.
LEMMA UnansweredGrows ==
  ASSUME [AssemblyNext]_allVars
  PROVE  unanswered \subseteq unanswered'
BY DEF AssemblyNext, AStart, ALost, AInitialize, AListExisting, AssembleAll, ARemoveFile,
       AGenerateFile, ALoadFile, ASaveFile, AEnableOne, APackageDrops, assemblyVars, allVars

\* A generated file that is there after a step was there and says the same, or
\* is as it was assembled.
LEMMA GeneratedFate ==
  ASSUME ReposInv, AssemblyTypes, GroupsInv, [AssemblyNext]_allVars, NEW p \in GeneratedGroups'
  PROVE  \/ p \in GeneratedGroups /\ settings'[p[1]][p[2]] = settings[p[1]][p[2]]
         \/ /\ phase = "generate" /\ p[1] \in pending /\ p[2] \in Assembled(p[1]).ids
            /\ settings'[p[1]][p[2]] = assembled[p[2]]
<1>1. /\ p \in Files \X Ids /\ p[1] \in Files /\ On(p[1])' /\ disk'[p[1]].origin \in Generated
      /\ p[2] \in disk'[p[1]].ids
  BY DEF GeneratedGroups
<1>2. CASE Left(p[1])
  BY <1>1, <1>2 DEF Left, GeneratedGroups
<1>3. CASE Made(p[1])
  BY <1>1, <1>3 DEF Made
<1>4. ~Removed(p[1]) /\ ~Dropped(p[1])
  BY <1>1 DEF Removed, Dropped, On, Generated
<1> QED BY <1>1, <1>2, <1>3, <1>4, StepFate DEF Fate

\* dnf checks the signature of each generated repository with the key of the
\* side that it is fetched from, unless the .conf has no such key or the
\* upstream's was not found when it was generated, whatever is saved later
\* (RepoAssembler::assemble, RPMRepositoryFile::save).
THEOREM Signed == AssemblySpec => []SignedUnlessUnanswered
<1> DEFINE AllSigned == \A p \in GeneratedGroups : SignedAs(p[2], settings[p[1]][p[2]], unanswered)
<1>1. AssemblyInit => AssembledInv /\ AllSigned
  <2> SUFFICES ASSUME AssemblyInit PROVE AssembledInv /\ AllSigned
    OBVIOUS
  <2>1. GeneratedGroups = {} /\ phase = "off"
    BY DEF AssemblyInit, Init, GeneratedGroups, On, Generated
  <2> QED BY <2>1 DEF AssembledInv
<1>2. /\ ReposInv /\ ReposInv' /\ AssemblyTypes /\ GroupsInv /\ AssembledInv /\ AllSigned
      /\ [AssemblyNext]_allVars
      => AssembledInv' /\ AllSigned'
  <2> SUFFICES ASSUME ReposInv, ReposInv', AssemblyTypes, GroupsInv, AssembledInv, AllSigned,
                      [AssemblyNext]_allVars
               PROVE  AssembledInv' /\ AllSigned'
    OBVIOUS
  <2>1. unanswered \subseteq unanswered'
    BY UnansweredGrows
  <2>2. ASSUME NEW p \in GeneratedGroups'
        PROVE  SignedAs(p[2], settings'[p[1]][p[2]], unanswered')
    <3>1. SignedAs(p[2], settings'[p[1]][p[2]], unanswered)
      BY GeneratedFate DEF AssembledInv
    <3> QED BY <2>1, <3>1 DEF SignedAs
  <2> QED BY <2>2, AssembledNext
<1>3. AllSigned => SignedUnlessUnanswered
  BY DEF SignedAs, SignedUnlessUnanswered
<1> HIDE DEF AllSigned
<1> QED BY <1>1, <1>2, <1>3, GroupsKept, PTL DEF AssemblySpec

\* Where a forced run is when none of the files of an earlier one is left.
Late == {"list", "generate"} \cup Active

\* A run gets there with the options that it was started with.
LEMMA GettingLate ==
  ASSUME [AssemblyNext]_allVars, phase' \in Late \ {"list"}
  PROVE  phase \in Late /\ UNCHANGED <<forced, disableMirrors>>
<1> USE DEF assemblyVars, diskVars, progVars, histVars, Late, Active
<1>1. CASE AStart \/ ALost
  BY <1>1 DEF AStart, Start, ALost, Exit, Die, MemoryLost
<1>2. CASE AInitialize
  BY <1>2 DEF AInitialize, AListExisting, ARemoveFile, AGenerateFile, ALoadFile, ASaveFile,
     ListExisting, RemoveFile, GenerateFile, LoadFile, SaveFile, PurgeDone, CheckBackup, CopyDone,
     RemoveDone, GenerateDone, LoadDone, MarkNext, MarkDone, SaveDone, PurgeBackup, CopyBegin, CopyEnd
<1>3. ASSUME NEW c \in Calls, EnableMany(c) /\ UNCHANGED assemblyVars
      PROVE  phase \in Late /\ UNCHANGED <<forced, disableMirrors>>
  BY <1>3 DEF EnableMany
<1>4. ASSUME NEW s \in Singles, AEnableOne(s)
      PROVE  phase \in Late /\ UNCHANGED <<forced, disableMirrors>>
  BY <1>4 DEF AEnableOne, EnableOne
<1>5. ASSUME NEW p \in DOMAIN Package, APackageDrops(p)
      PROVE  phase \in Late /\ UNCHANGED <<forced, disableMirrors>>
  BY <1>5 DEF APackageDrops, PackageDrops
<1>6. CASE UNCHANGED allVars
  BY <1>6 DEF allVars, vars
<1> QED BY <1>1, <1>2, <1>3, <1>4, <1>5, <1>6 DEF AssemblyNext

\* A run with --disable-mirrors and --force backups leaves no generated file
\* with an address on the mirror: it removes those of earlier runs, and its own
\* are assembled from the upstream's (RepoChooser::choose).
THEOREM MirrorsUnused == AssemblySpec => []DisabledMirrorsUnused
<1> DEFINE NoneOnMirror ==
      forced /\ disableMirrors /\ phase \in Late =>
        \A p \in GeneratedGroups : settings[p[1]][p[2]].base # "mirror"
<1>1. AssemblyInit => AssembledInv /\ NoneOnMirror
  BY DEF AssemblyInit, Init, AssembledInv
<1>2. /\ ReposInv /\ ReposInv' /\ AssemblyTypes /\ GroupsInv /\ AssembledInv /\ NoneOnMirror
      /\ [AssemblyNext]_allVars
      => AssembledInv' /\ NoneOnMirror'
  <2> SUFFICES ASSUME ReposInv, ReposInv', AssemblyTypes, GroupsInv, AssembledInv, NoneOnMirror,
                      [AssemblyNext]_allVars
               PROVE  AssembledInv' /\ NoneOnMirror'
    OBVIOUS
  <2>1. ASSUME forced', disableMirrors', phase' \in Late, NEW p \in GeneratedGroups'
        PROVE  settings'[p[1]][p[2]].base # "mirror"
    <3>1. CASE phase' = "list"
      BY <2>1, <3>1 DEF ReposInv, ForceInv, GeneratedGroups
    <3>2. CASE phase' # "list"
      <4>1. phase \in Late /\ forced /\ disableMirrors
        BY <2>1, <3>2, GettingLate
      <4> QED BY <4>1, GeneratedFate DEF AssembledInv
    <3> QED BY <3>1, <3>2
  <2> QED BY <2>1, AssembledNext
<1>3. NoneOnMirror => DisabledMirrorsUnused
  BY DEF DisabledMirrorsUnused, Late, Active
<1> HIDE DEF NoneOnMirror
<1> QED BY <1>1, <1>2, <1>3, GroupsKept, PTL DEF AssemblySpec
=============================================================================
