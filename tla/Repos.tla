------------------------------- MODULE Repos --------------------------------
(***************************************************************************)
(* The life of /etc/yum.repos.d under RepoManager (services/repos.cpp):    *)
(* the vendor's .repo files are moved to the backup directory once, the    *)
(* project's own files are generated, loaded into an in-memory index and   *)
(* enabled.  A run of the program may die at any point (crash, power loss, *)
(* an exception nobody catches, --stop-after) and may be started again:    *)
(* the disk survives, the memory does not.                                 *)
(***************************************************************************)
EXTENDS Naturals, FiniteSets, Sequences

CONSTANTS
  Files,        \* names of files in /etc/yum.repos.d
  Ids,          \* repository ids ([groups] of .repo files)
  Vendor,       \* [subset of Files -> SUBSET Ids]: what the OS installed
  Package,      \* same: .repo files that RPM packages drop in later
  Distro,       \* same: files described by the distro's .conf
  Common,       \* same: files described by repos.conf
  UpperCase,    \* files whose extension equals ".repo" only ignoring case
  Malformed,    \* vendor or package files without "enabled" or "gpgcheck"
  Wanted,       \* sequence of ids that resolveReposNames returns
  Calls,        \* enable/disable(vector): [ids, value] asked for once configured
  Singles,      \* enable/disable(id): [id, value] asked for once configured
  Flavours,     \* "upstream" and, for Rocky, "vault"
  ForceChoices, \* values of --force backups a run may be given
  MaxRuns,      \* bound: how many times the program is started
  NoFile,       \* no such file / not loaded
  Partial       \* a backup copy that was interrupted

Origins == {"vendor", "package", "common", "upstream", "vault"}
Content == [origin : Origins, ids : SUBSET Ids, on : SUBSET Ids]
Generated == {"common", "upstream", "vault"}

ASSUME FilesAssumption ==
  /\ DOMAIN Vendor \subseteq Files
  /\ DOMAIN Package \subseteq Files \ UpperCase
  /\ DOMAIN Distro \subseteq Files \ UpperCase
  /\ DOMAIN Common \subseteq Files \ UpperCase
  /\ DOMAIN Distro \cap DOMAIN Common = {}
  /\ Malformed \subseteq DOMAIN Vendor \cup DOMAIN Package
  /\ \A f \in DOMAIN Vendor : Vendor[f] \subseteq Ids
  /\ \A f \in DOMAIN Package : Package[f] \subseteq Ids
  /\ \A f \in DOMAIN Distro : Distro[f] \subseteq Ids
  /\ \A f \in DOMAIN Common : Common[f] \subseteq Ids

ASSUME CallsAssumption ==
  /\ Wanted \in Seq(Ids)
  /\ Calls \subseteq [ids : Seq(Ids), value : BOOLEAN]
  /\ Singles \subseteq [id : Ids, value : BOOLEAN]

ASSUME ChoicesAssumption ==
  /\ Flavours \subseteq {"upstream", "vault"}
  /\ ForceChoices \subseteq BOOLEAN
  /\ MaxRuns \in Nat

ASSUME NoFileAssumption ==
  /\ NoFile \notin Content /\ NoFile \notin Files
  /\ Partial \notin Content /\ Partial # NoFile

VARIABLES
  \* disk: survives the program
  disk,       \* /etc/yum.repos.d
  backupDir,  \* does /opt/cloysterhpc/backup/etc/yum.repos.d exist?
  backup,     \* its contents
  \* the running program
  phase,      \* where initializeDefaultRepositories, or its client, is
  pending,    \* files the current loop has still to visit
  flavour,    \* RockyLinux::shouldUseVault, cached for the run
  index,      \* m_filesIdx: id -> file object, one object per file
  mem,        \* the loaded RPMRepositoryFile objects
  call,       \* the enable(vector, value) in progress
  \* bookkeeping
  runs,       \* how many runs were started
  forced,     \* was this run given --force backups?
  purged      \* has a run with --force backups emptied the backup?

diskVars == <<disk, backupDir, backup>>
progVars == <<flavour, index, mem, call>>
histVars == <<runs, forced, purged>>
vars == <<diskVars, phase, pending, progVars, histVars>>

Phases == {"off", "purge", "check", "copy", "copying", "remove", "list", "generate",
           "load", "mark", "save", "ready", "failed"}
NoCall == [ids |-> <<>>, value |-> TRUE]

On(f) == disk[f] # NoFile
Listed == {f \in Files \ UpperCase : On(f)}    \* what an exact ".repo" matches
Listed_i == {f \in Files : On(f)}              \* ... and ignoring case

Fresh == [i \in Ids |-> NoFile]
Unloaded == [f \in Files |-> NoFile]

TypeOK ==
  /\ disk \in [Files -> Content \cup {NoFile}]
  /\ backupDir \in BOOLEAN
  /\ backup \in [Files -> Content \cup {NoFile, Partial}]
  /\ phase \in Phases
  /\ pending \subseteq Files
  /\ flavour \in Flavours
  /\ index \in [Ids -> Files \cup {NoFile}]
  /\ mem \in [Files -> Content \cup {NoFile}]
  /\ call \in [ids : Seq(Ids), value : BOOLEAN]
  /\ runs \in Nat
  /\ forced \in BOOLEAN
  /\ purged \in BOOLEAN

\* A freshly installed OS: the vendor's files, each repository on or off.
Init ==
  /\ \E on \in SUBSET Ids :
       disk = [f \in Files |->
                 IF f \in DOMAIN Vendor
                 THEN [origin |-> "vendor", ids |-> Vendor[f],
                       on |-> on \cap Vendor[f]]
                 ELSE NoFile]
  /\ backupDir = FALSE
  /\ backup = [f \in Files |-> NoFile]
  /\ phase = "off" /\ pending = {}
  /\ flavour \in Flavours
  /\ index = Fresh /\ mem = Unloaded /\ call = NoCall
  /\ runs = 0 /\ forced = FALSE /\ purged = FALSE

-----------------------------------------------------------------------------
(* backupFilesByExtension                                                   *)

\* The operator starts the program; the mirror/vault decision is made anew.
Start ==
  /\ phase = "off" /\ runs < MaxRuns
  /\ runs' = runs + 1
  /\ flavour' \in Flavours
  /\ forced' \in ForceChoices
  /\ IF forced'
     THEN /\ phase' = "purge" /\ pending' = {f \in Files : backup[f] # NoFile}
          /\ purged' = (purged \/ backupDir)
     ELSE phase' = "check" /\ pending' = {} /\ UNCHANGED purged
  /\ UNCHANGED <<diskVars, index, mem, call>>

\* std::filesystem::remove_all(backupPath), entry by entry
PurgeBackup(f) ==
  /\ phase = "purge" /\ f \in pending
  /\ backup' = [backup EXCEPT ![f] = NoFile]
  /\ pending' = pending \ {f}
  /\ UNCHANGED <<disk, backupDir, phase, progVars, histVars>>

\* Mutant: remove_all leaves the directory itself.
PurgeDoneKeepsDir ==
  /\ phase = "purge" /\ pending = {}
  /\ phase' = "check"
  /\ UNCHANGED <<diskVars, pending, progVars, histVars>>

PurgeDone ==
  /\ phase = "purge" /\ pending = {}
  /\ backupDir' = FALSE /\ phase' = "check" /\ UNCHANGED pending
  /\ UNCHANGED <<disk, backup, progVars, histVars>>

\* Mutant: every run backs up, whether or not an earlier one did.
CheckBackupAlways ==
  /\ phase = "check"
  /\ phase' = "copy" /\ pending' = Listed /\ backupDir' = TRUE
  /\ UNCHANGED <<disk, backup, progVars, histVars>>

\* "if (!exists(backupPath))": create the directory and list the files to
\* copy; a directory that exists means that there is nothing to back up.
CheckBackup ==
  /\ phase = "check"
  /\ IF backupDir THEN phase' = "list" /\ pending' = {}
                  ELSE phase' = "copy" /\ pending' = Listed
  /\ backupDir' = TRUE
  /\ UNCHANGED <<disk, backup, progVars, histVars>>

\* copyFilesWithExtension: copyFile leaves an existing file alone, and a copy
\* that is interrupted leaves a truncated file behind.
CopyBegin(f) ==
  /\ phase = "copy" /\ f \in pending
  /\ IF backup[f] = NoFile
     THEN /\ backup' = [backup EXCEPT ![f] = Partial]
          /\ phase' = "copying" /\ UNCHANGED pending
     ELSE pending' = pending \ {f} /\ UNCHANGED <<backup, phase>>
  /\ UNCHANGED <<disk, backupDir, progVars, histVars>>

CopyEnd(f) ==
  /\ phase = "copying" /\ f \in pending /\ backup[f] = Partial
  /\ backup' = [backup EXCEPT ![f] = disk[f]]
  /\ pending' = pending \ {f} /\ phase' = "copy"
  /\ UNCHANGED <<disk, backupDir, progVars, histVars>>

CopyDone ==
  /\ phase = "copy" /\ pending = {}
  /\ phase' = "remove" /\ pending' = Listed_i
  /\ UNCHANGED <<diskVars, progVars, histVars>>

\* removeFilesWithExtension, which compares extensions ignoring case
RemoveFile(f) ==
  /\ phase = "remove" /\ f \in pending
  /\ disk' = [disk EXCEPT ![f] = NoFile]
  /\ pending' = pending \ {f}
  /\ UNCHANGED <<backupDir, backup, phase, progVars, histVars>>

RemoveDone ==
  /\ phase = "remove" /\ pending = {}
  /\ phase' = "list" /\ UNCHANGED pending
  /\ UNCHANGED <<diskVars, progVars, histVars>>

-----------------------------------------------------------------------------
(* RepoGenerator::generate                                                  *)

\* Mutant: the files already there are generated again.
ListExistingIgnored ==
  /\ phase = "list"
  /\ pending' = DOMAIN Distro \cup DOMAIN Common
  /\ phase' = "generate"
  /\ UNCHANGED <<diskVars, progVars, histVars>>

\* Mutant: one file that is there is taken for all of them.
ListExistingOne ==
  /\ phase = "list"
  /\ pending' = IF Listed \cap (DOMAIN Distro \cup DOMAIN Common) = {}
                THEN DOMAIN Distro \cup DOMAIN Common ELSE {}
  /\ phase' = "generate"
  /\ UNCHANGED <<diskVars, progVars, histVars>>

\* Every configured file that is not in the directory yet is to be generated;
\* all of them are assembled (HTTP probes included) before the first is saved.
ListExisting ==
  /\ phase = "list"
  /\ pending' = (DOMAIN Distro \cup DOMAIN Common) \ Listed
  /\ phase' = "generate"
  /\ UNCHANGED <<diskVars, progVars, histVars>>

\* Mutant: repositories start enabled.
AssembledEnabled(f) ==
  IF f \in DOMAIN Distro
  THEN [origin |-> flavour, ids |-> Distro[f], on |-> Distro[f]]
  ELSE [origin |-> "common", ids |-> Common[f], on |-> Common[f]]

\* RepoAssembler::assemble: repositories start disabled.
Assembled(f) ==
  IF f \in DOMAIN Distro
  THEN [origin |-> flavour, ids |-> Distro[f], on |-> {}]
  ELSE [origin |-> "common", ids |-> Common[f], on |-> {}]

\* RPMRepositoryFile::save: the keys of every known repository are set in the
\* file as it is on disk now, and the result replaces it atomically.
Merged(old, new) ==
  IF old = NoFile THEN new
  ELSE [origin |-> old.origin, ids |-> old.ids \cup new.ids,
        on |-> (old.on \ new.ids) \cup new.on]

GenerateFile(f) ==
  /\ phase = "generate" /\ f \in pending
  /\ disk' = [disk EXCEPT ![f] = Merged(@, Assembled(f))]
  /\ pending' = pending \ {f}
  /\ UNCHANGED <<backupDir, backup, phase, progVars, histVars>>

\* Mutant: loadBaseDir is forgotten.
GenerateDoneUnloaded ==
  /\ phase = "generate" /\ pending = {}
  /\ phase' = "load" /\ UNCHANGED pending
  /\ UNCHANGED <<diskVars, progVars, histVars>>

GenerateDone ==
  /\ phase = "generate" /\ pending = {}
  /\ phase' = "load" /\ pending' = Listed
  /\ UNCHANGED <<diskVars, progVars, histVars>>

-----------------------------------------------------------------------------
(* RPMRepoManager                                                           *)

\* KeyFile::getBoolean throws when "enabled" or "gpgcheck" is missing.
Parses(f) == f \in Malformed => disk[f].origin \notin {"vendor", "package"}

\* m_filesIdx.emplace: an id that is already indexed keeps its first file.
Indexed(f) ==
  [i \in Ids |-> IF i \in disk[f].ids /\ index[i] = NoFile THEN f ELSE index[i]]

\* install(path), for each file of loadDir's directory listing
LoadFile(f) ==
  /\ phase = "load" /\ f \in pending
  /\ IF Parses(f)
     THEN /\ mem' = [mem EXCEPT ![f] = disk[f]]
          /\ index' = Indexed(f)
          /\ pending' = pending \ {f} /\ UNCHANGED phase
     ELSE phase' = "failed" /\ UNCHANGED <<mem, index, pending>>
  /\ UNCHANGED <<diskVars, flavour, call, histVars>>

LoadDone ==
  /\ phase = "load" /\ pending = {}
  /\ phase' = "mark" /\ call' = [ids |-> Wanted, value |-> TRUE]
  /\ UNCHANGED <<diskVars, pending, flavour, index, mem, histVars>>

Switched(content, i, value) ==
  [content EXCEPT !.on = IF value THEN @ \cup {i} ELSE @ \ {i}]

\* Mutant: the file is not added to toSave.
MarkNextUnsaved ==
  LET i == Head(call.ids) IN
  /\ phase = "mark" /\ call.ids # <<>>
  /\ IF index[i] # NoFile
     THEN /\ mem' = [mem EXCEPT ![index[i]] = Switched(@, i, call.value)]
          /\ call' = [call EXCEPT !.ids = Tail(@)]
          /\ UNCHANGED <<pending, phase>>
     ELSE phase' = "failed" /\ UNCHANGED <<mem, pending, call>>
  /\ UNCHANGED <<diskVars, flavour, index, histVars>>

\* Mutant: an id that nobody loaded goes unnoticed.
MarkNextUnchecked ==
  LET i == Head(call.ids) IN
  /\ phase = "mark" /\ call.ids # <<>>
  /\ mem' = [f \in Files |-> IF f = index[i] THEN Switched(mem[f], i, call.value)
                                            ELSE mem[f]]
  /\ pending' = pending \cup {index[i]}
  /\ call' = [call EXCEPT !.ids = Tail(@)]
  /\ UNCHANGED <<diskVars, phase, flavour, index, histVars>>

\* enable(vector, value): switch one repository in memory, remember its file
\* in toSave (here pending), or abort on an id that nobody loaded.
MarkNext ==
  LET i == Head(call.ids) IN
  /\ phase = "mark" /\ call.ids # <<>>
  /\ IF index[i] # NoFile
     THEN /\ mem' = [mem EXCEPT ![index[i]] = Switched(@, i, call.value)]
          /\ pending' = pending \cup {index[i]}
          /\ call' = [call EXCEPT !.ids = Tail(@)]
          /\ UNCHANGED phase
     ELSE phase' = "failed" /\ UNCHANGED <<mem, pending, call>>
  /\ UNCHANGED <<diskVars, flavour, index, histVars>>

MarkDone ==
  /\ phase = "mark" /\ call.ids = <<>>
  /\ phase' = "save"
  /\ UNCHANGED <<diskVars, pending, progVars, histVars>>

SaveFile(f) ==
  /\ phase = "save" /\ f \in pending
  /\ disk' = [disk EXCEPT ![f] = Merged(@, mem[f])]
  /\ pending' = pending \ {f}
  /\ UNCHANGED <<backupDir, backup, phase, progVars, histVars>>

SaveDone ==
  /\ phase = "save" /\ pending = {}
  /\ phase' = "ready" /\ UNCHANGED pending
  /\ UNCHANGED <<diskVars, progVars, histVars>>

\* RepoManager::enable / disable of a vector, after the initialization
EnableMany(c) ==
  /\ phase = "ready"
  /\ call' = c /\ phase' = "mark"
  /\ UNCHANGED <<diskVars, pending, flavour, index, mem, histVars>>

\* RepoManager::enable / disable of one id: m_filesIdx.at throws when the id is
\* unknown, which only disable catches.
EnableOne(s) ==
  /\ phase = "ready"
  /\ IF index[s.id] # NoFile
     THEN LET f == index[s.id]
              new == Switched(mem[f], s.id, s.value)
          IN /\ mem' = [mem EXCEPT ![f] = new]
             /\ disk' = [disk EXCEPT ![f] = Merged(@, new)]
             /\ UNCHANGED phase
     ELSE phase' = (IF s.value THEN "failed" ELSE "ready") /\ UNCHANGED <<mem, disk>>
  /\ UNCHANGED <<backupDir, backup, pending, flavour, index, call, histVars>>

-----------------------------------------------------------------------------
(* The program's surroundings                                               *)

MemoryLost ==
  /\ phase' = "off" /\ pending' = {}
  /\ index' = Fresh /\ mem' = Unloaded /\ call' = NoCall
  /\ UNCHANGED <<diskVars, flavour, histVars>>

\* The run ends: install() returned, or an exception reached main.
Exit ==
  /\ phase \in {"ready", "failed"}
  /\ MemoryLost

\* The run is cut short.  The last of the MaxRuns runs is left alone.
Die ==
  /\ phase # "off" /\ runs < MaxRuns
  /\ MemoryLost

\* dnf installs a package that brings a .repo file of its own.
PackageDrops(f) ==
  /\ phase \in {"off", "ready"} /\ disk[f] = NoFile
  /\ disk' = [disk EXCEPT ![f] = [origin |-> "package", ids |-> Package[f],
                                  on |-> Package[f]]]
  /\ UNCHANGED <<backupDir, backup, phase, pending, progVars, histVars>>

\* initializeDefaultRepositories from the first statement to the last
Initialize ==
  \/ PurgeDone \/ CheckBackup \/ CopyDone \/ RemoveDone
  \/ ListExisting \/ GenerateDone
  \/ LoadDone \/ MarkNext \/ MarkDone \/ SaveDone
  \/ \E f \in Files : \/ PurgeBackup(f) \/ CopyBegin(f) \/ CopyEnd(f)
                      \/ RemoveFile(f) \/ GenerateFile(f)
                      \/ LoadFile(f) \/ SaveFile(f)

Next ==
  \/ Start \/ Exit \/ Die
  \/ Initialize
  \/ \E c \in Calls : EnableMany(c)
  \/ \E s \in Singles : EnableOne(s)
  \/ \E f \in DOMAIN Package : PackageDrops(f)

Spec == Init /\ [][Next]_vars

\* The program, once started, keeps executing its statements unless it dies.
FairSpec == Spec /\ WF_vars(Initialize)

-----------------------------------------------------------------------------
(* Properties                                                               *)

Ranged(seq) == {seq[n] : n \in DOMAIN seq}

\* The ids that the program ever asks to switch to value.
Asked(value) ==
  (IF value THEN Ranged(Wanted) ELSE {})
    \cup (UNION {Ranged(c.ids) : c \in {d \in Calls : d.value = value}})
    \cup {s.id : s \in {t \in Singles : t.value = value}}

InBackup(f) == backup[f] \in Content /\ backup[f].origin = "vendor"
VendorOnDisk(f) == On(f) /\ disk[f].origin = "vendor"

\* Wherever a run is interrupted, and however often it is started again, each
\* .repo file of the vendor is on disk or whole in the backup directory: the
\* copies come before the removals, and a second run never backs up again
\* (backupFilesByExtension).  Only --force backups over an earlier backup may
\* give that up, and files that match ".repo" only ignoring case are removed
\* without having been copied.
VendorPreserved ==
  ~purged => \A f \in DOMAIN Vendor \ UpperCase : VendorOnDisk(f) \/ InBackup(f)

\* The backup directory never holds a file that the project generated, even
\* though the program is run again over a directory full of them.
BackupIsPristine ==
  ~purged => \A f \in Files :
               backup[f] \in Content => backup[f].origin \notin Generated

\* Between two calls the objects in memory agree with the files: no later save
\* of a file can write back a stale switch of one of its other repositories.
MemoryAgreesWithDisk ==
  phase = "ready" =>
    \A i \in Ids : index[i] # NoFile =>
      /\ On(index[i]) /\ i \in disk[index[i]].ids
      /\ i \in mem[index[i]].on <=> i \in disk[index[i]].on

\* A generated file is neither regenerated nor moved away by a later run
\* (RepoGenerator::generate skips the names it finds), so that what was
\* enabled in it stays; --force backups is the exception.
GeneratedKept ==
  [][\A f \in Files :
       On(f) /\ disk[f].origin \in Generated /\ ~purged =>
         /\ disk'[f] # NoFile
         /\ disk'[f].origin = disk[f].origin
         /\ disk[f].on \ Asked(FALSE) \subseteq disk'[f].on]_vars

\* A run that is not cut short configures the repositories, whatever earlier
\* runs left half done: backed up, removed, generated or saved in part.
LastRunConfigures ==
  (runs = MaxRuns /\ phase = "check") ~> (phase = "ready")

\* The repositories that the .conf files describe in a file to be generated.
Described(f) == IF f \in DOMAIN Distro THEN Distro[f] ELSE Common[f]

Configured == UNION {Described(f) : f \in DOMAIN Distro \cup DOMAIN Common}

\* Each id that the program enables, or switches in a batch, is the name of a
\* [group] of a .conf file; a file that the vendor or a package brings under a
\* name that is to be generated has the ids of that file as well; and no file
\* lacks a key that the parser asks for.
NamesAgree ==
  /\ Ranged(Wanted) \subseteq Configured
  /\ \A c \in Calls : Ranged(c.ids) \subseteq Configured
  /\ \A s \in Singles : s.value => s.id \in Configured
  /\ \A f \in DOMAIN Distro \cup DOMAIN Common :
       /\ f \in DOMAIN Vendor => Described(f) \subseteq Vendor[f]
       /\ f \in DOMAIN Package => Described(f) \subseteq Package[f]
  /\ Malformed = {}

\* Configuring the repositories of a supported distribution never aborts: each
\* name that resolveReposNames returns is the id of a generated repository.
ConfigurationSucceeds == phase # "failed"

\* A run with --force backups starts from an empty directory again, so that the
\* distribution's files are of the flavour shouldUseVault chose for this run
\* (without it, an earlier run's or the vendor's file of that name is kept).
ForceRegenerates ==
  phase = "ready" /\ forced =>
    \A f \in DOMAIN Distro : On(f) /\ disk[f].origin = flavour
-----------------------------------------------------------------------------
(* The promise of RepoManager                                               *)

\* The values that an id is switched to in the files on disk.
OnDisk(i) ==
  {v \in BOOLEAN : \E f \in Files : /\ On(f) /\ i \in disk[f].ids
                                  /\ IF v THEN i \in disk[f].on ELSE i \notin disk[f].on}

Mode ==
  CASE phase \in {"off", "ready", "failed"} -> "idle"
    [] phase \in {"mark", "save"} -> "switch"
    [] OTHER -> "setup"

\* Switches not made yet, or made in memory and not on disk yet.
Unsaved ==
  Ranged(call.ids) \cup
  {i \in Ids : index[i] # NoFile /\ On(index[i])
                 /\ (i \in mem[index[i]].on) # (i \in disk[index[i]].on)}

Store == INSTANCE RepoStore WITH
  Defaults <- Ranged(Wanted),
  Batches <- {[ids |-> Ranged(c.ids), value |-> c.value] : c \in Calls},
  store <- [i \in Ids |-> OnDisk(i)],
  mode <- Mode,
  todo <- IF Mode = "switch" THEN Unsaved ELSE {},
  value <- Mode = "switch" => call.value

\* The files, the index and the objects in memory do what RepoManager promises:
\* nothing is enabled that was not asked for, saving a file changes no switch of
\* its other repositories, and a call that returns has reached the disk with all
\* of its switches, wherever earlier runs were interrupted.
ImplementsStore == Store!Spec
=============================================================================
