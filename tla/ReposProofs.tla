---------------------------- MODULE ReposProofs -----------------------------
(***************************************************************************)
(* Proofs about Repos, for every set of files and ids, every number of     *)
(* runs and every point at which a run dies.                               *)
(***************************************************************************)
EXTENDS Repos, TLAPS

V == DOMAIN Vendor \ UpperCase

\* What loops over files know of the files they have still to visit.
PendingInv ==
  /\ phase = "generate" => pending \subseteq DOMAIN Distro \cup DOMAIN Common
  /\ phase = "load" => \A f \in pending : disk[f] # NoFile
  /\ phase \in {"mark", "save"} => \A f \in pending : mem[f] # NoFile
  /\ phase = "ready" => pending = {}
  /\ \A i \in Ids : index[i] # NoFile => mem[index[i]] # NoFile

\* The backup directory, as long as --force backups has not emptied it.
BackupInv ==
  /\ phase = "purge" => ~backupDir
  /\ phase \notin {"off", "purge", "check"} => backupDir
  /\ ~backupDir => \A f \in Files : backup[f] = NoFile
  /\ phase = "copy" => \A f \in pending : backup[f] = NoFile
  /\ phase = "copying" =>
       \E f \in pending : /\ backup[f] = Partial
                          /\ \A g \in pending \ {f} : backup[g] = NoFile

\* The vendor's files, while they are copied and then removed.
MoveInv ==
  /\ phase \in {"copy", "copying"} =>
       \A f \in V : VendorOnDisk(f) => f \in pending \/ InBackup(f)
  /\ phase = "remove" => \A f \in V : VendorOnDisk(f) => InBackup(f)

\* Nothing generated is around before the backup is complete.
PristineInv ==
  ~backupDir \/ phase \in {"copy", "copying"} =>
    \A f \in Files : On(f) => disk[f].origin \notin Generated

Kept == BackupInv /\ MoveInv /\ PristineInv /\ VendorPreserved /\ BackupIsPristine

IInv == TypeOK /\ PendingInv /\ (~purged => Kept)

-----------------------------------------------------------------------------
(* What the helpers return                                                  *)

\* A merged file is a file; saving over an existing one keeps its origin.
LEMMA MergedFacts ==
  ASSUME NEW old \in Content \cup {NoFile}, NEW new \in Content
  PROVE  /\ Merged(old, new) \in Content
         /\ Merged(old, new) # NoFile
         /\ old # NoFile => Merged(old, new).origin = old.origin
         /\ old = NoFile => Merged(old, new) = new
<1>1. Merged(old, new) \in Content
  <2>1. CASE old = NoFile
    BY <2>1 DEF Merged
  <2>2. CASE old # NoFile
    BY <2>2 DEF Merged, Content
  <2> QED BY <2>1, <2>2
<1>2. Merged(old, new) # NoFile
  BY <1>1, NoFileAssumption
<1> QED BY <1>1, <1>2 DEF Merged

\* An assembled file is a generated one.
LEMMA AssembledFacts ==
  ASSUME TypeOK, NEW f \in DOMAIN Distro \cup DOMAIN Common
  PROVE  Assembled(f) \in Content /\ Assembled(f).origin \in Generated
<1>1. flavour \in {"upstream", "vault"}
  BY ChoicesAssumption DEF TypeOK
<1>2. f \in DOMAIN Distro => Distro[f] \subseteq Ids
  BY FilesAssumption
<1>3. f \in DOMAIN Common => Common[f] \subseteq Ids
  BY FilesAssumption
<1>4. CASE f \in DOMAIN Distro
  BY <1>1, <1>2, <1>4 DEF Assembled, Content, Origins, Generated
<1>5. CASE f \notin DOMAIN Distro
  BY <1>3, <1>5 DEF Assembled, Content, Origins, Generated
<1> QED BY <1>4, <1>5

\* Switching a repository leaves a file with the same origin.
LEMMA SwitchedFacts ==
  ASSUME NEW content \in Content, NEW i \in Ids, NEW value \in BOOLEAN
  PROVE  /\ Switched(content, i, value) \in Content
         /\ Switched(content, i, value) # NoFile
<1>1. Switched(content, i, value) \in Content
  BY DEF Switched, Content
<1> QED BY <1>1, NoFileAssumption

-----------------------------------------------------------------------------
(* Type correctness                                                         *)

LEMMA TypeInit == Init => TypeOK /\ PendingInv
<1> SUFFICES ASSUME Init PROVE TypeOK /\ PendingInv
  OBVIOUS
<1>1. disk \in [Files -> Content \cup {NoFile}]
  <2>1. PICK on \in SUBSET Ids :
          disk = [f \in Files |->
                    IF f \in DOMAIN Vendor
                    THEN [origin |-> "vendor", ids |-> Vendor[f],
                          on |-> on \cap Vendor[f]]
                    ELSE NoFile]
    BY DEF Init
  <2>2. ASSUME NEW f \in DOMAIN Vendor
        PROVE  [origin |-> "vendor", ids |-> Vendor[f], on |-> on \cap Vendor[f]]
                 \in Content
    <3>1. Vendor[f] \subseteq Ids
      BY FilesAssumption
    <3> QED BY <3>1 DEF Content, Origins
  <2> QED BY <2>1, <2>2
<1>2. call \in [ids : Seq(Ids), value : BOOLEAN]
  BY DEF Init, NoCall
<1> QED BY <1>1, <1>2 DEF Init, TypeOK, PendingInv, Phases, Fresh, Unloaded

\* Each step keeps the types, and what the loops know of their files.
LEMMA TypeStep == TypeOK /\ PendingInv /\ [Next]_vars => TypeOK' /\ PendingInv'
<1> SUFFICES ASSUME TypeOK, PendingInv, [Next]_vars
             PROVE  TypeOK' /\ PendingInv'
  OBVIOUS
<1> USE DEF TypeOK, PendingInv, Phases, diskVars, progVars, histVars
<1>1. CASE Start
  BY <1>1, ChoicesAssumption DEF Start
<1>2. ASSUME NEW f \in Files, PurgeBackup(f) PROVE TypeOK' /\ PendingInv'
  BY <1>2 DEF PurgeBackup
<1>3. CASE PurgeDone
  BY <1>3 DEF PurgeDone
<1>4. CASE CheckBackup
  BY <1>4 DEF CheckBackup, Listed
<1>5. ASSUME NEW f \in Files, CopyBegin(f) PROVE TypeOK' /\ PendingInv'
  BY <1>5 DEF CopyBegin
<1>6. ASSUME NEW f \in Files, CopyEnd(f) PROVE TypeOK' /\ PendingInv'
  BY <1>6 DEF CopyEnd
<1>7. CASE CopyDone
  BY <1>7 DEF CopyDone, Listed_i
<1>8. ASSUME NEW f \in Files, RemoveFile(f) PROVE TypeOK' /\ PendingInv'
  BY <1>8 DEF RemoveFile
<1>9. CASE RemoveDone
  BY <1>9 DEF RemoveDone
<1>10. CASE ListExisting
  BY <1>10, FilesAssumption DEF ListExisting, Listed
<1>11. ASSUME NEW f \in Files, GenerateFile(f) PROVE TypeOK' /\ PendingInv'
  <2>1. Assembled(f) \in Content
    BY <1>11, AssembledFacts DEF GenerateFile
  <2>2. Merged(disk[f], Assembled(f)) \in Content
    BY <2>1, MergedFacts
  <2> QED BY <1>11, <2>2 DEF GenerateFile
<1>12. CASE GenerateDone
  BY <1>12 DEF GenerateDone, Listed, On
<1>13. ASSUME NEW f \in Files, LoadFile(f) PROVE TypeOK' /\ PendingInv'
  <2>1. CASE Parses(f)
    <3>1. disk[f] \in Content
      BY <1>13 DEF LoadFile
    <3>2. index' \in [Ids -> Files \cup {NoFile}]
      BY <1>13, <2>1 DEF LoadFile, Indexed
    <3>3. ASSUME NEW i \in Ids, index'[i] # NoFile PROVE mem'[index'[i]] # NoFile
      BY <1>13, <2>1, <3>1, <3>3, NoFileAssumption DEF LoadFile, Indexed
    <3> QED BY <1>13, <2>1, <3>1, <3>2, <3>3 DEF LoadFile
  <2>2. CASE ~Parses(f)
    BY <1>13, <2>2 DEF LoadFile
  <2> QED BY <2>1, <2>2
<1>14. CASE LoadDone
  BY <1>14, CallsAssumption DEF LoadDone
<1>15. CASE MarkNext
  <2> DEFINE i == Head(call.ids)
             new == Switched(mem[index[i]], i, call.value)
  <2>1. CASE index[i] # NoFile
    <3>1. i \in Ids /\ Tail(call.ids) \in Seq(Ids)
      BY <1>15 DEF MarkNext
    <3>2. index[i] \in Files /\ mem[index[i]] \in Content
      BY <2>1, <3>1
    <3>3. new \in Content /\ new # NoFile
      BY <3>1, <3>2, SwitchedFacts
    <3>4. call' = [ids |-> Tail(call.ids), value |-> call.value]
      BY <1>15, <2>1 DEF MarkNext
    <3>5. /\ mem' = [mem EXCEPT ![index[i]] = new]
          /\ pending' = pending \cup {index[i]}
          /\ phase = "mark"
          /\ UNCHANGED <<diskVars, phase, flavour, index, histVars>>
      BY <1>15, <2>1 DEF MarkNext
    <3> QED BY <3>1, <3>2, <3>3, <3>4, <3>5
  <2>2. CASE index[i] = NoFile
    BY <1>15, <2>2 DEF MarkNext
  <2> QED BY <2>1, <2>2
<1>16. CASE MarkDone
  BY <1>16 DEF MarkDone
<1>17. ASSUME NEW f \in Files, SaveFile(f) PROVE TypeOK' /\ PendingInv'
  <2>1. mem[f] \in Content
    BY <1>17 DEF SaveFile
  <2>2. Merged(disk[f], mem[f]) \in Content
    BY <2>1, MergedFacts
  <2> QED BY <1>17, <2>2 DEF SaveFile
<1>18. CASE SaveDone
  BY <1>18 DEF SaveDone
<1>19. ASSUME NEW c \in Calls, EnableMany(c) PROVE TypeOK' /\ PendingInv'
  BY <1>19, CallsAssumption DEF EnableMany
<1>20. ASSUME NEW s \in Singles, EnableOne(s) PROVE TypeOK' /\ PendingInv'
  <2> DEFINE f == index[s.id]
             new == Switched(mem[f], s.id, s.value)
  <2>1. s.id \in Ids /\ s.value \in BOOLEAN
    BY CallsAssumption
  <2>2. CASE f # NoFile
    <3>1. f \in Files /\ mem[f] \in Content
      BY <2>1, <2>2
    <3>2. new \in Content /\ new # NoFile
      BY <2>1, <3>1, SwitchedFacts
    <3>3. Merged(disk[f], new) \in Content
      BY <3>1, <3>2, MergedFacts
    <3>4. /\ mem' = [mem EXCEPT ![f] = new]
          /\ disk' = [disk EXCEPT ![f] = Merged(@, new)]
          /\ phase = "ready"
          /\ UNCHANGED <<backupDir, backup, phase, pending, flavour, index, call, histVars>>
      BY <1>20, <2>2 DEF EnableOne
    <3> QED BY <3>1, <3>2, <3>3, <3>4
  <2>3. CASE f = NoFile
    BY <1>20, <2>3 DEF EnableOne
  <2> QED BY <2>2, <2>3
<1>21. CASE Exit
  BY <1>21 DEF Exit, MemoryLost, Fresh, Unloaded, NoCall
<1>22. CASE Die
  BY <1>22 DEF Die, MemoryLost, Fresh, Unloaded, NoCall
<1>23. ASSUME NEW p \in DOMAIN Package, PackageDrops(p) PROVE TypeOK' /\ PendingInv'
  <2>1. Package[p] \subseteq Ids /\ p \in Files
    BY FilesAssumption
  <2> DEFINE new == [origin |-> "package", ids |-> Package[p], on |-> Package[p]]
  <2>2. new \in Content
    BY <2>1 DEF Content, Origins
  <2>3. disk' = [disk EXCEPT ![p] = new]
    BY <1>23 DEF PackageDrops
  <2>4. disk' \in [Files -> Content \cup {NoFile}]
    BY <2>1, <2>2, <2>3
  <2> QED BY <1>23, <2>4 DEF PackageDrops
<1>24. CASE UNCHANGED vars
  BY <1>24 DEF vars
<1> QED
  BY <1>1, <1>2, <1>3, <1>4, <1>5, <1>6, <1>7, <1>8, <1>9, <1>10, <1>11, <1>12, <1>13, <1>14, <1>15, <1>16, <1>17, <1>18, <1>19, <1>20, <1>21, <1>22, <1>23, <1>24 DEF Next, Initialize

-----------------------------------------------------------------------------
(* The backup directory and the vendor's files                              *)

LEMMA KeptInit == Init => (~purged => Kept)
<1> SUFFICES ASSUME Init PROVE Kept
  OBVIOUS
<1>1. PICK on \in SUBSET Ids :
        disk = [f \in Files |->
                  IF f \in DOMAIN Vendor
                  THEN [origin |-> "vendor", ids |-> Vendor[f],
                        on |-> on \cap Vendor[f]]
                  ELSE NoFile]
  BY DEF Init
<1>2. \A f \in DOMAIN Vendor : VendorOnDisk(f)
  <2> TAKE f \in DOMAIN Vendor
  <2>1. f \in Files /\ Vendor[f] \subseteq Ids
    BY FilesAssumption
  <2>2. disk[f] \in Content /\ disk[f].origin = "vendor"
    BY <1>1, <2>1 DEF Content, Origins
  <2> QED BY <2>2, NoFileAssumption DEF VendorOnDisk, On
<1>3. PristineInv
  BY <1>1 DEF PristineInv, On, Generated
<1> QED
  BY <1>2, <1>3, NoFileAssumption
  DEF Init, Kept, BackupInv, MoveInv, VendorPreserved, BackupIsPristine

\* Saving a file of the project over the disk removes no file of the vendor.
LEMMA SaveKeepsVendor ==
  ASSUME TypeOK, NEW f \in Files, NEW new \in Content,
         disk' = [disk EXCEPT ![f] = Merged(@, new)],
         NEW g \in Files, VendorOnDisk(g)
  PROVE  VendorOnDisk(g)'
<1>1. CASE g = f
  <2>1. disk[f] # NoFile /\ disk[f].origin = "vendor"
    BY <1>1 DEF VendorOnDisk, On
  <2>2. disk'[f] = Merged(disk[f], new)
    BY DEF TypeOK
  <2>3. disk'[f] # NoFile /\ disk'[f].origin = "vendor"
    BY <2>1, <2>2, MergedFacts DEF TypeOK
  <2> QED BY <1>1, <2>3 DEF VendorOnDisk, On
<1>2. CASE g # f
  BY <1>2 DEF TypeOK, VendorOnDisk, On
<1> QED BY <1>1, <1>2

\* A step that --force backups has not spoilt keeps what is known of the backup.
LEMMA KeptStep == IInv /\ TypeOK' /\ [Next]_vars => (~purged' => Kept')
<1> SUFFICES ASSUME IInv, TypeOK', [Next]_vars, ~purged'
             PROVE  Kept'
  OBVIOUS
<1>0. ~purged /\ Kept
  BY DEF IInv, Next, vars, Initialize, Start, diskVars, histVars, progVars,
         TypeOK, PurgeBackup, PurgeDone, CheckBackup, CopyBegin, CopyEnd, CopyDone,
         RemoveFile, RemoveDone, ListExisting, GenerateFile, GenerateDone,
         LoadFile, LoadDone, MarkNext, MarkDone, SaveFile, SaveDone, EnableMany,
         EnableOne, MemoryLost, Exit, Die, PackageDrops
<1> USE DEF IInv, Kept, BackupInv, MoveInv, PristineInv, VendorPreserved,
            BackupIsPristine, diskVars, progVars, histVars
<1>1. CASE Start
  BY <1>0, <1>1 DEF Start, VendorOnDisk, InBackup, On
<1>2. ASSUME NEW f \in Files, PurgeBackup(f) PROVE Kept'
  BY <1>0, <1>2 DEF PurgeBackup, VendorOnDisk, InBackup, On
<1>3. CASE PurgeDone
  BY <1>0, <1>3 DEF PurgeDone, VendorOnDisk, InBackup, On
<1>4. CASE CheckBackup
  <2>1. CASE backupDir
    BY <1>0, <1>4, <2>1 DEF CheckBackup, VendorOnDisk, InBackup, On
  <2>2. CASE ~backupDir
    <3>1. \A f \in V : f \in Files /\ f \notin UpperCase
      BY FilesAssumption DEF V
    <3>2. /\ phase' = "copy" /\ pending' = Listed /\ backupDir'
          /\ UNCHANGED <<disk, backup>>
      BY <1>4, <2>2 DEF CheckBackup
    <3>3. \A f \in Files : backup[f] = NoFile
      BY <1>0, <2>2
    <3>4. \A f \in V : VendorOnDisk(f)' => f \in pending'
      BY <3>1, <3>2 DEF Listed, VendorOnDisk, On
    <3>5. BackupInv'
      BY <3>2, <3>3 DEF Listed
    <3>6. PristineInv'
      BY <1>0, <2>2, <3>2 DEF On
    <3>7. VendorPreserved' /\ BackupIsPristine'
      BY <1>0, <3>2 DEF VendorOnDisk, InBackup, On
    <3> QED BY <3>2, <3>4, <3>5, <3>6, <3>7
  <2> QED BY <2>1, <2>2
<1>5. ASSUME NEW f \in Files, CopyBegin(f) PROVE Kept'
  <2>0. /\ phase = "copy" /\ f \in pending /\ backup[f] = NoFile
        /\ backup' = [backup EXCEPT ![f] = Partial]
        /\ phase' = "copying"
        /\ UNCHANGED <<disk, backupDir, pending, histVars>>
    BY <1>0, <1>5 DEF CopyBegin
  <2>1. \A g \in Files : backup'[g] = IF g = f THEN Partial ELSE backup[g]
    BY <2>0 DEF TypeOK
  <2>2. BackupInv'
    BY <1>0, <2>0, <2>1 DEF TypeOK
  <2>3. \A g \in Files : InBackup(g) => InBackup(g)'
    BY <2>0, <2>1, NoFileAssumption DEF InBackup
  <2>4. \A g \in V : g \in Files
    BY FilesAssumption DEF V
  <2>5. MoveInv'
    BY <1>0, <2>0, <2>3, <2>4 DEF VendorOnDisk, On
  <2>6. PristineInv'
    BY <1>0, <2>0 DEF On
  <2>7. VendorPreserved'
    BY <1>0, <2>0, <2>3, FilesAssumption DEF VendorOnDisk, On
  <2>8. BackupIsPristine'
    BY <1>0, <2>1, NoFileAssumption
  <2> QED BY <2>2, <2>5, <2>6, <2>7, <2>8
<1>6. ASSUME NEW f \in Files, CopyEnd(f) PROVE Kept'
  <2>0. /\ phase = "copying" /\ f \in pending /\ backup[f] = Partial
        /\ backup' = [backup EXCEPT ![f] = disk[f]]
        /\ pending' = pending \ {f} /\ phase' = "copy"
        /\ UNCHANGED <<disk, backupDir, histVars>>
    BY <1>6 DEF CopyEnd
  <2>1. \A g \in Files : backup'[g] = IF g = f THEN disk[f] ELSE backup[g]
    BY <2>0 DEF TypeOK
  <2>2. \A g \in pending' : backup[g] = NoFile /\ g # f
    BY <1>0, <2>0, NoFileAssumption
  <2>3. BackupInv'
    BY <1>0, <2>0, <2>1, <2>2 DEF TypeOK
  <2>4. \A g \in Files : InBackup(g) /\ g # f => InBackup(g)'
    BY <2>1 DEF InBackup
  <2>5. VendorOnDisk(f) => InBackup(f)'
    BY <2>1 DEF VendorOnDisk, InBackup, On, TypeOK
  <2>6. \A g \in V : g \in Files
    BY FilesAssumption DEF V
  <2>7. ~InBackup(f)
    BY <2>0, NoFileAssumption DEF InBackup
  <2>8. MoveInv'
    BY <1>0, <2>0, <2>4, <2>5, <2>6, <2>7 DEF VendorOnDisk, On
  <2>9. PristineInv'
    BY <1>0, <2>0 DEF On
  <2>10. VendorPreserved'
    BY <1>0, <2>0, <2>4, <2>7, FilesAssumption DEF VendorOnDisk, On
  <2>11. BackupIsPristine'
    BY <1>0, <2>0, <2>1, NoFileAssumption DEF On, TypeOK
  <2> QED BY <2>3, <2>8, <2>9, <2>10, <2>11
<1>7. CASE CopyDone
  BY <1>0, <1>7 DEF CopyDone, VendorOnDisk, InBackup, On
<1>8. ASSUME NEW f \in Files, RemoveFile(f) PROVE Kept'
  <2>0. /\ phase = "remove"
        /\ disk' = [disk EXCEPT ![f] = NoFile]
        /\ UNCHANGED <<backupDir, backup, phase, histVars>>
    BY <1>8 DEF RemoveFile
  <2>1. \A g \in Files : VendorOnDisk(g)' => VendorOnDisk(g) /\ g # f
    BY <2>0 DEF TypeOK, VendorOnDisk, On
  <2>2. \A g \in V : g \in Files
    BY FilesAssumption DEF V
  <2>3. MoveInv'
    BY <1>0, <2>0, <2>1, <2>2 DEF InBackup
  <2>4. \A g \in V : InBackup(g)
    BY <1>0, <2>0 DEF V
  <2>5. VendorPreserved'
    BY <2>0, <2>4 DEF InBackup, V
  <2>6. BackupInv' /\ PristineInv' /\ BackupIsPristine'
    BY <1>0, <2>0
  <2> QED BY <2>3, <2>5, <2>6
<1>9. CASE RemoveDone
  BY <1>0, <1>9 DEF RemoveDone, VendorOnDisk, InBackup, On
<1>10. CASE ListExisting
  BY <1>0, <1>10 DEF ListExisting, VendorOnDisk, InBackup, On
<1>11. ASSUME NEW f \in Files, GenerateFile(f) PROVE Kept'
  <2>0. /\ phase = "generate" /\ f \in pending
        /\ disk' = [disk EXCEPT ![f] = Merged(@, Assembled(f))]
        /\ UNCHANGED <<backupDir, backup, phase, histVars>>
    BY <1>11 DEF GenerateFile
  <2>1. Assembled(f) \in Content
    BY <2>0, AssembledFacts DEF PendingInv
  <2>2. \A g \in Files : VendorOnDisk(g) => VendorOnDisk(g)'
    BY <2>0, <2>1, SaveKeepsVendor
  <2>3. VendorPreserved'
    BY <1>0, <2>0, <2>2, FilesAssumption DEF InBackup
  <2> QED BY <1>0, <2>0, <2>3
<1>12. CASE GenerateDone
  BY <1>0, <1>12 DEF GenerateDone, VendorOnDisk, InBackup, On
<1>13. ASSUME NEW f \in Files, LoadFile(f) PROVE Kept'
  BY <1>0, <1>13 DEF LoadFile, VendorOnDisk, InBackup, On
<1>14. CASE LoadDone
  BY <1>0, <1>14 DEF LoadDone, VendorOnDisk, InBackup, On
<1>15. CASE MarkNext
  BY <1>0, <1>15 DEF MarkNext, VendorOnDisk, InBackup, On
<1>16. CASE MarkDone
  BY <1>0, <1>16 DEF MarkDone, VendorOnDisk, InBackup, On
<1>17. ASSUME NEW f \in Files, SaveFile(f) PROVE Kept'
  <2>0. /\ phase = "save" /\ f \in pending
        /\ disk' = [disk EXCEPT ![f] = Merged(@, mem[f])]
        /\ UNCHANGED <<backupDir, backup, phase, histVars>>
    BY <1>17 DEF SaveFile
  <2>1. mem[f] \in Content
    BY <2>0 DEF PendingInv, TypeOK
  <2>2. \A g \in Files : VendorOnDisk(g) => VendorOnDisk(g)'
    BY <2>0, <2>1, SaveKeepsVendor
  <2>3. VendorPreserved'
    BY <1>0, <2>0, <2>2, FilesAssumption DEF InBackup
  <2> QED BY <1>0, <2>0, <2>3
<1>18. CASE SaveDone
  BY <1>0, <1>18 DEF SaveDone, VendorOnDisk, InBackup, On
<1>19. ASSUME NEW c \in Calls, EnableMany(c) PROVE Kept'
  BY <1>0, <1>19 DEF EnableMany, VendorOnDisk, InBackup, On
<1>20. ASSUME NEW s \in Singles, EnableOne(s) PROVE Kept'
  <2> DEFINE f == index[s.id]
             new == Switched(mem[f], s.id, s.value)
  <2>0. phase = "ready" /\ phase' \in {"ready", "failed"}
        /\ UNCHANGED <<backupDir, backup, pending, histVars>>
    BY <1>20 DEF EnableOne
  <2>1. \A g \in Files : VendorOnDisk(g) => VendorOnDisk(g)'
    <3>1. CASE f # NoFile
      <4>1. s.id \in Ids /\ s.value \in BOOLEAN
        BY CallsAssumption
      <4>2. f \in Files /\ mem[f] \in Content
        BY <3>1, <4>1 DEF TypeOK, PendingInv
      <4>3. new \in Content
        BY <4>1, <4>2, SwitchedFacts
      <4>4. disk' = [disk EXCEPT ![f] = Merged(@, new)]
        BY <1>20, <3>1 DEF EnableOne
      <4> QED BY <4>2, <4>3, <4>4, SaveKeepsVendor
    <3>2. CASE f = NoFile
      BY <1>20, <3>2 DEF EnableOne, VendorOnDisk, On
    <3> QED BY <3>1, <3>2
  <2>2. VendorPreserved'
    BY <1>0, <2>0, <2>1, FilesAssumption DEF InBackup
  <2> QED BY <1>0, <2>0, <2>2
<1>21. CASE Exit
  BY <1>0, <1>21 DEF Exit, MemoryLost, VendorOnDisk, InBackup, On
<1>22. CASE Die
  BY <1>0, <1>22 DEF Die, MemoryLost, VendorOnDisk, InBackup, On
<1>23. ASSUME NEW p \in DOMAIN Package, PackageDrops(p) PROVE Kept'
  <2> DEFINE new == [origin |-> "package", ids |-> Package[p], on |-> Package[p]]
  <2>0. /\ phase \in {"off", "ready"} /\ disk[p] = NoFile
        /\ disk' = [disk EXCEPT ![p] = new]
        /\ UNCHANGED <<backupDir, backup, phase, pending, histVars>>
    BY <1>23 DEF PackageDrops
  <2>1. \A g \in Files : disk'[g] = IF g = p THEN new ELSE disk[g]
    BY <2>0 DEF TypeOK
  <2>2. \A g \in Files : VendorOnDisk(g) => VendorOnDisk(g)'
    BY <2>0, <2>1 DEF VendorOnDisk, On
  <2>3. VendorPreserved'
    BY <1>0, <2>0, <2>2, FilesAssumption DEF InBackup
  <2>4. PristineInv'
    BY <1>0, <2>0, <2>1 DEF On, Generated
  <2> QED BY <1>0, <2>0, <2>3, <2>4
<1>24. CASE UNCHANGED vars
  BY <1>0, <1>24 DEF vars, VendorOnDisk, InBackup, On
<1> QED
  BY <1>1, <1>2, <1>3, <1>4, <1>5, <1>6, <1>7, <1>8, <1>9, <1>10, <1>11, <1>12, <1>13, <1>14, <1>15, <1>16, <1>17, <1>18, <1>19, <1>20, <1>21, <1>22, <1>23, <1>24 DEF Next, Initialize

-----------------------------------------------------------------------------
(* Theorems                                                                 *)

\* Every behaviour keeps the inductive invariant.
LEMMA Inductive == Spec => []IInv
<1>1. Init => IInv
  BY TypeInit, KeptInit DEF IInv
<1>2. IInv /\ [Next]_vars => IInv'
  BY TypeStep, KeptStep DEF IInv
<1> QED BY <1>1, <1>2, PTL DEF Spec

\* The variables keep their types: in particular nothing is ever loaded,
\* switched or saved that is not a whole file (RPMRepositoryFile).
THEOREM TypeCorrect == Spec => []TypeOK
<1>1. IInv => TypeOK
  BY DEF IInv
<1> QED BY <1>1, Inductive, PTL

\* No interruption, at any step of any run, loses a vendor's .repo file
\* (backupFilesByExtension), as long as no run is given --force backups.
THEOREM VendorSafe == Spec => []VendorPreserved
<1>1. IInv => VendorPreserved
  BY DEF IInv, Kept, VendorPreserved
<1> QED BY <1>1, Inductive, PTL

\* Nor does any number of runs put a generated file in the backup directory.
THEOREM Pristine == Spec => []BackupIsPristine
<1>1. IInv => BackupIsPristine
  BY DEF IInv, Kept, BackupIsPristine
<1> QED BY <1>1, Inductive, PTL

-----------------------------------------------------------------------------
(* --force backups                                                          *)

\* A forced run finds no backup, removes every file and generates the distribution's.
ForceInv ==
  forced =>
    /\ phase = "check" => ~backupDir
    /\ phase = "remove" => \A f \in Files : On(f) => f \in pending
    /\ phase = "list" => \A f \in Files : ~On(f)
    /\ phase = "generate" =>
         \A f \in DOMAIN Distro : IF On(f) THEN disk[f].origin = flavour ELSE f \in pending
    /\ phase \in {"load", "mark", "save", "ready"} =>
         \A f \in DOMAIN Distro : On(f) /\ disk[f].origin = flavour

\* Saving keeps the origin of a file, and takes none away.
LEMMA SaveKeepsOrigin ==
  ASSUME TypeOK, NEW f \in Files, NEW new \in Content,
         disk' = [disk EXCEPT ![f] = Merged(disk[f], new)],
         NEW g \in Files, On(g)
  PROVE  On(g)' /\ disk'[g].origin = disk[g].origin
<1>1. CASE g = f
  BY <1>1, MergedFacts DEF On, TypeOK
<1>2. CASE g # f
  BY <1>2 DEF On, TypeOK
<1> QED BY <1>1, <1>2

LEMMA ForceNext ==
  ASSUME TypeOK, PendingInv, ForceInv, [Next]_vars
  PROVE  ForceInv'
<1> USE DEF ForceInv, diskVars, progVars, histVars
<1>0. DOMAIN Distro \subseteq Files \ UpperCase
  BY FilesAssumption
<1>1. CASE Start
  BY <1>1 DEF Start
<1>2. ASSUME NEW f \in Files, PurgeBackup(f) \/ CopyBegin(f) \/ CopyEnd(f)
      PROVE  ForceInv'
  BY <1>2 DEF PurgeBackup, CopyBegin, CopyEnd
<1>3. CASE PurgeDone \/ CheckBackup
  BY <1>3 DEF PurgeDone, CheckBackup
<1>4. CASE CopyDone
  BY <1>4 DEF CopyDone, Listed_i, On
<1>5. ASSUME NEW f \in Files, RemoveFile(f) PROVE ForceInv'
  BY <1>5 DEF RemoveFile, On, TypeOK
<1>6. CASE RemoveDone
  BY <1>6 DEF RemoveDone, On
<1>7. CASE ListExisting
  BY <1>7, <1>0 DEF ListExisting, Listed, On
<1>8. ASSUME NEW f \in Files, GenerateFile(f) PROVE ForceInv'
  <2>1. /\ phase = "generate" /\ phase' = "generate" /\ f \in pending /\ pending' = pending \ {f}
        /\ disk' = [disk EXCEPT ![f] = Merged(disk[f], Assembled(f))]
        /\ UNCHANGED <<flavour, forced>>
    BY <1>8 DEF GenerateFile
  <2>2. Assembled(f) \in Content /\ (f \in DOMAIN Distro => Assembled(f).origin = flavour)
    BY <2>1, AssembledFacts DEF PendingInv, Assembled
  <2>3. \A g \in Files : On(g) => On(g)' /\ disk'[g].origin = disk[g].origin
    BY <2>1, <2>2, SaveKeepsOrigin
  <2>4. \A g \in Files : g # f => disk'[g] = disk[g]
    BY <2>1 DEF TypeOK
  <2>5. ~On(f) => disk'[f] = Assembled(f)
    BY <2>1, <2>2, MergedFacts DEF On, TypeOK
  <2>6. ASSUME forced, NEW g \in DOMAIN Distro
        PROVE  IF On(g)' THEN disk'[g].origin = flavour ELSE g \in pending'
    <3>1. CASE On(g)
      BY <3>1, <2>1, <2>3, <2>6, <1>0
    <3>2. CASE ~On(g) /\ g = f
      BY <3>2, <2>2, <2>5, NoFileAssumption DEF On
    <3>3. CASE ~On(g) /\ g # f
      BY <3>3, <2>1, <2>4, <2>6, <1>0 DEF On
    <3> QED BY <3>1, <3>2, <3>3
  <2> QED BY <2>1, <2>6
<1>9. CASE GenerateDone
  BY <1>9 DEF GenerateDone, On
<1>10. CASE LoadDone \/ MarkNext \/ MarkDone \/ SaveDone
  BY <1>10 DEF LoadDone, MarkNext, MarkDone, SaveDone, On
<1>11. ASSUME NEW f \in Files, LoadFile(f) PROVE ForceInv'
  BY <1>11 DEF LoadFile, On
<1>12. ASSUME NEW f \in Files, SaveFile(f) PROVE ForceInv'
  <2>1. /\ phase = "save" /\ phase' = "save" /\ mem[f] \in Content
        /\ disk' = [disk EXCEPT ![f] = Merged(disk[f], mem[f])]
        /\ UNCHANGED <<flavour, forced>>
    BY <1>12 DEF SaveFile, PendingInv, TypeOK
  <2> QED BY <2>1, <1>0, SaveKeepsOrigin
<1>13. ASSUME NEW c \in Calls, EnableMany(c) PROVE ForceInv'
  BY <1>13 DEF EnableMany, On
<1>14. ASSUME NEW s \in Singles, EnableOne(s) PROVE ForceInv'
  <2>1. CASE index[s.id] = NoFile
    BY <1>14, <2>1 DEF EnableOne, On
  <2>2. CASE index[s.id] # NoFile
    <3>1. s.id \in Ids /\ s.value \in BOOLEAN
      BY CallsAssumption
    <3>2. index[s.id] \in Files /\ mem[index[s.id]] \in Content
      BY <2>2, <3>1 DEF TypeOK, PendingInv
    <3>3. Switched(mem[index[s.id]], s.id, s.value) \in Content
      BY <3>1, <3>2, SwitchedFacts
    <3>4. /\ phase = "ready" /\ phase' = "ready" /\ UNCHANGED <<flavour, forced>>
          /\ disk' = [disk EXCEPT ![index[s.id]] =
                        Merged(disk[index[s.id]], Switched(mem[index[s.id]], s.id, s.value))]
      BY <1>14, <2>2 DEF EnableOne
    <3> QED BY <3>2, <3>3, <3>4, <1>0, SaveKeepsOrigin
  <2> QED BY <2>1, <2>2
<1>15. CASE Exit \/ Die
  BY <1>15 DEF Exit, Die, MemoryLost
<1>16. ASSUME NEW p \in DOMAIN Package, PackageDrops(p) PROVE ForceInv'
  BY <1>16, <1>0 DEF PackageDrops, On, TypeOK
<1>17. CASE UNCHANGED vars
  BY <1>17 DEF vars, On
<1> QED BY <1>1, <1>2, <1>3, <1>4, <1>5, <1>6, <1>7, <1>8, <1>9, <1>10, <1>11, <1>12, <1>13, <1>14,
           <1>15, <1>16, <1>17 DEF Next, Initialize

\* Every behaviour keeps what a forced run finds.
LEMMA Forced == Spec => [](TypeOK /\ PendingInv /\ ForceInv)
<1>1. Init => ForceInv
  BY DEF Init, ForceInv
<1>2. TypeOK /\ PendingInv /\ ForceInv /\ [Next]_vars => ForceInv'
  BY ForceNext
<1> QED BY <1>1, <1>2, TypeInit, TypeStep, PTL DEF Spec

\* Whatever earlier runs left, a run with --force backups that gets to its end has
\* generated each file of the distribution itself, for the flavour it chose
\* (backupFilesByExtension, RepoGenerator::generate).
THEOREM ForcedAnew == Spec => []ForceRegenerates
<1>1. ForceInv => ForceRegenerates
  BY DEF ForceInv, ForceRegenerates
<1> QED BY <1>1, Forced, PTL
=============================================================================
