--------------------------- MODULE RepoStoreProofs ---------------------------
(***************************************************************************)
(* The objects that RepoManager has in memory against the files on disk,   *)
(* and from that the proof that Repos implements RepoStore, for every set  *)
(* of files, ids and calls and every point at which a run dies.            *)
(***************************************************************************)
EXTENDS ReposProofs

Active == {"load", "mark", "save", "ready"}

Agrees(f, i) == i \in mem[f].on <=> i \in disk[f].on

\* Switched in memory by the call in progress, and the file remembered in toSave.
Waiting(f, i) ==
  /\ phase \in {"mark", "save"}
  /\ index[i] = f /\ f \in pending /\ (i \in mem[f].on <=> call.value)

\* Each object has the ids of its file and, but for what waits, its switches.
AgreeInv ==
  /\ phase \notin Active \cup {"failed"} => mem = Unloaded /\ index = Fresh
  /\ phase \in Active =>
       /\ \A f \in Files : mem[f] # NoFile =>
            /\ disk[f] # NoFile /\ mem[f].ids = disk[f].ids
            /\ \A i \in mem[f].ids : Agrees(f, i) \/ Waiting(f, i)
       /\ \A i \in Ids : index[i] # NoFile => i \in mem[index[i]].ids
  /\ phase = "save" => call.ids = <<>>

-----------------------------------------------------------------------------
(* Saving and switching                                                     *)

\* Saving an object over the file that it was loaded from makes both agree.
LEMMA MergedAgrees ==
  ASSUME NEW old \in Content, NEW new \in Content, old.ids = new.ids
  PROVE  /\ Merged(old, new).ids = new.ids
         /\ \A i \in new.ids : i \in Merged(old, new).on <=> i \in new.on
<1>1. old # NoFile
  BY NoFileAssumption
<1> QED BY <1>1 DEF Merged

\* A switch changes nothing but that switch.
LEMMA SwitchedOnly ==
  ASSUME NEW content \in Content, NEW i, NEW value \in BOOLEAN
  PROVE  /\ Switched(content, i, value).ids = content.ids
         /\ \A j : j \in Switched(content, i, value).on <=>
                     IF j = i THEN value ELSE j \in content.on
BY DEF Switched, Content

-----------------------------------------------------------------------------
(* Memory and disk                                                          *)

\* Each statement keeps objects and files in agreement, or waiting for it.
LEMMA AgreeNext ==
  ASSUME TypeOK, PendingInv, AgreeInv, TypeOK', PendingInv', [Next]_vars
  PROVE  AgreeInv'
<1> USE DEF diskVars, progVars, histVars, Active
<1>0. mem \in [Files -> Content \cup {NoFile}] /\ disk \in [Files -> Content \cup {NoFile}]
      /\ index \in [Ids -> Files \cup {NoFile}] /\ call.value \in BOOLEAN
  BY DEF TypeOK
<1>1. ASSUME phase \notin Active \cup {"failed"}, phase' \notin Active \cup {"failed"},
             UNCHANGED <<mem, index>>
      PROVE  AgreeInv'
  BY <1>1 DEF AgreeInv, Unloaded, Fresh
<1>2. ASSUME UNCHANGED <<disk, mem, index, call, phase, pending>>
      PROVE  AgreeInv'
  BY <1>2 DEF AgreeInv, Agrees, Waiting, Unloaded, Fresh
<1>3. CASE Start
  BY <1>3, <1>1 DEF Start
<1>4. ASSUME NEW f \in Files, PurgeBackup(f) \/ CopyBegin(f) \/ CopyEnd(f) \/ RemoveFile(f)
                                \/ GenerateFile(f)
      PROVE  AgreeInv'
  BY <1>4, <1>1 DEF PurgeBackup, CopyBegin, CopyEnd, RemoveFile, GenerateFile
<1>5. CASE PurgeDone \/ CheckBackup \/ CopyDone \/ RemoveDone \/ ListExisting
  BY <1>5, <1>1 DEF PurgeDone, CheckBackup, CopyDone, RemoveDone, ListExisting
<1>6. CASE GenerateDone
  BY <1>6 DEF GenerateDone, AgreeInv, Unloaded, Fresh
<1>7. ASSUME NEW f \in Files, LoadFile(f) PROVE AgreeInv'
  <2>1. CASE ~Parses(f)
    BY <1>7, <2>1 DEF LoadFile, AgreeInv
  <2>2. CASE Parses(f)
    <3>1. /\ phase = "load" /\ phase' = "load" /\ f \in pending
          /\ mem' = [mem EXCEPT ![f] = disk[f]] /\ index' = Indexed(f)
          /\ UNCHANGED disk
      BY <1>7, <2>2 DEF LoadFile
    <3>2. disk[f] \in Content
      BY <1>0, <3>1 DEF PendingInv
    <3>3. \A g \in Files : mem'[g] # NoFile =>
            /\ disk'[g] # NoFile /\ mem'[g].ids = disk'[g].ids
            /\ \A i \in mem'[g].ids : i \in mem'[g].on <=> i \in disk'[g].on
      BY <1>0, <3>1, <3>2, NoFileAssumption DEF AgreeInv, Agrees, Waiting
    <3>4. ASSUME NEW i \in Ids, index'[i] # NoFile PROVE i \in mem'[index'[i]].ids
      <4>1. index'[i] = IF i \in disk[f].ids /\ index[i] = NoFile THEN f ELSE index[i]
        BY <3>1 DEF Indexed
      <4>2. CASE index[i] = NoFile
        BY <4>1, <4>2, <3>4, <3>1, <1>0
      <4>3. CASE index[i] # NoFile
        <5>1. index'[i] = index[i] /\ index[i] \in Files /\ mem[index[i]] # NoFile
          BY <4>1, <4>3, <1>0 DEF PendingInv
        <5>2. i \in mem[index[i]].ids /\ mem[index[i]].ids = disk[index[i]].ids
          BY <4>3, <5>1, <3>1 DEF AgreeInv
        <5> QED BY <5>1, <5>2, <3>1, <1>0
      <4> QED BY <4>2, <4>3
    <3> QED BY <3>1, <3>3, <3>4 DEF AgreeInv, Agrees
  <2> QED BY <2>1, <2>2
<1>8. CASE LoadDone
  BY <1>8 DEF LoadDone, AgreeInv, Agrees, Waiting
<1>9. CASE MarkNext
  <2> DEFINE h == Head(call.ids)
             f == index[h]
  <2>1. CASE f = NoFile
    BY <1>9, <2>1 DEF MarkNext, AgreeInv
  <2>2. CASE f # NoFile
    <3>1. h \in Ids
      BY <1>9 DEF MarkNext, TypeOK
    <3>2. /\ phase = "mark" /\ phase' = "mark" /\ UNCHANGED <<disk, index>>
          /\ mem' = [mem EXCEPT ![f] = Switched(mem[f], h, call.value)]
          /\ pending' = pending \cup {f} /\ call'.value = call.value
      BY <1>9, <2>2, <1>0 DEF MarkNext, TypeOK
    <3>3. f \in Files /\ mem[f] \in Content
      BY <3>1, <2>2, <1>0 DEF PendingInv
    <3> HIDE DEF h, f
    <3>4. /\ mem'[f].ids = mem[f].ids
          /\ \A j : j \in mem'[f].on <=> IF j = h THEN call.value ELSE j \in mem[f].on
      BY <3>2, <3>3, <1>0, SwitchedOnly
    <3>5. \A g \in Files : g # f => mem'[g] = mem[g]
      BY <3>2, <1>0
    <3>6. index[h] = f
      BY DEF f
    <3>7. ASSUME NEW g \in Files, mem'[g] # NoFile
          PROVE  /\ disk'[g] # NoFile /\ mem'[g].ids = disk'[g].ids
                 /\ \A i \in mem'[g].ids : Agrees(g, i)' \/ Waiting(g, i)'
      <4>1. mem[g] # NoFile
        BY <3>7, <3>3, <3>5, NoFileAssumption
      <4>2. /\ disk[g] # NoFile /\ mem[g].ids = disk[g].ids
            /\ \A i \in mem[g].ids : Agrees(g, i) \/ Waiting(g, i)
        BY <4>1, <3>2 DEF AgreeInv
      <4>3. mem'[g].ids = mem[g].ids
        BY <3>4, <3>5
      <4>4. ASSUME NEW i \in mem[g].ids PROVE Agrees(g, i)' \/ Waiting(g, i)'
        <5>1. CASE g = f /\ i = h
          BY <5>1, <3>2, <3>4, <3>6 DEF Waiting
        <5>2. CASE ~(g = f /\ i = h)
          <6>1. i \in mem'[g].on <=> i \in mem[g].on
            BY <5>2, <3>4, <3>5
          <6> QED BY <6>1, <4>2, <3>2 DEF Agrees, Waiting
        <5> QED BY <5>1, <5>2
      <4> QED BY <4>2, <4>3, <4>4, <3>2
    <3>8. ASSUME NEW i \in Ids, index'[i] # NoFile PROVE i \in mem'[index'[i]].ids
      BY <3>8, <3>2, <3>4, <3>5, <1>0 DEF AgreeInv
    <3> QED BY <3>2, <3>7, <3>8 DEF AgreeInv
  <2> QED BY <2>1, <2>2
<1>10. CASE MarkDone
  BY <1>10 DEF MarkDone, AgreeInv, Agrees, Waiting
<1>11. ASSUME NEW f \in Files, SaveFile(f) PROVE AgreeInv'
  <2>1. /\ phase = "save" /\ phase' = "save" /\ f \in pending /\ pending' = pending \ {f}
        /\ disk' = [disk EXCEPT ![f] = Merged(disk[f], mem[f])]
        /\ UNCHANGED <<mem, index, call>>
    BY <1>11 DEF SaveFile
  <2>2. mem[f] \in Content /\ disk[f] \in Content /\ mem[f].ids = disk[f].ids
    BY <2>1, <1>0 DEF PendingInv, AgreeInv
  <2>3. /\ disk'[f].ids = mem[f].ids /\ disk'[f] # NoFile
        /\ \A i \in mem[f].ids : i \in disk'[f].on <=> i \in mem[f].on
    BY <2>1, <2>2, <1>0, MergedAgrees, MergedFacts
  <2>4. \A g \in Files : g # f => disk'[g] = disk[g]
    BY <2>1, <1>0
  <2> QED BY <2>1, <2>3, <2>4 DEF AgreeInv, Agrees, Waiting
<1>12. CASE SaveDone
  BY <1>12 DEF SaveDone, AgreeInv, Agrees, Waiting
<1>13. ASSUME NEW c \in Calls, EnableMany(c) PROVE AgreeInv'
  BY <1>13 DEF EnableMany, AgreeInv, Agrees, Waiting
<1>14. ASSUME NEW s \in Singles, EnableOne(s) PROVE AgreeInv'
  <2>0. s.id \in Ids /\ s.value \in BOOLEAN
    BY CallsAssumption
  <2> DEFINE f == index[s.id]
             new == Switched(mem[f], s.id, s.value)
  <2>1. CASE f = NoFile
    BY <1>14, <2>1, <1>2 DEF EnableOne, AgreeInv, Agrees, Waiting
  <2>2. CASE f # NoFile
    <3>1. /\ phase = "ready" /\ phase' = "ready" /\ UNCHANGED index
          /\ mem' = [mem EXCEPT ![f] = new]
          /\ disk' = [disk EXCEPT ![f] = Merged(disk[f], new)]
      BY <1>14, <2>2 DEF EnableOne
    <3>2. f \in Files /\ mem[f] \in Content /\ disk[f] \in Content /\ mem[f].ids = disk[f].ids
      BY <2>0, <2>2, <3>1, <1>0 DEF PendingInv, AgreeInv
    <3>3. new \in Content /\ new.ids = disk[f].ids
      BY <2>0, <3>2, SwitchedFacts, SwitchedOnly
    <3> HIDE DEF f, new
    <3>4. mem'[f] = new /\ disk'[f] = Merged(disk[f], new)
          /\ \A g \in Files : g # f => mem'[g] = mem[g] /\ disk'[g] = disk[g]
      BY <3>1, <3>2, <1>0
    <3>5. /\ disk'[f] # NoFile /\ mem'[f].ids = disk'[f].ids /\ mem'[f].ids = mem[f].ids
          /\ \A i \in mem'[f].ids : i \in mem'[f].on <=> i \in disk'[f].on
      <4>1. /\ Merged(disk[f], new).ids = new.ids
            /\ \A i \in new.ids : i \in Merged(disk[f], new).on <=> i \in new.on
        BY <3>2, <3>3, MergedAgrees
      <4>2. Merged(disk[f], new) # NoFile
        BY <3>2, <3>3, MergedFacts
      <4> QED BY <3>2, <3>3, <3>4, <4>1, <4>2
    <3> QED BY <3>1, <3>4, <3>5, <1>0 DEF AgreeInv, Agrees, Waiting
  <2> QED BY <2>1, <2>2
<1>15. CASE Exit \/ Die
  BY <1>15 DEF Exit, Die, MemoryLost, AgreeInv, Fresh, Unloaded
<1>16. ASSUME NEW p \in DOMAIN Package, PackageDrops(p) PROVE AgreeInv'
  <2>1. CASE phase = "off"
    BY <1>16, <2>1, <1>1 DEF PackageDrops
  <2>2. CASE phase = "ready"
    <3>1. /\ phase' = "ready" /\ UNCHANGED <<mem, index>> /\ disk[p] = NoFile
          /\ \A g \in Files : g # p => disk'[g] = disk[g]
      BY <1>16, <2>2, <1>0 DEF PackageDrops
    <3>2. \A g \in Files : mem[g] # NoFile => disk[g] # NoFile
      BY <2>2 DEF AgreeInv
    <3> QED BY <2>2, <3>1, <3>2 DEF AgreeInv, Agrees, Waiting
  <2> QED BY <1>16, <2>1, <2>2 DEF PackageDrops
<1>17. CASE UNCHANGED vars
  BY <1>17, <1>2 DEF vars
<1> QED BY <1>3, <1>4, <1>5, <1>6, <1>7, <1>8, <1>9, <1>10, <1>11, <1>12, <1>13, <1>14, <1>15,
           <1>16, <1>17 DEF Next, Initialize

LEMMA Agreement == Spec => [](TypeOK /\ PendingInv /\ AgreeInv)
<1>1. Init => AgreeInv
  BY DEF Init, AgreeInv, Active
<1>2. TypeOK /\ PendingInv /\ AgreeInv /\ [Next]_vars => (TypeOK /\ PendingInv /\ AgreeInv)'
  BY TypeStep, AgreeNext
<1> QED BY <1>1, <1>2, TypeInit, PTL DEF Spec

\* Whatever was enabled, disabled, saved and reloaded, no object in memory has a
\* stale switch that a later save of its file could write back
\* (RPMRepositoryFile::save).
THEOREM NothingStale == Spec => []MemoryAgreesWithDisk
<1>1. TypeOK /\ PendingInv /\ AgreeInv => MemoryAgreesWithDisk
  BY DEF TypeOK, PendingInv, AgreeInv, MemoryAgreesWithDisk, Agrees, Waiting, Active, On
<1> QED BY <1>1, Agreement, PTL

-----------------------------------------------------------------------------
(* What the files say of an id                                              *)

Defines(f, i) == On(f) /\ i \in disk[f].ids

LEMMA OnDiskFacts ==
  ASSUME NEW i
  PROVE  /\ OnDisk(i) \subseteq BOOLEAN
         /\ TRUE \in OnDisk(i) <=> \E f \in Files : Defines(f, i) /\ i \in disk[f].on
         /\ FALSE \in OnDisk(i) <=> \E f \in Files : Defines(f, i) /\ i \notin disk[f].on
<1>1. OnDisk(i) \subseteq BOOLEAN
  BY DEF OnDisk
<1>2. TRUE \in OnDisk(i) <=>
        \E f \in Files : On(f) /\ i \in disk[f].ids /\ i \in disk[f].on
  BY Zenon DEF OnDisk
<1>3. FALSE \in OnDisk(i) <=>
        \E f \in Files : On(f) /\ i \in disk[f].ids /\ i \notin disk[f].on
  BY DEF OnDisk
<1> QED BY <1>1, <1>2, <1>3 DEF Defines

LEMMA OnDiskFactsNext ==
  ASSUME NEW i
  PROVE  /\ OnDisk(i)' \subseteq BOOLEAN
         /\ TRUE \in OnDisk(i)' <=> \E f \in Files : Defines(f, i)' /\ i \in disk'[f].on
         /\ FALSE \in OnDisk(i)' <=> \E f \in Files : Defines(f, i)' /\ i \notin disk'[f].on
<1>1. OnDisk(i)' \subseteq BOOLEAN
  BY DEF OnDisk
<1>2. TRUE \in OnDisk(i)' <=>
        \E f \in Files : On(f)' /\ i \in disk'[f].ids /\ i \in disk'[f].on
  BY DEF OnDisk
<1>3. FALSE \in OnDisk(i)' <=>
        \E f \in Files : On(f)' /\ i \in disk'[f].ids /\ i \notin disk'[f].on
  BY DEF OnDisk
<1> QED BY <1>1, <1>2, <1>3 DEF Defines

\* It is what it was if no file says otherwise.
LEMMA OnDiskKept ==
  ASSUME NEW i, \A f \in Files : Defines(f, i)' <=> Defines(f, i),
         \A f \in Files : Defines(f, i) => (i \in disk'[f].on <=> i \in disk[f].on)
  PROVE  OnDisk(i)' = OnDisk(i)
<1>1. TRUE \in OnDisk(i)' <=> TRUE \in OnDisk(i)
  BY OnDiskFacts, OnDiskFactsNext
<1>2. FALSE \in OnDisk(i)' <=> FALSE \in OnDisk(i)
  BY OnDiskFacts, OnDiskFactsNext
<1>3. OnDisk(i) \subseteq {TRUE, FALSE} /\ OnDisk(i)' \subseteq {TRUE, FALSE}
  BY OnDiskFacts, OnDiskFactsNext
<1>4. ASSUME NEW v PROVE v \in OnDisk(i)' <=> v \in OnDisk(i)
  BY <1>1, <1>2, <1>3
<1> QED BY <1>4

LEMMA SameDisk ==
  ASSUME UNCHANGED disk
  PROVE  \A i \in Ids : OnDisk(i)' = OnDisk(i)
BY DEF OnDisk, On

\* One file is saved with other switches: each id that it defines is switched to what
\* the file now says, and an id for which it says the same is left alone.
LEMMA SavedSwitches ==
  ASSUME TypeOK, NEW f \in Files, NEW new \in Content, disk[f] \in Content,
         disk[f].ids = new.ids, disk' = [disk EXCEPT ![f] = Merged(disk[f], new)], NEW i \in Ids
  PROVE  /\ i \notin new.ids \/ (i \in new.on <=> i \in disk[f].on) => OnDisk(i)' = OnDisk(i)
         /\ \A v \in BOOLEAN : i \in new.ids /\ (i \in new.on <=> v) =>
              v \in OnDisk(i)' /\ OnDisk(i)' \subseteq OnDisk(i) \cup {v}
<1>1. /\ disk'[f] = Merged(disk[f], new)
      /\ \A g \in Files : g # f => disk'[g] = disk[g]
  BY DEF TypeOK
<1>2. /\ disk[f] # NoFile /\ disk'[f] # NoFile /\ disk'[f].ids = new.ids
      /\ \A j \in new.ids : j \in disk'[f].on <=> j \in new.on
  <2>1. Merged(disk[f], new) # NoFile
    BY MergedFacts
  <2>2. /\ Merged(disk[f], new).ids = new.ids
        /\ \A j \in new.ids : j \in Merged(disk[f], new).on <=> j \in new.on
    BY MergedAgrees
  <2> QED BY <1>1, <2>1, <2>2, NoFileAssumption
<1>3. \A g \in Files : Defines(g, i)' <=> Defines(g, i)
  BY <1>1, <1>2 DEF Defines, On
<1>4. ASSUME i \notin new.ids \/ (i \in new.on <=> i \in disk[f].on)
      PROVE  OnDisk(i)' = OnDisk(i)
  <2>1. \A g \in Files : Defines(g, i) => (i \in disk'[g].on <=> i \in disk[g].on)
    BY <1>1, <1>2, <1>4 DEF Defines
  <2> QED BY <1>3, <2>1, OnDiskKept
<1>5. ASSUME i \in new.ids, i \in new.on
      PROVE  TRUE \in OnDisk(i)' /\ OnDisk(i)' \subseteq OnDisk(i) \cup {TRUE}
  <2>1. TRUE \in OnDisk(i)'
    BY <1>2, <1>5, OnDiskFactsNext DEF Defines, On
  <2>2. FALSE \in OnDisk(i)' => FALSE \in OnDisk(i)
    BY <1>1, <1>2, <1>3, <1>5, OnDiskFacts, OnDiskFactsNext
  <2> QED BY <2>1, <2>2, OnDiskFactsNext
<1>6. ASSUME i \in new.ids, i \notin new.on
      PROVE  FALSE \in OnDisk(i)' /\ OnDisk(i)' \subseteq OnDisk(i) \cup {FALSE}
  <2>1. FALSE \in OnDisk(i)'
    BY <1>2, <1>6, OnDiskFactsNext DEF Defines, On
  <2>2. TRUE \in OnDisk(i)' => TRUE \in OnDisk(i)
    BY <1>1, <1>2, <1>3, <1>6, OnDiskFacts, OnDiskFactsNext
  <2> QED BY <2>1, <2>2, OnDiskFactsNext
<1>7. ASSUME NEW v \in BOOLEAN, i \in new.ids, i \in new.on <=> v
      PROVE  v \in OnDisk(i)' /\ OnDisk(i)' \subseteq OnDisk(i) \cup {v}
  <2>1. CASE v = TRUE
    BY <2>1, <1>5, <1>7
  <2>2. CASE v = FALSE
    BY <2>2, <1>6, <1>7
  <2> QED BY <2>1, <2>2
<1> QED BY <1>4, <1>7

-----------------------------------------------------------------------------
(* Steps of the abstract store, by what Repos knows of a step               *)

LEMMA Stutters ==
  ASSUME UNCHANGED disk, Mode' = Mode, Mode # "switch"
  PROVE  UNCHANGED Store!vars
BY SameDisk DEF Store!vars

LEMMA SetsUp ==
  ASSUME Mode = "setup", Mode' = "setup",
         \A i \in Ids : TRUE \in OnDisk(i)' => TRUE \in OnDisk(i)
  PROVE  Store!SetUp
BY DEF Store!SetUp

LEMMA Aborts ==
  ASSUME UNCHANGED disk, Mode # "idle", Mode' = "idle"
  PROVE  Store!Abort
BY SameDisk DEF Store!Abort

LEMMA Arrives ==
  ASSUME Mode = "idle", Mode' = "idle", \A i \in Ids : OnDisk(i) \subseteq OnDisk(i)'
  PROVE  Store!Arrive
BY DEF Store!Arrive

LEMMA Ends ==
  ASSUME UNCHANGED disk, Mode = "switch", Mode' = "idle", Unsaved = {}
  PROVE  Store!End
BY SameDisk DEF Store!End

\* What is no longer waiting is switched, and nothing else is.
LEMMA Switches ==
  ASSUME call.value \in BOOLEAN, call'.value = call.value,
         Mode = "switch", Mode' = "switch", Unsaved' \subseteq Unsaved,
         \A i \in Ids : IF i \in Unsaved \ Unsaved'
                        THEN call.value \in OnDisk(i)' /\ OnDisk(i)' \subseteq OnDisk(i) \cup {call.value}
                        ELSE OnDisk(i)' = OnDisk(i)
  PROVE  Store!Switch
<1>1. (Mode = "switch" => call.value) = call.value
  OBVIOUS
<1>2. (Mode' = "switch" => call'.value) = call.value
  OBVIOUS
<1> QED BY <1>1, <1>2 DEF Store!Switch, Store!SwitchedTo

\* Ids whose switch in memory is not on disk.
Differ ==
  {i \in Ids : index[i] # NoFile /\ On(index[i])
                 /\ (i \in mem[index[i]].on) # (i \in disk[index[i]].on)}

\* They wait for the file to be saved; outside of a call there are none.
LEMMA DifferWaits ==
  ASSUME TypeOK, PendingInv, AgreeInv, phase \in Active, NEW i \in Ids
  PROVE  /\ i \in Differ => Waiting(index[i], i)
         /\ i \notin Differ /\ index[i] # NoFile => Agrees(index[i], i)
<1>1. CASE index[i] = NoFile
  BY <1>1 DEF Differ
<1>2. CASE index[i] # NoFile
  <2>1. index[i] \in Files /\ mem[index[i]] # NoFile /\ i \in mem[index[i]].ids
    BY <1>2 DEF TypeOK, PendingInv, AgreeInv
  <2>2. On(index[i]) /\ (Agrees(index[i], i) \/ Waiting(index[i], i))
    BY <2>1 DEF AgreeInv, On
  <2>3. i \in Differ <=> ~Agrees(index[i], i)
    BY <1>2, <2>2 DEF Differ, Agrees
  <2> QED BY <2>2, <2>3
<1> QED BY <1>1, <1>2

\* The same after a step that stays within a call.
LEMMA DifferNext ==
  ASSUME TypeOK', PendingInv', AgreeInv', phase' \in Active, NEW i \in Ids
  PROVE  /\ i \in Differ' => Waiting(index[i], i)'
         /\ i \notin Differ' /\ index'[i] # NoFile => Agrees(index[i], i)'
<1>1. CASE index'[i] = NoFile
  BY <1>1 DEF Differ
<1>2. CASE index'[i] # NoFile
  <2>1. index'[i] \in Files /\ mem'[index'[i]] # NoFile /\ i \in mem'[index'[i]].ids
    BY <1>2 DEF TypeOK, PendingInv, AgreeInv
  <2>2. On(index[i])' /\ (Agrees(index[i], i)' \/ Waiting(index[i], i)')
    BY <2>1 DEF AgreeInv, On, Agrees, Waiting
  <2>3. i \in Differ' <=> ~Agrees(index[i], i)'
    BY <1>2, <2>2 DEF Differ, Agrees
  <2> QED BY <2>2, <2>3
<1> QED BY <1>1, <1>2

LEMMA RangedFacts ==
  ASSUME NEW S, NEW s \in Seq(S)
  PROVE  /\ Ranged(s) \subseteq S
         /\ s = <<>> => Ranged(s) = {}
         /\ s # <<>> => Ranged(s) = {Head(s)} \cup Ranged(Tail(s))
<1>1. Ranged(s) \subseteq S /\ (s = <<>> => Ranged(s) = {})
  BY DEF Ranged
<1>2. ASSUME s # <<>> PROVE Ranged(s) = {Head(s)} \cup Ranged(Tail(s))
  <2>1. \A n \in DOMAIN s : n = 1 \/ (n - 1 \in DOMAIN Tail(s) /\ s[n] = Tail(s)[n - 1])
    BY <1>2
  <2>2. \A n \in DOMAIN Tail(s) : n + 1 \in DOMAIN s /\ s[n + 1] = Tail(s)[n]
    BY <1>2
  <2>3. 1 \in DOMAIN s /\ s[1] = Head(s)
    BY <1>2
  <2>4. Ranged(s) \subseteq {Head(s)} \cup Ranged(Tail(s))
    BY <2>1, <2>3 DEF Ranged
  <2>5. {Head(s)} \cup Ranged(Tail(s)) \subseteq Ranged(s)
    BY <2>2, <2>3 DEF Ranged
  <2> QED BY <2>4, <2>5
<1> QED BY <1>1, <1>2

-----------------------------------------------------------------------------
(* The refinement                                                           *)

\* Marking a repository moves its id from the call to what differs, or finds it
\* switched already.
LEMMA MarkSwitches ==
  ASSUME TypeOK, PendingInv, AgreeInv, TypeOK', PendingInv', AgreeInv', MarkNext,
         index[Head(call.ids)] # NoFile
  PROVE  Store!Switch
<1> SUFFICES ASSUME NEW h, h = Head(call.ids), NEW f, f = index[h]
             PROVE  Store!Switch
  OBVIOUS
<1>1. call.ids \in Seq(Ids) /\ call.ids # <<>> /\ call.value \in BOOLEAN /\ h \in Ids
  BY DEF MarkNext, TypeOK
<1>2. /\ phase = "mark" /\ phase' = "mark" /\ UNCHANGED <<disk, index>>
      /\ mem' = [mem EXCEPT ![f] = Switched(mem[f], h, call.value)]
      /\ call'.value = call.value /\ call'.ids = Tail(call.ids)
  BY DEF MarkNext, TypeOK, diskVars
<1>3. f \in Files /\ mem[f] \in Content /\ disk[f] # NoFile /\ h \in mem[f].ids
      /\ mem[f].ids = disk[f].ids
  BY <1>1, <1>2 DEF TypeOK, PendingInv, AgreeInv, Active
<1>4. Ranged(call.ids) = {h} \cup Ranged(call'.ids)
  BY <1>1, <1>2, RangedFacts
<1>5. \A g \in Files, i \in Ids : ~(g = f /\ i = h) => (i \in mem'[g].on <=> i \in mem[g].on)
  BY <1>1, <1>2, <1>3, SwitchedOnly DEF TypeOK
<1>6. h \in mem'[f].on <=> call.value
  BY <1>1, <1>2, <1>3, SwitchedOnly DEF TypeOK
<1>7. ASSUME NEW i \in Ids, i # h PROVE i \in Differ' <=> i \in Differ
  <2>1. index[i] # NoFile => index[i] \in Files
    BY DEF TypeOK
  <2>2. index[i] # NoFile => (i \in mem'[index[i]].on <=> i \in mem[index[i]].on)
    BY <2>1, <1>5, <1>7
  <2> QED BY <2>2, <1>2 DEF Differ, On
<1>8. Unsaved = Ranged(call.ids) \cup Differ /\ Unsaved' = Ranged(call'.ids) \cup Differ'
  BY DEF Unsaved, Differ
<1>9. Differ \subseteq Ids /\ Differ' \subseteq Ids
  BY DEF Differ
<1>10. Unsaved' \subseteq Unsaved /\ Unsaved \ Unsaved' \subseteq {h}
  BY <1>4, <1>7, <1>8, <1>9
<1>11. h \notin Unsaved' => call.value \in OnDisk(h)
  <2> SUFFICES ASSUME h \notin Differ' PROVE call.value \in OnDisk(h)
    BY <1>8
  <2>1. index'[h] = f /\ f # NoFile
    BY <1>2, <1>3, NoFileAssumption
  <2>2. Agrees(f, h)'
    BY <2>1, <1>1, <1>2, DifferNext DEF Active
  <2>3. Defines(f, h) /\ (h \in disk[f].on <=> call.value)
    BY <2>2, <1>2, <1>3, <1>6 DEF Agrees, Defines, On
  <2>4. CASE call.value = TRUE
    BY <2>3, <2>4, <1>3, OnDiskFacts
  <2>5. CASE call.value = FALSE
    BY <2>3, <2>5, <1>3, OnDiskFacts
  <2> QED BY <1>1, <2>4, <2>5
<1>12. \A i \in Ids : OnDisk(i)' = OnDisk(i)
  BY <1>2, SameDisk
<1>13. Mode = "switch" /\ Mode' = "switch"
  BY <1>2 DEF Mode
<1>14. \A i \in Ids : i \in Unsaved \ Unsaved' =>
         call.value \in OnDisk(i)' /\ OnDisk(i)' \subseteq OnDisk(i) \cup {call.value}
  BY <1>10, <1>11, <1>12
<1> QED BY <1>1, <1>2, <1>10, <1>12, <1>13, <1>14, Switches

\* Saving a file makes the switches that wait for it, and no other.
LEMMA SaveSwitches ==
  ASSUME TypeOK, PendingInv, AgreeInv, TypeOK', PendingInv', AgreeInv', NEW f \in Files, SaveFile(f)
  PROVE  Store!Switch
<1>1. /\ phase = "save" /\ phase' = "save" /\ f \in pending /\ UNCHANGED <<mem, index, call>>
      /\ disk' = [disk EXCEPT ![f] = Merged(disk[f], mem[f])]
  BY DEF SaveFile, progVars
<1>2. mem[f] \in Content /\ disk[f] \in Content /\ disk[f].ids = mem[f].ids
  BY <1>1 DEF TypeOK, PendingInv, AgreeInv, Active
<1>3. call.value \in BOOLEAN /\ call.ids = <<>>
  BY <1>1 DEF TypeOK, AgreeInv
<1>4. Unsaved = Differ /\ Unsaved' = Differ'
  <2>1. Ranged(call.ids) = {} /\ Ranged(call'.ids) = {}
    BY <1>1, <1>3 DEF Ranged
  <2> QED BY <2>1 DEF Unsaved, Differ
<1>5. \A i \in Ids : index[i] # f => (i \in Differ' <=> i \in Differ)
  BY <1>1 DEF Differ, On, TypeOK
<1>6. \A i \in Ids : index[i] = f => i \notin Differ'
  <2>1. disk'[f] = Merged(disk[f], mem[f])
    BY <1>1 DEF TypeOK
  <2>2. \A i \in mem[f].ids : i \in disk'[f].on <=> i \in mem[f].on
    BY <2>1, <1>2, MergedAgrees
  <2>3. \A i \in Ids : index[i] = f => i \in mem[f].ids
    BY <1>1, NoFileAssumption DEF AgreeInv, Active
  <2> QED BY <2>2, <2>3, <1>1 DEF Differ
<1>7. Differ \subseteq Ids /\ Differ' \subseteq Ids
  BY DEF Differ
<1>8. Unsaved' \subseteq Unsaved
  BY <1>4, <1>5, <1>6, <1>7
<1>9. ASSUME NEW i \in Ids, i \in Unsaved \ Unsaved'
      PROVE  call.value \in OnDisk(i)' /\ OnDisk(i)' \subseteq OnDisk(i) \cup {call.value}
  <2>1. i \in Differ /\ index[i] = f
    BY <1>4, <1>5, <1>9
  <2>2. Waiting(f, i) /\ i \in mem[f].ids
    BY <2>1, <1>1, DifferWaits, NoFileAssumption DEF AgreeInv, Active
  <2> QED BY <2>2, <1>1, <1>2, <1>3, SavedSwitches DEF Waiting
<1>10. ASSUME NEW i \in Ids, i \notin Unsaved \ Unsaved'
       PROVE  OnDisk(i)' = OnDisk(i)
  <2>1. i \notin mem[f].ids \/ (i \in mem[f].on <=> i \in disk[f].on)
    <3>1. CASE i \in mem[f].ids /\ index[i] = f
      <4>1. i \notin Differ
        BY <3>1, <1>4, <1>6, <1>10
      <4> QED BY <4>1, <3>1, <1>1, DifferWaits, NoFileAssumption DEF Agrees, Active
    <3>2. CASE i \in mem[f].ids /\ index[i] # f
      BY <3>2, <1>1, <1>2, NoFileAssumption DEF AgreeInv, Active, Agrees, Waiting
    <3> QED BY <3>1, <3>2
  <2> QED BY <2>1, <1>1, <1>2, SavedSwitches
<1>11. Mode = "switch" /\ Mode' = "switch" /\ call'.value = call.value
  BY <1>1 DEF Mode
<1> QED BY <1>3, <1>8, <1>9, <1>10, <1>11, Switches

\* A call, and the end of the set-up, begin with nothing that differs.
LEMMA CallBegins ==
  ASSUME TypeOK, PendingInv, AgreeInv, phase \in {"load", "ready"},
         phase' = "mark", UNCHANGED <<disk, index, mem>>
  PROVE  Unsaved' = Ranged(call'.ids)
<1>1. Differ' = Differ
  BY DEF Differ, On
<1>2. \A i \in Ids : i \notin Differ
  BY DifferWaits DEF Waiting, Active
<1>3. Unsaved' = Ranged(call'.ids) \cup Differ' /\ Differ \subseteq Ids
  BY DEF Unsaved, Differ
<1> QED BY <1>1, <1>2, <1>3

\* RepoManager::enable and disable of one id switch it on disk, and no other.
LEMMA OneSwitches ==
  ASSUME TypeOK, PendingInv, AgreeInv, NEW s \in Singles, EnableOne(s), index[s.id] # NoFile
  PROVE  Store!Single
<1> SUFFICES ASSUME NEW f, f = index[s.id], NEW new, new = Switched(mem[f], s.id, s.value)
             PROVE  Store!Single
  OBVIOUS
<1>1. s.id \in Ids /\ s.value \in BOOLEAN
  BY CallsAssumption
<1>2. /\ phase = "ready" /\ phase' = "ready"
      /\ disk' = [disk EXCEPT ![f] = Merged(disk[f], new)]
  BY DEF EnableOne
<1>3. /\ f \in Files /\ mem[f] \in Content /\ disk[f] \in Content /\ mem[f].ids = disk[f].ids
      /\ s.id \in mem[f].ids
  BY <1>1, <1>2 DEF TypeOK, PendingInv, AgreeInv, Active
<1>4. /\ new \in Content /\ new.ids = disk[f].ids
      /\ \A j : j \in new.on <=> IF j = s.id THEN s.value ELSE j \in mem[f].on
  BY <1>1, <1>3, SwitchedFacts, SwitchedOnly
<1>5. \A i \in mem[f].ids : i \in mem[f].on <=> i \in disk[f].on
  BY <1>2, <1>3, NoFileAssumption DEF AgreeInv, Agrees, Waiting, Active
<1>6. s.value \in OnDisk(s.id)' /\ OnDisk(s.id)' \subseteq OnDisk(s.id) \cup {s.value}
  BY <1>1, <1>2, <1>3, <1>4, SavedSwitches
<1>7. \A i \in Ids \ {s.id} : OnDisk(i)' = OnDisk(i)
  BY <1>2, <1>3, <1>4, <1>5, SavedSwitches
<1>8. Mode = "idle" /\ Mode' = "idle"
  BY <1>2 DEF Mode
<1> QED BY <1>1, <1>6, <1>7, <1>8 DEF Store!Single, Store!SwitchedTo

\* Neither a file that is removed nor one that is generated switches anything on.
LEMMA FilesChange ==
  ASSUME TypeOK, PendingInv, NEW f \in Files, RemoveFile(f) \/ GenerateFile(f), NEW i \in Ids,
         TRUE \in OnDisk(i)'
  PROVE  TRUE \in OnDisk(i)
<1>1. PICK g \in Files : Defines(g, i)' /\ i \in disk'[g].on
  BY OnDiskFactsNext
<1>2. \A h \in Files : h # f => disk'[h] = disk[h]
  BY DEF RemoveFile, GenerateFile, TypeOK
<1>3. CASE g # f
  BY <1>1, <1>2, <1>3, OnDiskFacts DEF Defines, On
<1>4. CASE g = f
  <2>1. disk'[f] # NoFile
    BY <1>1, <1>4 DEF Defines, On
  <2>2. phase = "generate" /\ f \in pending /\ disk'[f] = Merged(disk[f], Assembled(f))
    BY <2>1 DEF RemoveFile, GenerateFile, TypeOK
  <2>3. Assembled(f).on = {}
    BY DEF Assembled
  <2>4. disk[f] # NoFile
    BY <1>1, <1>4, <2>2, <2>3 DEF Merged
  <2>5. i \in disk[f].on /\ i \in disk[f].ids
    BY <1>1, <1>4, <2>2, <2>3, <2>4 DEF Merged, Defines
  <2> QED BY <2>4, <2>5, OnDiskFacts DEF Defines, On
<1> QED BY <1>3, <1>4

\* Every step of Repos is a step of RepoStore, or leaves it as it is.
LEMMA StoreStep ==
  ASSUME TypeOK, PendingInv, AgreeInv, TypeOK', PendingInv', AgreeInv', [Next]_vars
  PROVE  [Store!Next]_(Store!vars)
<1> USE DEF diskVars, progVars, histVars
<1>1. CASE Start
  <2>1. UNCHANGED disk /\ Mode = "idle" /\ Mode' = "setup"
    BY <1>1 DEF Start, Mode
  <2> QED BY <2>1, SameDisk DEF Store!Next, Store!BeginSetup
<1>2. ASSUME NEW f \in Files, PurgeBackup(f) \/ CopyBegin(f) \/ CopyEnd(f)
      PROVE  [Store!Next]_(Store!vars)
  <2>1. UNCHANGED disk /\ Mode' = Mode /\ Mode = "setup"
    BY <1>2 DEF PurgeBackup, CopyBegin, CopyEnd, Mode
  <2> QED BY <2>1, Stutters
<1>3. CASE PurgeDone \/ CheckBackup \/ CopyDone \/ RemoveDone \/ ListExisting \/ GenerateDone
  <2>1. UNCHANGED disk /\ Mode' = Mode /\ Mode = "setup"
    BY <1>3 DEF PurgeDone, CheckBackup, CopyDone, RemoveDone, ListExisting, GenerateDone, Mode
  <2> QED BY <2>1, Stutters
<1>4. ASSUME NEW f \in Files, RemoveFile(f) \/ GenerateFile(f)
      PROVE  [Store!Next]_(Store!vars)
  <2>1. Mode = "setup" /\ Mode' = "setup"
    BY <1>4 DEF RemoveFile, GenerateFile, Mode
  <2> QED BY <2>1, <1>4, FilesChange, SetsUp DEF Store!Next
<1>5. ASSUME NEW f \in Files, LoadFile(f) PROVE [Store!Next]_(Store!vars)
  <2>1. CASE Parses(f)
    <3>1. UNCHANGED disk /\ Mode' = Mode /\ Mode = "setup"
      BY <1>5, <2>1 DEF LoadFile, Mode
    <3> QED BY <3>1, Stutters
  <2>2. CASE ~Parses(f)
    <3>1. UNCHANGED disk /\ Mode = "setup" /\ Mode' = "idle"
      BY <1>5, <2>2 DEF LoadFile, Mode
    <3> QED BY <3>1, Aborts DEF Store!Next
  <2> QED BY <2>1, <2>2
<1>6. CASE LoadDone
  <2>1. /\ UNCHANGED <<disk, index, mem>> /\ phase = "load" /\ phase' = "mark"
        /\ call'.ids = Wanted /\ call'.value = TRUE
    BY <1>6 DEF LoadDone
  <2>2. Unsaved' = Ranged(Wanted)
    BY <2>1, CallBegins
  <2>3. Mode = "setup" /\ Mode' = "switch"
    BY <2>1 DEF Mode
  <2> QED BY <2>1, <2>2, <2>3, SameDisk DEF Store!Next, Store!EndSetup
<1>7. CASE MarkNext
  <2>1. CASE index[Head(call.ids)] # NoFile
    BY <1>7, <2>1, MarkSwitches DEF Store!Next
  <2>2. CASE index[Head(call.ids)] = NoFile
    <3>1. UNCHANGED disk /\ Mode = "switch" /\ Mode' = "idle"
      BY <1>7, <2>2 DEF MarkNext, Mode
    <3> QED BY <3>1, Aborts DEF Store!Next
  <2> QED BY <2>1, <2>2
<1>8. CASE MarkDone
  <2>1. UNCHANGED <<disk, index, mem, call>> /\ Mode = "switch" /\ Mode' = "switch"
    BY <1>8 DEF MarkDone, Mode
  <2>2. Unsaved' = Unsaved
    BY <2>1 DEF Unsaved, On
  <2> QED BY <2>1, <2>2, SameDisk DEF Store!vars
<1>9. ASSUME NEW f \in Files, SaveFile(f) PROVE [Store!Next]_(Store!vars)
  BY <1>9, SaveSwitches DEF Store!Next
<1>10. CASE SaveDone
  <2>1. UNCHANGED disk /\ phase = "save" /\ pending = {} /\ phase' = "ready"
    BY <1>10 DEF SaveDone
  <2>2. \A i \in Ids : i \notin Differ
    BY <2>1, DifferWaits DEF Waiting, Active
  <2>3. Ranged(call.ids) = {}
    BY <2>1 DEF AgreeInv, Ranged
  <2>4. Unsaved = {}
    BY <2>2, <2>3 DEF Unsaved, Differ
  <2>5. Mode = "switch" /\ Mode' = "idle"
    BY <2>1 DEF Mode
  <2> QED BY <2>1, <2>4, <2>5, Ends DEF Store!Next
<1>11. ASSUME NEW c \in Calls, EnableMany(c) PROVE [Store!Next]_(Store!vars)
  <2>1. /\ UNCHANGED <<disk, index, mem>> /\ phase = "ready" /\ phase' = "mark" /\ call' = c
    BY <1>11 DEF EnableMany
  <2>2. Unsaved' = Ranged(c.ids)
    BY <2>1, CallBegins
  <2>3. Mode = "idle" /\ Mode' = "switch" /\ c.value \in BOOLEAN
    BY <2>1, CallsAssumption DEF Mode
  <2>4. [ids |-> Ranged(c.ids), value |-> c.value]
          \in {[ids |-> Ranged(d.ids), value |-> d.value] : d \in Calls}
    OBVIOUS
  <2>5. (Mode' = "switch" => call'.value) = c.value
    BY <2>1, <2>3
  <2>6. Store!Begin
    BY <2>1, <2>2, <2>3, <2>4, <2>5, SameDisk DEF Store!Begin
  <2> QED BY <2>6 DEF Store!Next
<1>12. ASSUME NEW s \in Singles, EnableOne(s) PROVE [Store!Next]_(Store!vars)
  <2>1. CASE index[s.id] # NoFile
    BY <1>12, <2>1, OneSwitches DEF Store!Next
  <2>2. CASE index[s.id] = NoFile
    <3>1. UNCHANGED disk /\ Mode' = Mode /\ Mode = "idle"
      BY <1>12, <2>2 DEF EnableOne, Mode
    <3> QED BY <3>1, Stutters
  <2> QED BY <2>1, <2>2
<1>13. CASE Exit \/ Die
  <2>1. UNCHANGED disk /\ Mode' = "idle"
    BY <1>13 DEF Exit, Die, MemoryLost, Mode
  <2>2. CASE Mode = "idle"
    BY <2>1, <2>2, Stutters
  <2>3. CASE Mode # "idle"
    BY <2>1, <2>3, Aborts DEF Store!Next
  <2> QED BY <2>2, <2>3
<1>14. ASSUME NEW p \in DOMAIN Package, PackageDrops(p) PROVE [Store!Next]_(Store!vars)
  <2>1. Mode = "idle" /\ Mode' = "idle"
    BY <1>14 DEF PackageDrops, Mode
  <2>2. p \in Files /\ disk[p] = NoFile /\ \A g \in Files : g # p => disk'[g] = disk[g]
    BY <1>14, FilesAssumption DEF PackageDrops, TypeOK
  <2>3. \A i \in Ids : OnDisk(i) \subseteq OnDisk(i)'
    <3> TAKE i \in Ids
    <3>1. \A g \in Files : Defines(g, i) => Defines(g, i)' /\ disk'[g] = disk[g]
      BY <2>2 DEF Defines, On
    <3>2. (TRUE \in OnDisk(i) => TRUE \in OnDisk(i)') /\ (FALSE \in OnDisk(i) => FALSE \in OnDisk(i)')
      BY <3>1, OnDiskFacts, OnDiskFactsNext
    <3> QED BY <3>2, OnDiskFacts
  <2> QED BY <2>1, <2>3, Arrives DEF Store!Next
<1>15. CASE UNCHANGED vars
  BY <1>15 DEF vars, Store!vars, OnDisk, On, Mode, Unsaved
<1> QED BY <1>1, <1>2, <1>3, <1>4, <1>5, <1>6, <1>7, <1>8, <1>9, <1>10, <1>11, <1>12, <1>13, <1>14,
           <1>15 DEF Next, Initialize

\* The files, the index, the objects in memory and their saving, with runs that die
\* at any statement of them, do what is promised of requests that know of ids alone
\* (RPMRepoManager::enable, RepoManager::disable, initializeDefaultRepositories).
THEOREM Implements == Spec => ImplementsStore
<1>1. Init => Store!Init
  <2> SUFFICES ASSUME Init PROVE Store!Init
    OBVIOUS
  <2>1. Mode = "idle"
    BY DEF Init, Mode
  <2>2. \A i \in Ids : OnDisk(i) \subseteq BOOLEAN
    BY OnDiskFacts
  <2> QED BY <2>1, <2>2 DEF Store!Init
<1>2. /\ TypeOK /\ PendingInv /\ AgreeInv /\ (TypeOK /\ PendingInv /\ AgreeInv)' /\ [Next]_vars
      => [Store!Next]_(Store!vars)
  BY StoreStep
<1> QED BY <1>1, <1>2, Agreement, PTL DEF Spec, ImplementsStore, Store!Spec

-----------------------------------------------------------------------------
(* Generated files                                                          *)

\* What is removed is not generated, what is generated is not there, and what is
\* still to be switched off was asked for.
KeepInv ==
  /\ phase = "remove" /\ ~purged => \A f \in Files : On(f) => disk[f].origin \notin Generated
  /\ phase = "generate" => \A f \in pending : ~On(f)
  /\ phase \in {"mark", "save"} /\ ~call.value => Unsaved \subseteq Asked(FALSE)

LEMMA AskedFacts ==
  /\ \A c \in Calls : ~c.value => Ranged(c.ids) \subseteq Asked(FALSE)
  /\ \A s \in Singles : ~s.value => s.id \in Asked(FALSE)
<1>1. ASSUME NEW c \in Calls, ~c.value PROVE Ranged(c.ids) \subseteq Asked(FALSE)
  <2>1. c.value = FALSE
    BY <1>1, CallsAssumption
  <2> QED BY <2>1 DEF Asked
<1>2. ASSUME NEW s \in Singles, ~s.value PROVE s.id \in Asked(FALSE)
  <2>1. s.value = FALSE
    BY <1>2, CallsAssumption
  <2> QED BY <2>1 DEF Asked
<1> QED BY <1>1, <1>2

LEMMA KeepNext ==
  ASSUME IInv, AgreeInv, KeepInv, TypeOK', PendingInv', AgreeInv', [Next]_vars
  PROVE  KeepInv'
<1> USE DEF KeepInv, diskVars, progVars, histVars
<1>0. TypeOK /\ PendingInv
  BY DEF IInv
<1>1. ASSUME phase' \notin {"remove", "generate", "mark", "save"} PROVE KeepInv'
  BY <1>1
<1>2. CASE Start \/ Exit \/ Die
  BY <1>2, <1>1 DEF Start, Exit, Die, MemoryLost
<1>3. ASSUME NEW f \in Files, PurgeBackup(f) \/ CopyBegin(f) \/ CopyEnd(f) \/ LoadFile(f)
      PROVE  KeepInv'
  BY <1>3, <1>1 DEF PurgeBackup, CopyBegin, CopyEnd, LoadFile
<1>4. CASE PurgeDone \/ CheckBackup \/ RemoveDone \/ GenerateDone \/ SaveDone
  BY <1>4, <1>1 DEF PurgeDone, CheckBackup, RemoveDone, GenerateDone, SaveDone
<1>5. CASE CopyDone
  BY <1>5 DEF CopyDone, IInv, Kept, PristineInv, On
<1>6. ASSUME NEW f \in Files, RemoveFile(f) PROVE KeepInv'
  BY <1>0, <1>6 DEF RemoveFile, TypeOK, On
<1>7. CASE ListExisting
  <2>1. \A f \in DOMAIN Distro \cup DOMAIN Common : f \in Files \ UpperCase
    BY FilesAssumption
  <2> QED BY <1>7, <2>1 DEF ListExisting, Listed, On
<1>8. ASSUME NEW f \in Files, GenerateFile(f) PROVE KeepInv'
  BY <1>0, <1>8 DEF GenerateFile, TypeOK, On
<1>9. CASE LoadDone
  BY <1>9 DEF LoadDone
<1>10. CASE MarkNext
  <2>1. CASE index[Head(call.ids)] = NoFile
    BY <1>10, <2>1, <1>1 DEF MarkNext
  <2>2. CASE index[Head(call.ids)] # NoFile
    <3>1. Store!Switch
      BY <1>0, <1>10, <2>2, MarkSwitches
    <3>2. phase = "mark" /\ phase' = "mark" /\ call'.value = call.value
      BY <1>0, <1>10, <2>2 DEF MarkNext, TypeOK
    <3>3. Mode = "switch" /\ Mode' = "switch"
      BY <3>2 DEF Mode
    <3>4. Unsaved' \subseteq Unsaved
      BY <3>1, <3>3 DEF Store!Switch
    <3>5. Asked(FALSE)' = Asked(FALSE)
      BY DEF Asked, Ranged
    <3> QED BY <3>2, <3>4, <3>5
  <2> QED BY <2>1, <2>2
<1>11. CASE MarkDone
  <2>1. phase = "mark" /\ phase' = "save" /\ UNCHANGED <<disk, index, mem, call>>
    BY <1>11 DEF MarkDone
  <2>2. Unsaved' = Unsaved /\ Asked(FALSE)' = Asked(FALSE)
    BY <2>1 DEF Unsaved, On, Asked, Ranged
  <2> QED BY <2>1, <2>2
<1>12. ASSUME NEW f \in Files, SaveFile(f) PROVE KeepInv'
  <2>1. Store!Switch
    BY <1>0, <1>12, SaveSwitches
  <2>2. phase = "save" /\ phase' = "save" /\ call' = call
    BY <1>12 DEF SaveFile
  <2>3. Mode = "switch" /\ Mode' = "switch"
    BY <2>2 DEF Mode
  <2>4. Unsaved' \subseteq Unsaved
    BY <2>1, <2>3 DEF Store!Switch
  <2>5. Asked(FALSE)' = Asked(FALSE)
    BY DEF Asked, Ranged
  <2> QED BY <2>2, <2>4, <2>5
<1>13. ASSUME NEW c \in Calls, EnableMany(c) PROVE KeepInv'
  <2>1. /\ UNCHANGED <<disk, index, mem>> /\ phase = "ready" /\ phase' = "mark" /\ call' = c
    BY <1>13 DEF EnableMany
  <2>2. Unsaved' = Ranged(c.ids)
    BY <1>0, <2>1, CallBegins
  <2>3. Asked(FALSE)' = Asked(FALSE)
    BY DEF Asked, Ranged
  <2> QED BY <2>1, <2>2, <2>3, AskedFacts
<1>14. ASSUME NEW s \in Singles, EnableOne(s) PROVE KeepInv'
  BY <1>14, <1>1 DEF EnableOne
<1>15. ASSUME NEW p \in DOMAIN Package, PackageDrops(p) PROVE KeepInv'
  BY <1>15, <1>1 DEF PackageDrops
<1>16. CASE UNCHANGED vars
  <2>1. UNCHANGED <<disk, index, mem, call, phase, pending, purged>>
    BY <1>16 DEF vars
  <2>2. Unsaved' = Unsaved /\ Asked(FALSE)' = Asked(FALSE)
    BY <2>1 DEF Unsaved, On, Asked, Ranged
  <2> QED BY <2>1, <2>2 DEF On
<1> QED BY <1>2, <1>3, <1>4, <1>5, <1>6, <1>7, <1>8, <1>9, <1>10, <1>11, <1>12, <1>13, <1>14, <1>15,
           <1>16 DEF Next, Initialize

\* What GeneratedKept asks of a step, for one file.
FileKept(f) ==
  /\ disk'[f] # NoFile /\ disk'[f].origin = disk[f].origin
  /\ disk[f].on \ Asked(FALSE) \subseteq disk'[f].on

LEMMA FilesKept ==
  ASSUME IInv, AgreeInv, KeepInv, [Next]_vars, ~purged, NEW f \in Files, On(f),
         disk[f].origin \in Generated
  PROVE  FileKept(f)
<1> USE DEF FileKept, diskVars, progVars, histVars
<1>0. TypeOK /\ PendingInv /\ disk[f] \in Content
  BY DEF IInv, On, TypeOK
<1>1. ASSUME disk'[f] = disk[f] PROVE FileKept(f)
  BY <1>0, <1>1, NoFileAssumption
<1>2. ASSUME NEW new \in Content, disk' = [disk EXCEPT ![f] = Merged(disk[f], new)],
             \A i \in new.ids : i \in disk[f].on /\ i \notin new.on => i \in Asked(FALSE)
      PROVE  FileKept(f)
  <2>1. disk'[f] = Merged(disk[f], new)
    BY <1>0, <1>2 DEF TypeOK
  <2>2. disk'[f].on = (disk[f].on \ new.ids) \cup new.on
    BY <1>0, <2>1, NoFileAssumption DEF Merged
  <2>3. disk'[f] # NoFile /\ disk'[f].origin = disk[f].origin
    BY <1>0, <2>1, MergedFacts, NoFileAssumption
  <2> QED BY <1>2, <2>2, <2>3
<1>3. ASSUME NEW g \in Files, RemoveFile(g) PROVE FileKept(f)
  BY <1>3 DEF RemoveFile, KeepInv
<1>4. ASSUME NEW g \in Files, GenerateFile(g) PROVE FileKept(f)
  <2>1. g # f
    BY <1>4 DEF GenerateFile, KeepInv
  <2> QED BY <1>0, <1>1, <1>4, <2>1 DEF GenerateFile, TypeOK
<1>5. ASSUME NEW g \in Files, SaveFile(g) PROVE FileKept(f)
  <2>1. CASE g # f
    BY <1>0, <1>1, <1>5, <2>1 DEF SaveFile, TypeOK
  <2>2. CASE g = f
    <3>1. /\ phase = "save" /\ mem[f] \in Content
          /\ disk' = [disk EXCEPT ![f] = Merged(disk[f], mem[f])]
      BY <1>0, <1>5, <2>2 DEF SaveFile, TypeOK, PendingInv
    <3>2. ASSUME NEW i \in mem[f].ids, i \in disk[f].on, i \notin mem[f].on
          PROVE  i \in Asked(FALSE)
      <4>1. Waiting(f, i)
        BY <3>1, <3>2, NoFileAssumption DEF AgreeInv, Agrees, Active
      <4>2. i \in Ids /\ ~call.value
        BY <1>0, <3>1, <3>2, <4>1 DEF Waiting, Content, TypeOK
      <4>3. i \in Unsaved
        BY <3>2, <4>1, <4>2, NoFileAssumption DEF Unsaved, Waiting, On
      <4> QED BY <3>1, <4>2, <4>3 DEF KeepInv
    <3> QED BY <1>2, <3>1, <3>2
  <2> QED BY <2>1, <2>2
<1>6. ASSUME NEW s \in Singles, EnableOne(s) PROVE FileKept(f)
  <2>1. CASE index[s.id] # f
    BY <1>0, <1>1, <1>6, <2>1 DEF EnableOne, TypeOK
  <2>2. CASE index[s.id] = f
    <3> SUFFICES ASSUME NEW new, new = Switched(mem[f], s.id, s.value) PROVE FileKept(f)
      OBVIOUS
    <3>1. s.id \in Ids /\ s.value \in BOOLEAN
      BY CallsAssumption
    <3>2. index[s.id] # NoFile
      BY <2>2, NoFileAssumption
    <3>3. /\ phase = "ready" /\ mem[f] \in Content
          /\ disk' = [disk EXCEPT ![f] = Merged(disk[f], new)]
      BY <1>0, <1>6, <2>2, <3>1, <3>2 DEF EnableOne, TypeOK, PendingInv
    <3>4. /\ new \in Content /\ new.ids = mem[f].ids
          /\ \A j : j \in new.on <=> IF j = s.id THEN s.value ELSE j \in mem[f].on
      BY <3>1, <3>3, SwitchedFacts, SwitchedOnly
    <3>5. \A i \in mem[f].ids : i \in mem[f].on <=> i \in disk[f].on
      BY <3>3, NoFileAssumption DEF AgreeInv, Agrees, Waiting, Active
    <3>6. \A i \in new.ids : i \in disk[f].on /\ i \notin new.on => i \in Asked(FALSE)
      BY <3>1, <3>4, <3>5, AskedFacts
    <3> QED BY <1>2, <3>3, <3>4, <3>6
  <2> QED BY <2>1, <2>2
<1>7. ASSUME NEW p \in DOMAIN Package, PackageDrops(p) PROVE FileKept(f)
  <2>1. p # f /\ p \in Files
    BY <1>7, FilesAssumption DEF PackageDrops, On
  <2> QED BY <1>0, <1>1, <1>7, <2>1 DEF PackageDrops, TypeOK
<1>8. CASE UNCHANGED disk
  BY <1>1, <1>8
<1>9. ASSUME NEW g \in Files,
             PurgeBackup(g) \/ CopyBegin(g) \/ CopyEnd(g) \/ LoadFile(g)
      PROVE  FileKept(f)
  BY <1>8, <1>9 DEF PurgeBackup, CopyBegin, CopyEnd, LoadFile
<1>10. ASSUME NEW c \in Calls, EnableMany(c) PROVE FileKept(f)
  BY <1>8, <1>10 DEF EnableMany
<1>11. CASE \/ Start \/ Exit \/ Die \/ PurgeDone \/ CheckBackup \/ CopyDone \/ RemoveDone
            \/ ListExisting \/ GenerateDone \/ LoadDone \/ MarkNext \/ MarkDone \/ SaveDone
            \/ UNCHANGED vars
  BY <1>8, <1>11
  DEF Start, Exit, Die, MemoryLost, PurgeDone, CheckBackup, CopyDone, RemoveDone, ListExisting,
      GenerateDone, LoadDone, MarkNext, MarkDone, SaveDone, vars
<1> QED BY <1>3, <1>4, <1>5, <1>6, <1>7, <1>9, <1>10, <1>11 DEF Next, Initialize

\* Unless --force backups empties an earlier backup, no run removes a file that an
\* earlier one generated, or switches off in it what nobody asked to
\* (RepoGenerator::generate, RPMRepositoryFile::save).
THEOREM GeneratedStays == Spec => GeneratedKept
<1>1. Init => KeepInv
  BY DEF Init, KeepInv
<1>2. IInv /\ AgreeInv /\ KeepInv /\ (TypeOK /\ PendingInv /\ AgreeInv)' /\ [Next]_vars => KeepInv'
  BY KeepNext
<1>3. IInv /\ AgreeInv /\ KeepInv /\ [Next]_vars =>
        [\A f \in Files :
           On(f) /\ disk[f].origin \in Generated /\ ~purged =>
             /\ disk'[f] # NoFile
             /\ disk'[f].origin = disk[f].origin
             /\ disk[f].on \ Asked(FALSE) \subseteq disk'[f].on]_vars
  BY FilesKept DEF FileKept
<1> QED BY <1>1, <1>2, <1>3, Inductive, Agreement, PTL DEF Spec, GeneratedKept
-----------------------------------------------------------------------------
(* Names that agree                                                         *)

ConfFiles == DOMAIN Distro \cup DOMAIN Common

\* A configured file, once on disk, has the repositories that its .conf
\* describes, and it is generated, loaded and indexed in this order; a call
\* asks for described repositories only.
NamesInv ==
  /\ phase # "failed"
  /\ \A f \in ConfFiles : On(f) => Described(f) \subseteq disk[f].ids
  /\ phase = "generate" => \A f \in ConfFiles : On(f) \/ f \in pending
  /\ phase \in Active => \A f \in ConfFiles :
       /\ On(f)
       /\ (phase = "load" /\ f \in pending) \/ \A i \in Described(f) : index[i] # NoFile
  /\ Ranged(call.ids) \subseteq Configured

\* The described repositories are ids, and their files are files.
LEMMA DescribedIds ==
  /\ ConfFiles \subseteq Files \ UpperCase
  /\ \A f \in ConfFiles : Described(f) \subseteq Ids /\ Assembled(f).ids = Described(f)
  /\ Configured \subseteq Ids
<1>1. ConfFiles \subseteq Files \ UpperCase
  BY FilesAssumption DEF ConfFiles
<1>2. ASSUME NEW f \in ConfFiles PROVE Described(f) \subseteq Ids /\ Assembled(f).ids = Described(f)
  <2>1. CASE f \in DOMAIN Distro
    BY <2>1, FilesAssumption DEF Described, Assembled
  <2>2. CASE f \notin DOMAIN Distro
    BY <2>2, FilesAssumption DEF Described, Assembled, ConfFiles
  <2> QED BY <2>1, <2>2
<1> QED BY <1>1, <1>2 DEF Configured, ConfFiles

\* A save leaves every file with the repositories that it had.
LEMMA SaveKeepsIds ==
  ASSUME TypeOK, NEW f \in Files, NEW new \in Content,
         disk' = [disk EXCEPT ![f] = Merged(disk[f], new)],
         NEW g \in Files, On(g)
  PROVE  On(g)' /\ disk[g].ids \subseteq disk'[g].ids
<1>1. CASE g = f
  BY <1>1, MergedFacts DEF On, TypeOK, Merged
<1>2. CASE g # f
  BY <1>2 DEF On, TypeOK
<1> QED BY <1>1, <1>2

\* When names agree, no step leads to an abort.
LEMMA NamesNext ==
  ASSUME NamesAgree, TypeOK, PendingInv, NamesInv, [Next]_vars
  PROVE  NamesInv'
<1> USE DEF diskVars, progVars, histVars, Active
<1>0. ConfFiles \subseteq Files \ UpperCase
  BY DescribedIds
<1>1. ASSUME phase' \notin Active \cup {"generate", "failed"}, UNCHANGED disk,
             call' = call \/ call' = NoCall
      PROVE  NamesInv'
  BY <1>1 DEF NamesInv, On, NoCall, Ranged
<1>2. CASE Start \/ Exit \/ Die
  BY <1>1, <1>2 DEF Start, Exit, Die, MemoryLost
<1>3. ASSUME NEW f \in Files, PurgeBackup(f) \/ CopyBegin(f) \/ CopyEnd(f)
      PROVE  NamesInv'
  BY <1>1, <1>3 DEF PurgeBackup, CopyBegin, CopyEnd
<1>4. CASE PurgeDone \/ CheckBackup \/ CopyDone \/ RemoveDone
  BY <1>1, <1>4 DEF PurgeDone, CheckBackup, CopyDone, RemoveDone
<1>5. ASSUME NEW f \in Files, RemoveFile(f) PROVE NamesInv'
  <2>1. /\ phase' = "remove" /\ disk' = [disk EXCEPT ![f] = NoFile] /\ call' = call
    BY <1>5 DEF RemoveFile
  <2> QED BY <1>0, <2>1 DEF NamesInv, On, TypeOK
<1>6. CASE ListExisting
  BY <1>6, <1>0 DEF ListExisting, NamesInv, On, Listed, ConfFiles
<1>7. ASSUME NEW f \in Files, GenerateFile(f) PROVE NamesInv'
  <2>1. /\ phase = "generate" /\ phase' = "generate" /\ f \in pending /\ pending' = pending \ {f}
        /\ disk' = [disk EXCEPT ![f] = Merged(disk[f], Assembled(f))] /\ call' = call
    BY <1>7 DEF GenerateFile
  <2>2. f \in ConfFiles /\ Assembled(f) \in Content /\ Assembled(f).ids = Described(f)
    BY <2>1, AssembledFacts, DescribedIds DEF PendingInv, ConfFiles
  <2>3. disk'[f] # NoFile /\ (~On(f) => disk'[f] = Assembled(f))
    BY <2>1, <2>2, MergedFacts DEF On, TypeOK
  <2>4. \A g \in Files : g # f => disk'[g] = disk[g]
    BY <2>1 DEF TypeOK
  <2>5. \A g \in Files : On(g) => On(g)' /\ disk[g].ids \subseteq disk'[g].ids
    BY <2>1, <2>2, SaveKeepsIds
  <2>6. ASSUME NEW g \in ConfFiles, On(g)' PROVE Described(g) \subseteq disk'[g].ids
    <3>1. CASE On(g)
      BY <1>0, <2>5, <3>1 DEF NamesInv
    <3>2. CASE ~On(g)
      <4>1. g = f
        BY <1>0, <2>4, <2>6, <3>2 DEF On
      <4> QED BY <2>2, <2>3, <3>2, <4>1
    <3> QED BY <3>1, <3>2
  <2>7. \A g \in ConfFiles : On(g)' \/ g \in pending'
    BY <1>0, <2>1, <2>3, <2>5 DEF NamesInv, On
  <2> QED BY <2>1, <2>6, <2>7 DEF NamesInv
<1>8. CASE GenerateDone
  BY <1>0, <1>8 DEF GenerateDone, NamesInv, On, Listed
<1>9. ASSUME NEW f \in Files, LoadFile(f) PROVE NamesInv'
  <2>1. Parses(f)
    BY DEF Parses, NamesAgree
  <2>2. /\ phase = "load" /\ phase' = "load" /\ f \in pending /\ pending' = pending \ {f}
        /\ index' = Indexed(f) /\ disk' = disk /\ call' = call
    BY <1>9, <2>1 DEF LoadFile
  <2>3. \A i \in Ids : index'[i] = IF i \in disk[f].ids /\ index[i] = NoFile THEN f ELSE index[i]
    BY <2>2 DEF Indexed
  <2>4. \A i \in Ids : /\ index[i] # NoFile => index'[i] # NoFile
                       /\ i \in disk[f].ids => index'[i] # NoFile
    BY <2>3, NoFileAssumption
  <2>5. ASSUME NEW g \in ConfFiles, g \notin pending'
        PROVE  \A i \in Described(g) : index'[i] # NoFile
    <3>1. CASE g = f
      BY <2>2, <2>4, <2>5, <3>1, DescribedIds DEF NamesInv
    <3>2. CASE g # f
      BY <2>2, <2>4, <2>5, <3>2, DescribedIds DEF NamesInv
    <3> QED BY <3>1, <3>2
  <2> QED BY <2>2, <2>5 DEF NamesInv, On
<1>10. CASE LoadDone
  <2>1. /\ phase = "load" /\ pending = {} /\ phase' = "mark" /\ UNCHANGED <<disk, index>>
        /\ call'.ids = Wanted
    BY <1>10 DEF LoadDone
  <2> QED BY <2>1 DEF NamesInv, On, NamesAgree
<1>11. CASE MarkNext
  <2> DEFINE h == Head(call.ids)
  <2>1. /\ phase = "mark" /\ call.ids # <<>> /\ call.ids \in Seq(Ids)
    BY <1>11 DEF MarkNext, TypeOK
  <2>2. Ranged(call.ids) = {h} \cup Ranged(Tail(call.ids))
    BY <2>1, RangedFacts
  <2>3. index[h] # NoFile
    BY <2>1, <2>2 DEF NamesInv, Configured, ConfFiles
  <2>4. /\ phase' = "mark" /\ UNCHANGED <<disk, index>> /\ call'.ids = Tail(call.ids)
    BY <1>11, <2>1, <2>3 DEF MarkNext, TypeOK
  <2> QED BY <2>1, <2>2, <2>4 DEF NamesInv, On
<1>12. CASE MarkDone \/ SaveDone
  BY <1>12 DEF MarkDone, SaveDone, NamesInv, On
<1>13. ASSUME NEW f \in Files, SaveFile(f) PROVE NamesInv'
  <2>1. /\ phase = "save" /\ phase' = "save" /\ mem[f] \in Content
        /\ disk' = [disk EXCEPT ![f] = Merged(disk[f], mem[f])] /\ UNCHANGED <<index, call>>
    BY <1>13 DEF SaveFile, PendingInv, TypeOK
  <2>2. \A g \in ConfFiles : On(g) => On(g)' /\ disk[g].ids \subseteq disk'[g].ids
    BY <1>0, <2>1, SaveKeepsIds
  <2> QED BY <2>1, <2>2 DEF NamesInv
<1>14. ASSUME NEW c \in Calls, EnableMany(c) PROVE NamesInv'
  BY <1>14 DEF EnableMany, NamesInv, On, NamesAgree
<1>15. ASSUME NEW s \in Singles, EnableOne(s) PROVE NamesInv'
  <2>0. phase = "ready" /\ UNCHANGED <<index, call>> /\ s.id \in Ids /\ s.value \in BOOLEAN
    BY <1>15, CallsAssumption DEF EnableOne
  <2>1. CASE index[s.id] = NoFile
    <3>1. ~s.value
      BY <2>0, <2>1 DEF NamesAgree, NamesInv, Configured, ConfFiles
    <3> QED BY <1>15, <2>0, <2>1, <3>1 DEF EnableOne, NamesInv, On
  <2>2. CASE index[s.id] # NoFile
    <3>1. index[s.id] \in Files /\ mem[index[s.id]] \in Content
      BY <2>0, <2>2 DEF TypeOK, PendingInv
    <3>2. Switched(mem[index[s.id]], s.id, s.value) \in Content
      BY <2>0, <3>1, SwitchedFacts
    <3>3. /\ phase' = "ready"
          /\ disk' = [disk EXCEPT ![index[s.id]] =
                        Merged(disk[index[s.id]], Switched(mem[index[s.id]], s.id, s.value))]
      BY <1>15, <2>2 DEF EnableOne
    <3>4. \A g \in ConfFiles : On(g) => On(g)' /\ disk[g].ids \subseteq disk'[g].ids
      BY <1>0, <3>1, <3>2, <3>3, SaveKeepsIds
    <3> QED BY <2>0, <3>3, <3>4 DEF NamesInv
  <2> QED BY <2>1, <2>2
<1>16. ASSUME NEW p \in DOMAIN Package, PackageDrops(p) PROVE NamesInv'
  <2> DEFINE new == [origin |-> "package", ids |-> Package[p], on |-> Package[p]]
  <2>1. /\ phase' = phase /\ phase \in {"off", "ready"} /\ UNCHANGED <<index, call>> /\ p \in Files
        /\ disk' = [disk EXCEPT ![p] = new] /\ disk[p] = NoFile
    BY <1>16, FilesAssumption DEF PackageDrops
  <2>2. \A g \in Files : g # p => disk'[g] = disk[g]
    BY <2>1 DEF TypeOK
  <2>3. disk'[p].ids = Package[p]
    BY <2>1 DEF TypeOK
  <2>4. \A g \in ConfFiles : On(g)' => Described(g) \subseteq disk'[g].ids
    BY <1>0, <2>2, <2>3 DEF NamesInv, NamesAgree, On, ConfFiles
  <2>5. phase = "ready" => \A g \in ConfFiles : g # p
    BY <2>1 DEF NamesInv, On
  <2> QED BY <1>0, <2>1, <2>2, <2>4, <2>5 DEF NamesInv, On
<1>17. CASE UNCHANGED vars
  BY <1>17 DEF vars, NamesInv, On
<1> QED BY <1>2, <1>3, <1>4, <1>5, <1>6, <1>7, <1>8, <1>9, <1>10, <1>11, <1>12, <1>13, <1>14,
           <1>15, <1>16, <1>17 DEF Next, Initialize

\* Where names agree, configuring the repositories never aborts, wherever
\* earlier runs were interrupted (RPMRepoManager::enable finds each id that
\* resolveReposNames or a client asks for, and each file that it loads parses).
THEOREM Configures ==
  ASSUME NamesAgree
  PROVE  Spec => []ConfigurationSucceeds
<1>1. Init => NamesInv
  <2> SUFFICES ASSUME Init PROVE NamesInv
    OBVIOUS
  <2>1. ASSUME NEW f \in ConfFiles, On(f) PROVE Described(f) \subseteq disk[f].ids
    BY <2>1, DescribedIds DEF Init, On, NamesAgree, ConfFiles
  <2> QED BY <2>1 DEF Init, NamesInv, NoCall, Ranged, Active
<1>2. NamesInv => ConfigurationSucceeds
  BY DEF NamesInv, ConfigurationSucceeds
<1>3. TypeOK /\ PendingInv /\ NamesInv /\ [Next]_vars => NamesInv'
  BY NamesNext
<1> QED BY <1>1, <1>2, <1>3, TypeInit, TypeStep, PTL DEF Spec
=============================================================================
