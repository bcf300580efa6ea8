------------------------------ MODULE RepoStore -------------------------------
(***************************************************************************)
(* What RepoManager (services/repos.h) promises to those who call it, with *)
(* neither files nor memory: repositories are known by their ids, each     *)
(* known id is switched on or off, and the switches are changed by         *)
(* requests.  Setting up enables nothing; a request changes the switches   *)
(* it names, to the value it gives and to nothing else, in any order; and  *)
(* a request that comes to its end has changed all of them.                *)
(***************************************************************************)
CONSTANTS
  Ids,        \* repository ids
  Defaults,   \* ids that are switched on at the end of each set-up
  Batches,    \* requests for several ids: [ids, value]
  Singles     \* requests for one id: [id, value]

VARIABLES
  store,      \* the values an id is switched to in the files that define it
  mode,       \* is a set-up or a request in progress?
  todo,       \* ids of the request that are not switched yet
  value       \* what they are to be switched to

vars == <<store, mode, todo, value>>

TypeOK ==
  /\ store \in [Ids -> SUBSET BOOLEAN]
  /\ mode \in {"idle", "setup", "switch"}
  /\ todo \subseteq Ids /\ value \in BOOLEAN

Init ==
  /\ store \in [Ids -> SUBSET BOOLEAN]
  /\ mode = "idle" /\ todo = {} /\ value = TRUE

\* An id that is defined twice is switched in one of its files.
SwitchedTo(i, v) == v \in store'[i] /\ store'[i] \subseteq store[i] \cup {v}

-----------------------------------------------------------------------------
(* RepoManager::initializeDefaultRepositories                               *)

BeginSetup ==
  /\ mode = "idle" /\ mode' = "setup"
  /\ UNCHANGED <<store, todo, value>>

\* Files come and go, but none that enables a repository comes.
SetUp ==
  /\ mode = "setup"
  /\ \A i \in Ids : TRUE \in store'[i] => TRUE \in store[i]
  /\ UNCHANGED <<mode, todo, value>>

EndSetup ==
  /\ mode = "setup" /\ mode' = "switch"
  /\ todo' = Defaults /\ value' = TRUE
  /\ UNCHANGED store

-----------------------------------------------------------------------------
(* RepoManager::enable and disable                                          *)

Begin ==
  /\ mode = "idle" /\ mode' = "switch"
  /\ \E r \in Batches : todo' = r.ids /\ value' = r.value
  /\ UNCHANGED store

Switch ==
  /\ mode = "switch"
  /\ todo' \subseteq todo
  /\ \A i \in Ids : IF i \in todo \ todo' THEN SwitchedTo(i, value)
                                           ELSE store'[i] = store[i]
  /\ UNCHANGED <<mode, value>>

End ==
  /\ mode = "switch" /\ todo = {}
  /\ mode' = "idle" /\ value' = TRUE
  /\ UNCHANGED <<store, todo>>

Single ==
  /\ mode = "idle"
  /\ \E r \in Singles :
       /\ SwitchedTo(r.id, r.value)
       /\ \A i \in Ids \ {r.id} : store'[i] = store[i]
  /\ UNCHANGED <<mode, todo, value>>

-----------------------------------------------------------------------------
(* What the callers do not ask for                                          *)

\* The program dies, or gives up on an id that it does not know.
Abort ==
  /\ mode # "idle" /\ mode' = "idle"
  /\ todo' = {} /\ value' = TRUE
  /\ UNCHANGED store

\* Others define repositories, as dnf does when it installs a package.
Arrive ==
  /\ mode = "idle"
  /\ \A i \in Ids : store[i] \subseteq store'[i]
  /\ UNCHANGED <<mode, todo, value>>

Next ==
  \/ BeginSetup \/ SetUp \/ EndSetup
  \/ Begin \/ Switch \/ End \/ Single
  \/ Abort \/ Arrive

Spec == Init /\ [][Next]_vars
=============================================================================
