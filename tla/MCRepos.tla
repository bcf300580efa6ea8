------------------------------ MODULE MCRepos -------------------------------
(***************************************************************************)
(* Rocky Linux 9 in small.  The vendor ships a file under the name the     *)
(* project generates (rocky.repo) with one repository more, a site-local   *)
(* file without an "enabled" key, and a disused one called old.REPO.  A    *)
(* package may drop a file that repeats the id of a generated one.         *)
(***************************************************************************)
EXTENDS Repos

CONSTANTS baseos, crb, extras, epel, debug, xcat     \* repository ids

MCFiles == {"rocky.repo", "site.repo", "old.REPO", "epel.repo", "xcat-core.repo",
            "epel-release.repo"}
MCIds == {baseos, crb, extras, epel, debug, xcat}

MCVendor == [f \in {"rocky.repo", "site.repo", "old.REPO"} |->
               IF f = "rocky.repo" THEN {baseos, crb, extras} ELSE {extras}]
MCPackage == [f \in {"epel-release.repo"} |-> {epel, extras}]
MCDistro == [f \in {"rocky.repo"} |-> {baseos, crb}]
MCCommon == [f \in {"epel.repo", "xcat-core.repo"} |->
               IF f = "epel.repo" THEN {epel, debug} ELSE {xcat}]
MCWanted == <<baseos, crb, epel>>

\* Shell::install enables xcat-core by itself; a client may also switch a
\* vector of repositories, known or not, or disable a single one.
MCCalls == {[ids |-> <<crb, extras>>, value |-> FALSE]}
MCSingles == {[id |-> xcat, value |-> TRUE], [id |-> extras, value |-> FALSE]}
=============================================================================
