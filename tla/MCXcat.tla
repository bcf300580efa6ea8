------------------------------- MODULE MCXcat --------------------------------
(***************************************************************************)
(* Xcat in small: answerfiles that differ in their nodes, the version of   *)
(* their OS and their InfiniBand stack, every combination of --force       *)
(* genimage and --skip copycds.                                            *)
(***************************************************************************)
EXTENDS Xcat, TLC

CONSTANTS n1, n2, v1, v2   \* interchangeable nodes, and versions

Symmetry == Permutations({n1, n2}) \cup Permutations({v1, v2})
=============================================================================
