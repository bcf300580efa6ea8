------------------------------ MODULE MCStartup ------------------------------
(***************************************************************************)
(* Startup in small: one command line for each way through main, with and  *)
(* without what a file of --config adds, and machines on both sides of     *)
(* every check.                                                            *)
(***************************************************************************)
EXTENDS Startup

MCCommandLines ==
  {{}, {"version"}, {"help", "unknown"}, {"unknown"}, {"cli"}, {"dry"}, {"unattended"},
   {"answerfile"}, {"answerfile", "dry", "dump"}, {"answerfile", "unattended", "dump"},
   {"test"}, {"test", "dry"}}

MCConfigFiles == {None, Missing, {"unattended"}, {"answerfile", "dry"}, {"test"}}

Rocky == [id |-> "rocky", platform |-> "el9", version |-> <<9, 5>>]

MCOsReleases ==
  {Missing, Rocky, [Rocky EXCEPT !.id = "fedora"], [Rocky EXCEPT !.platform = "el7"],
   [Rocky EXCEPT !.version = <<7, 9>>], [Rocky EXCEPT !.version = <<9>>], [Rocky EXCEPT !.id = None]}

MCZoneNames == {<<"UTC">>, <<"Europe", "Lisbon">>, <<"America", "Manaus">>, <<"America", "Belem">>}

=============================================================================
