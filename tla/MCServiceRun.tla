---------------------------- MODULE MCServiceRun ----------------------------
(* ServiceRun for TLC: services that two windows declare, and more         *)
(* services than the table has slots.                                      *)
EXTENDS ServiceRun

SomePlans ==
  {<<"api", "db", "api", "web">>, <<"api", "db", "db", "api">>, <<"db", "web", "db">>}

=============================================================================
