------------------------ MODULE MCHealthCheckScript ------------------------
(* HealthCheckScript for TLC: a check of each kind that can differ, one of  *)
(* them skipped up front.                                                   *)
EXTENDS HealthCheckScript

MCCatalog == <<"graded", "skipped", "assessment", "inventory">>
=============================================================================
