---------------------------- MODULE MCRefreshHistory ----------------------------
(* RefreshHistory for TLC: two nodes of the region in the fleet, one replica  *)
(* that is not, two resolves at a time.                                     *)
EXTENDS RefreshHistory

CONSTANTS n1, n2, n3

MCReplica    == {n1, n2, n3}
MCCandidates == <<n1, n2>>
=============================================================================
