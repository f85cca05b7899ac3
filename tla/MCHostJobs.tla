---------------------------- MODULE MCHostJobs -----------------------------
(* HostJobs for TLC: two calls, each of either tool.  The event log's limit  *)
(* leaves a budget that ends before it, the cluster log's does not.          *)
EXTENDS HostJobs

MCTimeout == [t \in Tool |-> IF t = EventLog THEN 2 ELSE 1]
=============================================================================
