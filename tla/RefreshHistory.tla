--------------------------- MODULE RefreshHistory ---------------------------
(* PrimaryAlias with two history variables about get_current_primary's      *)
(* refresh:true (tools.ts:357): the refreshes that are under way, and the   *)
(* age of the latest one that succeeded, counted from its start.            *)
EXTENDS PrimaryAlias

VARIABLES refreshing, refreshed

hvars == <<primary, failovers, since, cache, learned, job, refreshing, refreshed>>

HInit == Init /\ refreshing = {} /\ refreshed = Old

HNext ==
  \/ \E c \in Call :
       \/ /\ Start(c, TRUE)
          /\ refreshing' = refreshing \union {c} /\ UNCHANGED refreshed
       \/ /\ Progress(c)
          /\ refreshing' = {d \in refreshing : job'[d].at \notin {"idle", "threw"}}
          /\ refreshed' = IF c \in refreshing /\ job'[c].at = "idle"
                            THEN job[c].age ELSE refreshed
       \/ Start(c, FALSE) /\ UNCHANGED <<refreshing, refreshed>>
       \/ Again(c) /\ UNCHANGED <<refreshing, refreshed>>
  \/ \E r \in Replica : Failover(r) /\ UNCHANGED <<refreshing, refreshed>>
  \/ Tick /\ refreshed' = Older(refreshed) /\ UNCHANGED refreshing

HSpec == HInit /\ [][HNext]_hvars

(* "refresh: If true, invalidates the 60s primary cache before resolving -  *)
(* use after a failover" (tools.ts:352): once a refresh has succeeded, the  *)
(* alias does not lead to a node that had lost the role before it began.    *)
RefreshIsHeard == Valid => since[cache.name] <= refreshed
=============================================================================
