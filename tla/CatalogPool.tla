---------------------------- MODULE CatalogPool ----------------------------
(***************************************************************************)
(* connectionManager.ts, getPool(): the process-wide map of connection     *)
(* pools and the catalog fallback.                                         *)
(*                                                                         *)
(* A call looks its key up, and on a miss dials the instance with the      *)
(* configured database as initial catalog.  If that database cannot be     *)
(* opened it dials again with `master`, asks the server what is wrong with *)
(* the database, and keeps the second pool with a warning and a retirement *)
(* timer, or closes it and throws when the database does not exist.        *)
(*                                                                         *)
(* Concurrent calls for one key are not joined: each dials, each registers *)
(* its pool, the last one stays in the map.  An action is what runs        *)
(* between two awaits, or one event (a pool error, a timer).  The          *)
(* configured pool is registered in the same turn its connect() resolves;  *)
(* the fallback pool is registered only after the probe's await.           *)
(***************************************************************************)
EXTENDS FiniteSets

CONSTANTS
  Call,       \* the calls of getPool
  Key,        \* identity::instance[#rw]
  None,       \* no pool
  Fallible,   \* keys with the fallback enabled and a database other than master
  Missing,    \* keys whose fleet entry names a database that does not exist
  Sighted     \* keys whose login sees more than the system databases

ASSUME PoolAssumption ==
  /\ None \notin Call
  /\ Fallible \subseteq Key /\ Missing \subseteq Key /\ Sighted \subseteq Key

(* A call keeps at most one pool, which is named after it. *)
Pool == Call

Place   == {"idle", "dialing", "retrying", "probing", "closing", "returned", "threw"}
Catalog == {"none", "configured", "fallback"}

VARIABLES
  pools,     \* the map: the pool registered under each key, or None
  pc,        \* where each call is suspended, or how it ended
  key,       \* the key of each call
  result,    \* the pool a call returned
  open,      \* pools that are connected; their error handler is attached
  catalog,   \* the catalog each pool was dialed with
  info,      \* poolCatalogInfo: what getCatalogInfo(pool) reports
  armed,     \* pools whose retirement timer is armed
  errored,   \* pools that have emitted an error
  sick       \* keys whose database exists and cannot be opened now

vars == <<pools, pc, key, result, open, catalog, info, armed, errored, sick>>

Init ==
  /\ pools = [k \in Key |-> None]
  /\ pc = [c \in Call |-> "idle"]
  /\ key \in [Call -> Key]
  /\ result = [c \in Call |-> None]
  /\ open = {} /\ armed = {} /\ errored = {}
  /\ catalog = [p \in Pool |-> "none"]
  /\ info = [p \in Pool |-> "none"]
  /\ sick \in SUBSET (Key \ Missing)

----------------------------------------------------------------------------
Suspend(c, place) == pc' = [pc EXCEPT ![c] = place]

Return(c, p) == /\ pc' = [pc EXCEPT ![c] = "returned"]
                /\ result' = [result EXCEPT ![c] = p]

Throw(c) == /\ Suspend(c, "threw")
            /\ UNCHANGED result

\* mutant: a failed dial is retried, whatever the error
Redial(c) == /\ Suspend(c, "dialing")
             /\ UNCHANGED result

Fail(c) == Throw(c)

(* The call's pool goes under its key and is handed to the caller. *)
Register(c) ==
  /\ pools' = [pools EXCEPT ![key[c]] = c]
  /\ Return(c, c)

Hit(c) == pools[key[c]] \in open                        \* existing?.connected

Enter(c) ==
  /\ pc[c] = "idle"
  /\ IF Hit(c) THEN Return(c, pools[key[c]])
               ELSE Suspend(c, "dialing") /\ UNCHANGED result
  /\ UNCHANGED <<pools, key, open, catalog, info, armed, errored, sick>>

(* connect() with the configured catalog resolved. *)
DialOk(c) ==
  /\ pc[c] = "dialing" /\ key[c] \notin sick \union Missing
  /\ open' = open \union {c}
  /\ catalog' = [catalog EXCEPT ![c] = "configured"]
  /\ info' = [info EXCEPT ![c] = "configured"]
  /\ Register(c)
  /\ UNCHANGED <<key, armed, errored, sick>>

(* connect() rejected with an error that is about the catalog; a replica or *)
(* login of its own can fail this way while the database is online.         *)
CatalogError(c) ==
  /\ pc[c] = "dialing" /\ key[c] \in Fallible
  /\ Suspend(c, "retrying")
  /\ UNCHANGED <<pools, key, result, open, catalog, info, armed, errored, sick>>

(* Any other rejection, of either dial. *)
DialFails(c) ==
  /\ pc[c] \in {"dialing", "retrying"}
  /\ Fail(c)
  /\ UNCHANGED <<pools, key, open, catalog, info, armed, errored, sick>>

FallbackOk(c) ==
  /\ pc[c] = "retrying"
  /\ open' = open \union {c}
  /\ catalog' = [catalog EXCEPT ![c] = "fallback"]
  /\ Suspend(c, "probing")
  /\ UNCHANGED <<pools, key, result, info, armed, errored, sick>>

(* The probe found no row for the database: it does not exist, or the login *)
(* does not see user databases.  The query may also fail ("unread").        *)
NoRow(c) == key[c] \in Missing \/ key[c] \notin Sighted

(* state === null && canSeeCatalog *)
Refused(c, answer) == answer = "noRow" /\ key[c] \in Sighted

Timer(c) == armed \union {c}

\* mutant: the fallback pool is kept without a retirement timer
NoTimer(c) == armed

Retirement(c) == Timer(c)

\* mutant: the wrong catalog is recorded for a kept fallback pool
RecordConfigured(c) == [info EXCEPT ![c] = "configured"]

Record(c) == [info EXCEPT ![c] = "fallback"]

ProbeRefuses(c) ==
  /\ pc[c] = "probing" /\ NoRow(c) /\ Refused(c, "noRow")
  /\ Suspend(c, "closing")
  /\ UNCHANGED <<pools, key, result, open, catalog, info, armed, errored, sick>>

ProbeKeeps(c) ==
  /\ pc[c] = "probing"
  /\ \E answer \in {"unread", "noRow", "row"} :
       /\ answer = "noRow" => NoRow(c)
       /\ answer = "row" => ~NoRow(c)
       /\ ~Refused(c, answer)
  /\ info' = Record(c)
  /\ armed' = Retirement(c)
  /\ Register(c)
  /\ UNCHANGED <<key, open, catalog, errored, sick>>

\* mutant: the refused pool is dropped without a close
LeaveOpen(c) == open

CloseRefused(c) == open \ {c}

Closed(c) ==
  /\ pc[c] = "closing"
  /\ open' = CloseRefused(c)
  /\ Throw(c)
  /\ UNCHANGED <<pools, key, catalog, info, armed, errored, sick>>

----------------------------------------------------------------------------
(* pools.get(key) === thisPool guards both the error handler and the timer. *)

\* mutant: whatever pool is registered under the key is removed
EvictAny(p) == pools' = [pools EXCEPT ![key[p]] = None]

\* mutant: an error is only logged
EvictNone(p) == UNCHANGED pools

Evict(p) == pools' = [k \in Key |-> IF k = key[p] /\ pools[k] = p THEN None ELSE pools[k]]

(* The "error" handler; a pool may emit more than one error. *)
PoolError(p) ==
  /\ p \in open
  /\ errored' = errored \union {p}
  /\ Evict(p)
  /\ UNCHANGED <<pc, key, result, open, catalog, info, armed, sick>>

(* The timer callback of a fallback pool. *)
Retire(p) ==
  /\ p \in armed
  /\ armed' = armed \ {p}
  /\ Evict(p)
  /\ UNCHANGED <<pc, key, result, open, catalog, info, errored, sick>>

(* The database becomes unavailable or recovers. *)
HealthChanges(k) ==
  /\ k \notin Missing
  /\ sick' = IF k \in sick THEN sick \ {k} ELSE sick \union {k}
  /\ UNCHANGED <<pools, pc, key, result, open, catalog, info, armed, errored>>

DialEnds(c) == DialOk(c) \/ CatalogError(c) \/ DialFails(c) \/ FallbackOk(c)

Progress(c) == DialEnds(c) \/ ProbeRefuses(c) \/ ProbeKeeps(c) \/ Closed(c)

Next ==
  \/ \E c \in Call : Enter(c) \/ Progress(c)
  \/ \E p \in Pool : PoolError(p) \/ Retire(p)
  \/ \E k \in Key : HealthChanges(k)

SafeSpec == Init /\ [][Next]_vars

(* connectionTimeout and requestTimeout end every await of getPool; a timer *)
(* that is armed fires.                                                     *)
Spec == /\ SafeSpec
        /\ \A c \in Call : WF_vars(Progress(c))
        /\ \A p \in Pool : WF_vars(Retire(p))

----------------------------------------------------------------------------
InMap(p) == pools[key[p]] = p

(* Types, and a call holds a pool exactly when it returned one.             *)
TypeOK ==
  /\ pools \in [Key -> Pool \union {None}]
  /\ pc \in [Call -> Place]
  /\ key \in [Call -> Key]
  /\ result \in [Call -> Pool \union {None}]
  /\ open \subseteq Pool /\ armed \subseteq Pool /\ errored \subseteq Pool
  /\ catalog \in [Pool -> Catalog] /\ info \in [Pool -> Catalog]
  /\ sick \subseteq Key \ Missing
  /\ \A c \in Call : pc[c] = "returned" <=> result[c] # None

(* Two principals never share a pool, whichever call dialed it: whatever a  *)
(* call returned, or the map holds under a key, was dialed for that very    *)
(* key and is not a pool getPool refused (lines 684-718, 873).              *)
NeverShared ==
  /\ \A c \in Call : result[c] # None =>
       key[result[c]] = key[c] /\ result[c] \in open
  /\ \A k \in Key : pools[k] # None =>
       key[pools[k]] = k /\ pools[k] \in open

(* Every caller that works in `master` is told so, also one that got the    *)
(* pool from the map, and nobody else is (lines 764, 787, 851-872).         *)
WarnedIffFallback ==
  \A c \in Call : result[c] # None => info[result[c]] = catalog[result[c]]

(* A call that threw, or is suspended before its fallback connected, leaves *)
(* no connected pool behind (lines 766-787, 837).                           *)
NoPoolLeaks ==
  \A c \in Call : pc[c] \in {"idle", "dialing", "retrying", "threw"} => c \notin open

(* A pool that emitted an error is served to later callers only if it is a  *)
(* fallback pool whose error came during the probe, before it was           *)
(* registered; then its retirement bounds it (lines 796-799, 872-873).      *)
ErrorEvicts ==
  \A p \in Pool : p \in errored /\ InMap(p) => catalog[p] = "fallback" /\ p \in armed

(* A late error or timer of a pool that lost its place removes nothing: a   *)
(* key loses its pool only in the error or the retirement of that pool      *)
(* (lines 795-799, 897-899).                                                *)
LateEventsSpareOthers ==
  [][\A k \in Key : pools[k] # None /\ pools'[k] = None =>
        PoolError(pools[k]) \/ Retire(pools[k])]_vars

(* No caller is pinned to `master` for the life of the process: a fallback  *)
(* pool leaves the map, whoever registered it and however many calls dialed *)
(* at once (lines 875-903).                                                 *)
FallbackLeaves ==
  \A p \in Pool : (InMap(p) /\ catalog[p] = "fallback") ~> ~InMap(p)

(* Every getPool() that missed settles.                                     *)
EveryCallSettles ==
  \A c \in Call : (pc[c] = "dialing") ~> (pc[c] \in {"returned", "threw"})
=============================================================================
