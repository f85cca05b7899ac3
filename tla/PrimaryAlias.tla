---------------------------- MODULE PrimaryAlias ----------------------------
(***************************************************************************)
(* connectionManager.ts: the "<region>-primary" alias of one region.       *)
(*                                                                         *)
(* resolveRegionPrimary() answers from a cache with a time to live; on a   *)
(* miss it asks the region's nodes in turn who the primary of the          *)
(* availability group is, and maps the name they report to a fleet         *)
(* instance by comparing it with each node's own server name, which is     *)
(* learned once and kept.  Concurrent misses all resolve; each stores what *)
(* it found.  get_current_primary with refresh:true drops the cache first. *)
(* A call that hits the cache changes nothing and is not an action.        *)
(*                                                                         *)
(* Time passes in ticks; ages saturate at Old.                             *)
(***************************************************************************)
EXTENDS Naturals, Sequences, SequencesExt

CONSTANTS
  Call,          \* the slots in which resolves run, each used again and again
  Replica,       \* the replicas of the availability group
  Candidates,    \* the fleet's nodes of the region, in order
  None,
  Ttl,           \* PRIMARY_CACHE_TTL_MS, in ticks
  Slow,          \* a resolve's awaits end within this many ticks
  MaxFailovers   \* bound of the model

ASSUME AliasAssumption ==
  /\ Candidates \in Seq(Replica) /\ Candidates # <<>> /\ IsInjective(Candidates)
  /\ None \notin Replica
  /\ Ttl \in Nat \ {0} /\ Slow \in Nat /\ MaxFailovers \in Nat

Old  == Ttl + Slow + 1
Ages == 0..Old
Turn == 1..Len(Candidates)

VARIABLES
  primary,     \* the replica that is primary now
  failovers,   \* how many failovers there were
  since,       \* ticks since each replica was last primary
  cache,       \* primaryCache's entry: the node, and the ticks left to live
  learned,     \* serverNameCache: the candidates whose server name is known
  job          \* how far each resolve is

vars == <<primary, failovers, since, cache, learned, job>>

(* A resolve: the candidate whose AG state it asks, the candidate whose     *)
(* server name it asks, the primary reported to it, ticks since it started, *)
(* and whether one of its queries failed or the primary moved meanwhile.    *)
Job == [at : {"idle", "asking", "naming", "threw"}, cand : Turn, node : Turn,
        seen : Replica \union {None}, age : 0..Slow, trouble : BOOLEAN]

Idle == [at |-> "idle", cand |-> 1, node |-> 1, seen |-> None,
         age |-> 0, trouble |-> FALSE]

NoEntry == [name |-> None, left |-> 0]

Init ==
  /\ primary \in Replica
  /\ failovers = 0
  /\ since = [r \in Replica |-> IF r = primary THEN 0 ELSE Old]
  /\ cache = NoEntry
  /\ learned = {}
  /\ job = [c \in Call |-> Idle]

----------------------------------------------------------------------------
Configured(r) == r \in ToSet(Candidates)

Running(c) == job[c].at \in {"asking", "naming"}

Suspend(c, j) == job' = [job EXCEPT ![c] = j]

Valid == cache.left > 0                    \* cached.expiresAt > Date.now()

(* A miss, or a refresh, which invalidates first. *)
Start(c, isRefresh) ==
  /\ job[c].at = "idle"
  /\ isRefresh \/ ~Valid
  /\ cache' = IF isRefresh THEN NoEntry ELSE cache
  /\ Suspend(c, [Idle EXCEPT !.at = "asking", !.trouble = ~Configured(primary)])
  /\ UNCHANGED <<primary, failovers, since, learned>>

Throw(c, j) ==
  /\ Suspend(c, [Idle EXCEPT !.at = "threw", !.trouble = j.trouble])
  /\ UNCHANGED cache

\* mutant: the first candidate's failure ends the resolve
GiveUp(c, j) == Throw(c, j)

(* catch (e) { lastErr = e }: on to the next candidate, or throw. *)
NextCandidate(c, j) ==
  IF j.cand = Len(Candidates) THEN Throw(c, j)
  ELSE /\ Suspend(c, [j EXCEPT !.at = "asking", !.cand = j.cand + 1,
                               !.node = 1, !.seen = None])
       /\ UNCHANGED cache

(* primaryCache.set: the time to live counts from here. *)
Store(n) == [name |-> n, left |-> Ttl]

Found(c, n) ==
  /\ cache' = Store(n)
  /\ Suspend(c, Idle)

(* The comparison runs on through the names that are known, up to a match   *)
(* or a name that has to be asked for.                                      *)
StopsAt(k, name, known) ==
  SelectInSubSeq(Candidates, k, Len(Candidates), LAMBDA n : n = name \/ n \notin known)

Compare(c, j, k, known) ==
  LET stop == StopsAt(k, j.seen, known)
  IN  IF stop = 0 THEN NextCandidate(c, j)
      ELSE IF Candidates[stop] \in known THEN Found(c, Candidates[stop])
      ELSE /\ Suspend(c, [j EXCEPT !.at = "naming", !.node = stop])
           /\ UNCHANGED cache

Failed(j) == [j EXCEPT !.trouble = TRUE]

(* A candidate answers with the primary it sees; one that is a secondary    *)
(* may have no row for a primary.                                           *)
Answer(c) ==
  /\ job[c].at = "asking"
  /\ \/ Compare(c, [job[c] EXCEPT !.seen = primary], 1, learned)
     \/ /\ Candidates[job[c].cand] # primary
        /\ NextCandidate(c, job[c])
  /\ UNCHANGED <<primary, failovers, since, learned>>

AnswerFails(c) ==
  /\ job[c].at = "asking"
  /\ NextCandidate(c, Failed(job[c]))
  /\ UNCHANGED <<primary, failovers, since, learned>>

Named(c) ==
  /\ job[c].at = "naming"
  /\ learned' = learned \union {Candidates[job[c].node]}
  /\ Compare(c, job[c], job[c].node, learned')
  /\ UNCHANGED <<primary, failovers, since>>

(* getServerName(...).catch(() => ""): no name, on to the next. *)
NamingFails(c) ==
  /\ job[c].at = "naming"
  /\ Compare(c, Failed(job[c]), job[c].node + 1, learned)
  /\ UNCHANGED <<primary, failovers, since, learned>>

(* The caller gets the error; the slot can be used again. *)
Again(c) ==
  /\ job[c].at = "threw"
  /\ Suspend(c, Idle)
  /\ UNCHANGED <<primary, failovers, since, cache, learned>>

Failover(r) ==
  /\ failovers < MaxFailovers /\ r # primary
  /\ failovers' = failovers + 1
  /\ primary' = r
  /\ since' = [since EXCEPT ![r] = 0]
  /\ job' = [c \in Call |-> IF Running(c) THEN Failed(job[c]) ELSE job[c]]
  /\ UNCHANGED <<cache, learned>>

Older(n) == IF n < Old THEN n + 1 ELSE Old

\* mutant: expiresAt is never compared
Unaged(entry) == entry

Aged(entry) == IF entry.left > 1 THEN [entry EXCEPT !.left = entry.left - 1] ELSE NoEntry

Tick ==
  /\ \A c \in Call : Running(c) => job[c].age < Slow
  /\ since' = [r \in Replica |-> IF r = primary THEN 0 ELSE Older(since[r])]
  /\ cache' = Aged(cache)
  /\ job' = [c \in Call |-> IF Running(c) THEN [job[c] EXCEPT !.age = job[c].age + 1]
                             ELSE job[c]]
  /\ UNCHANGED <<primary, failovers, learned>>

Progress(c) == Answer(c) \/ AnswerFails(c) \/ Named(c) \/ NamingFails(c)

Next ==
  \/ \E c \in Call : Progress(c) \/ Again(c) \/ \E isRefresh \in BOOLEAN : Start(c, isRefresh)
  \/ \E r \in Replica : Failover(r)
  \/ Tick

SafeSpec == Init /\ [][Next]_vars

(* Every await ends (connect and request timeouts); time passes. *)
Spec == SafeSpec /\ WF_vars(Tick) /\ \A c \in Call : WF_vars(Progress(c))

----------------------------------------------------------------------------
(* Types; a resolve that waits for a name waits for one it does not know.   *)
TypeOK ==
  /\ primary \in Replica /\ failovers \in 0..MaxFailovers
  /\ since \in [Replica -> Ages]
  /\ cache = NoEntry \/ cache \in [name : ToSet(Candidates), left : 1..Ttl]
  /\ learned \subseteq ToSet(Candidates)
  /\ job \in [Call -> Job]
  /\ \A c \in Call : job[c].at = "naming" <=> job[c].seen # None

(* However resolves overlap with failovers and with each other, an alias is *)
(* routed by the cache only to a node that was the primary at most one time *)
(* to live and one resolve ago (lines 616-619, 971-973, 1014).              *)
StaleAtMost ==
  Valid => since[cache.name] <= (Ttl - cache.left) + Slow

(* A resolve fails only for a reason: one of its queries failed, the        *)
(* primary is not in the fleet, or it moved meanwhile.  One silent          *)
(* candidate, or one whose name is unknown, is not enough (lines 990-1027). *)
NoFalseAlarm ==
  \A c \in Call : job[c].at = "threw" => job[c].trouble

(* When failovers stop, the alias comes to lead to the primary for good:    *)
(* late answers of resolves begun before die out with their entries.        *)
Converges == <>[](Valid => cache.name = primary)
=============================================================================
