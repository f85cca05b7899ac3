------------------------- MODULE PrimaryAliasProofs -------------------------
(***************************************************************************)
(* PrimaryAlias, for any region, time to live and number of resolves: how  *)
(* stale an answer of the cache can be, and that a resolve fails only for  *)
(* a reason.                                                               *)
(***************************************************************************)
EXTENDS PrimaryAlias, FiniteSetTheorems, WellFoundedInduction, SequenceTheorems, TLAPS

(* A set of numbers that is not empty has a least one: among the intervals  *)
(* that begin at 0 and end in the set, one holds no other.                  *)
LEMMA LeastNatural ==
  ASSUME NEW S \in SUBSET Nat, S # {}
  PROVE  \E n \in S : \A m \in S : n <= m
<1>1. PICK top \in S : TRUE OBVIOUS
<1> DEFINE R == StrictSubsetOrdering(0 .. top)
           T == {0 .. n : n \in {m \in S : m <= top}}
<1>2. IsFiniteSet(0 .. top) BY <1>1, FS_Interval
<1>3. T \subseteq FiniteSubsetsOf(0 .. top)
  <2>1. ASSUME NEW n \in S, n <= top PROVE 0 .. n \in SUBSET (0 .. top) /\ IsFiniteSet(0 .. n)
    BY <1>1, <2>1, FS_Interval
  <2> QED BY <2>1 DEF FiniteSubsetsOf
<1>4. T # {} BY <1>1
<1>5. IsWellFoundedOn(R, FiniteSubsetsOf(0 .. top)) BY FS_StrictSubsetOrderingWellFounded
<1>6. PICK x \in T : \A y \in T : <<y, x>> \notin R
  <2> HIDE DEF R, T
  <2> QED BY <1>3, <1>4, <1>5, WFMin
<1>7. PICK n \in S : n <= top /\ x = 0 .. n OBVIOUS
<1>8. ASSUME NEW m \in S, m < n PROVE FALSE
  <2>1. m \in Nat /\ n \in Nat /\ top \in Nat /\ m <= top BY <1>7, <1>8
  <2>2. 0 .. m \in T BY <2>1
  <2>3. 0 .. m \in SUBSET (0 .. top) /\ x \in SUBSET (0 .. top) BY <1>7, <2>1
  <2>4. n \in x /\ n \notin 0 .. m /\ 0 .. m \subseteq x BY <1>7, <1>8, <2>1
  <2>5. <<0 .. m, x>> \in R BY <2>3, <2>4 DEF StrictSubsetOrdering
  <2> QED BY <1>6, <2>2, <2>5
<1>9. \A m \in S : n <= m BY <1>8
<1> QED BY <1>9

LEMMA MinIsLeast ==
  ASSUME NEW S \in SUBSET Nat, S # {}
  PROVE  Min(S) \in S /\ \A m \in S : Min(S) <= m
<1>1. \E n \in S : \A m \in S : n <= m BY LeastNatural
<1> QED BY <1>1 DEF Min

(* Where the comparison stops: at the first name that matches or is not     *)
(* known.                                                                   *)
LEMMA StopsAtIs ==
  ASSUME NEW k \in Nat \ {0}, NEW name, NEW known
  PROVE  \/ /\ StopsAt(k, name, known) = 0
            /\ \A i \in k .. Len(Candidates) : Candidates[i] # name
         \/ /\ StopsAt(k, name, known) \in k .. Len(Candidates)
            /\ \/ Candidates[StopsAt(k, name, known)] = name
               \/ Candidates[StopsAt(k, name, known)] \notin known
            /\ \A i \in k .. StopsAt(k, name, known) - 1 : Candidates[i] # name
<1> DEFINE I == {i \in k .. Len(Candidates) : Candidates[i] = name \/ Candidates[i] \notin known}
<1>1. StopsAt(k, name, known) = IF I # {} THEN Min(I) ELSE 0
  BY DEF StopsAt, SelectInSubSeq
<1>2. Len(Candidates) \in Nat BY AliasAssumption
<1>3. CASE I = {} BY <1>1, <1>3
<1>4. CASE I # {}
  <2>1. I \in SUBSET Nat BY <1>2
  <2>2. Min(I) \in I /\ \A m \in I : Min(I) <= m
    <3> HIDE DEF I
    <3> QED BY <1>4, <2>1, MinIsLeast
  <2>3. StopsAt(k, name, known) = Min(I) BY <1>1, <1>4
  <2>4. ASSUME NEW i \in k .. Min(I) - 1 PROVE Candidates[i] # name
    <3>1. Min(I) \in k .. Len(Candidates) BY <2>2
    <3>2. i \in k .. Len(Candidates) /\ ~(Min(I) <= i)
      <4> HIDE DEF I
      <4> QED BY <1>2, <3>1
    <3> QED BY <2>2, <3>2
  <2> HIDE DEF I
  <2>5. Min(I) \in k .. Len(Candidates)
        /\ (Candidates[Min(I)] = name \/ Candidates[Min(I)] \notin known)
    BY <2>2 DEF I
  <2> QED BY <2>3, <2>4, <2>5
<1> QED BY <1>3, <1>4

----------------------------------------------------------------------------
(* What may be said of a resolve j while p is the primary and s says how    *)
(* long ago each replica was: its record is typed; the name it compares was *)
(* the primary's no longer ago than it has run; unless it had trouble, no   *)
(* candidate or name it has passed is the primary, which is in the fleet;   *)
(* and if it threw, it had trouble.                                         *)
Typed(j) == j \in Job /\ (j.at = "naming" <=> j.seen # None)

Recalls(j, s) == j.at = "naming" => s[j.seen] <= j.age

Searches(j, p) == j.at \in {"asking", "naming"} /\ ~j.trouble =>
  /\ p \in ToSet(Candidates)
  /\ \A i \in 1 .. j.cand - 1 : Candidates[i] # p
  /\ j.at = "naming" => j.seen = p /\ \A i \in 1 .. j.node - 1 : Candidates[i] # p

Good(j, p, s) ==
  /\ Typed(j) /\ Recalls(j, s) /\ Searches(j, p)
  /\ j.at = "threw" => j.trouble

(* The cache is as it was, or holds a node that was primary within a        *)
(* resolve's time.                                                          *)
CachedWell(old, new, s) ==
  \/ new = old
  \/ \E n \in ToSet(Candidates) : new = [name |-> n, left |-> Ttl] /\ s[n] <= Slow

Moves(c, p, s) ==
  /\ \E n : job' = [job EXCEPT ![c] = n] /\ Good(n, p, s)
  /\ CachedWell(cache, cache', s)

Constants == /\ Len(Candidates) \in Nat \ {0} /\ Candidates \in [Turn -> Replica]
             /\ Ttl \in Nat \ {0} /\ Slow \in Nat /\ Old \in Nat /\ None \notin Replica
             /\ ToSet(Candidates) \subseteq Replica
             /\ \A i \in Turn : Candidates[i] \in ToSet(Candidates)
             /\ \A r \in ToSet(Candidates) : \E i \in Turn : Candidates[i] = r

LEMMA ConstantsHold == Constants
<1>1. Candidates \in Seq(Replica) /\ Candidates # <<>> BY AliasAssumption
<1>2. Len(Candidates) \in Nat \ {0} BY <1>1, EmptySeq, LenProperties
<1> QED BY <1>1, <1>2, AliasAssumption DEF Constants, Turn, ToSet, Old

LEMMA IdleIsGood == ASSUME NEW p, NEW s PROVE Good(Idle, p, s) /\ Idle \in Job
<1>1. Idle \in Job BY ConstantsHold DEF Constants, Idle, Job, Turn
<1> QED BY <1>1 DEF Good, Typed, Recalls, Searches, Idle

(* On to the next candidate, of which the primary is one if there was no    *)
(* trouble.                                                                 *)
LEMMA NextCandidateMoves ==
  ASSUME NEW c \in Call, NEW j \in Job, NEW p, NEW s, NextCandidate(c, j),
         j.trouble \/ (p \in ToSet(Candidates) /\ \A i \in 1 .. j.cand : Candidates[i] # p)
  PROVE  Moves(c, p, s)
<1>0. Constants BY ConstantsHold
<1>1. j.cand \in Turn /\ j.trouble \in BOOLEAN /\ j.age \in 0 .. Slow BY DEF Job
<1>2. CASE j.cand = Len(Candidates)
  <2> DEFINE n == [Idle EXCEPT !.at = "threw", !.trouble = j.trouble]
  <2>1. job' = [job EXCEPT ![c] = n] /\ cache' = cache
    BY <1>2 DEF NextCandidate, Throw, Suspend
  <2>2. j.trouble BY <1>0, <1>2 DEF Constants, Turn
  <2>3. n \in Job /\ n.at = "threw" /\ n.seen = None /\ n.trouble
    <3>1. Idle \in Job /\ Idle.seen = None BY IdleIsGood DEF Idle
    <3> QED BY <2>2, <3>1 DEF Job
  <2>4. Good(n, p, s)
    <3> HIDE DEF n
    <3> QED BY <2>3 DEF Good, Typed, Recalls, Searches
  <2> QED BY <2>1, <2>4 DEF Moves, CachedWell
<1>3. CASE j.cand # Len(Candidates)
  <2> DEFINE n == [j EXCEPT !.at = "asking", !.cand = j.cand + 1, !.node = 1, !.seen = None]
  <2>1. job' = [job EXCEPT ![c] = n] /\ cache' = cache
    BY <1>3 DEF NextCandidate, Suspend
  <2>2. /\ n \in Job /\ n.at = "asking" /\ n.seen = None /\ n.trouble = j.trouble
        /\ n.cand = j.cand + 1
    <3>1. 1 \in Turn /\ j.cand + 1 \in Turn BY <1>0, <1>1, <1>3 DEF Constants, Turn
    <3>2. [j EXCEPT !.at = "asking", !.cand = j.cand + 1] \in Job BY <3>1 DEF Job
    <3>3. n = [[j EXCEPT !.at = "asking", !.cand = j.cand + 1] EXCEPT !.node = 1, !.seen = None]
      OBVIOUS
    <3>4. n \in Job BY <3>1, <3>2, <3>3 DEF Job
    <3>5. n.at = "asking" /\ n.seen = None /\ n.trouble = j.trouble /\ n.cand = j.cand + 1
      BY DEF Job
    <3> QED BY <3>4, <3>5
  <2>3. n.cand - 1 = j.cand BY <1>0, <1>1, <2>2 DEF Constants, Turn
  <2>4. Good(n, p, s)
    <3> HIDE DEF n
    <3> QED BY <2>2, <2>3 DEF Good, Typed, Recalls, Searches
  <2> QED BY <2>1, <2>4 DEF Moves, CachedWell
<1> QED BY <1>2, <1>3

(* The comparison, from name k on, finds the name it looks for, waits for   *)
(* another, or has no name left.                                            *)
LEMMA CompareMoves ==
  ASSUME NEW c \in Call, NEW j \in Job, NEW k \in Nat \ {0}, NEW known, NEW p, NEW s,
         s \in [Replica -> Nat], Compare(c, j, k, known), j.seen # None, s[j.seen] <= j.age,
         \/ j.trouble
         \/ /\ p \in ToSet(Candidates) /\ j.seen = p
            /\ \A i \in 1 .. j.cand - 1 : Candidates[i] # p
            /\ \A i \in 1 .. k - 1 : Candidates[i] # p
  PROVE  Moves(c, p, s)
<1>0. Constants BY ConstantsHold
<1>1. j.cand \in Turn /\ j.trouble \in BOOLEAN /\ j.age \in 0 .. Slow /\ j.seen \in Replica
  BY DEF Job
<1> DEFINE stop == StopsAt(k, j.seen, known)
<1>2. \/ /\ stop = 0 /\ \A i \in k .. Len(Candidates) : Candidates[i] # j.seen
      \/ /\ stop \in k .. Len(Candidates)
         /\ Candidates[stop] = j.seen \/ Candidates[stop] \notin known
         /\ \A i \in k .. stop - 1 : Candidates[i] # j.seen
  BY StopsAtIs
<1> HIDE DEF stop
<1>3. CASE stop = 0
  <2>1. NextCandidate(c, j) BY <1>3 DEF Compare, stop
  <2>2. \A i \in k .. Len(Candidates) : Candidates[i] # j.seen
    BY <1>0, <1>2, <1>3 DEF Constants
  <2>3. j.trouble
    <3> SUFFICES ASSUME ~j.trouble PROVE FALSE OBVIOUS
    <3>1. PICK i \in Turn : Candidates[i] = p BY <1>0 DEF Constants
    <3>2. i \in 1 .. k - 1 \/ i \in k .. Len(Candidates) BY <1>0, <3>1 DEF Turn, Constants
    <3> QED BY <2>2, <3>1, <3>2
  <2> QED BY <2>1, <2>3, NextCandidateMoves
<1>4. CASE stop # 0
  <2>1. /\ stop \in k .. Len(Candidates) /\ stop \in Turn
        /\ Candidates[stop] = j.seen \/ Candidates[stop] \notin known
        /\ \A i \in k .. stop - 1 : Candidates[i] # j.seen
    BY <1>0, <1>2, <1>4 DEF Turn, Constants
  <2>2. CASE Candidates[stop] \in known
    <3>1. Found(c, j.seen) BY <1>4, <2>1, <2>2 DEF Compare, stop
    <3>2. job' = [job EXCEPT ![c] = Idle] /\ cache' = [name |-> j.seen, left |-> Ttl]
      BY <3>1 DEF Found, Store, Suspend
    <3>3. j.seen \in ToSet(Candidates) BY <1>0, <2>1, <2>2 DEF Constants
    <3>4. s[j.seen] <= Slow BY <1>0, <1>1 DEF Constants
    <3> QED BY <3>2, <3>3, <3>4, IdleIsGood DEF Moves, CachedWell
  <2>3. CASE Candidates[stop] \notin known
    <3> DEFINE n == [j EXCEPT !.at = "naming", !.node = stop]
    <3>1. job' = [job EXCEPT ![c] = n] /\ cache' = cache
      BY <1>4, <2>3 DEF Compare, Suspend, stop
    <3>2. /\ n \in Job /\ n.at = "naming" /\ n.seen = j.seen /\ n.trouble = j.trouble
          /\ n.cand = j.cand /\ n.node = stop /\ n.age = j.age
      BY <2>1 DEF Job
    <3> HIDE DEF n
    <3>3. ~n.trouble => \A i \in 1 .. n.node - 1 : Candidates[i] # p
      <4> SUFFICES ASSUME ~j.trouble, NEW i \in 1 .. stop - 1 PROVE Candidates[i] # p BY <3>2
      <4>1. i \in 1 .. k - 1 \/ i \in k .. stop - 1 BY <2>1, <1>0 DEF Constants, Turn
      <4> QED BY <2>1, <4>1
    <3>4. Good(n, p, s) BY <3>2, <3>3 DEF Good, Typed, Recalls, Searches
    <3> QED BY <3>1, <3>4 DEF Moves, CachedWell
  <2> QED BY <2>2, <2>3
<1> QED BY <1>3, <1>4

----------------------------------------------------------------------------
(* The parts of the invariant: the types of the variables but the resolves, *)
(* how stale the cache is, and what is said of each resolve.                *)
Replicas ==
  /\ primary \in Replica /\ failovers \in 0 .. MaxFailovers
  /\ since \in [Replica -> Ages] /\ since[primary] = 0
  /\ learned \subseteq ToSet(Candidates)

Cached ==
  /\ cache = NoEntry \/ cache \in [name : ToSet(Candidates), left : 1 .. Ttl]
  /\ StaleAtMost

Resolves ==
  /\ job \in [Call -> Job]
  /\ \A c \in Call : Good(job[c], primary, since)

AliasInv == Replicas /\ Cached /\ Resolves

(* A resolve that moves keeps them, if it only learns the name of a node.   *)
LEMMA MovesKeep ==
  ASSUME AliasInv, NEW c \in Call, Moves(c, primary, since),
         UNCHANGED <<primary, failovers, since>>, learned' \subseteq ToSet(Candidates)
  PROVE  AliasInv'
<1>0. Constants BY ConstantsHold
<1>1. PICK n : job' = [job EXCEPT ![c] = n] /\ Good(n, primary, since) BY DEF Moves
<1>2. n \in Job BY <1>1 DEF Good, Typed
<1>3. Resolves' BY <1>1, <1>2 DEF AliasInv, Resolves
<1>4. Replicas' BY DEF AliasInv, Replicas
<1>5. Cached'
  <2>1. CASE cache' = cache BY <2>1 DEF AliasInv, Cached, StaleAtMost, Valid
  <2>2. ASSUME NEW m \in ToSet(Candidates), cache' = [name |-> m, left |-> Ttl],
               since[m] <= Slow
        PROVE  Cached'
    <3>1. cache' \in [name : ToSet(Candidates), left : 1 .. Ttl]
          /\ cache'.name = m /\ cache'.left = Ttl
      BY <1>0, <2>2 DEF Constants
    <3>2. since[m] <= (Ttl - Ttl) + Slow BY <1>0, <2>2 DEF Constants
    <3> QED BY <3>1, <3>2 DEF Cached, StaleAtMost
  <2> QED BY <2>1, <2>2 DEF Moves, CachedWell
<1> QED BY <1>3, <1>4, <1>5 DEF AliasInv

(* Each step of a resolve moves it well. *)
LEMMA ProgressMoves ==
  ASSUME AliasInv, NEW c \in Call, Progress(c)
  PROVE  Moves(c, primary, since)
<1>0. Constants /\ Replicas /\ Good(job[c], primary, since)
  BY ConstantsHold DEF AliasInv, Resolves
<1> DEFINE j == job[c]
<1>1. /\ j \in Job /\ j.cand \in Turn /\ j.node \in Turn /\ j.age \in 0 .. Slow
      /\ j.trouble \in BOOLEAN /\ j.seen \in Replica \union {None}
      /\ j.at = "naming" <=> j.seen # None
  BY <1>0 DEF Good, Typed, Job
<1>2. since \in [Replica -> Nat] BY <1>0 DEF Replicas, Ages, Constants
<1>3. ASSUME j.at \in {"asking", "naming"}, ~j.trouble
      PROVE  /\ primary \in ToSet(Candidates) /\ \A i \in 1 .. j.cand - 1 : Candidates[i] # primary
             /\ j.at = "naming" => /\ j.seen = primary
                                   /\ \A i \in 1 .. j.node - 1 : Candidates[i] # primary
  BY <1>0, <1>3 DEF Good, Searches
<1>4. j.at = "naming" => since[j.seen] <= j.age BY <1>0 DEF Good, Recalls
<1> HIDE DEF j
<1>5. CASE Answer(c)
  <2>1. j.at = "asking" BY <1>5 DEF Answer, j
  <2>2. CASE Compare(c, [j EXCEPT !.seen = primary], 1, learned)
    <3> DEFINE m == [j EXCEPT !.seen = primary]
    <3>1. /\ m \in Job /\ m.seen = primary /\ m.trouble = j.trouble /\ m.cand = j.cand
          /\ m.age = j.age
      BY <1>0, <1>1 DEF Job, Replicas
    <3>2. m.seen # None /\ since[m.seen] <= m.age
      BY <1>0, <1>1, <3>1 DEF Replicas, Constants
    <3>3. \A i \in 1 .. 1 - 1 : Candidates[i] # primary OBVIOUS
    <3> HIDE DEF m
    <3>4. Compare(c, m, 1, learned) BY <2>2 DEF m
    <3> QED BY <1>2, <1>3, <2>1, <3>1, <3>2, <3>3, <3>4, CompareMoves
  <2>3. CASE Candidates[j.cand] # primary /\ NextCandidate(c, j)
    <3>1. ~j.trouble => \A i \in 1 .. j.cand : Candidates[i] # primary
      <4> SUFFICES ASSUME ~j.trouble, NEW i \in 1 .. j.cand PROVE Candidates[i] # primary
        OBVIOUS
      <4>1. i = j.cand \/ i \in 1 .. j.cand - 1 BY <1>0, <1>1 DEF Turn, Constants
      <4> QED BY <1>3, <2>1, <2>3, <4>1
    <3> QED BY <1>1, <1>3, <2>1, <2>3, <3>1, NextCandidateMoves
  <2> QED BY <1>5, <2>2, <2>3 DEF Answer, j
<1>6. CASE AnswerFails(c)
  <2> DEFINE m == Failed(j)
  <2>1. m \in Job /\ m.trouble BY <1>1 DEF Failed, Job
  <2>2. NextCandidate(c, m) BY <1>6 DEF AnswerFails, j
  <2> HIDE DEF m
  <2> QED BY <2>1, <2>2, NextCandidateMoves
<1>7. CASE Named(c)
  <2>1. j.at = "naming" /\ \E known : Compare(c, j, j.node, known)
    BY <1>7 DEF Named, j
  <2>2. j.node \in Nat \ {0} BY <1>0, <1>1 DEF Turn, Constants
  <2> QED BY <1>1, <1>2, <1>3, <1>4, <2>1, <2>2, CompareMoves
<1>8. CASE NamingFails(c)
  <2> DEFINE m == Failed(j)
  <2>1. m \in Job /\ m.trouble /\ m.seen = j.seen /\ m.age = j.age BY <1>1 DEF Failed, Job
  <2>2. Compare(c, m, j.node + 1, learned) /\ j.at = "naming"
    BY <1>8 DEF NamingFails, j
  <2>3. j.node + 1 \in Nat \ {0} BY <1>0, <1>1 DEF Turn, Constants
  <2> HIDE DEF m
  <2> QED BY <1>1, <1>2, <1>4, <2>1, <2>2, <2>3, CompareMoves
<1> QED BY <1>5, <1>6, <1>7, <1>8 DEF Progress

(* A failover: whoever runs is in trouble, and a replica that is primary    *)
(* now was so no longer ago than before.                                    *)
LEMMA FailoverKeeps ==
  ASSUME AliasInv, NEW r \in Replica, Failover(r)
  PROVE  AliasInv'
<1>0. Constants BY ConstantsHold
<1> USE DEF AliasInv
<1>1. /\ primary' = r /\ since' = [since EXCEPT ![r] = 0] /\ UNCHANGED <<cache, learned>>
      /\ job' = [c \in Call |-> IF Running(c) THEN Failed(job[c]) ELSE job[c]]
      /\ failovers < MaxFailovers /\ failovers' = failovers + 1
  BY DEF Failover
<1>2. \A d \in Replica : /\ since[d] \in Nat /\ since'[d] \in Nat
                         /\ since'[d] <= since[d]
  BY <1>0, <1>1 DEF Replicas, Ages, Constants
<1>3. Replicas' BY <1>0, <1>1, AliasAssumption DEF Replicas, Ages, Constants
<1>4. Cached'
  <2>1. CASE cache = NoEntry BY <1>1, <2>1 DEF Cached, StaleAtMost, Valid, NoEntry
  <2>2. CASE cache # NoEntry
    <3>1. cache.name \in Replica /\ cache.left \in 1 .. Ttl /\ cache.left > 0
      BY <1>0, <2>2 DEF Cached, Constants
    <3>2. since[cache.name] <= (Ttl - cache.left) + Slow
      BY <3>1 DEF Cached, StaleAtMost, Valid
    <3>3. since'[cache.name] <= (Ttl - cache.left) + Slow
      BY <1>0, <1>2, <3>1, <3>2 DEF Constants
    <3> QED BY <1>1, <2>2, <3>3 DEF Cached, StaleAtMost
  <2> QED BY <2>1, <2>2
<1>5. ASSUME NEW c \in Call PROVE Good(job'[c], primary', since') /\ job'[c] \in Job
  <2>1. Good(job[c], primary, since) /\ job[c] \in Job BY DEF Resolves
  <2>2. CASE Running(c)
    <3> DEFINE n == Failed(job[c])
    <3>1. job'[c] = n BY <1>1, <2>2
    <3>2. /\ n \in Job /\ n.trouble /\ n.at = job[c].at /\ n.seen = job[c].seen
          /\ n.age = job[c].age
      BY <2>1 DEF Failed, Job
    <3>3. Recalls(n, since')
      <4> SUFFICES ASSUME n.at = "naming" PROVE since'[n.seen] <= n.age BY DEF Recalls
      <4>1. job[c].seen \in Replica /\ job[c].age \in Nat
        BY <1>0, <2>1, <3>2 DEF Good, Typed, Job, Constants
      <4>2. since[job[c].seen] <= job[c].age BY <2>1, <3>2 DEF Good, Recalls
      <4> QED BY <1>2, <3>2, <4>1, <4>2
    <3> HIDE DEF n
    <3>4. Good(n, primary', since') BY <2>1, <3>2, <3>3 DEF Good, Typed, Searches
    <3> QED BY <3>1, <3>2, <3>4
  <2>3. CASE ~Running(c)
    BY <1>1, <2>1, <2>3 DEF Running, Good, Recalls, Searches
  <2> QED BY <2>2, <2>3
<1>6. Resolves' BY <1>1, <1>5 DEF Resolves
<1> QED BY <1>3, <1>4, <1>6

(* A tick: the entry, the resolves and the memory of the primaries age      *)
(* together.                                                                *)
LEMMA TickKeeps ==
  ASSUME AliasInv, Tick
  PROVE  AliasInv'
<1>0. Constants BY ConstantsHold
<1> USE DEF AliasInv
<1>1. /\ since' = [r \in Replica |-> IF r = primary THEN 0 ELSE Older(since[r])]
      /\ cache' = Aged(cache) /\ UNCHANGED <<primary, failovers, learned>>
      /\ job' = [c \in Call |-> IF Running(c) THEN [job[c] EXCEPT !.age = job[c].age + 1]
                                ELSE job[c]]
      /\ \A c \in Call : Running(c) => job[c].age < Slow
  BY DEF Tick
<1>2. \A d \in Replica : /\ since[d] \in Nat /\ since'[d] \in Ages
                         /\ since'[d] <= since[d] + 1
  BY <1>0, <1>1 DEF Replicas, Ages, Constants, Older
<1>3. Replicas' BY <1>0, <1>1, <1>2 DEF Replicas, Constants
<1>4. Cached'
  <2>1. CASE cache = NoEntry
    BY <1>1, <2>1 DEF Cached, StaleAtMost, Valid, NoEntry, Aged
  <2>2. CASE cache # NoEntry /\ cache.left = 1
    BY <1>1, <2>2 DEF Cached, StaleAtMost, Valid, NoEntry, Aged
  <2>3. CASE cache # NoEntry /\ cache.left # 1
    <3>1. cache.name \in Replica /\ cache.left \in 2 .. Ttl
          /\ cache \in [name : ToSet(Candidates), left : 1 .. Ttl]
      BY <1>0, <2>3 DEF Cached, Constants
    <3>2. cache' = [cache EXCEPT !.left = cache.left - 1]
      BY <1>0, <1>1, <3>1 DEF Aged, Constants
    <3>3. cache' \in [name : ToSet(Candidates), left : 1 .. Ttl]
          /\ cache'.name = cache.name /\ cache'.left = cache.left - 1
      BY <1>0, <3>1, <3>2 DEF Constants
    <3>4. since[cache.name] <= (Ttl - cache.left) + Slow
      BY <1>0, <3>1 DEF Cached, StaleAtMost, Valid, Constants
    <3>5. since'[cache.name] <= (Ttl - (cache.left - 1)) + Slow
      <4> DEFINE x == since[cache.name]
                 y == since'[cache.name]
                 l == cache.left
      <4>1. x \in Nat /\ y \in Nat /\ y <= x + 1
        BY <1>0, <1>2, <3>1 DEF Constants, Ages
      <4>2. l \in Nat /\ l <= Ttl /\ Ttl \in Nat /\ Slow \in Nat
        BY <1>0, <3>1 DEF Constants
      <4>3. x <= (Ttl - l) + Slow BY <3>4
      <4> HIDE DEF x, y, l
      <4>4. y <= (Ttl - (l - 1)) + Slow BY <4>1, <4>2, <4>3
      <4> QED BY <4>4 DEF y, l
    <3> QED BY <3>3, <3>5 DEF Cached, StaleAtMost
  <2> QED BY <2>1, <2>2, <2>3
<1>5. ASSUME NEW c \in Call PROVE Good(job'[c], primary', since') /\ job'[c] \in Job
  <2>1. Good(job[c], primary, since) /\ job[c] \in Job BY DEF Resolves
  <2>2. CASE Running(c)
    <3> DEFINE n == [job[c] EXCEPT !.age = job[c].age + 1]
    <3>1. job'[c] = n /\ job[c].age < Slow BY <1>1, <2>2
    <3>2. job[c].age \in 0 .. Slow BY <2>1 DEF Job
    <3>3. job[c].age + 1 \in 0 .. Slow BY <1>0, <3>1, <3>2 DEF Constants
    <3>4. /\ n \in Job /\ n.trouble = job[c].trouble /\ n.at = job[c].at
          /\ n.seen = job[c].seen /\ n.age = job[c].age + 1 /\ n.cand = job[c].cand
          /\ n.node = job[c].node
      BY <2>1, <3>3 DEF Job
    <3> HIDE DEF n
    <3>5. Recalls(n, since')
      <4> SUFFICES ASSUME n.at = "naming" PROVE since'[n.seen] <= n.age BY DEF Recalls
      <4> DEFINE r == job[c].seen
                 a == job[c].age
      <4>1. r \in Replica
        <5>1. r \in Replica \union {None} /\ r # None
          BY <1>0, <2>1, <3>4 DEF Good, Typed, Job, Constants
        <5> QED BY <5>1
      <4>2. since[r] <= a BY <2>1, <3>4 DEF Good, Recalls
      <4>3. n.seen = r /\ n.age = a + 1 BY <3>4
      <4> HIDE DEF r, a
      <4>4. since[r] \in Nat /\ since'[r] \in Nat /\ since'[r] <= since[r] + 1
        BY <1>0, <1>2, <4>1 DEF Ages, Constants
      <4>5. a \in Nat BY <1>0, <3>2 DEF a, Constants
      <4> QED BY <4>2, <4>3, <4>4, <4>5
    <3>6. Good(n, primary', since')
      BY <1>1, <2>1, <3>4, <3>5 DEF Good, Typed, Searches
    <3> QED BY <3>1, <3>4, <3>6
  <2>3. CASE ~Running(c)
    BY <1>1, <2>1, <2>3 DEF Running, Good, Recalls, Searches
  <2> QED BY <2>2, <2>3
<1>6. Resolves' BY <1>1, <1>5 DEF Resolves
<1> QED BY <1>3, <1>4, <1>6

LEMMA AliasInvHolds == SafeSpec => []AliasInv
<1>0. Constants BY ConstantsHold
<1>1. Init => AliasInv
  <2> SUFFICES ASSUME Init PROVE AliasInv OBVIOUS
  <2>1. Replicas BY <1>0, AliasAssumption DEF Init, Replicas, Ages, Constants
  <2>2. Cached BY DEF Init, Cached, StaleAtMost, Valid, NoEntry
  <2>3. Resolves BY IdleIsGood DEF Init, Resolves
  <2> QED BY <2>1, <2>2, <2>3 DEF AliasInv
<1>2. AliasInv /\ [Next]_vars => AliasInv'
  <2> SUFFICES ASSUME AliasInv, [Next]_vars PROVE AliasInv' OBVIOUS
  <2>1. ASSUME NEW c \in Call, Progress(c) PROVE AliasInv'
    <3>1. UNCHANGED <<primary, failovers, since>>
      BY <2>1 DEF Progress, Answer, AnswerFails, Named, NamingFails
    <3>2. job[c] \in Job BY DEF AliasInv, Resolves
    <3>3. learned' \subseteq ToSet(Candidates)
      BY <1>0, <2>1, <3>2 DEF AliasInv, Replicas, Progress, Answer, AnswerFails, Named,
         NamingFails, Job, Constants
    <3> QED BY <2>1, <3>1, <3>3, ProgressMoves, MovesKeep
  <2>2. ASSUME NEW c \in Call, Again(c) PROVE AliasInv'
    <3>1. job' = [job EXCEPT ![c] = Idle] /\ UNCHANGED <<primary, failovers, since, cache, learned>>
      BY <2>2 DEF Again, Suspend
    <3>2. Moves(c, primary, since) BY <3>1, IdleIsGood DEF Moves, CachedWell
    <3> QED BY <3>1, <3>2, MovesKeep DEF AliasInv, Replicas
  <2>3. ASSUME NEW c \in Call, NEW isRefresh \in BOOLEAN, Start(c, isRefresh) PROVE AliasInv'
    <3> DEFINE n == [Idle EXCEPT !.at = "asking", !.trouble = ~Configured(primary)]
    <3>1. /\ job' = [job EXCEPT ![c] = n] /\ UNCHANGED <<primary, failovers, since, learned>>
          /\ cache' = cache \/ cache' = NoEntry
      BY <2>3 DEF Start, Suspend
    <3>2. Idle \in Job /\ Idle.seen = None /\ Idle.cand = 1 BY IdleIsGood DEF Idle
    <3>3. /\ n \in Job /\ n.at = "asking" /\ n.seen = None /\ n.cand = 1
          /\ ~n.trouble => primary \in ToSet(Candidates)
      BY <3>2 DEF Job, Configured
    <3> HIDE DEF n
    <3>4. Good(n, primary, since) BY <3>3 DEF Good, Typed, Recalls, Searches
    <3>5. Resolves' BY <3>1, <3>3, <3>4 DEF AliasInv, Resolves
    <3>6. Cached' BY <3>1 DEF AliasInv, Cached, StaleAtMost, Valid, NoEntry
    <3>7. Replicas' BY <3>1 DEF AliasInv, Replicas
    <3> QED BY <3>5, <3>6, <3>7 DEF AliasInv
  <2>4. ASSUME NEW r \in Replica, Failover(r) PROVE AliasInv' BY <2>4, FailoverKeeps
  <2>5. CASE Tick BY <2>5, TickKeeps
  <2>6. CASE UNCHANGED vars
    BY <2>6 DEF vars, AliasInv, Replicas, Cached, Resolves, StaleAtMost, Valid
  <2> QED BY <2>1, <2>2, <2>3, <2>4, <2>5, <2>6 DEF Next
<1> QED BY <1>1, <1>2, PTL DEF SafeSpec

(* The variables have the values the code can give them; a resolve that     *)
(* waits for a name compares it with one.                                   *)
THEOREM TypesHold == SafeSpec => []TypeOK
<1>1. AliasInv => TypeOK
  BY DEF AliasInv, Replicas, Cached, Resolves, TypeOK, Good, Typed
<1> QED BY <1>1, AliasInvHolds, PTL

(* The cache routes to a node that was the primary at most one time to live *)
(* and one resolve ago (lines 616-619, 971-973, 1014).                      *)
THEOREM StaleAtMostHolds == SafeSpec => []StaleAtMost
<1>1. AliasInv => StaleAtMost BY DEF AliasInv, Cached
<1> QED BY <1>1, AliasInvHolds, PTL

(* A resolve throws only after trouble: a failed query, a primary that is   *)
(* not in the fleet, or one that moved meanwhile (lines 990-1027).          *)
THEOREM NoFalseAlarmHolds == SafeSpec => []NoFalseAlarm
<1>1. AliasInv => NoFalseAlarm BY DEF AliasInv, Resolves, NoFalseAlarm, Good
<1> QED BY <1>1, AliasInvHolds, PTL
=============================================================================
