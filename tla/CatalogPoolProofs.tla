------------------------- MODULE CatalogPoolProofs -------------------------
(***************************************************************************)
(* The safety properties of CatalogPool for any set of calls and keys.     *)
(* They are not inductive: IInv adds where a pool can be on its way to the *)
(* map (Underway), what the map holds (Kept), and what was handed out      *)
(* (Handed).                                                               *)
(***************************************************************************)
EXTENDS CatalogPool, TLAPS

(* A pool is connected from its dial's success to its refusal, and can only *)
(* have emitted an error after that; during the probe it is a fallback.     *)
Underway ==
  /\ \A p \in open : pc[p] \in {"probing", "closing", "returned"}
  /\ \A p \in errored : pc[p] \notin {"idle", "dialing", "retrying"}
  /\ \A c \in Call : pc[c] = "probing" => c \in open /\ catalog[c] = "fallback"

(* A registered pool was registered by the call it is named after, with its *)
(* catalog recorded, and with its timer armed when it fell back.            *)
Kept == \A k \in Key : pools[k] # None =>
  /\ pc[pools[k]] = "returned"
  /\ info[pools[k]] = catalog[pools[k]]
  /\ catalog[pools[k]] = "fallback" => pools[k] \in armed
  /\ catalog[pools[k]] # "none"

(* A pool that was handed out had been registered. *)
Handed == \A c \in Call : result[c] # None =>
  /\ pc[result[c]] = "returned"
  /\ info[result[c]] = catalog[result[c]]

IInv ==
  /\ TypeOK /\ NeverShared /\ NoPoolLeaks /\ ErrorEvicts
  /\ Underway /\ Kept /\ Handed

(* The initial states satisfy the invariant. *)
LEMMA InitHolds == Init => IInv
  BY PoolAssumption DEF Init, IInv, TypeOK, NeverShared, NoPoolLeaks, ErrorEvicts,
       Underway, Kept, Handed, Place, Catalog, Pool, InMap

(* A lookup: a hit hands out what the map holds. *)
LEMMA EnterStep == ASSUME IInv, NEW c \in Call, Enter(c) PROVE IInv'
<1> USE PoolAssumption DEF IInv, Pool
<1>1. CASE Hit(c)
  <2>1. /\ pools[key[c]] \in open /\ key[c] \in Key /\ pc[c] = "idle"
        /\ pools[key[c]] # None /\ pools[key[c]] \in Call
        /\ pc' = [pc EXCEPT ![c] = "returned"]
        /\ result' = [result EXCEPT ![c] = pools[key[c]]]
        /\ UNCHANGED <<pools, key, open, catalog, info, armed, errored, sick>>
    BY <1>1 DEF Enter, Hit, Return, TypeOK
  <2>2. TypeOK'      BY <2>1 DEF TypeOK, Place
  <2>3. NeverShared' BY <2>1 DEF TypeOK, NeverShared
  <2>4. NoPoolLeaks' /\ ErrorEvicts' /\ Underway'
    BY <2>1 DEF TypeOK, NoPoolLeaks, ErrorEvicts, Underway, InMap
  <2>5. Kept' /\ Handed' BY <2>1 DEF TypeOK, Kept, Handed
  <2> QED BY <2>2, <2>3, <2>4, <2>5
<1>2. CASE ~Hit(c)
  <2>1. /\ pc[c] = "idle" /\ pc' = [pc EXCEPT ![c] = "dialing"]
        /\ UNCHANGED <<pools, key, result, open, catalog, info, armed, errored, sick>>
    BY <1>2 DEF Enter, Suspend
  <2>2. TypeOK'      BY <2>1 DEF TypeOK, Place
  <2>3. NeverShared' BY <2>1 DEF TypeOK, NeverShared
  <2>4. NoPoolLeaks' /\ ErrorEvicts' /\ Underway'
    BY <2>1 DEF TypeOK, NoPoolLeaks, ErrorEvicts, Underway, InMap
  <2>5. Kept' /\ Handed' BY <2>1 DEF TypeOK, Kept, Handed
  <2> QED BY <2>2, <2>3, <2>4, <2>5
<1> QED BY <1>1, <1>2

(* A pool that connects with the configured catalog is registered at once. *)
LEMMA DialOkStep == ASSUME IInv, NEW c \in Call, DialOk(c) PROVE IInv'
<1> USE PoolAssumption DEF IInv, Pool
<1>1. /\ pc[c] = "dialing" /\ key[c] \in Key /\ c # None /\ c \notin errored
      /\ open' = open \union {c}
      /\ catalog' = [catalog EXCEPT ![c] = "configured"]
      /\ info' = [info EXCEPT ![c] = "configured"]
      /\ pools' = [pools EXCEPT ![key[c]] = c]
      /\ pc' = [pc EXCEPT ![c] = "returned"]
      /\ result' = [result EXCEPT ![c] = c]
      /\ UNCHANGED <<key, armed, errored, sick>>
  BY DEF DialOk, Register, Return, TypeOK, Underway
<1>2. TypeOK'      BY <1>1 DEF TypeOK, Place, Catalog
<1>3. NeverShared' BY <1>1 DEF TypeOK, NeverShared
<1>4. NoPoolLeaks' /\ Underway' BY <1>1 DEF TypeOK, NoPoolLeaks, Underway
<1>5. ErrorEvicts' BY <1>1 DEF TypeOK, ErrorEvicts, InMap, Underway
<1>6. Kept'   BY <1>1 DEF TypeOK, Kept
<1>7. Handed' BY <1>1 DEF TypeOK, Handed
<1> QED BY <1>2, <1>3, <1>4, <1>5, <1>6, <1>7

(* A call moves on without touching a pool: to the second dial, out with    *)
(* the dial's error, or to closing a refused pool.                          *)
LEMMA MoveStep ==
  ASSUME IInv, NEW c \in Call, NEW place \in {"retrying", "threw", "closing"},
         pc[c] \in {"dialing", "retrying", "probing"},
         pc[c] = "probing" <=> place = "closing",
         pc' = [pc EXCEPT ![c] = place],
         UNCHANGED <<pools, key, result, open, catalog, info, armed, errored, sick>>,
         place = "retrying" => c \notin errored
  PROVE  IInv'
<1> USE PoolAssumption DEF IInv, Pool
<1>1. TypeOK' BY DEF TypeOK, Place
<1>2. NeverShared' BY DEF TypeOK, NeverShared
<1>3. NoPoolLeaks' BY DEF TypeOK, NoPoolLeaks
<1>4. ErrorEvicts' BY DEF TypeOK, ErrorEvicts, InMap
<1>5. Underway' BY DEF TypeOK, Underway
<1>6. Kept' /\ Handed' BY DEF TypeOK, Kept, Handed
<1> QED BY <1>1, <1>2, <1>3, <1>4, <1>5, <1>6

(* The master dial connects: the pool is connected and not in the map. *)
LEMMA FallbackOkStep == ASSUME IInv, NEW c \in Call, FallbackOk(c) PROVE IInv'
<1> USE PoolAssumption DEF IInv, Pool
<1>1. /\ pc[c] = "retrying" /\ c \notin open
      /\ open' = open \union {c}
      /\ catalog' = [catalog EXCEPT ![c] = "fallback"]
      /\ pc' = [pc EXCEPT ![c] = "probing"]
      /\ UNCHANGED <<pools, key, result, info, armed, errored, sick>>
  BY DEF FallbackOk, Suspend, NoPoolLeaks
<1>2. (\A k \in Key : pools[k] # c) /\ (\A d \in Call : result[d] # c)
  BY <1>1 DEF TypeOK, Kept, Handed
<1>3. TypeOK'      BY <1>1 DEF TypeOK, Place, Catalog
<1>4. NeverShared' BY <1>1 DEF TypeOK, NeverShared
<1>5. NoPoolLeaks' /\ Underway' BY <1>1 DEF TypeOK, NoPoolLeaks, Underway
<1>6. ErrorEvicts' BY <1>1, <1>2 DEF TypeOK, ErrorEvicts, InMap
<1>7. Kept' /\ Handed' BY <1>1, <1>2 DEF TypeOK, Kept, Handed
<1> QED BY <1>3, <1>4, <1>5, <1>6, <1>7

(* The probe lets the pool be kept: it is recorded, registered and armed in *)
(* one turn.                                                                *)
LEMMA ProbeKeepsStep == ASSUME IInv, NEW c \in Call, ProbeKeeps(c) PROVE IInv'
<1> USE PoolAssumption DEF IInv, Pool
<1>1. /\ pc[c] = "probing" /\ key[c] \in Key /\ c # None
      /\ c \in open /\ catalog[c] = "fallback"
      /\ info' = [info EXCEPT ![c] = "fallback"]
      /\ armed' = armed \union {c}
      /\ pools' = [pools EXCEPT ![key[c]] = c]
      /\ pc' = [pc EXCEPT ![c] = "returned"]
      /\ result' = [result EXCEPT ![c] = c]
      /\ UNCHANGED <<key, open, catalog, errored, sick>>
  BY DEF ProbeKeeps, Register, Return, Record, Retirement, Timer, TypeOK, Underway
<1>2. TypeOK'      BY <1>1 DEF TypeOK, Place, Catalog
<1>3. NeverShared' BY <1>1 DEF TypeOK, NeverShared
<1>4. NoPoolLeaks' /\ Underway' BY <1>1 DEF TypeOK, NoPoolLeaks, Underway
<1>5. ErrorEvicts' BY <1>1 DEF TypeOK, ErrorEvicts, InMap
<1>6. Kept'   BY <1>1 DEF TypeOK, Kept
<1>7. Handed' BY <1>1 DEF TypeOK, Handed
<1> QED BY <1>2, <1>3, <1>4, <1>5, <1>6, <1>7

(* A refused pool was never registered, so closing it concerns nobody. *)
LEMMA ClosedStep == ASSUME IInv, NEW c \in Call, Closed(c) PROVE IInv'
<1> USE PoolAssumption DEF IInv, Pool
<1>1. /\ pc[c] = "closing" /\ open' = open \ {c}
      /\ pc' = [pc EXCEPT ![c] = "threw"]
      /\ UNCHANGED <<pools, key, result, catalog, info, armed, errored, sick>>
  BY DEF Closed, CloseRefused, Throw, Suspend
<1>2. (\A k \in Key : pools[k] # c) /\ (\A d \in Call : result[d] # c)
  BY <1>1 DEF TypeOK, Kept, Handed
<1>3. TypeOK'      BY <1>1 DEF TypeOK, Place
<1>4. NeverShared' BY <1>1, <1>2 DEF TypeOK, NeverShared
<1>5. NoPoolLeaks' /\ Underway' BY <1>1 DEF TypeOK, NoPoolLeaks, Underway
<1>6. ErrorEvicts' BY <1>1 DEF TypeOK, ErrorEvicts, InMap
<1>7. Kept' /\ Handed' BY <1>1, <1>2 DEF TypeOK, Kept, Handed
<1> QED BY <1>3, <1>4, <1>5, <1>6, <1>7

(* What the guard pools.get(key) === thisPool gives: the map loses this     *)
(* pool or nothing.                                                         *)
LEMMA EvictRemovesOnlyItself ==
  ASSUME TypeOK, NEW p \in Pool, Evict(p)
  PROVE  /\ pools' \in [Key -> Pool \union {None}]
         /\ \A k \in Key : pools'[k] # None => pools'[k] = pools[k] /\ (k = key[p] => pools[k] # p)
         /\ \A k \in Key : pools[k] # None /\ pools'[k] = None => k = key[p] /\ pools[k] = p
  BY PoolAssumption DEF Evict, TypeOK

(* The two events that evict. *)
LEMMA EvictStep == ASSUME IInv, NEW p \in Pool, PoolError(p) \/ Retire(p) PROVE IInv'
<1> USE PoolAssumption DEF IInv, Pool
<1>1. /\ UNCHANGED <<pc, key, result, open, catalog, info, sick>>
      /\ errored' = errored \/ (p \in open /\ errored' = errored \union {p})
      /\ armed' = armed \/ armed' = armed \ {p}
      /\ Evict(p)
  BY DEF PoolError, Retire
<1>2. TypeOK /\ TypeOK' BY <1>1, EvictRemovesOnlyItself DEF TypeOK
<1>3. /\ \A k \in Key : pools'[k] # None => pools'[k] = pools[k]
      /\ \A k \in Key : pools'[k] # None => pools'[k] # p \/ k # key[p]
  BY <1>1, <1>2, EvictRemovesOnlyItself
<1>4. NeverShared' BY <1>1, <1>2, <1>3 DEF NeverShared, TypeOK
<1>5. NoPoolLeaks' BY <1>1 DEF NoPoolLeaks
<1>6. Underway' BY <1>1, <1>2 DEF Underway, TypeOK
<1>7. \A k \in Key : pools'[k] # p
  BY <1>2, <1>3 DEF NeverShared, TypeOK
<1>8. ErrorEvicts'
  <2> SUFFICES ASSUME NEW q \in Pool, q \in errored', InMap(q)'
               PROVE  catalog'[q] = "fallback" /\ q \in armed'
    BY DEF ErrorEvicts
  <2>1. key[q] \in Key /\ pools'[key[q]] = q /\ q # None
    BY <1>1, <1>2 DEF InMap, TypeOK
  <2>2. q # p /\ pools[key[q]] = q /\ q \in errored
    BY <2>1, <1>1, <1>3, <1>7
  <2> QED BY <2>2, <1>1 DEF ErrorEvicts, InMap
<1>9. Kept'
  <2> SUFFICES ASSUME NEW k \in Key, pools'[k] # None
               PROVE  /\ pc'[pools'[k]] = "returned"
                      /\ info'[pools'[k]] = catalog'[pools'[k]]
                      /\ catalog'[pools'[k]] = "fallback" => pools'[k] \in armed'
                      /\ catalog'[pools'[k]] # "none"
    BY DEF Kept
  <2>1. pools'[k] = pools[k] /\ pools'[k] # p BY <1>3, <1>7
  <2> QED BY <2>1, <1>1 DEF Kept
<1>10. Handed' BY <1>1 DEF Handed
<1> QED BY <1>2, <1>4, <1>5, <1>6, <1>8, <1>9, <1>10

(* Every step keeps the invariant. *)
LEMMA NextHolds == IInv /\ [Next]_vars => IInv'
<1> SUFFICES ASSUME IInv, [Next]_vars PROVE IInv' OBVIOUS
<1>1. ASSUME NEW c \in Call, Enter(c) PROVE IInv' BY <1>1, EnterStep
<1>2. ASSUME NEW c \in Call, DialOk(c) PROVE IInv' BY <1>2, DialOkStep
<1>3. ASSUME NEW c \in Call, CatalogError(c) PROVE IInv'
  <2>1. c \notin errored BY <1>3 DEF CatalogError, IInv, Underway
  <2> QED BY <1>3, <2>1, MoveStep DEF CatalogError, Suspend
<1>4. ASSUME NEW c \in Call, DialFails(c) PROVE IInv'
  BY <1>4, MoveStep DEF DialFails, Fail, Throw, Suspend
<1>5. ASSUME NEW c \in Call, FallbackOk(c) PROVE IInv' BY <1>5, FallbackOkStep
<1>6. ASSUME NEW c \in Call, ProbeRefuses(c) PROVE IInv'
  BY <1>6, MoveStep DEF ProbeRefuses, Suspend
<1>7. ASSUME NEW c \in Call, ProbeKeeps(c) PROVE IInv' BY <1>7, ProbeKeepsStep
<1>8. ASSUME NEW c \in Call, Closed(c) PROVE IInv' BY <1>8, ClosedStep
<1>9. ASSUME NEW p \in Pool, PoolError(p) \/ Retire(p) PROVE IInv' BY <1>9, EvictStep
<1>10. ASSUME NEW k \in Key, HealthChanges(k) PROVE IInv'
  <2>1. TypeOK' BY <1>10 DEF IInv, TypeOK, HealthChanges
  <2> QED BY <1>10, <2>1 DEF IInv, HealthChanges, NeverShared, NoPoolLeaks, ErrorEvicts,
            Underway, Kept, Handed, InMap
<1>11. CASE UNCHANGED vars
  BY <1>11 DEF vars, IInv, TypeOK, NeverShared, NoPoolLeaks, ErrorEvicts, Underway, Kept,
       Handed, InMap
<1> QED BY <1>1, <1>2, <1>3, <1>4, <1>5, <1>6, <1>7, <1>8, <1>9, <1>10, <1>11
      DEF Next, Progress, DialEnds

(* The inductive invariant holds of every behaviour of getPool. *)
THEOREM Invariance == SafeSpec => []IInv
<1>1. Init => IInv BY InitHolds
<1>2. IInv /\ [Next]_vars => IInv' BY NextHolds
<1> QED BY <1>1, <1>2, PTL DEF SafeSpec

(* A call that returned holds a pool, and only such a call does. *)
THEOREM TypesHold == SafeSpec => []TypeOK
<1>1. IInv => TypeOK BY DEF IInv
<1> QED BY <1>1, Invariance, PTL

(* Two principals never share a pool (lines 684-718, 873). *)
THEOREM NeverSharedHolds == SafeSpec => []NeverShared
<1>1. IInv => NeverShared BY DEF IInv
<1> QED BY <1>1, Invariance, PTL

(* Every caller on `master` is warned and nobody else is (lines 851-872). *)
THEOREM WarnedHolds == SafeSpec => []WarnedIffFallback
<1>1. IInv => WarnedIffFallback BY DEF IInv, Handed, WarnedIffFallback
<1> QED BY <1>1, Invariance, PTL

(* A call that threw leaves no connected pool behind (lines 766-787, 837). *)
THEOREM NoPoolLeaksHolds == SafeSpec => []NoPoolLeaks
<1>1. IInv => NoPoolLeaks BY DEF IInv
<1> QED BY <1>1, Invariance, PTL

(* A pool that emitted an error is served only within a fallback's time to  *)
(* live (lines 796-799, 872-873).                                           *)
THEOREM ErrorEvictsHolds == SafeSpec => []ErrorEvicts
<1>1. IInv => ErrorEvicts BY DEF IInv
<1> QED BY <1>1, Invariance, PTL

(* A key loses its pool only in that pool's own error or retirement (lines  *)
(* 795-799, 897-899).                                                       *)
THEOREM LateEventsSpareOthersHolds == SafeSpec => LateEventsSpareOthers
<1> DEFINE Own == \A k \in Key : pools[k] # None /\ pools'[k] = None =>
                    PoolError(pools[k]) \/ Retire(pools[k])
<1>1. IInv /\ [Next]_vars => [Own]_vars
  <2> SUFFICES ASSUME IInv, Next, NEW k \in Key, pools[k] # None, pools'[k] = None
               PROVE  PoolError(pools[k]) \/ Retire(pools[k])
    OBVIOUS
  <2>1. ASSUME NEW p \in Pool, PoolError(p) \/ Retire(p) PROVE p = pools[k]
    <3>1. Evict(p) BY <2>1 DEF PoolError, Retire
    <3> QED BY <3>1, EvictRemovesOnlyItself DEF IInv
  <2>2. ASSUME NEW c \in Call, Register(c) PROVE FALSE
    BY <2>2, PoolAssumption DEF Register, IInv, TypeOK
  <2>3. ASSUME NEW c \in Call, Enter(c) \/ Progress(c) PROVE FALSE
    BY <2>2, <2>3 DEF Enter, Progress, DialEnds, DialOk, CatalogError, DialFails, FallbackOk,
         ProbeRefuses, ProbeKeeps, Closed
  <2>4. ASSUME NEW j \in Key, HealthChanges(j) PROVE FALSE BY <2>4 DEF HealthChanges
  <2> QED BY <2>1, <2>3, <2>4 DEF Next
<1> QED BY <1>1, Invariance, PTL DEF SafeSpec, LateEventsSpareOthers
=============================================================================
