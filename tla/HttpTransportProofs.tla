------------------------ MODULE HttpTransportProofs ------------------------
(***************************************************************************)
(* Credentials, for any fleet: what a pool may be dialed and handed out    *)
(* as, and that a login that was found stays the instance's login.         *)
(* HttpTransport, for any callers, limits and number of requests at a      *)
(* time: its credentials behave as Credentials says, each request runs as  *)
(* the login it names, and the rate limiter lets no more than twice the    *)
(* limit through in a window.                                              *)
(***************************************************************************)
EXTENDS HttpTransport, FunctionTheorems, FiniteSetTheorems, TLAPS

(* What a getter yields is a login or the empty string. *)
LEMMA GetterTypes ==
  ASSUME NEW i \in Instance, NEW m, NEW stalled,
         \A t \in Target : m[t] = "found" => Entry[t] # None
  PROVE  /\ CfgUser(i, Source(i, m, stalled)) \in Field
         /\ CfgPassword(Source(i, m, stalled)) \in Field
  BY CredentialAssumption DEF CfgUser, CfgPassword, Source, Answers, Field

(* Remembering keeps the memo well formed and forgets nothing. *)
LEMMA RememberTypes ==
  ASSUME NEW m \in [Target -> {"unread", "found"}],
         \A t \in Target : m[t] = "found" => Entry[t] # None,
         NEW i \in Instance, NEW stalled
  PROVE  /\ Remember(i, m, stalled) \in [Target -> {"unread", "found"}]
         /\ \A t \in Target : Remember(i, m, stalled)[t] = "found" => Entry[t] # None
         /\ \A t \in Target : m[t] = "found" => Remember(i, m, stalled)[t] = "found"
  BY DEF Remember, Answers

(* Whatever the stalls, a call keeps the types. *)
LEMMA ResolveTypes ==
  ASSUME TypeOK, NEW i \in Instance, NEW ctx \in Context, NEW s1, NEW s2, NEW s3,
         Resolve(i, ctx, s1, s2, s3), UNCHANGED <<readable, http>>
  PROVE  TypeOK'
<1> DEFINE m1 == IF ctx.user = Blank THEN Remember(i, memo, s1) ELSE memo
           m2 == IF ctx.user = Blank THEN Remember(i, m1, s2) ELSE m1
           m3 == IF ctx.password = Blank THEN Remember(i, m2, s3) ELSE m2
           Good(m) == /\ m \in [Target -> {"unread", "found"}]
                      /\ \A t \in Target : m[t] = "found" => Entry[t] # None
<1>1. Good(memo) BY DEF TypeOK
<1>2. Good(m1) BY <1>1, RememberTypes
<1>3. Good(m2)
  <2> HIDE DEF m1
  <2> QED BY <1>2, RememberTypes
<1>4. Good(m3)
  <2> HIDE DEF m2
  <2> QED BY <1>3, RememberTypes
<1>5. memo' \in {m1, m3} BY DEF Resolve
<1>6. Good(memo') BY <1>2, <1>4, <1>5
<1>7. dialed' \in Dial /\ pools' \in [Instance -> [Field -> Dial]]
  <2> DEFINE keyed == Or(ctx.user, CfgUser(i, Source(i, memo, s1)))
             user  == Or(ctx.user, CfgUser(i, Source(i, m1, s2)))
             password == Or(ctx.password, CfgPassword(Source(i, m2, s3)))
             d == [keyed |-> keyed, user |-> user, password |-> password]
  <2>1. keyed \in Field /\ user \in Field /\ password \in Field
    <3> HIDE DEF m1, m2
    <3> QED BY <1>1, <1>2, <1>3, GetterTypes DEF Or, Context
  <2>2. (dialed' = NoDial /\ UNCHANGED pools) \/ PoolFor(i, d) BY DEF Resolve
  <2> HIDE DEF keyed, user, password
  <2>3. d \in Dial /\ NoDial \in Dial /\ d.keyed \in Field
    BY <2>1 DEF Dial, NoDial, Field
  <2> HIDE DEF d
  <2>4. pools \in [Instance -> [Field -> Dial]] BY DEF TypeOK
  <2> QED BY <2>2, <2>3, <2>4 DEF PoolFor
<1>8. on' \in Instance /\ caller' \in Context BY DEF Resolve
<1> QED BY <1>6, <1>7, <1>8 DEF TypeOK

(* The types are an invariant. *)
THEOREM TypesHold == Spec => []TypeOK
<1>1. Init => TypeOK
  BY CredentialAssumption DEF Init, TypeOK, NoHeaders, NoDial, Context, Dial, Field
<1>2. TypeOK /\ [Next]_vars => TypeOK'
  <2> SUFFICES ASSUME TypeOK, [Next]_vars PROVE TypeOK' OBVIOUS
  <2>1. ASSUME NEW i \in Instance, StdioCall(i) PROVE TypeOK'
    <3>1. NoHeaders \in Context BY DEF NoHeaders, Context, Field
    <3> QED BY <2>1, <3>1, ResolveTypes DEF StdioCall
  <2>2. ASSUME NEW i \in Instance, NEW ctx \in Context, HttpCall(i, ctx) PROVE TypeOK'
    BY <2>2, ResolveTypes DEF HttpCall
  <2>3. CASE StoreStallsOrRecovers BY <2>3 DEF StoreStallsOrRecovers, TypeOK
  <2>4. ASSUME NEW i \in Instance, NEW identity \in Field, PoolGone(i, identity)
        PROVE  TypeOK'
    <3>1. NoDial \in Dial BY DEF NoDial, Dial, Field
    <3> QED BY <2>4, <3>1 DEF PoolGone, TypeOK
  <2>5. CASE UNCHANGED vars BY <2>5 DEF vars, TypeOK
  <2> QED BY <2>1, <2>2, <2>3, <2>4, <2>5 DEF Next
<1> QED BY <1>1, <1>2, PTL DEF Spec

(* A pool is under its key, SQL Server accepted what it was dialed with,    *)
(* and on HTTP it was dialed as the login that it is keyed by.              *)
Kept(i, identity) ==
  LET d == pools[i][identity]
  IN  d # NoDial => /\ d.keyed = identity /\ Accepted(d)
                    /\ http => d.user = identity

PoolsKept == \A i \in Instance, identity \in Field : Kept(i, identity)

(* A caller is handed a pool that is kept, and only it is registered. *)
LEMMA PoolForKeeps ==
  ASSUME TypeOK, PoolsKept, NEW i \in Instance, NEW d \in Dial, PoolFor(i, d),
         http => d.user = d.keyed, UNCHANGED http
  PROVE  /\ PoolsKept'
         /\ dialed'.keyed = d.keyed
         /\ http => dialed'.user = d.keyed
         /\ dialed' = d \/ Accepted(dialed')
<1>1. d.keyed \in Field /\ pools \in [Instance -> [Field -> Dial]] BY DEF Dial, TypeOK
<1>2. CASE UNCHANGED pools
  <2>1. PoolsKept' BY <1>2 DEF PoolsKept, Kept
  <2> QED BY <1>1, <1>2, <2>1 DEF PoolFor, PoolsKept, Kept
<1>3. CASE /\ pools[i][d.keyed] = NoDial /\ dialed' = d
           /\ Accepted(d) /\ pools' = [pools EXCEPT ![i][d.keyed] = d]
  <2>1. ASSUME NEW j \in Instance, NEW identity \in Field
        PROVE  \/ pools'[j][identity] = pools[j][identity]
               \/ pools'[j][identity] = d /\ identity = d.keyed
    BY <1>1, <1>3
  <2>2. PoolsKept' BY <1>3, <2>1 DEF PoolsKept, Kept
  <2> QED BY <1>3, <2>2
<1> QED BY <1>2, <1>3 DEF PoolFor

(* Every step keeps the pools so, and hands a caller on HTTP its own. *)
LEMMA PoolsKeptStep ==
  ASSUME TypeOK, PoolsKept, HttpRunsAsTheCaller, [Next]_vars
  PROVE  PoolsKept' /\ HttpRunsAsTheCaller'
<1>1. ASSUME NEW i \in Instance, NEW ctx \in Context, NEW s1, NEW s2, NEW s3,
             Resolve(i, ctx, s1, s2, s3), TypeOK', UNCHANGED <<readable, http>>
      PROVE  PoolsKept' /\ HttpRunsAsTheCaller'
  <2>1. CASE dialed' = NoDial /\ UNCHANGED pools
    <3>1. PoolsKept' BY <1>1, <2>1 DEF PoolsKept, Kept
    <3> QED BY <2>1, <3>1 DEF HttpRunsAsTheCaller
  <2>2. CASE ~(dialed' = NoDial /\ UNCHANGED pools)
    <3>1. PICK d \in Dial :
            /\ PoolFor(i, d)
            /\ http => /\ Complete(ctx)
                       /\ d = [keyed |-> ctx.user, user |-> ctx.user,
                               password |-> ctx.password]
      <4> DEFINE m1 == IF ctx.user = Blank THEN Remember(i, memo, s1) ELSE memo
                 m2 == IF ctx.user = Blank THEN Remember(i, m1, s2) ELSE m1
                 keyed == Or(ctx.user, CfgUser(i, Source(i, memo, s1)))
                 user  == Or(ctx.user, CfgUser(i, Source(i, m1, s2)))
                 password == Or(ctx.password, CfgPassword(Source(i, m2, s3)))
                 d == [keyed |-> keyed, user |-> user, password |-> password]
      <4>1. PoolFor(i, d) /\ (http => Complete(ctx)) BY <1>1, <2>2 DEF Resolve
      <4>2. http => d = [keyed |-> ctx.user, user |-> ctx.user, password |-> ctx.password]
        BY <4>1 DEF Complete, Or
      <4>3. keyed \in Field /\ user \in Field /\ password \in Field
        <5>1. /\ memo \in [Target -> {"unread", "found"}]
              /\ \A t \in Target : memo[t] = "found" => Entry[t] # None
          BY DEF TypeOK
        <5>2. /\ m1 \in [Target -> {"unread", "found"}]
              /\ \A t \in Target : m1[t] = "found" => Entry[t] # None
          BY <5>1, RememberTypes
        <5> HIDE DEF m1
        <5>3. \A t \in Target : m2[t] = "found" => Entry[t] # None
          BY <5>2, RememberTypes
        <5> HIDE DEF m2
        <5> QED BY <5>1, <5>2, <5>3, GetterTypes DEF Or, Context
      <4> HIDE DEF keyed, user, password
      <4>4. d \in Dial BY <4>3 DEF Dial
      <4> HIDE DEF d
      <4> QED BY <4>1, <4>2, <4>4
    <3>2. http => d.user = d.keyed BY <3>1
    <3>3. UNCHANGED http BY <1>1
    <3>4. /\ PoolsKept' /\ dialed'.keyed = d.keyed
          /\ http => dialed'.user = d.keyed
          /\ dialed' = d \/ Accepted(dialed')
      BY <3>1, <3>2, <3>3, PoolForKeeps
    <3>5. caller' = ctx BY <1>1 DEF Resolve
    <3>6. ASSUME http' PROVE /\ Complete(caller')
                             /\ dialed'.keyed = caller'.user /\ dialed'.user = caller'.user
                             /\ dialed'.password = caller'.password \/ Accepted(dialed')
      BY <3>1, <3>3, <3>4, <3>5, <3>6
    <3>7. Accepted(dialed)' <=> Accepted(dialed') BY DEF Accepted
    <3> QED BY <3>4, <3>6, <3>7 DEF HttpRunsAsTheCaller, Complete
  <2> QED BY <2>1, <2>2
<1>2. ASSUME NEW i \in Instance, StdioCall(i) PROVE PoolsKept' /\ HttpRunsAsTheCaller'
  <2>1. NoHeaders \in Context BY DEF NoHeaders, Context, Field
  <2> QED BY <1>1, <1>2, <2>1, ResolveTypes DEF StdioCall
<1>3. ASSUME NEW i \in Instance, NEW ctx \in Context, HttpCall(i, ctx)
      PROVE  PoolsKept' /\ HttpRunsAsTheCaller'
  BY <1>1, <1>3, ResolveTypes DEF HttpCall
<1>4. ASSUME NEW i \in Instance, NEW identity \in Field, PoolGone(i, identity)
      PROVE  PoolsKept' /\ HttpRunsAsTheCaller'
  <2>1. PoolsKept' BY <1>4 DEF PoolGone, PoolsKept, Kept, TypeOK
  <2> QED BY <1>4, <2>1 DEF PoolGone, HttpRunsAsTheCaller
<1>5. CASE StoreStallsOrRecovers \/ UNCHANGED vars
  BY <1>5 DEF StoreStallsOrRecovers, vars, PoolsKept, Kept, HttpRunsAsTheCaller
<1> QED BY <1>2, <1>3, <1>4, <1>5 DEF Next

(* On HTTP no connection is keyed, audited or authenticated as another      *)
(* login than its caller's, and a password that is not its caller's own was *)
(* accepted for that login before (lines 687-718).                          *)
THEOREM HttpRunsAsTheCallerHolds == Spec => []HttpRunsAsTheCaller
<1>1. Init => PoolsKept /\ HttpRunsAsTheCaller
  BY DEF Init, PoolsKept, Kept, HttpRunsAsTheCaller
<1>2. TypeOK /\ (PoolsKept /\ HttpRunsAsTheCaller) /\ [Next]_vars
        => (PoolsKept /\ HttpRunsAsTheCaller)'
  BY PoolsKeptStep
<1> QED BY <1>1, <1>2, TypesHold, PTL DEF Spec

(* home is where the instance's login comes from, and it has been found.    *)
Settled(i, m, home) ==
  /\ home \in Target /\ m[home] = "found"
  /\ \/ home = CredTarget[i]
     \/ /\ home = FleetTarget
        /\ CredTarget[i] = None \/ (Entry[CredTarget[i]] = None /\ m[CredTarget[i]] = "unread")

(* A found target answers every getter, whatever stalls, and stays found. *)
LEMMA SettledAnswers ==
  ASSUME NEW i \in Instance, NEW m, NEW stalled, NEW home, Settled(i, m, home)
  PROVE  Source(i, m, stalled) = home
  BY CredentialAssumption DEF Settled, Source, Answers

LEMMA SettledStays ==
  ASSUME NEW i \in Instance, NEW m \in [Target -> {"unread", "found"}], NEW stalled,
         NEW home, Settled(i, m, home)
  PROVE  Settled(i, Remember(i, m, stalled), home)
  BY CredentialAssumption DEF Settled, Remember, Answers

(* The source without stalls, once found, is such a home. *)
LEMMA FoundIsSettled ==
  ASSUME TypeOK, NEW i \in Instance, Home(i) # None, memo[Home(i)] = "found"
  PROVE  Settled(i, memo, Home(i))
<1>1. Home(i) \in Target /\ (Home(i) = CredTarget[i] \/ Home(i) = FleetTarget)
  BY CredentialAssumption DEF Home, Source, Answers
<1>2. CASE Home(i) = CredTarget[i] BY <1>1, <1>2 DEF Settled
<1>3. CASE Home(i) # CredTarget[i]
  <2>1. CredTarget[i] # None => Entry[CredTarget[i]] = None
    BY <1>3, CredentialAssumption DEF Home, Source, Answers
  <2>2. CredTarget[i] \in Target => memo[CredTarget[i]] \in {"unread", "found"} BY DEF TypeOK
  <2>3. CredTarget[i] \in Target \union {None} BY CredentialAssumption
  <2>4. CredTarget[i] # None =>
          Entry[CredTarget[i]] = None /\ memo[CredTarget[i]] = "unread"
    BY <2>1, <2>2, <2>3 DEF TypeOK
  <2> QED BY <1>1, <1>3, <2>4 DEF Settled
<1> QED BY <1>2, <1>3

(* A stalled store cannot move an instance to another login once its entry  *)
(* has been read: the call is keyed by that entry, and dials with it when   *)
(* no pool is connected under it (lines 461-477, 510-525, 716-718).         *)
THEOREM NoDriftHolds == Spec => NoDriftOnceRead
<1> DEFINE Step == \A i \in Instance :
             StdioCall(i) /\ WasRead(i) =>
               dialed' = IF Pooled(i) # NoDial THEN Pooled(i) ELSE RightDial(i)
<1>1. TypeOK /\ [Next]_vars => [Step]_vars
  <2> SUFFICES ASSUME TypeOK, NEW i \in Instance, StdioCall(i), WasRead(i)
               PROVE  dialed' = IF Pooled(i) # NoDial THEN Pooled(i) ELSE RightDial(i)
    OBVIOUS
  <2> DEFINE home == Home(i)
  <2>1. PICK s1, s2, s3 \in Stalls(i) : Resolve(i, NoHeaders, s1, s2, s3) BY DEF StdioCall
  <2> DEFINE m1 == Remember(i, memo, s1)
             m2 == Remember(i, m1, s2)
             m3 == Remember(i, m2, s3)
  <2>2. /\ Settled(i, memo, home) /\ memo \in [Target -> {"unread", "found"}]
        /\ \A t \in Target : memo[t] = "found" => Entry[t] # None
    BY FoundIsSettled DEF TypeOK, WasRead
  <2>3. /\ Settled(i, m1, home) /\ m1 \in [Target -> {"unread", "found"}]
        /\ \A t \in Target : m1[t] = "found" => Entry[t] # None
    BY <2>2, SettledStays, RememberTypes
  <2>4. /\ Settled(i, m2, home) /\ m2 \in [Target -> {"unread", "found"}]
        /\ \A t \in Target : m2[t] = "found" => Entry[t] # None
    <3> HIDE DEF m1
    <3> QED BY <2>3, SettledStays, RememberTypes
  <2>6. /\ Source(i, memo, s1) = home /\ Source(i, m1, s2) = home
        /\ Source(i, m2, s3) = home
    BY <2>2, <2>3, <2>4, SettledAnswers
  <2>7. /\ home \in Target /\ CfgUser(i, home) # Blank /\ CfgPassword(home) = Entry[home]
        /\ Entry[home] # Blank /\ home # None
    BY <2>2, CredentialAssumption DEF Settled, WasRead, CfgPassword
  <2>8. NoHeaders.user = Blank /\ NoHeaders.password = Blank BY DEF NoHeaders
  <2>9. ~http BY DEF StdioCall
  <2>10. PoolFor(i, RightDial(i))
    <3>1. RightDial(i) = [keyed |-> CfgUser(i, home), user |-> CfgUser(i, home),
                          password |-> CfgPassword(home)]
      BY DEF RightDial
    <3> HIDE DEF home
    <3> QED BY <2>1, <2>6, <2>7, <2>8, <2>9, <3>1 DEF Resolve, Or
  <2> QED BY <2>10 DEF PoolFor, Pooled, RightDial
<1> QED BY <1>1, TypesHold, PTL DEF Spec, NoDriftOnceRead

----------------------------------------------------------------------------
(* A request's context holds its own headers, and the latest pool was asked *)
(* for in its asker's context.                                              *)
OwnContext ==
  /\ \A r \in Request : context[r] \in Context
  /\ context = headers
  /\ caller = asker

LEMMA NoHeadersTyped == NoHeaders \in Context
  BY DEF NoHeaders, Context, Field

(* A request that enters or leaves changes its headers and context alike.   *)
LEMMA ChangedAlike ==
  ASSUME OwnContext, NEW r \in Request, NEW h \in Context,
         headers' = [headers EXCEPT ![r] = h],
         context' = [context EXCEPT ![r] = h],
         UNCHANGED <<caller, asker>>
  PROVE  OwnContext'
  BY DEF OwnContext

LEMMA EnterKeeps ==
  ASSUME OwnContext, NEW s, NEW r \in Request, NEW h \in Headers, NEW where,
         Enter(s, r, h, where)
  PROVE  OwnContext'
<1>1. h \in Context BY TransportAssumption
<1> QED BY <1>1, ChangedAlike DEF Enter, Running, login

LEMMA LeaveKeeps ==
  ASSUME OwnContext, NEW r \in Request, Leave(r), UNCHANGED login
  PROVE  OwnContext'
  BY NoHeadersTyped, ChangedAlike DEF Leave, login

(* Every step of the transport keeps the contexts apart. *)
LEMMA OwnContextStep ==
  ASSUME OwnContext, [HNext]_hvars, caller = NoHeaders \/ http
  PROVE  OwnContext'
<1>1. ASSUME NEW s \in Address, Limit(s) \/ Unauthorized(s) \/ BadRequest(s)
      PROVE  OwnContext'
  BY <1>1 DEF Limit, Unauthorized, BadRequest, desk, login, OwnContext
<1>2. ASSUME NEW s \in Address, NEW r \in Request, NEW h \in Headers,
             Initialize(s, r, h) \/ Post(s, r, h)
      PROVE  OwnContext'
  BY <1>2, EnterKeeps DEF Initialize, Post
<1>3. ASSUME NEW s \in Address, NEW id \in Session, Delete(s, id)
      PROVE  OwnContext'
  BY <1>3 DEF Delete, login, OwnContext
<1>4. ASSUME NEW r \in Request, Initialized(r) \/ Respond(r) PROVE OwnContext'
  BY <1>4, LeaveKeeps DEF Initialized, Respond
<1>5. ASSUME NEW r \in Request, NEW i \in Instance, GetPool(r, i) PROVE OwnContext'
  <2>1. caller' = context[r] /\ asker' = headers[r] /\ UNCHANGED desk
    BY <1>5 DEF GetPool, HttpCall, Resolve
  <2> QED BY <2>1 DEF OwnContext, desk
<1>6. CASE Prune \/ Tick BY <1>6 DEF Prune, Tick, desk, login, OwnContext
<1>7. ASSUME NEW i \in Instance, Local(i) PROVE OwnContext'
  <2>1. ~http /\ caller' = NoHeaders /\ UNCHANGED <<asker, desk>>
    BY <1>7 DEF Local, StdioCall, Resolve
  <2> QED BY <2>1 DEF OwnContext, desk
<1>8. CASE Store
  BY <1>8 DEF Store, StoreStallsOrRecovers, desk, OwnContext
<1>9. ASSUME NEW i \in Instance, NEW identity \in Field, Evict(i, identity)
      PROVE  OwnContext'
  BY <1>9 DEF Evict, PoolGone, desk, OwnContext
<1>10. CASE UNCHANGED hvars BY <1>10 DEF hvars, login, OwnContext
<1> QED
  BY <1>1, <1>2, <1>3, <1>4, <1>5, <1>6, <1>7, <1>8, <1>9, <1>10 DEF HNext

(* What the transport does to the credentials is a step of Credentials.     *)
LEMMA CredentialStep ==
  ASSUME OwnContext, [HNext]_hvars
  PROVE  [Next]_vars
<1>1. ASSUME NEW r \in Request, NEW i \in Instance, GetPool(r, i) PROVE Next
  BY <1>1 DEF GetPool, Next, OwnContext
<1>2. ASSUME NEW i \in Instance, Local(i) PROVE Next BY <1>2 DEF Local, Next
<1>3. CASE Store BY <1>3 DEF Store, Next
<1>4. ASSUME NEW i \in Instance, NEW identity \in Field, Evict(i, identity) PROVE Next
  BY <1>4 DEF Evict, Next
<1>5. ASSUME UNCHANGED login PROVE UNCHANGED vars BY <1>5 DEF login, vars
<1> QED
  BY <1>1, <1>2, <1>3, <1>4, <1>5
  DEF HNext, Limit, Unauthorized, BadRequest, Initialize, Post, Enter, Delete,
      Initialized, Respond, Prune, Tick, hvars

(* Without HTTP nobody sends headers. *)
LEMMA LocalCaller ==
  ASSUME caller = NoHeaders \/ http, [Next]_vars
  PROVE  (caller = NoHeaders \/ http)'
<1>1. ASSUME NEW i \in Instance, StdioCall(i) PROVE (caller = NoHeaders \/ http)'
  BY <1>1 DEF StdioCall, Resolve
<1>2. ASSUME NEW i \in Instance, NEW ctx \in Context, HttpCall(i, ctx)
      PROVE  (caller = NoHeaders \/ http)'
  BY <1>2 DEF HttpCall
<1>3. CASE StoreStallsOrRecovers \/ UNCHANGED vars
  BY <1>3 DEF StoreStallsOrRecovers, vars
<1>4. ASSUME NEW i \in Instance, NEW identity \in Field, PoolGone(i, identity)
      PROVE  (caller = NoHeaders \/ http)'
  BY <1>4 DEF PoolGone
<1> QED BY <1>1, <1>2, <1>3, <1>4 DEF Next

LEMMA Contexts == HSpec => [](OwnContext /\ (caller = NoHeaders \/ http))
<1>1. HInit => OwnContext /\ (caller = NoHeaders \/ http)
  BY NoHeadersTyped DEF HInit, Init, OwnContext
<1>2. OwnContext /\ (caller = NoHeaders \/ http) /\ [HNext]_hvars
        => (OwnContext /\ (caller = NoHeaders \/ http))'
  BY OwnContextStep, CredentialStep, LocalCaller
<1> QED BY <1>1, <1>2, PTL DEF HSpec

(* The transport uses the credentials as Credentials models them, so what   *)
(* is proved of Credentials holds of it (connectionManager.ts 674-718).     *)
THEOREM TransportImplementsCredentials == HSpec => Spec
<1>1. HInit => Init BY DEF HInit
<1>2. OwnContext /\ [HNext]_hvars => [Next]_vars BY CredentialStep
<1> QED BY <1>1, <1>2, Contexts, PTL DEF HSpec, Spec

(* Every request runs as the login it names, whatever awaits beside it      *)
(* (index.ts 137-139, 237-241; connectionManager.ts 687-718).               *)
THEOREM RunsAsItselfHolds == HSpec => []RunsAsItself
<1>1. OwnContext /\ HttpRunsAsTheCaller => RunsAsItself
  BY DEF OwnContext, HttpRunsAsTheCaller, RunsAsItself
<1> QED BY <1>1, Contexts, TransportImplementsCredentials, HttpRunsAsTheCallerHolds, PTL

----------------------------------------------------------------------------
(* What got through, one pair for each request: its age, and its number     *)
(* among the requests of that age.                                          *)
Through(p)   == UNION {{a} \X (1 .. p[a]) : a \in Age}
Upto(p, n)   == {x \in Through(p) : x[1] <= n}
Beyond(p, n) == {x \in Through(p) : x[1] > n}

LEMMA ThroughPairs ==
  ASSUME NEW p \in [Age -> Nat]
  PROVE  /\ Through(p) \in SUBSET (Nat \X Nat)
         /\ \A a, k \in Nat : <<a, k>> \in Through(p) <=> a \in Age /\ k \in 1 .. p[a]
<1>1. Age \subseteq Nat BY TransportAssumption DEF Age
<1>2. ASSUME NEW x PROVE x \in Through(p) <=> \E a \in Age : x \in {a} \X (1 .. p[a])
  BY DEF Through
<1>3. ASSUME NEW a \in Nat, NEW k \in Nat
      PROVE  <<a, k>> \in Through(p) <=> a \in Age /\ k \in 1 .. p[a]
  BY <1>2
<1>4. ASSUME NEW x \in Through(p) PROVE x \in Nat \X Nat
  <2>1. PICK a \in Age : x \in {a} \X (1 .. p[a]) BY <1>2
  <2>2. p[a] \in Nat /\ a \in Nat BY <1>1
  <2> QED BY <2>1, <2>2
<1> QED BY <1>3, <1>4

(* Letting the requests of a set age by one, and perhaps leave, makes no    *)
(* more of them, and just as many when none leaves.                         *)
LEMMA AgedByOne ==
  ASSUME NEW S \in SUBSET (Nat \X Nat), NEW T \in SUBSET (Nat \X Nat), IsFiniteSet(S),
         \A a, k \in Nat : <<a, k>> \in T => a > 0 /\ <<a - 1, k>> \in S
  PROVE  /\ IsFiniteSet(T) /\ Cardinality(T) <= Cardinality(S)
         /\ (\A a, k \in Nat : <<a, k>> \in S => <<a + 1, k>> \in T)
              => Cardinality(T) = Cardinality(S)
<1> DEFINE f == [y \in T |-> <<y[1] - 1, y[2]>>]
<1>1. ASSUME NEW y \in T
      PROVE  /\ y = <<y[1], y[2]>> /\ y[1] \in Nat /\ y[2] \in Nat /\ y[1] > 0
             /\ f[y] = <<y[1] - 1, y[2]>> /\ f[y] \in S
  <2>1. y = <<y[1], y[2]>> /\ y[1] \in Nat /\ y[2] \in Nat OBVIOUS
  <2>2. y[1] > 0 /\ <<y[1] - 1, y[2]>> \in S BY <2>1
  <2> QED BY <2>1, <2>2
<1>2. f \in [T -> S] BY <1>1
<1>3. ASSUME NEW x \in T, NEW y \in T, f[x] = f[y] PROVE x = y
  <2>1. x[1] - 1 = y[1] - 1 /\ x[2] = y[2] BY <1>1, <1>3
  <2> QED BY <1>1, <2>1
<1>4. f \in Injection(T, S)
  <2> HIDE DEF f
  <2> QED BY <1>2, <1>3, Fun_IsInj
<1>5. ASSUME \A a, k \in Nat : <<a, k>> \in S => <<a + 1, k>> \in T
      PROVE  f \in Surjection(T, S)
  <2>1. ASSUME NEW x \in S PROVE \E y \in T : f[y] = x
    <3>1. x = <<x[1], x[2]>> /\ x[1] \in Nat /\ x[2] \in Nat OBVIOUS
    <3>2. <<x[1] + 1, x[2]>> \in T BY <1>5, <3>1
    <3>3. f[<<x[1] + 1, x[2]>>] = x BY <3>1, <3>2
    <3> QED BY <3>2, <3>3
  <2> HIDE DEF f
  <2> QED BY <1>2, <2>1, Fun_IsSurj
<1> HIDE DEF f
<1> QED BY <1>4, <1>5, FS_Injection

(* The entry of a source, against what got through: in the window the entry *)
(* counts, as many as it counted, up to the limit; before it, at most the   *)
(* limit.                                                                   *)
Counts(e, p) ==
  /\ e \in [count : 0 .. Max + 1, left : 0 .. Past] /\ p \in [Age -> Nat]
  /\ IsFiniteSet(Through(p))
  /\ Ended(e) => p[0] = 0 /\ Cardinality(Through(p)) <= Max
  /\ ~Ended(e) =>
       /\ Cardinality(Upto(p, Window - e.left)) = IF e.count < Max THEN e.count ELSE Max
       /\ Cardinality(Beyond(p, Window - e.left)) <= Max

LEMMA ThroughInParts ==
  ASSUME NEW p \in [Age -> Nat], IsFiniteSet(Through(p)), NEW n \in Nat
  PROVE  /\ IsFiniteSet(Upto(p, n)) /\ IsFiniteSet(Beyond(p, n))
         /\ Cardinality(Upto(p, n)) \in Nat /\ Cardinality(Beyond(p, n)) \in Nat
         /\ Cardinality(Through(p)) = Cardinality(Upto(p, n)) + Cardinality(Beyond(p, n))
<1>1. IsFiniteSet(Upto(p, n)) /\ IsFiniteSet(Beyond(p, n))
  BY FS_Subset DEF Upto, Beyond
<1>2. Cardinality(Upto(p, n)) \in Nat /\ Cardinality(Beyond(p, n)) \in Nat
  BY <1>1, FS_CardinalityType
<1>3. \A x \in Through(p) : x[1] \in Nat BY ThroughPairs
<1>4. Upto(p, n) \cup Beyond(p, n) = Through(p) BY <1>3 DEF Upto, Beyond
<1>5. Upto(p, n) \cap Beyond(p, n) = {} BY <1>3 DEF Upto, Beyond
<1>6. Cardinality(Through(p)) = Cardinality(Upto(p, n)) + Cardinality(Beyond(p, n))
                                  - Cardinality({})
  BY <1>1, <1>4, <1>5, FS_Union
<1> QED BY <1>1, <1>2, <1>6, FS_EmptySet

LEMMA NothingYet == Counts(NoHits, [a \in Age |-> 0])
<1> DEFINE p == [a \in Age |-> 0]
<1>1. p \in [Age -> Nat] /\ 0 \in Age BY TransportAssumption DEF Age
<1>2. Through(p) = {}
  <2> SUFFICES ASSUME NEW x \in Through(p) PROVE FALSE OBVIOUS
  <2>1. x = <<x[1], x[2]>> /\ x[1] \in Nat /\ x[2] \in Nat BY <1>1, ThroughPairs
  <2>2. x[1] \in Age /\ x[2] \in 1 .. p[x[1]]
    <3> HIDE DEF p
    <3> QED BY <1>1, <2>1, ThroughPairs
  <2> QED BY <2>2
<1>3. NoHits \in [count : 0 .. Max + 1, left : 0 .. Past] /\ Ended(NoHits)
  BY TransportAssumption DEF NoHits, Past, Ended
<1>4. Cardinality(Through(p)) = 0 /\ IsFiniteSet(Through(p)) BY <1>2, FS_EmptySet
<1> QED BY <1>1, <1>3, <1>4, TransportAssumption DEF Counts

(* An arrival that gets through is counted in the entry's window. *)
LEMMA Admitted ==
  ASSUME NEW e, NEW p, Counts(e, p), NEW n,
         n = IF Ended(e) THEN [count |-> 0, left |-> Window] ELSE e,
         n.count < Max
  PROVE  Counts([n EXCEPT !.count = IF @ > Max THEN @ ELSE @ + 1], [p EXCEPT ![0] = @ + 1])
<1> DEFINE q == [p EXCEPT ![0] = @ + 1]
           m == [n EXCEPT !.count = IF @ > Max THEN @ ELSE @ + 1]
           new == <<0, p[0] + 1>>
           o == Window - m.left
<1>1. /\ p \in [Age -> Nat] /\ 0 \in Age /\ p[0] \in Nat /\ Max \in Nat \ {0}
      /\ Window \in Nat \ {0} /\ IsFiniteSet(Through(p))
      /\ e \in [count : 0 .. Max + 1, left : 0 .. Past]
  BY TransportAssumption DEF Counts, Age
<1>2. q \in [Age -> Nat] /\ q[0] = p[0] + 1 /\ \A a \in Age : a # 0 => q[a] = p[a]
  BY <1>1
<1>3. /\ n.count \in 0 .. Max - 1 /\ n.left \in 0 .. Window
      /\ m \in [count : 0 .. Max + 1, left : 0 .. Past] /\ ~Ended(m)
      /\ m.count = n.count + 1 /\ m.left = n.left /\ o \in Nat
  BY <1>1 DEF Past, Ended
<1>4. Through(q) = Through(p) \cup {new} /\ new \notin Through(p)
  <2> HIDE DEF q
  <2>1. \A x : x \in Through(p) => x \in Nat \X Nat BY <1>1, ThroughPairs
  <2>2. \A x : x \in Through(q) => x \in Nat \X Nat BY <1>2, ThroughPairs
  <2>3. ASSUME NEW a \in Nat, NEW k \in Nat
        PROVE  <<a, k>> \in Through(q) <=> <<a, k>> \in Through(p) \/ <<a, k>> = new
    <3>1. /\ <<a, k>> \in Through(q) <=> a \in Age /\ k \in 1 .. q[a]
          /\ <<a, k>> \in Through(p) <=> a \in Age /\ k \in 1 .. p[a]
      BY <1>1, <1>2, ThroughPairs
    <3>2. CASE a = 0 BY <1>1, <1>2, <3>1, <3>2
    <3>3. CASE a # 0 BY <1>1, <1>2, <3>1, <3>3
    <3> QED BY <3>2, <3>3
  <2>4. new \in Nat \X Nat BY <1>1
  <2>5. new \notin Through(p) BY <1>1, ThroughPairs
  <2> QED BY <2>1, <2>2, <2>3, <2>4, <2>5
<1>5. IsFiniteSet(Through(q))
  <2> HIDE DEF q, new
  <2> QED BY <1>1, <1>4, FS_AddElement
<1>6. Upto(q, o) = Upto(p, o) \cup {new} /\ new \notin Upto(p, o) /\ Beyond(q, o) = Beyond(p, o)
  <2> HIDE DEF q, o
  <2> QED BY <1>1, <1>3, <1>4 DEF Upto, Beyond
<1>7. IsFiniteSet(Upto(p, o)) /\ Cardinality(Upto(p, o)) \in Nat
      /\ Cardinality(Beyond(p, o)) \in Nat
      /\ Cardinality(Through(p)) = Cardinality(Upto(p, o)) + Cardinality(Beyond(p, o))
  BY <1>1, <1>3, ThroughInParts
<1>8. Cardinality(Upto(q, o)) = Cardinality(Upto(p, o)) + 1
  BY <1>6, <1>7, FS_AddElement
<1>9. Cardinality(Upto(p, o)) = n.count /\ Cardinality(Beyond(p, o)) <= Max
  <2>1. CASE ~Ended(e) BY <1>1, <1>3, <2>1 DEF Counts
  <2>2. CASE Ended(e)
    <3>1. n.count = 0 /\ o = 0 BY <1>1, <1>3, <2>2
    <3>2. p[0] = 0 /\ Cardinality(Through(p)) <= Max BY <2>2 DEF Counts
    <3>3. Upto(p, o) = {}
      <4> SUFFICES ASSUME NEW x \in Upto(p, 0) PROVE FALSE BY <3>1
      <4>1. x \in Through(p) /\ x[1] <= 0 BY DEF Upto
      <4>2. x = <<x[1], x[2]>> /\ x[1] \in Nat /\ x[2] \in Nat BY <1>1, <4>1, ThroughPairs
      <4>3. x[1] \in Age /\ x[2] \in 1 .. p[x[1]] BY <1>1, <4>1, <4>2, ThroughPairs
      <4> QED BY <3>2, <4>1, <4>2, <4>3
    <3> QED BY <1>1, <1>7, <3>1, <3>2, <3>3, FS_EmptySet
  <2> QED BY <2>1, <2>2
<1> HIDE DEF q, m, o, new
<1>10. Cardinality(Upto(q, o)) = IF m.count < Max THEN m.count ELSE Max
  BY <1>1, <1>3, <1>8, <1>9
<1>11. Cardinality(Beyond(q, o)) <= Max BY <1>6, <1>9
<1>12. Counts(m, q) BY <1>2, <1>3, <1>5, <1>10, <1>11 DEF Counts, o
<1> QED BY <1>12 DEF m, q

(* A refusal changes the count alone, which is at the limit or above.       *)
LEMMA Refused ==
  ASSUME NEW e, NEW p, Counts(e, p), NEW n,
         n = IF Ended(e) THEN [count |-> 0, left |-> Window] ELSE e,
         n.count >= Max
  PROVE  Counts([n EXCEPT !.count = IF @ > Max THEN @ ELSE @ + 1], p)
<1> DEFINE m == [n EXCEPT !.count = IF @ > Max THEN @ ELSE @ + 1]
<1>1. /\ e \in [count : 0 .. Max + 1, left : 0 .. Past] /\ Max \in Nat \ {0}
      /\ ~Ended(e) /\ n = e
  BY TransportAssumption DEF Counts
<1>2. /\ m \in [count : 0 .. Max + 1, left : 0 .. Past] /\ m.count >= Max
      /\ m.left = e.left /\ ~Ended(m)
  BY <1>1 DEF Ended
<1> HIDE DEF m
<1>3. Counts(m, p)
  <2>1. IF m.count < Max THEN FALSE ELSE TRUE BY <1>1, <1>2
  <2>2. IF e.count < Max THEN FALSE ELSE TRUE BY <1>1
  <2> QED BY <1>1, <1>2, <2>1, <2>2 DEF Counts
<1> QED BY <1>3 DEF m

(* Pruning an entry that has ended. *)
LEMMA Pruned == ASSUME NEW e, NEW p, Counts(e, p), Ended(e) PROVE Counts(NoHits, p)
<1>1. NoHits \in [count : 0 .. Max + 1, left : 0 .. Past] /\ Ended(NoHits)
  BY TransportAssumption DEF NoHits, Past, Ended
<1> QED BY <1>1 DEF Counts

(* A tick: what got through ages along with the window that counted it, and *)
(* when the window has ended, only it is left to look back on.              *)
LEMMA Ticked ==
  ASSUME NEW e, NEW p, Counts(e, p)
  PROVE  Counts([e EXCEPT !.left = IF @ = 0 THEN Past ELSE IF @ = Past THEN @ ELSE @ - 1],
                [a \in Age |-> IF a = 0 THEN 0 ELSE p[a - 1]])
<1> DEFINE q == [a \in Age |-> IF a = 0 THEN 0 ELSE p[a - 1]]
           m == [e EXCEPT !.left = IF @ = 0 THEN Past ELSE IF @ = Past THEN @ ELSE @ - 1]
<1>1. /\ p \in [Age -> Nat] /\ 0 \in Age /\ Max \in Nat \ {0} /\ Window \in Nat \ {0}
      /\ IsFiniteSet(Through(p)) /\ e \in [count : 0 .. Max + 1, left : 0 .. Past]
      /\ Past = Window + 1 /\ Age = 0 .. Window
  BY TransportAssumption DEF Counts, Age, Past
<1>2. q \in [Age -> Nat] /\ q[0] = 0 /\ \A a \in Age : a # 0 => q[a] = p[a - 1]
  <2>1. \A a \in Age : a # 0 => a - 1 \in Age BY <1>1
  <2> QED BY <1>1, <2>1
<1>3. m \in [count : 0 .. Max + 1, left : 0 .. Past] /\ m.count = e.count
      /\ m.left = IF e.left = 0 THEN Past ELSE IF e.left = Past THEN Past ELSE e.left - 1
  BY <1>1
<1> HIDE DEF q, m
<1>4. Through(p) \in SUBSET (Nat \X Nat) /\ Through(q) \in SUBSET (Nat \X Nat)
  BY <1>1, <1>2, ThroughPairs
<1>5. ASSUME NEW a \in Nat, NEW k \in Nat
      PROVE  <<a, k>> \in Through(q) <=>
               a > 0 /\ a <= Window /\ <<a - 1, k>> \in Through(p)
  <2>1. <<a, k>> \in Through(q) <=> a \in Age /\ k \in 1 .. q[a] BY <1>2, ThroughPairs
  <2>2. CASE a = 0 BY <1>1, <1>2, <2>1, <2>2
  <2>3. CASE a # 0
    <3>1. a - 1 \in Nat BY <2>3
    <3>2. <<a - 1, k>> \in Through(p) <=> a - 1 \in Age /\ k \in 1 .. p[a - 1]
      BY <1>1, <3>1, ThroughPairs
    <3>3. a \in Age <=> a > 0 /\ a <= Window /\ a - 1 \in Age BY <1>1, <2>3, <3>1
    <3>4. a \in Age => q[a] = p[a - 1] BY <1>2, <2>3
    <3> QED BY <2>1, <3>2, <3>3, <3>4
  <2> QED BY <2>2, <2>3
<1>6. IsFiniteSet(Through(q)) /\ Cardinality(Through(q)) <= Cardinality(Through(p))
  BY <1>1, <1>4, <1>5, AgedByOne
<1>7. CASE Ended(e)
  <2>1. m.left = Past /\ Ended(m) BY <1>3, <1>7 DEF Ended
  <2>2. Cardinality(Through(p)) <= Max BY <1>7 DEF Counts
  <2>3. Cardinality(Through(p)) \in Nat /\ Cardinality(Through(q)) \in Nat
    BY <1>1, <1>6, FS_CardinalityType
  <2>4. Cardinality(Through(q)) <= Max BY <1>1, <1>6, <2>2, <2>3
  <2>5. Counts(m, q) BY <1>2, <1>3, <1>6, <2>1, <2>4 DEF Counts
  <2> QED BY <2>5 DEF m, q
<1>8. CASE ~Ended(e)
  <2> DEFINE o == Window - e.left
  <2>1. e.left \in 0 .. Window /\ o \in 0 .. Window BY <1>1, <1>8 DEF Ended
  <2>2. /\ Cardinality(Upto(p, o)) = IF e.count < Max THEN e.count ELSE Max
        /\ Cardinality(Beyond(p, o)) <= Max
    BY <1>8 DEF Counts
  <2>3. /\ IsFiniteSet(Upto(p, o)) /\ IsFiniteSet(Beyond(p, o))
        /\ Cardinality(Upto(p, o)) \in Nat /\ Cardinality(Beyond(p, o)) \in Nat
    BY <1>1, <2>1, ThroughInParts
  <2> HIDE DEF o
  <2>4. \A n \in Nat : /\ Upto(p, n) \in SUBSET (Nat \X Nat) /\ Beyond(p, n) \in SUBSET (Nat \X Nat)
                       /\ Upto(q, n) \in SUBSET (Nat \X Nat) /\ Beyond(q, n) \in SUBSET (Nat \X Nat)
    BY <1>4 DEF Upto, Beyond
  <2>5. \A n, a, k \in Nat : /\ <<a, k>> \in Upto(p, n) <=> <<a, k>> \in Through(p) /\ a <= n
                             /\ <<a, k>> \in Beyond(p, n) <=> <<a, k>> \in Through(p) /\ a > n
                             /\ <<a, k>> \in Upto(q, n) <=> <<a, k>> \in Through(q) /\ a <= n
                             /\ <<a, k>> \in Beyond(q, n) <=> <<a, k>> \in Through(q) /\ a > n
    BY DEF Upto, Beyond
  <2>6. CASE e.left = 0
    <3>1. Ended(m) /\ o = Window BY <1>1, <1>3, <2>6 DEF Ended, o
    <3>2. \A a, k \in Nat : <<a, k>> \in Through(q) => a > 0 /\ <<a - 1, k>> \in Upto(p, o)
      <4> TAKE a, k \in Nat
      <4> HAVE <<a, k>> \in Through(q)
      <4>1. a > 0 /\ a <= Window /\ <<a - 1, k>> \in Through(p) BY <1>5
      <4>2. a - 1 \in Nat /\ a - 1 <= o BY <1>1, <3>1, <4>1
      <4> QED BY <2>1, <2>5, <4>1, <4>2
    <3>3. Cardinality(Through(q)) <= Cardinality(Upto(p, o))
      BY <1>4, <2>1, <2>3, <2>4, <3>2, AgedByOne
    <3>4. Cardinality(Through(q)) \in Nat BY <1>6, FS_CardinalityType
    <3>5. Cardinality(Through(q)) <= Max BY <1>1, <2>2, <2>3, <3>3, <3>4
    <3> QED BY <1>2, <1>3, <1>6, <3>1, <3>5 DEF Counts, m, q
  <2>7. CASE e.left # 0
    <3>1. m.left = e.left - 1 /\ ~Ended(m) /\ Window - m.left = o + 1 /\ o + 1 \in 1 .. Window
      <4>1. e.left \in 1 .. Window /\ e.left # Past BY <1>1, <2>1, <2>7
      <4>2. m.left = e.left - 1 BY <1>3, <2>7, <4>1
      <4>3. Window - m.left = o + 1 BY <1>1, <2>1, <4>1, <4>2 DEF o
      <4>4. o + 1 \in 1 .. Window BY <1>1, <4>1 DEF o
      <4> QED BY <1>1, <4>1, <4>2, <4>3, <4>4 DEF Ended
    <3>2. \A a, k \in Nat : <<a, k>> \in Upto(q, o + 1) => a > 0 /\ <<a - 1, k>> \in Upto(p, o)
      <4> TAKE a, k \in Nat
      <4> HAVE <<a, k>> \in Upto(q, o + 1)
      <4>1. <<a, k>> \in Through(q) /\ a <= o + 1 BY <2>1, <2>5, <3>1
      <4>2. a > 0 /\ <<a - 1, k>> \in Through(p) BY <1>5, <4>1
      <4>3. a - 1 \in Nat /\ a - 1 <= o BY <2>1, <4>1, <4>2
      <4> QED BY <2>1, <2>5, <4>2, <4>3
    <3>3. \A a, k \in Nat : <<a, k>> \in Upto(p, o) => <<a + 1, k>> \in Upto(q, o + 1)
      <4> TAKE a, k \in Nat
      <4> HAVE <<a, k>> \in Upto(p, o)
      <4>1. <<a, k>> \in Through(p) /\ a <= o BY <2>1, <2>5
      <4>2. a + 1 \in Nat /\ a + 1 > 0 /\ a + 1 <= o + 1 /\ a + 1 <= Window /\ (a + 1) - 1 = a
        BY <1>1, <2>1, <3>1, <4>1
      <4>3. <<a + 1, k>> \in Through(q) BY <1>5, <4>1, <4>2
      <4> QED BY <2>1, <2>5, <3>1, <4>2, <4>3
    <3>4. Cardinality(Upto(q, o + 1)) = Cardinality(Upto(p, o))
      BY <2>1, <2>3, <2>4, <3>1, <3>2, <3>3, AgedByOne
    <3>5. \A a, k \in Nat : <<a, k>> \in Beyond(q, o + 1) => a > 0 /\ <<a - 1, k>> \in Beyond(p, o)
      <4> TAKE a, k \in Nat
      <4> HAVE <<a, k>> \in Beyond(q, o + 1)
      <4>1. <<a, k>> \in Through(q) /\ a > o + 1 BY <2>1, <2>5, <3>1
      <4>2. a > 0 /\ <<a - 1, k>> \in Through(p) BY <1>5, <4>1
      <4>3. a - 1 \in Nat /\ a - 1 > o BY <2>1, <4>1, <4>2
      <4> QED BY <2>1, <2>5, <4>2, <4>3
    <3>6. IsFiniteSet(Beyond(q, o + 1)) /\ Cardinality(Beyond(q, o + 1)) <= Cardinality(Beyond(p, o))
      BY <2>1, <2>3, <2>4, <3>1, <3>5, AgedByOne
    <3>7. Cardinality(Beyond(q, o + 1)) \in Nat BY <3>6, FS_CardinalityType
    <3>8. Cardinality(Beyond(q, o + 1)) <= Max BY <1>1, <2>2, <2>3, <3>6, <3>7
    <3> QED BY <1>2, <1>3, <1>6, <2>2, <3>1, <3>4, <3>8 DEF Counts, m, q
  <2> QED BY <2>6, <2>7
<1> QED BY <1>7, <1>8

(* So what got through within the last minute is at most twice the limit,   *)
(* and at least the limit where the entry refuses.                          *)
LEMMA CountsBound ==
  ASSUME NEW e, NEW p, Counts(e, p)
  PROVE  /\ Cardinality(Through(p)) <= 2 * Max
         /\ ~Ended(e) /\ e.count >= Max => Cardinality(Through(p)) >= Max
<1>1. /\ Max \in Nat \ {0} /\ Window \in Nat \ {0} /\ p \in [Age -> Nat]
      /\ IsFiniteSet(Through(p)) /\ e \in [count : 0 .. Max + 1, left : 0 .. Past]
  BY TransportAssumption DEF Counts
<1>2. CASE Ended(e)
  <2>1. Cardinality(Through(p)) \in Nat BY <1>1, FS_CardinalityType
  <2> QED BY <1>1, <1>2, <2>1 DEF Counts
<1>3. CASE ~Ended(e)
  <2>1. Window - e.left \in Nat BY <1>1, <1>3 DEF Ended, Past
  <2> DEFINE o == Window - e.left
  <2>2. /\ Cardinality(Upto(p, o)) \in Nat /\ Cardinality(Beyond(p, o)) \in Nat
        /\ Cardinality(Through(p)) = Cardinality(Upto(p, o)) + Cardinality(Beyond(p, o))
    BY <1>1, <2>1, ThroughInParts
  <2>3. /\ Cardinality(Upto(p, o)) = IF e.count < Max THEN e.count ELSE Max
        /\ Cardinality(Beyond(p, o)) <= Max
    BY <1>3 DEF Counts
  <2> HIDE DEF o
  <2> QED BY <1>1, <2>2, <2>3
<1> QED BY <1>2, <1>3

(* The limiter's entries count what got through, at every source. *)
Limiter ==
  /\ hits \in [Address -> [count : 0 .. Max + 1, left : 0 .. Past]]
  /\ passed \in [Address -> [Age -> Nat]]
  /\ \A s \in Address : Counts(hits[s], passed[s])

LEMMA LimiterHolds == HSpec => []Limiter
<1>1. HInit => Limiter
  <2> SUFFICES ASSUME HInit, NEW s \in Address
               PROVE  hits[s] = NoHits /\ passed[s] = [a \in Age |-> 0]
                      /\ Counts(hits[s], passed[s])
    BY NothingYet DEF HInit, Limiter, Counts
  <2> QED BY NothingYet DEF HInit
<1>2. Limiter /\ [HNext]_hvars => Limiter'
  <2> SUFFICES ASSUME Limiter, [HNext]_hvars PROVE Limiter' OBVIOUS
  <2>1. ASSUME NEW s \in Address, Admit(s) PROVE Limiter'
    <3>1. Counts(hits'[s], passed'[s])
      <4> DEFINE n == Window_(s)
      <4>1. /\ Counts(hits[s], passed[s]) /\ n.count < Max
            /\ n = IF Ended(hits[s]) THEN [count |-> 0, left |-> Window] ELSE hits[s]
        BY <2>1 DEF Limiter, Admit, Window_
      <4>2. hits'[s] = [n EXCEPT !.count = IF @ > Max THEN @ ELSE @ + 1]
        BY <2>1 DEF Limiter, Admit, Count
      <4>3. passed'[s] = [passed[s] EXCEPT ![0] = @ + 1] BY <2>1 DEF Limiter, Admit
      <4> HIDE DEF n
      <4> QED BY <4>1, <4>2, <4>3, Admitted
    <3>2. \A d \in Address \ {s} : hits'[d] = hits[d] /\ passed'[d] = passed[d]
      BY <2>1 DEF Limiter, Admit, Count
    <3>3. \A d \in Address : Counts(hits'[d], passed'[d]) BY <3>1, <3>2 DEF Limiter
    <3>4. hits' = [d \in Address |-> hits'[d]] /\ passed' = [d \in Address |-> passed'[d]]
      BY <2>1 DEF Limiter, Admit, Count
    <3> QED BY <3>3, <3>4 DEF Limiter, Counts
  <2>2. ASSUME NEW s \in Address, Limit(s) PROVE Limiter'
    <3>1. Counts(hits'[s], passed[s])
      BY <2>2, Refused DEF Limiter, Limit, Count, Window_
    <3>2. passed' = passed /\ \A d \in Address \ {s} : hits'[d] = hits[d]
      BY <2>2 DEF Limiter, Limit, Count
    <3>3. \A d \in Address : Counts(hits'[d], passed'[d]) BY <3>1, <3>2 DEF Limiter
    <3>4. hits' = [d \in Address |-> hits'[d]] BY <2>2 DEF Limiter, Limit, Count
    <3> QED BY <3>2, <3>3, <3>4 DEF Limiter, Counts
  <2>3. CASE Prune
    <3>1. \A d \in Address : Counts(hits'[d], passed'[d])
      BY <2>3, Pruned DEF Prune, Prunable, Ended, Limiter
    <3> QED BY <2>3, <3>1 DEF Prune, Limiter, Counts
  <2>4. CASE Tick
    <3>1. \A d \in Address : Counts(hits'[d], passed'[d])
      BY <2>4, Ticked DEF Tick, Limiter
    <3> QED BY <2>4, <3>1 DEF Tick, Limiter, Counts
  <2>5. CASE UNCHANGED door BY <2>5 DEF door, Limiter
  <2> QED
    BY <2>1, <2>2, <2>3, <2>4, <2>5
    DEF HNext, Unauthorized, BadRequest, Initialize, Post, Enter, Delete, Initialized,
        GetPool, Respond, Local, Evict, Store, hvars, door
<1> QED BY <1>1, <1>2, PTL DEF HSpec

(* Of any minute, at most twice the limit gets through, however arrivals,   *)
(* the end of a window and the pruning meet (lines 197-213).                *)
THEOREM WithinTwiceHolds == HSpec => []WithinTwice
<1>1. Limiter => WithinTwice
  BY CountsBound DEF Limiter, WithinTwice, Recent, Through
<1> QED BY <1>1, LimiterHolds, PTL

(* A source is refused only if its full limit got through within the last   *)
(* minute (lines 203-211).                                                  *)
THEOREM RefusedForAReasonHolds == HSpec => RefusedForAReason
<1>1. Limiter => \A s \in Address : Limit(s) => Recent(s) >= Max
  <2> SUFFICES ASSUME Limiter, NEW s \in Address, Limit(s) PROVE Recent(s) >= Max OBVIOUS
  <2>1. ~Ended(hits[s]) /\ hits[s].count >= Max
    BY TransportAssumption DEF Limit, Window_
  <2> QED BY <2>1, CountsBound DEF Limiter, Recent, Through
<1>2. Limiter /\ [HNext]_hvars
        => [\A s \in Address : Limit(s) => Recent(s) >= Max]_hvars
  BY <1>1
<1> QED BY <1>2, LimiterHolds, PTL DEF HSpec, RefusedForAReason
=============================================================================
