---------------------------- MODULE Credentials ----------------------------
(***************************************************************************)
(* connectionManager.ts and credentialStore.ts: which login a connection   *)
(* is keyed, audited and authenticated as.                                 *)
(*                                                                         *)
(* The login of an instance is read lazily, by getters that shell out to   *)
(* the OS credential store and remember only a read that found an entry.   *)
(* getPool() runs the getters up to three times in one synchronous         *)
(* stretch: for the identity in the pool's key, for the user and for the   *)
(* password.  Each run may find the store stalled and fall back.  Then a   *)
(* pool that is connected under the identity is returned as it is; else    *)
(* one is dialed with the user and the password.  How dials overlap is     *)
(* CatalogPool: here a dial ends in the step that begins it.               *)
(*                                                                         *)
(* A password is represented by the login it belongs to.                   *)
(***************************************************************************)
EXTENDS FiniteSets

CONSTANTS
  Instance, Target, Login,
  None,         \* no target, no entry
  Blank,        \* the empty string
  CredTarget,   \* instance -> the "credTarget" of its fleet entry, or None
  FleetTarget,  \* SQL_CRED_TARGET or None
  Literal,      \* instance -> a "user" in the fleet entry, or Blank
  Entry,        \* target -> the login of its entry in the OS store, or None
  Nameless,     \* targets whose entry has a password and no user name
  EnvUser, EnvPassword   \* SQL_USER, and the login SQL_PASSWORD belongs to

ASSUME CredentialAssumption ==
  /\ None \notin Target \union Login /\ Blank \notin Login
  /\ CredTarget \in [Instance -> Target \union {None}]
  /\ FleetTarget \in Target \union {None}
  /\ Literal \in [Instance -> Login \union {Blank}]
  /\ Entry \in [Target -> Login \union {None}]
  /\ Nameless \subseteq Target
  /\ {EnvUser, EnvPassword} \subseteq Login \union {Blank}

Field   == Login \union {Blank}
NoDial  == [keyed |-> Blank, user |-> Blank, password |-> Blank]
Dial    == [keyed : Field, user : Field, password : Field]
Context == [user : Field, password : Field]    \* the X-DB-* headers
NoHeaders == [user |-> Blank, password |-> Blank]

VARIABLES
  memo,      \* osCredCache and instanceCredCache: "unread" or "found"
  readable,  \* the OS store answers within its timeout; else it may not
  http,      \* the transport of this process
  pools,     \* instance -> identity -> how the connected pool was dialed, or NoDial
  on,        \* the instance of the latest getPool(), or None
  caller,    \* that call's context
  dialed     \* what the pool it found or dialed is keyed by and dialed with

vars == <<memo, readable, http, pools, on, caller, dialed>>

Init ==
  /\ memo = [t \in Target |-> "unread"]
  /\ readable \in BOOLEAN
  /\ http \in BOOLEAN
  /\ pools = [i \in Instance |-> [identity \in Field |-> NoDial]]
  /\ on = None
  /\ caller = NoHeaders
  /\ dialed = NoDial

----------------------------------------------------------------------------
\* mutant: the store is asked every time
AnswersAfresh(t, m, stalled) == t # None /\ Entry[t] # None /\ t \notin stalled

(* A target has an answer for the getter if it was found before, or is      *)
(* found by this read; a stalled read looks like an absent entry.           *)
Answers(t, m, stalled) ==
  /\ t # None
  /\ m[t] = "found" \/ (m[t] = "unread" /\ Entry[t] # None /\ t \notin stalled)

(* credentialFor: the instance's target, else the fleet's, else neither.    *)
Source(i, m, stalled) ==
  IF Answers(CredTarget[i], m, stalled) THEN CredTarget[i]
  ELSE IF Answers(FleetTarget, m, stalled) THEN FleetTarget ELSE None

(* Targets the getter reads: the fleet's only if the instance's has none.   *)
Reads(i, m, stalled) ==
  {CredTarget[i]} \union
  (IF Answers(CredTarget[i], m, stalled) THEN {} ELSE {FleetTarget})

\* mutant: a read that found nothing is remembered as well
RememberAll(i, m, stalled) ==
  [t \in Target |-> IF t \notin Reads(i, m, stalled) \/ m[t] # "unread" THEN m[t]
                    ELSE IF Answers(t, m, stalled) THEN "found" ELSE "missed"]

(* Only a success is memoised. *)
Remember(i, m, stalled) ==
  [t \in Target |-> IF t \in Reads(i, m, stalled) /\ Answers(t, m, stalled)
                      THEN "found" ELSE m[t]]

(* cfg.user and cfg.password, given the source the getter found. *)
CfgUser(i, source) ==
  IF Literal[i] # Blank THEN Literal[i]
  ELSE IF source = None THEN EnvUser
  ELSE IF source \in Nameless THEN Blank ELSE Entry[source]

CfgPassword(source) == IF source = None THEN EnvPassword ELSE Entry[source]

Or(own, fallback) == IF own # Blank THEN own ELSE fallback     \* own || fallback

Complete(ctx) == ctx.user # Blank /\ ctx.password # Blank

(* SQL Server accepts a password for its own login only. *)
Accepted(d) == d.password = d.user

(* The pool that is connected under d's key, whatever it was dialed with;   *)
(* with none, a dial with d, which may fail.                                *)
PoolFor(i, d) ==
  \/ /\ pools[i][d.keyed] # NoDial
     /\ dialed' = pools[i][d.keyed]
     /\ UNCHANGED pools
  \/ /\ pools[i][d.keyed] = NoDial
     /\ dialed' = d
     /\ \/ Accepted(d) /\ pools' = [pools EXCEPT ![i][d.keyed] = d]
        \/ UNCHANGED pools

(* getPool's credential part.  A getter runs only where the context has no  *)
(* value of its own; each run may meet a stall of its own.                  *)
Resolve(i, ctx, s1, s2, s3) ==
  LET m1 == IF ctx.user = Blank THEN Remember(i, memo, s1) ELSE memo
      m2 == IF ctx.user = Blank THEN Remember(i, m1, s2) ELSE m1
      m3 == IF ctx.password = Blank THEN Remember(i, m2, s3) ELSE m2
      keyed    == Or(ctx.user, CfgUser(i, Source(i, memo, s1)))
      user     == Or(ctx.user, CfgUser(i, Source(i, m1, s2)))
      password == Or(ctx.password, CfgPassword(Source(i, m2, s3)))
  IN  /\ on' = i /\ caller' = ctx
      /\ \/ /\ http /\ ~Complete(ctx)                   \* refused: no headers
            /\ memo' = m1
            /\ dialed' = NoDial /\ UNCHANGED pools
         \/ /\ http => Complete(ctx)
            /\ user = Blank \/ password = Blank         \* not configured
            /\ memo' = m3
            /\ dialed' = NoDial /\ UNCHANGED pools
         \/ /\ http => Complete(ctx)
            /\ user # Blank /\ password # Blank
            /\ memo' = m3
            /\ PoolFor(i, [keyed |-> keyed, user |-> user, password |-> password])

(* The reads of one run of a getter that can stall. *)
Stalls(i) == IF readable THEN {{}} ELSE SUBSET {CredTarget[i], FleetTarget}

StdioCall(i) ==
  /\ ~http
  /\ \E s1, s2, s3 \in Stalls(i) : Resolve(i, NoHeaders, s1, s2, s3)
  /\ UNCHANGED <<readable, http>>

(* Called in a request with the headers ctx. *)
HttpCall(i, ctx) ==
  /\ http
  /\ \E s \in Stalls(i) : Resolve(i, ctx, s, s, s)
  /\ UNCHANGED <<readable, http>>

StoreStallsOrRecovers ==
  /\ readable' = ~readable
  /\ UNCHANGED <<memo, http, pools, on, caller, dialed>>

(* A pool fails or is retired, and leaves the map. *)
PoolGone(i, identity) ==
  /\ pools[i][identity] # NoDial
  /\ pools' = [pools EXCEPT ![i][identity] = NoDial]
  /\ UNCHANGED <<memo, readable, http, on, caller, dialed>>

Next ==
  \/ \E i \in Instance :
       \/ StdioCall(i)
       \/ \E ctx \in Context : HttpCall(i, ctx)
       \/ \E identity \in Field : PoolGone(i, identity)
  \/ StoreStallsOrRecovers

Spec == Init /\ [][Next]_vars

----------------------------------------------------------------------------
TypeOK ==
  /\ memo \in [Target -> {"unread", "found"}]
  /\ \A t \in Target : memo[t] = "found" => Entry[t] # None
  /\ readable \in BOOLEAN /\ http \in BOOLEAN
  /\ pools \in [Instance -> [Field -> Dial]]
  /\ on \in Instance \union {None}
  /\ caller \in Context
  /\ dialed \in Dial

(* The target whose entry an instance is meant to use: the one a readable   *)
(* store answers from, with nothing remembered.                             *)
Home(i) == Source(i, [t \in Target |-> "unread"], {})

RightDial(i) == [keyed    |-> CfgUser(i, Home(i)),
                 user     |-> CfgUser(i, Home(i)),
                 password |-> CfgPassword(Home(i))]

Right(i) == dialed = RightDial(i)

(* That entry was found, and names a user (or the fleet entry does).        *)
WasRead(i) == /\ Home(i) # None /\ memo[Home(i)] = "found"
              /\ CfgUser(i, Home(i)) # Blank

(* The pool that is connected under that entry's login. *)
Pooled(i) == pools[i][CfgUser(i, Home(i))]

(* On HTTP no connection is keyed, audited or authenticated as another      *)
(* login than the one its caller names: there is one only for a caller that *)
(* sent both headers, and it was dialed with the password sent, or with one *)
(* of that login's that SQL Server accepted before (lines 687-718).         *)
HttpRunsAsTheCaller ==
  http /\ dialed # NoDial =>
    /\ Complete(caller)
    /\ dialed.keyed = caller.user /\ dialed.user = caller.user
    /\ dialed.password = caller.password \/ Accepted(dialed)

(* Once the entry an instance is meant to use has been read, a stalled      *)
(* store cannot move it to another login: every later call is keyed by that *)
(* entry, and dials with it when no pool is connected under that login      *)
(* (lines 461-477, 510-525, 716-718).                                       *)
NoDriftOnceRead ==
  [][\A i \in Instance :
       StdioCall(i) /\ WasRead(i) =>
         dialed' = IF Pooled(i) # NoDial THEN Pooled(i) ELSE RightDial(i)]_vars

(* A miss never sticks: when the store answers from some time on, every     *)
(* call comes to be served with its instance's own entry, in a fleet whose  *)
(* sources have logins of different names (lines 467-470, 516-520).         *)
MissesAreRetried ==
  ~http /\ <>[]readable => \A i \in Instance : <>[](on = i => Right(i))
=============================================================================
