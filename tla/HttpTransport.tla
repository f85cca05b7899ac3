--------------------------- MODULE HttpTransport ---------------------------
(***************************************************************************)
(* index.ts, startHttp(), over the credentials of connectionManager.ts:    *)
(* requests pass the rate limiter and the bearer guard, are served on a    *)
(* session of their own or of another request, and run getPool() each in   *)
(* its own credential context while others await.                          *)
(*                                                                         *)
(* Time is counted back from now: an entry of the limiter has a time left, *)
(* a request that passed has an age.                                       *)
(***************************************************************************)
EXTENDS Credentials, Naturals, FiniteSets

CONSTANTS
  Request,       \* requests in flight at a time
  Address,       \* req.ip
  Session,       \* mcp-session-id
  Headers,       \* what callers send as X-DB-User and X-DB-Password
  Max,           \* MCP_RATE_LIMIT_PER_MIN
  Window,        \* 60_000 ms
  AuthRequired   \* MCP_AUTH_MODE=required

ASSUME TransportAssumption ==
  /\ Headers \subseteq Context
  /\ Max \in Nat \ {0} /\ Window \in Nat \ {0}
  /\ AuthRequired \in BOOLEAN

VARIABLES
  hits,        \* source -> its entry in rlHits, or NoHits
  passed,      \* source -> age -> requests let through that long ago
  transports,  \* the sessions in the map
  at,          \* request -> "none", "opening" or "serving"
  headers,     \* request -> what it was sent with
  context,     \* request -> what credentialContext holds for it
  asker        \* the headers of the request of the latest getPool()

door  == <<hits, passed>>
desk  == <<transports, at, headers, context>>
login == <<memo, readable, http, pools, on, caller, dialed, asker>>
hvars == <<hits, passed, transports, at, headers, context, login>>

Past   == Window + 1     \* the time left of an entry that has ended, unpruned
NoHits == [count |-> 0, left |-> Past]
Age    == 0 .. Window

HInit ==
  /\ Init
  /\ hits = [s \in Address |-> NoHits]
  /\ passed = [s \in Address |-> [a \in Age |-> 0]]
  /\ transports = {}
  /\ at = [r \in Request |-> "none"]
  /\ headers = [r \in Request |-> NoHeaders]
  /\ context = [r \in Request |-> NoHeaders]
  /\ asker = NoHeaders

----------------------------------------------------------------------------
\* mutant: an entry lasts until it is pruned
EndsWhenPruned(e) == e = NoHits

(* now > resetAt: the window of an entry has ended. *)
Ended(e) == e.left = Past

\* mutant: t >= resetAt
EndingNow(e) == e.left \in {0, Past}

(* The pruning, every minute, takes the entries whose window has ended.     *)
Prunable(e) == e.left = Past

(* The entry an arrival counts in: the one there is, or a new one. *)
Window_(s) == IF Ended(hits[s]) THEN [count |-> 0, left |-> Window] ELSE hits[s]

(* The arrival is counted first; beyond the limit, counts are all alike.    *)
Count(s) == [hits EXCEPT ![s] = [Window_(s) EXCEPT !.count = IF @ > Max THEN @ ELSE @ + 1]]

(* next(): the request goes on to its route. *)
Admit(s) ==
  /\ http
  /\ Window_(s).count < Max
  /\ hits' = Count(s)
  /\ passed' = [passed EXCEPT ![s][0] = @ + 1]

(* 429 *)
Limit(s) ==
  /\ http
  /\ Window_(s).count >= Max
  /\ hits' = Count(s)
  /\ UNCHANGED <<passed, desk, login>>

Prune ==
  /\ http
  /\ hits' = [s \in Address |-> IF Prunable(hits[s]) THEN NoHits ELSE hits[s]]
  /\ UNCHANGED <<passed, desk, login>>

(* Time passes: windows end, and requests leave the last minute. *)
Tick ==
  /\ http
  /\ hits' = [s \in Address |->
       [hits[s] EXCEPT !.left = IF @ = 0 THEN Past ELSE IF @ = Past THEN @ ELSE @ - 1]]
  /\ passed' = [s \in Address |->
       [a \in Age |-> IF a = 0 THEN 0 ELSE passed[s][a - 1]]]
  /\ UNCHANGED <<desk, login>>

----------------------------------------------------------------------------
(* requireBearerAuth answers 401: no token, or one that verifyAccessToken   *)
(* refuses (signature, issuer, audience, expiry, a scope that is missing).  *)
Unauthorized(s) == AuthRequired /\ Admit(s) /\ UNCHANGED <<desk, login>>

(* 400: neither a session in the map nor an initialize request to POST.     *)
BadRequest(s) == Admit(s) /\ UNCHANGED <<desk, login>>

\* mutant: one context for the process
OneForAll(r, h) == [q \in Request |-> h]

(* credentialContext.run: what the request's own chain of awaits sees.      *)
Running(r, h) == [context EXCEPT ![r] = h]

(* The response ends the request, and with it its context. *)
Leave(r) ==
  /\ at' = [at EXCEPT ![r] = "none"]
  /\ headers' = [headers EXCEPT ![r] = NoHeaders]
  /\ context' = [context EXCEPT ![r] = NoHeaders]

Enter(s, r, h, where) ==
  /\ at[r] = "none"
  /\ Admit(s)
  /\ at' = [at EXCEPT ![r] = where]
  /\ headers' = [headers EXCEPT ![r] = h]
  /\ context' = Running(r, h)
  /\ UNCHANGED <<transports, login>>

(* POST without a session: a new transport, connected to a new server.      *)
Initialize(s, r, h) == Enter(s, r, h, "opening")

(* On a session in the map, whoever opened it: a POST, or a GET, whose      *)
(* stream calls no tool.                                                    *)
Post(s, r, h) == transports # {} /\ Enter(s, r, h, "serving")

(* onsessioninitialized, or the transport refuses the host or the origin.   *)
Initialized(r) ==
  /\ at[r] = "opening"
  /\ \/ \E id \in Session \ transports : transports' = transports \union {id}
     \/ UNCHANGED transports
  /\ Leave(r)
  /\ UNCHANGED <<door, login>>

(* A tool of the request asks for a pool, in the request's context. *)
GetPool(r, i) ==
  /\ at[r] = "serving"
  /\ HttpCall(i, context[r])
  /\ asker' = headers[r]
  /\ UNCHANGED <<door, desk>>

Respond(r) ==
  /\ at[r] = "serving"
  /\ Leave(r)
  /\ UNCHANGED <<door, transports, login>>

(* DELETE: the transport is closed; a handler under way runs to its end.    *)
Delete(s, id) ==
  /\ Admit(s)
  /\ transports' = transports \ {id}
  /\ UNCHANGED <<at, headers, context, login>>

(* The transport is stdio: nobody arrives, the tools call getPool(). *)
Local(i) == StdioCall(i) /\ UNCHANGED <<asker, door, desk>>

Store == StoreStallsOrRecovers /\ UNCHANGED <<asker, door, desk>>

Evict(i, identity) == PoolGone(i, identity) /\ UNCHANGED <<asker, door, desk>>

HNext ==
  \/ \E s \in Address :
       \/ Limit(s) \/ Unauthorized(s) \/ BadRequest(s)
       \/ \E r \in Request, h \in Headers : Initialize(s, r, h) \/ Post(s, r, h)
       \/ \E id \in Session : Delete(s, id)
  \/ \E r \in Request : Initialized(r) \/ Respond(r) \/ \E i \in Instance : GetPool(r, i)
  \/ Prune \/ Tick
  \/ \E i \in Instance : Local(i) \/ \E identity \in Field : Evict(i, identity)
  \/ Store

HSpec == HInit /\ [][HNext]_hvars

(* Fairness: over stdio the tools keep calling every instance. *)
HFairSpec == HSpec /\ \A i \in Instance : WF_hvars(Local(i))

----------------------------------------------------------------------------
(* Every request runs as the caller it names: whichever requests await      *)
(* beside it and whoever opened the session it uses, its connection is      *)
(* keyed, audited and authenticated as the user it was sent with, and       *)
(* without both headers there is none.  The password it was sent with is    *)
(* the one used, or the connection was there and that user's own had been   *)
(* accepted for it (lines 137-139, 237-241; connectionManager.ts 687-718).  *)
RunsAsItself ==
  http /\ dialed # NoDial =>
    /\ Complete(asker)
    /\ dialed.keyed = asker.user /\ dialed.user = asker.user
    /\ dialed.password = asker.password \/ Accepted(dialed)

(* "Two callers never share a pool" (connectionManager.ts:684): what a      *)
(* request runs on was authenticated with the password it was sent with.    *)
NeverOnAnothersPool ==
  http /\ dialed # NoDial => dialed.password = asker.password

(* What a source got through in the minute up to now, both ends included.   *)
Recent(s) == Cardinality(UNION {{a} \X (1 .. passed[s][a]) : a \in Age})

(* "MCP_RATE_LIMIT_PER_MIN: per-minute /mcp cap" (DEPLOYMENT.md:326) holds  *)
(* of the limiter's windows; of any minute the double holds, however the    *)
(* arrivals, the end of the window and the pruning meet (lines 197-213).    *)
WithinTwice == \A s \in Address : Recent(s) <= 2 * Max

(* A source is refused only if its full limit got through within the last   *)
(* minute: an entry that has ended never refuses (lines 203-211).           *)
RefusedForAReason ==
  [][\A s \in Address : Limit(s) => Recent(s) >= Max]_hvars
=============================================================================
