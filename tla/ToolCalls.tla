----------------------------- MODULE ToolCalls -----------------------------
(***************************************************************************)
(* Tool calls that run at once against the pools of a few instances: what  *)
(* each read gives and loses (queryInstance and applyRowLimit of           *)
(* connectionManager.ts), the warnings every call collects in a scope of   *)
(* its own (runInCatalogFallbackScope), what it answers (tools.ts, through *)
(* ToolTable), and execute_write's transaction.  What the guards take the  *)
(* caller's SQL for is SqlGuard.                                           *)
(*                                                                         *)
(* A read is sent by request().query(), that is by sp_executesql: when it  *)
(* returns the server puts USE and SET back, so no batch leaves anything   *)
(* in its pooled session for the next one.                                 *)
(***************************************************************************)
EXTENDS ToolTable, SqlGuard, FiniteSets, FiniteSetsExt

CONSTANTS
  Target,  \* the SQL instances
  Call,    \* the tool calls, each made once
  ToolsOf  \* call -> the names of the tools it may be of

(* TOOLSET=dba, the same with DBATOOLS_FIRST=1, the same over HTTP, and      *)
(* TOOLSET=eng-write with its switch.                                       *)
Profiles == {"dba", "dbatools", "http", "write"}
ExecuteWrite == "execute_write"

Exposed(p) == DOMAIN AppDataTools \union
              (IF p = "write" THEN {ExecuteWrite} ELSE DOMAIN DmvTools)

ASSUME CallsAssumption == ToolsOf \in [Call -> SUBSET (Exposed("dba") \union Exposed("write"))]

VARIABLES
  profile,   \* how the server was started
  fallback,  \* instance -> its read pool is connected to master instead
  call,      \* call -> its tool, the instance it is for, and how far it is
  notes,     \* call -> the warnings in the store of its scope
  reply,     \* call -> "none", "answer", "absent", "error", "applied", "dry run"
  seen,      \* history: call -> what its reads really met
  tx,        \* call -> the transaction of its write: "none", "open", "ran", "ended",
             \* "unheard": the driver threw at its end, "own": ended by the statement
  changed    \* the calls whose write is committed

vars == <<profile, fallback, call, notes, reply, seen, tx, changed>>

(* path: "dmv" or "dbatools", of a write "commit" or "dry".  step: the read  *)
(* it is at, left: the instances of it still to come.  some, found: whether *)
(* the first read, or one that counts, gave rows.  flagged: the instances   *)
(* of which the answer says truncated.  said: it tells of a failed read.    *)
Idle == [tool |-> "none", target |-> "none", path |-> "dmv", step |-> 0, left |-> {},
         some |-> FALSE, found |-> FALSE, flagged |-> {}, said |-> FALSE]

Init ==
  /\ profile \in Profiles
  /\ fallback \in [Target -> BOOLEAN]
  /\ call = [c \in Call |-> Idle]
  /\ notes = [c \in Call |-> {}]
  /\ reply = [c \in Call |-> "none"]
  /\ seen = [c \in Call |-> {}]
  /\ tx = [c \in Call |-> "none"] /\ changed = {}

Writes(c)  == call[c].tool = ExecuteWrite
Running(c) == call[c].tool # "none" /\ reply[c] = "none"
Reading(c) == Running(c) /\ ~Writes(c)

ToolNamed(name) ==
  IF name \in DOMAIN AppDataTools THEN AppDataTools[name] ELSE DmvTools[name]

Reads(name, path) ==
  IF path = "dbatools" THEN ToolNamed(name).dbatools ELSE ToolNamed(name).reads

(* withFallback: the dbatools path first, if the server is set up for it. *)
FirstPath(name) ==
  IF profile = "dbatools" /\ ToolNamed(name).dbatools # <<>> THEN "dbatools" ELSE "dmv"

(* The call at read k of a path. *)
At(cl, path, k) ==
  [cl EXCEPT !.path = path, !.step = k,
     !.left = IF k \in DOMAIN Reads(cl.tool, path) /\ Reads(cl.tool, path)[k].on = "all"
              THEN Target ELSE {cl.target}]

(* A call at its first read; what an abandoned path noted stays noted. *)
Begun(name, i, path) == At([Idle EXCEPT !.tool = name, !.target = i], path, 1)

Start(c) ==
  /\ call[c].tool = "none"
  /\ \E name \in (ToolsOf[c] \intersect Exposed(profile)) \ {ExecuteWrite}, i \in Target :
       call' = [call EXCEPT ![c] = Begun(name, i, FirstPath(name))]
  /\ UNCHANGED <<profile, fallback, notes, reply, seen, tx, changed>>

Answer(c, r) ==
  /\ reply' = [reply EXCEPT ![c] = r]
  /\ UNCHANGED <<profile, fallback, call>>

(* assertIdentifier, IDENT_RE, validateQuery, the window of get_hiq. *)
Refuse(c) ==
  /\ Reading(c) /\ ToolNamed(call[c].tool).checks
  /\ call[c] = Begun(call[c].tool, call[c].target, FirstPath(call[c].tool))
  /\ Answer(c, "error")
  /\ UNCHANGED <<notes, seen, tx, changed>>

----------------------------------------------------------------------------
(* applyRowLimit: only a built-in batch with a TOP (...) is left as it is. *)
Wrapped(r) == r.user \/ r.own = 0

\* mutant: the server is asked for the rows to keep and not one more
CapServed(r, produced) ==
  Min({produced} \union (IF Wrapped(r) THEN {r.cap} ELSE {r.own}))

(* The rows that come back of `produced`. *)
Served(r, produced) ==
  Min({produced} \union (IF Wrapped(r) THEN {r.cap + 1} ELSE {r.own}))

(* capRows *)
Truncated(r, served) == served > r.cap
Kept(r, served) == IF Truncated(r, served) THEN r.cap ELSE served

CutNotice(r, i)    == [kind |-> "cut", on |-> i, cap |-> r.cap]
SetsNotice(i)      == [kind |-> "sets", on |-> i, cap |-> 0]
FallbackNotice(i)  == [kind |-> "fallback", on |-> i, cap |-> 0]

(* finishQuery and catalogFallback, after the batch: noteRowCap, and        *)
(* noteResultSets for the caller's own batch that gave more than one set.   *)
Warnings(r, i, truncated, whole) ==
  (IF truncated /\ r.tells = "note" THEN {CutNotice(r, i)} ELSE {})
  \union (IF r.user /\ ~whole THEN {SetsNotice(i)} ELSE {})
  \union (IF fallback[i] THEN {FallbackNotice(i)} ELSE {})

\* mutant: one store for the process, that every running call adds to
SharedStore(c, w) == [d \in Call |-> IF Running(d) THEN notes[d] \union w ELSE notes[d]]

(* The store of the scope the read runs in. *)
Store(c, w) == [notes EXCEPT ![c] = @ \union w]

(* The read after the one at k, given whether the first had rows. *)
NextRead(reads, k, some) ==
  Min({j \in (k + 1)..(Len(reads) + 1) :
         j \in DOMAIN reads => reads[j].after \in {"any", IF some THEN "some" ELSE "none"}})

(* The call once its read on i has given these rows. *)
Past(cl, i, rows) ==
  LET reads == Reads(cl.tool, cl.path)
      some  == cl.some \/ (cl.step = 1 /\ rows > 0)
      got   == [cl EXCEPT !.some = some,
                          !.found = @ \/ (rows > 0 /\ reads[cl.step].main)]
  IN  IF cl.left = {i} THEN At(got, cl.path, NextRead(reads, cl.step, some))
      ELSE [got EXCEPT !.left = @ \ {i}]

Flag(cl, r, i, truncated) ==
  IF truncated /\ r.tells = "field" THEN [cl EXCEPT !.flagged = @ \union {i}] ELSE cl

Now(c) == Reads(call[c].tool, call[c].path)[call[c].step]
HasMore(c) == call[c].step <= Len(Reads(call[c].tool, call[c].path))

(* What a read met, for the properties. *)
Met(r, i, produced, kept, whole) ==
  [on |-> i, cap |-> r.cap, lost |-> produced > kept, asked |-> r.asked /\ kept = r.own,
   warned |-> fallback[i], whole |-> whole]

Sizes(r) == {0, r.cap, r.cap + 1, r.own, r.own + 1}

(* queryInstance, when the batch runs.  It is not the whole answer when a   *)
(* database of its loop was skipped, or a second result set is dropped; of  *)
(* the latter one is tried, beside a first set of exactly the cap.          *)
RunQuery(c, i) ==
  LET r == Now(c) IN
  /\ Reading(c) /\ HasMore(c) /\ i \in call[c].left /\ r.via = "sql"
  /\ \E produced \in Sizes(r), whole \in BOOLEAN :
       /\ whole \/ r.fills \/ (r.user /\ produced = r.cap)
       /\ LET served == Served(r, produced)
              cut    == Truncated(r, served)
              kept   == Kept(r, served)
          IN  /\ call' = [call EXCEPT ![c] = Past(Flag(@, r, i, cut), i, kept)]
              /\ notes' = Store(c, Warnings(r, i, cut, whole))
              /\ seen' = [seen EXCEPT ![c] = @ \union {Met(r, i, produced, kept, whole)}]
  /\ UNCHANGED <<profile, fallback, reply, tx, changed>>

(* callDbatools: not over HTTP, where it would be the server's own login. *)
RunCmdlet(c, i) ==
  /\ Reading(c) /\ HasMore(c) /\ i \in call[c].left
  /\ \/ Now(c).via = "cmdlet" /\ profile # "http"
     \/ Now(c).via = "alias"
  /\ \E rows \in {0, 1} : call' = [call EXCEPT ![c] = Past(@, i, rows)]
  /\ UNCHANGED <<profile, fallback, notes, reply, seen, tx, changed>>

(* readJson and the search: a file that cannot be parsed is as if missing. *)
ReadFiles(c, i) ==
  LET r == Now(c) IN
  /\ Reading(c) /\ HasMore(c) /\ i \in call[c].left /\ r.via = "file"
  /\ \E produced \in {0, 1, r.cap + 1}, whole \in BOOLEAN :
       LET kept == IF r.cap > 0 THEN Min({produced, r.cap}) ELSE produced
       IN  /\ call' = [call EXCEPT ![c] = Past(@, i, kept)]
           /\ seen' = [seen EXCEPT ![c] = @ \union {
                [Met(r, i, produced, kept, whole) EXCEPT !.warned = FALSE]}]
  /\ UNCHANGED <<profile, fallback, notes, reply, tx, changed>>

Missed(r, i) == [Met(r, i, 0, 0, FALSE) EXCEPT !.warned = FALSE]

(* A read fails, and with it whoever made it: it turns that into the tool's *)
(* error, says it in the answer, takes it for no rows, or turns to the DMV  *)
(* path.  No warning is noted of the pool it ran on: that comes after the   *)
(* batch.                                                                   *)
Fail(c, i) ==
  LET r == Now(c) IN
  /\ Reading(c) /\ HasMore(c) /\ i \in call[c].left /\ r.via # "file"
  /\ \/ /\ r.fails = "error" /\ call[c].path = "dbatools"
        /\ call' = [call EXCEPT ![c] = Begun(@.tool, @.target, "dmv")]
        /\ UNCHANGED <<reply, seen>>
     \/ /\ r.fails = "error" /\ call[c].path = "dmv"
        /\ reply' = [reply EXCEPT ![c] = "error"]
        /\ UNCHANGED <<call, seen>>
     \/ /\ r.fails = "said"
        /\ call' = [call EXCEPT ![c] = Past([@ EXCEPT !.said = TRUE], i, 0)]
        /\ UNCHANGED <<reply, seen>>
     \/ /\ r.fails = "empty"
        /\ call' = [call EXCEPT ![c] = Past(@, i, 0)]
        /\ seen' = [seen EXCEPT ![c] = @ \union {Missed(r, i)}]
        /\ UNCHANGED reply
  /\ UNCHANGED <<profile, fallback, notes, tx, changed>>

(* What a handler answers when its reads are done. *)
ReplyOf(cl) ==
  LET empty == ToolNamed(cl.tool).empty
  IN  IF cl.found \/ cl.said \/ empty = "list" THEN "answer"
      ELSE IF empty = "absent" THEN "absent" ELSE "error"

Finish(c) ==
  /\ Reading(c) /\ ~HasMore(c)
  /\ Answer(c, ReplyOf(call[c]))
  /\ UNCHANGED <<notes, seen, tx, changed>>

----------------------------------------------------------------------------
(* execute_write: confirm decides whether the transaction is committed.     *)
StartWrite(c) ==
  /\ call[c].tool = "none" /\ profile = "write" /\ ExecuteWrite \in ToolsOf[c]
  /\ \E path \in {"commit", "dry"}, i \in Target :
       call' = [call EXCEPT ![c] =
                  [Idle EXCEPT !.tool = ExecuteWrite, !.target = i, !.path = path]]
  /\ UNCHANGED <<profile, fallback, notes, reply, seen, tx, changed>>

Writing(c) == Running(c) /\ Writes(c)

Settle(c, state, r) ==
  /\ tx' = [tx EXCEPT ![c] = state]
  /\ reply' = [reply EXCEPT ![c] = r]
  /\ UNCHANGED <<profile, fallback, call>>

RefuseWrite(c) ==
  /\ Writing(c) /\ tx[c] = "none"
  /\ Settle(c, "none", "error")
  /\ UNCHANGED <<notes, seen, changed>>

WriteMet(c, warned, lost) ==
  [on |-> call[c].target, cap |-> 50, lost |-> lost, asked |-> FALSE,
   warned |-> warned, whole |-> TRUE]

(* The write pool, its warning, and BEGIN TRANSACTION. *)
BeginWrite(c) ==
  /\ Writing(c) /\ tx[c] = "none"
  /\ \E warned \in BOOLEAN :
       /\ notes' = Store(c, IF warned THEN {FallbackNotice(call[c].target)} ELSE {})
       /\ seen' = [seen EXCEPT ![c] = @ \union {WriteMet(c, warned, FALSE)}]
  /\ Settle(c, "open", "none") \/ Settle(c, "none", "error")
  /\ UNCHANGED changed

(* The statement; when it fails, XACT_ABORT or the rollback undoes it.  The *)
(* guard lets a COMMIT or ROLLBACK pass, in the text or in a procedure: the *)
(* statement has then ended the transaction, and may have begun another.    *)
RunWrite(c) ==
  /\ Writing(c) /\ tx[c] = "open"
  /\ \/ Settle(c, "ran", "none") /\ UNCHANGED changed
     \/ Settle(c, "ended", "error") /\ UNCHANGED changed
     \/ /\ Settle(c, "own", "none") \/ Settle(c, "own", "error")
        /\ changed' \in {changed, changed \union {c}}
  /\ UNCHANGED <<notes, seen>>

\* mutant: confirm is not looked at
AlwaysCommits(c) == TRUE

Commits(c) == call[c].path = "commit"

(* The server may do what it is asked although the driver then throws; the  *)
(* rollback after that is too late.  Where the statement ended the          *)
(* transaction, the commit or rollback ends what it began since, or throws. *)
(* The rows of the statement are sliced.                                    *)
EndWrite(c) ==
  /\ Writing(c) /\ tx[c] \in {"ran", "own"}
  /\ \/ Settle(c, IF tx[c] = "own" THEN "own" ELSE "ended",
               IF call[c].path = "commit" THEN "applied" ELSE "dry run")
     \/ Settle(c, IF tx[c] = "own" THEN "own" ELSE "unheard", "error")
  /\ \/ changed' = IF Commits(c) THEN changed \union {c} ELSE changed
     \/ tx'[c] \in {"unheard", "own"} /\ UNCHANGED changed
  /\ \E lost \in BOOLEAN :
       seen' = [seen EXCEPT ![c] = @ \union {WriteMet(c, FALSE, lost)}]
  /\ UNCHANGED notes

----------------------------------------------------------------------------
(* The pool of an instance is replaced (CatalogPool).                       *)
NewPool(i) ==
  /\ \E f \in BOOLEAN : fallback' = [fallback EXCEPT ![i] = f]
  /\ UNCHANGED <<profile, call, notes, reply, seen, tx, changed>>

Next ==
  \/ \E c \in Call :
       \/ Start(c) \/ Refuse(c) \/ Finish(c)
       \/ \E i \in Target :
            RunQuery(c, i) \/ RunCmdlet(c, i) \/ ReadFiles(c, i) \/ Fail(c, i)
       \/ StartWrite(c) \/ RefuseWrite(c) \/ BeginWrite(c) \/ RunWrite(c) \/ EndWrite(c)
  \/ \E i \in Target : NewPool(i)

Spec == Init /\ [][Next]_vars

----------------------------------------------------------------------------
Replies == {"none", "answer", "absent", "error", "applied", "dry run"}
Notice  == [kind : {"cut", "sets", "fallback"}, on : Target, cap : Nat]
Reports(c) == reply[c] \in {"answer", "absent"}

(* The variables have the values the code can give them. *)
TypeOK ==
  /\ profile \in Profiles /\ fallback \in [Target -> BOOLEAN]
  /\ notes \in [Call -> SUBSET Notice]
  /\ reply \in [Call -> Replies]
  /\ tx \in [Call -> {"none", "open", "ran", "ended", "unheard", "own"}]
  /\ changed \subseteq Call

(* A call is told of every fallback pool that one of its own reads was      *)
(* answered from or its write was begun on, and of no other: not of what a  *)
(* call running at the same time met (runInCatalogFallbackScope,            *)
(* noteCatalogFallback).                                                    *)
WarningsReachTheirCall ==
  \A c \in Call, i \in Target :
    FallbackNotice(i) \in notes[c] <=> \E m \in seen[c] : m.on = i /\ m.warned

(* Rows are lost without a word only where the caller named the number,     *)
(* where get_job_status and the schema search stop at theirs, and where     *)
(* execute_write slices its preview; and whatever is reported as cut really *)
(* was.  A result set of the caller's SQL is never dropped without a word   *)
(* (capRows, finishQuery, noteRowCap, noteResultSets).                      *)
CutsInSilence == {"get_job_status", "search_schema_docs", ExecuteWrite}

CutsAreTold ==
  \A c \in Call : Reports(c) =>
    /\ call[c].tool \notin CutsInSilence => \A m \in seen[c] : m.lost =>
         \/ m.on \in call[c].flagged
         \/ [kind |-> "cut", on |-> m.on, cap |-> m.cap] \in notes[c]
         \/ m.asked
    /\ \A i \in Target :
         i \in call[c].flagged \/ (\E n \in notes[c] : n.kind = "cut" /\ n.on = i)
           => \E m \in seen[c] : m.on = i /\ m.lost
    /\ call[c].tool \in {"execute_query", "fan_out_query"} =>
         \A m \in seen[c] : m.whole \/ SetsNotice(m.on) \in notes[c]

(* A sentence that there is nothing rests on a read that succeeded and      *)
(* missed nothing, save for columnstore indexes, whose batch skips the      *)
(* databases it cannot open, and the schema documents.                      *)
AbsentUnread == {"get_columnstore_health", "list_schema_docs"}

AbsenceIsKnown ==
  \A c \in Call : reply[c] = "absent" /\ call[c].tool \notin AbsentUnread =>
    \A m \in seen[c] : m.whole

(* As long as the statement leaves the transaction alone, what              *)
(* execute_write says is what the database has: applied is committed, a dry *)
(* run and a failure left nothing behind, except that a commit may have     *)
(* been made whose acknowledgement never came (executeWrite).  Of one that  *)
(* ends the transaction itself nothing is known: "a stored proc that        *)
(* performs ... its own COMMIT cannot be fully undone" (lines 1107-1109).   *)
RepliesMatchTheData ==
  \A c \in Call : tx[c] # "own" =>
    /\ reply[c] = "applied" => c \in changed
    /\ c \in changed => reply[c] = "applied" \/ (call[c].path = "commit" /\ tx[c] = "unheard")

(* The guards see the batch as the server reads it: nothing that runs is    *)
(* taken for a comment or a literal, and nothing in those for code, nested  *)
(* comments and doubled delimiters included (stripNoise).  Whatever is sent *)
(* next, so it is looked at where no call has been made yet.                *)
GuardReadsAsTheServer ==
  (\A c \in Call : call[c] = Idle) => \A q \in Text : ReadAsTheServer(q)
=============================================================================
