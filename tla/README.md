# Verification of the mssql-dba-mcp server

TLA+ models, TLC runs and TLAPS proofs for `src/server/src`: an MCP server that
gives an operator's assistant read access, and optionally guarded write access,
to a fleet of SQL Server instances.  The models are written from the code; where
a comment, a tool description or a test promises something the code does not do,
a run shows it (section "Disagreements").

Paths such as `pwshWorker.ts:275` are relative to `src/server/src`.

## 1. The system

One Node process serves one operator over stdio, or many over HTTP.  A tool call
validates its input, obtains a connection pool or a PowerShell result, formats
the answer and returns it.  State that outlives a call is in module-level maps,
so what is hard is what several calls do to those maps between two awaits, and
what a process, a timer or a server does in the meantime.

| Component | State | Operations | Talks to | What is hard |
|---|---|---|---|---|
| PowerShell worker (`pwshWorker.ts`, `callDbatools`) | live process, pending map, timers, restart counter, stdout buffer | start, call, onData, exit / launch error, timeout, stop | the dbatools tools; one child process | answer, timeout and exit race for a call; a killed process ends after its replacement started; one buffer for all generations |
| Connection pools (`getPool`) | map key -> pool, pool -> catalog, retirement timers | look up, dial, dial `master`, probe, refuse, register, evict, retire | every query; SQL Server | calls for one key are not joined; errors and timers of displaced pools; a fallback that must not last |
| Credentials (getters, `credentialStore.ts`) | memo per target | three lazy reads per `getPool`; a pool that is connected under the login's name | OS credential store; HTTP headers | a store that stalls for one read and answers the next; a key without the password |
| Primary alias (`resolveRegionPrimary`) | alias cache, server-name cache | resolve, refresh | the AG's nodes through `getPool` | failover during a resolve; overlapping resolves; refresh |
| Health run (`run_health_check`, `runHealthReport`, `reportCli.ts`) | shared index, results by index | take, end, compare partners, grade, mail | one PowerShell process per instance | instances end in any order or not at all; cross-node grading; coverage |
| Health-check script (`buildHealthCheckScript`) | worker runspace, connection, results | run a check, abandon it, reconnect, retry | dbatools, SQL Server | abandoned commands keep the old connection; the kill loses everything |
| One-shot PowerShell (`runPowerShell`) | temp scripts, settled flag, timer | spawn, collect, kill | health run, host tools | kill against close against error |
| Host artifacts by Agent job (`get_host_event_log`, `generate_cluster_log`) | job and output file on the server | create, start, poll, read, remove, sweep | SQL Agent | the kill skips the removal; a shared output file |
| Host artifacts by share, dump readers | none | read files | host | absent against unreachable |
| Check catalog, evaluators, scores, descriptions, HTML | none | pure | health run | grading at boundaries, "could not look" against "nothing found" |
| Row cap, notes, read queries (`queryInstance`) | a store per tool call | cap, run, note | pools | warnings of overlapping calls; exactly the cap and one more |
| Guarded writes (`executeWrite`) | one transaction | begin, run, commit / rollback | pools | lost acknowledgement of a commit; a statement that ends the transaction itself |
| Statement guards (`safety.ts`) | none | pure lexer and checks | query tools | comments, strings and brackets |
| HTTP transport (`index.ts`), Entra (`auth.ts`) | sessions, rate windows, a context per request, token cache | initialise, request, delete, prune | Express, MCP SDK, Entra | window boundary; requests of several callers on one session; sessions whose client is gone |
| Tool registrations (`tools.ts`), `dbatoolsFirst.ts`, `schemaDocs.ts`, `dumpPaths.ts` | none (parsed documents) | 44 handlers: reads in order, what a failed and an empty read become | all of the above | an answer that there is nothing, after a read that failed |

What makes each modelled component correct:

* worker: every call is settled exactly once, by its own answer, timeout or
  process, and leaves no timer; no process is leaked; the end of one process leaves
  the calls of another alone; the restart limit counts each process once.
* pools: a caller gets a pool dialed for its own key; whoever works in `master`
  is told; a refused pool is closed; a pool that failed, or is on the fallback,
  leaves the map, and a displaced pool's late events remove nothing.
* credentials and transport: an HTTP request runs as the login it names or not at
  all, whoever opened its session, and on a password that SQL Server accepted for
  that login (not always the one it was sent with: `shared_pool`); a login once read
  does not drift; a miss is retried; the rate limit holds across windows and refuses
  nobody early.
* alias: stale by no more than the time to live and one resolve; fails only for
  a reason; converges.
* health-check script: no check behind, or on the
  connection of, a command that was abandoned; a written report is delivered.
* health run: every instance once; both sides of a pair agree, on differences that
  are there; the subject is as bad as the worst report.
* one-shot processes and Agent jobs: a job outlives its process only after a kill
  or a failed removal; the sweep takes no job of a living call; an answer is not
  older than the job it was read for; no script file is left; every call settles.
* tool calls: a call is told of the fallback pools it ran on and of no others;
  rows are not lost without a word; "there is nothing" rests on reads that
  succeeded; what a write says is what the database has, as long as its statement
  leaves the transaction alone; the guards read a text as the server does.

The full list of hazards, each at its line and with the properties that cover
it, is in `PROJECT.json`.

## 2. Modules

| Module | Models | Kind |
|---|---|---|
| `CallBroker` | what `PwshWorker.call()` promises | abstract specification |
| `PwshWorker` | `pwshWorker.ts` | detailed; implements `CallBroker` |
| `CatalogPool` | `getPool`, its error handler and its retirement timer | state machine |
| `Credentials` | the credential getters, and `getPool`'s use of them and of a pool that is there | state machine |
| `HttpTransport` | `startHttp` over `Credentials`: limiter, guard, sessions, contexts of requests | composition; implements `Credentials` |
| `PrimaryAlias`, `RefreshHistory` | `resolveRegionPrimary`; the same with history variables about refreshes | state machine |
| `HealthRun` | the slots, the comparison of AG partners, the report's subject | state machine |
| `HealthCheckScript` | the script of one instance: checks, worker, connection, cap, retry | state machine |
| `HostJobs` | `runPowerShell` with `get_host_event_log` and `generate_cluster_log`: process, timer, transient job, shared file | state machine |
| `ToolTable` | the 43 read tools of `tools.ts`, one definition each | data |
| `ToolCalls` | those tools and `execute_write` run at once: fallback pools, row cap, notes, replies, transaction | state machine over `ToolTable` |
| `SqlGuard` | `stripNoise` of `safety.ts` and a lexer of the language to hold it to | recursive functions |
| `PwshWorkerProofs`, `CatalogPoolProofs`, `HttpTransportProofs` (with `Credentials`), `PrimaryAliasProofs`, `HealthRunProofs`, `HealthCheckScriptProofs`, `HostJobsProofs`, `ToolCallsProofs` (with `ToolTable` and `SqlGuard`) | | proofs |
| `MC*` | | values of the constants for TLC |

Definitions marked *mutant* are plausible mistakes in the definition that
follows them; replacing the definition by its mutant must break the property the
mutant is listed with in `PROJECT.json`, which shows that the property looks at
that part of the code.

### PwshWorker

An action is what runs between two returns to the event loop.  `call()` is
`CallLive` when the process is up; when it has to start one it is `Start`, the
await, and `Resume`; `StartRefused` is the restart limit or a boot script that
cannot be written.  During that await only microtasks and next-ticks run, so
timers, data and exit events are guarded by `AtEventLoop`, while other calls,
`Stop` and `SpawnError` are not.  `onData` is `WholeLine`, `FirstHalf` and
`SecondHalf`; `settle` is `Settle`, used by `Exit` and `SpawnError`; the timeout
of a call is `Timeout`.  A process is named after the call that spawned it.  What
a process wrote and node has not read is a prefix of the answers to its inbox;
the worker answers in order because its boot script is a loop.  Output may still
be read after the exit event (`Drain` ends it).

A call that succeeds on a process already disowned resets `restarts`
(pwshWorker.ts:242): a worker past its limit can start again, although the comment
of `maxRestarts` (line 21) says it gives up for good.  The model has that reset;
`CountedOnce` is about the counting alone and does not look at it.

### CatalogPool

`Enter` is the lookup; `DialOk`, `CatalogError`, `DialFails` and `FallbackOk` are
the ends of the two dials; `ProbeKeeps` and `ProbeRefuses` the probe; `Closed` the
end of `close()`; `PoolError` the error handler, `Retire` the timer.  The
configured pool is registered in the turn its `connect()` resolves, the fallback
pool only after the probe, so it can fail before it is in the map (lines
795-799) and a slow one can displace a healthy pool; its retirement bounds that.
Displaced pools are not closed by the code nor by the model.

### Credentials

A password is represented by the login it belongs to.  `Resolve` runs the getter
up to three times, each with a stall of its own; only a read that found an entry
is remembered.  On HTTP both headers must be present.

`PoolFor` is what follows: the key of a pool has the identity and the instance and
not the password (lines 716-718), so a call is given the pool that is connected
under its identity, whatever that was dialed with; only where there is none does it
dial, and SQL Server accepts a password for its own login only (`Accepted`).
`dialed` is what the pool a call got was keyed by and dialed with.  A call that hits
is not authenticated again: `HttpRunsAsTheCaller` and `NoDriftOnceRead` say what
holds nevertheless, `NeverOnAnothersPool` what does not.
`PoolGone` is the error handler and the retirement.  A dial ends in the step that
begins it, for how dials of one key overlap is what `CatalogPool` is about; write
pools have keys of their own (`#rw`) and are like the pools of another instance.

### HttpTransport

It extends `Credentials`: where that module lets a request come with any headers,
here requests arrive (`Limit` is the 429; `Unauthorized` the bearer guard;
`BadRequest` neither session nor initialize), open a session (`Initialize`,
`Initialized`) or use one (`Post`), and run `getPool` in their context (`GetPool`)
any number of times before they respond.  `headers` is what a request was sent
with, `context` what `credentialContext` holds for its chain of awaits; that the
two stay equal is what the theorem rests on.  `Delete` is the only way out of
the session map.  `Admit`, `Prune` and `Tick` are the limiter: an entry has a time
left and a passed request an age, so the clock does not grow.  Where the limit is
0 the limiter is off, and where the variable is no number it never refuses
(`NaN`); neither is modelled.  The clock does not step back.

### PrimaryAlias

`Start` is a miss or a refresh; `Answer` and `AnswerFails` end the query about the
AG, `Named` and `NamingFails` that about a server name; `Compare` is the loop over
the names that are known, which does not await.  `Failover` and `Tick` are the
world.  Ticks age the cache entry; a resolve may overlap `Slow` ticks.

The comment at connectionManager.ts:965 says callers should invalidate the cache
on connection errors; no caller does, so the model has no such action.

### HealthRun

`Take` is `next++` in a slot, `End` the end of the PowerShell process of a target
(a report, or nothing), `Compare` the comparison of job inventories, `Finish` the
subject or the throw.  The report command is the same with one slot.  One Agent
job stands for all; it is missing, not live, or live with one of two step texts, and
a list that was cut at a limit (`cut`) shows it as missing.
`Sums` is the three reductions of `reportCli.ts` over the list of reports, as one
recursive function over the targets; a target that failed pushed no report.  A tenth
is compared without the division, as 10 times the checks that did not run.

### HealthCheckScript

One process runs it, one check at a time; what runs beside it are the commands
it abandoned.  `Connect` is the connection and the first worker; `Skip` a check
that cannot run (decided when the script is built); `Begin` puts a command in the
worker, or inline when there is none.  A command ends in `Answered`, `Throws` or
`ConnectionFails` (the message matches `CONN_STATE_PS_RE`: reset, then retry or
report), or never; `CutOff` is `WaitOne` returning at the cap.  `Reconnect` and
`NewWorker` each may fail, which the script swallows.  An abandoned worker is in
`stuck` until its command ends (`StuckEnds`).  `Write` and `Exit` are the end of
the script, `Killed` the `SIGKILL` of `runPowerShell` at any time.

Connections and workers are numbered as they are made; a worker is a record of
its number and the connection it was given, for that reference is what goes
stale.  `broken` and `refused` are history variables.  The kinds of `Kind` are
what decides a status: the target (skipped, assessment), and whether the check
has an evaluator and is in `zeroRowsIsPass`.  `HealthRun` takes the whole script
as one step, `End`.

Once no worker can be made, checks run inline without the cap
(dbatools.ts:2289), and one that hangs holds the run to its kill; HEALTH-CHECK.md
(line 236) says that three caps stop any single check from consuming the run.
The liveness property says when the cap holds: until the worker is lost.

### HostJobs

One host, several calls.  On the node side: `Spawn`, `Close`, `LaunchFails`, `Kill`
(the timer), `Stop` (a signal, which removes the scripts, or a crash).  The script:
`Begin`, `Sweep`, the check of the budget (`TooLate`), `Create`, `StartJob`, polling
(`PollIdle`, `GiveUp`), `ReadFile`, `Throw` at any command, and `Finally`, which may
fail.  `JobEnds` is SQL Agent.  A killed process runs no finally, and a job's run
goes on when the job is removed.  Jobs age by the server's clock, which is assumed
not to step; a process is killed within an hour (`KilledWithinTheHour`).

`generate_cluster_log` ignores the outcome of the run and the two tools each write
one file whatever the call, so a call can be given what another call's job wrote
meanwhile, or an earlier file when its own job failed; `NotOlderThanItsJob` says
what can be relied on.  dbatools.ts:241-243 says "so the finally always gets to
run": that holds when no command outside the budget is slow, the removal does not
fail, and the limit is above the least budget of 30 s, which is how
`FinallyGetsToRun` is stated; a limit under 55 s leaves less than the reserve of 25 s.

### ToolTable and ToolCalls

`ToolTable` keeps of every handler its reads in order and, of each, the cap, a `TOP`
of its own, how it tells of a cut, what its failure becomes, and whether it skips
databases.  `ToolCalls` runs them.  `RunQuery` is
`applyRowLimit`, the batch, `capRows` and `finishQuery`; `RunCmdlet` is `callDbatools`
(never over HTTP) or the alias; `ReadFiles` is `schemaDocs.ts`; `Fail` is a failure at
any read; `Refuse` is the guards; the last read is
followed by `Finish`.  A tool with a dbatools path starts there when the server is
set up for it and starts over on its DMV path when that fails (`withFallback`).
`execute_write` is `StartWrite` to `EndWrite`.

No session state is kept from one batch to the next: every batch goes out by
`request().query()` (connectionManager.ts:1087, 1131), which `mssql` sends as
`sp_executesql`, and the server undoes a `USE` or `SET` made inside it when it
returns.  `NewPool` is a pool replaced by one on the fallback or by one that is not.
A read that fails on a fallback pool leaves no warning, in the code (`finishQuery`
is not reached) as in the model: `WarningsReachTheirCall` is about the reads that
were answered, and about writes, which are warned of before they begin.

The guard lets a `COMMIT` pass (safety.ts:257-300 does not list it, and it may be in
a procedure), so `RunWrite` has a statement that ends the transaction itself (`own`),
with its change made or not, and may have begun another; `EndWrite` then ends that
one or throws.  `RepliesMatchTheData` is stated for the statements that leave the
transaction alone; of the others nothing is claimed (see "Disagreements").

A second result set is tried beside a first set of exactly the cap.  `execute_write`
cuts its preview at 20 rows and its result at 50 in silence; the model has one cap.
`get_columnstore_health` answers that there are no columnstore indexes when the
named database could not be opened, and `list_schema_docs` takes a file it cannot
parse, once and for good, for a missing one: the exceptions in `AbsenceIsKnown`.

### SqlGuard

`Turn` is one turn of whichever loop of `stripNoise` is running: over the batch, or
inside it to the end of a line, of a nested comment (`InComment`), of a literal or a
name (`InDelimited`, the code's `endOf`).  The scan looks one character ahead; the
lexer it is compared with (`LexStep`) never does, and remembers what the last
character began.  `GuardReadsAsTheServer` says they agree.  CR and LF are one
`Newline`.  The word lists of the validators are patterns over text and are left out:
`Refuse` is a choice.

## 3. Runs

| Run | Instance | Shows |
|---|---|---|
| `pwsh_worker` | 3 calls, queue of 2, 1 restart | `SettledOnce`, `SlotIsUsable`, `NoOrphan`, `NoStraggler`, `CountedOnce`, `DiesWithItsOwn`, `EveryCallSettles`, and that the worker implements `CallBroker` |
| `catalog_pool` | 3 calls; a database that falls sick, a typo, a typo with a login that sees nothing | `WarnedIffFallback`, `NoPoolLeaks`, `ErrorEvicts`, `LateEventsSpareOthers`, `FallbackLeaves`, `EveryCallSettles` |
| `http_transport` | stdio or HTTP; 1 instance with its own credential, the fleet's and the environment's, a store that stalls; 2 requests at a time with 4 pairs of headers (two callers, one with another's password, one without a user), 2 requests in a window of 2 ticks | `RunsAsItself`, `WithinTwice`, `RefusedForAReason`, `NoDriftOnceRead`, `MissesAreRetried` |
| `primary_alias` | 2 resolves at a time, 2 configured nodes of 3, 2 failovers | `StaleAtMost`, `NoFalseAlarm`, `Converges` |
| `health_run` | a pair and a standalone node, 2 slots | `DriftIsMutual`, `DriftIsReal`, `SubjectIsTheWorst` |
| `health_script` | 4 checks: graded, skipped, assessment, inventory | `WorkerIsCurrent`, `NotBehindAStuckOne`, `FreshUnlessRefused`, `WrittenIsDelivered`, `StuckChecksAreCut` |
| `host_jobs` | 2 calls of either tool, one limit with room for the reserve and one without | `LeftOnlyByAKill`, `FinallyGetsToRun`, `NotOlderThanItsJob`, `SweepSparesTheLiving`, `EveryCallSettles` |
| `tool_calls` | a call of any of the tools and one of `execute_query` on 2 instances, 4 profiles; texts of up to 8 characters | `WarningsReachTheirCall`, `CutsAreTold`, `AbsenceIsKnown`, `RepliesMatchTheData`, `GuardReadsAsTheServer` |

Why the bounds are enough.  Three calls fill a queue of two, make a process die
with one call in flight while its replacement serves another, and pass a limit
of one restart.  Three `getPool` calls let one find what another registered while
a third displaces it, for each kind of key.  Two failovers take the role away
and back, with a resolve begun before each.  Three targets and two slots are the
least with a slot that takes a second target; five checks make one unrun check
exactly a tenth of two reports and less than a tenth of three.  Three checks that run
let a connection be left behind, refused and replaced with one check after it;
what a check leaves to the next is the connection and the worker only.  Two host
jobs share a file, sweep each other and overlap their kills; ages stop where no
guard tells them apart.  A tool call meets others through the
fallback pools and its store only, so one call of any tool beside one of the
caller's SQL shows what one tool can do to another; per read the row counts are
none, the cap, its `TOP`, and one more of each.  Two requests share a session, a
limit of two lets a window fill at its end, which a limit of one does not; one
instance is enough there, for a pool belongs to one; the other kinds of fleet
entry (a user in the entry, an OS entry without one) are left to the theorems.  The
bounds of the models are the constants `MaxFailovers`, `MaxErrored`, and the number of calls.

`CHECK_DEADLOCK FALSE` is set where the system ends: a finite number of calls
(`PwshWorker`, `HostJobs`, `ToolCalls`), a finished run (`HealthRun`), the end of the script
(`HealthCheckScript`).

### Fairness

* worker: an armed timer fires, the continuation of an await and a launch error
  run.  Nothing is assumed of the process: it may never answer, or ignore the
  kill.
* pools: every dial, probe and close ends (the driver's connection and request
  timeouts), an armed retirement timer fires.
* transport: over stdio, the tools keep calling each instance (only for
  `MissesAreRetried`).  Nothing is assumed of requests.
* alias: every query ends, time passes.
* script: it goes on, and `WaitOne` returns at the cap.  A command need not end,
  an inline one neither; the kill need not come.
* host jobs: time passes and an armed timer fires; neither script, process nor
  job need ever do anything.
* tool calls and the health run: none, their properties are about what happened.

### Disagreements

* `pwsh_framing` violates `WholeLinesAreHeard`: `this.buf` survives a restart, so
  half a line of a killed process swallows the first answer of its replacement,
  whose call then times out and kills a healthy process.
* `primary_refresh` violates `RefreshIsHeard`: a resolve begun before a failover
  stores its answer over the one a refresh found meanwhile.
* `report_subject` violates `NoOkUnseen`: an instance whose run failed is in neither
  the reports nor the coverage, so the mail can say [OK] without it.
* `shared_pool` violates `NeverOnAnothersPool`: a request that names a login with a
  connected pool is served on it whatever password it was sent with.  The comments
  at connectionManager.ts:684 and 715 say that two callers, two principals, never
  share a pool.  What holds is `RunsAsItself`: it is still the login the request names.

More follow from the models without a run of their own.

* A credential store that stalls for one of `getPool`'s three reads and answers
  another makes `Resolve` key and audit a pool under one login and authenticate it
  as another, and later calls under that key are handed it, against
  connectionManager.ts:684-686 ("authenticated as, and audited to, one principal").
* After a write whose statement commits and begins a transaction of its own, a dry
  run answers "DRY RUN (rolled back — nothing changed)" (tools.ts:718) and the change
  is there, as connectionManager.ts:1107-1109 warns of procedures; the tool's
  description (tools.ts:694-697) does not.
* The late answer of a process that a timeout killed resets the restart counter
  (pwshWorker.ts:242), and a worker past its limit starts again, against line 21.
* `Reset-HcServer` swallows a failed reconnect, so after a check is abandoned the
  next may run on the connection the abandoned command still holds (`refused` in
  `FreshUnlessRefused`), against dbatools.ts:2259-2260 ("a new worker and a new
  connection").
* The rate limit is documented as a cap per minute (DEPLOYMENT.md:326);
  `WithinTwice` is what a fixed window gives.

## 4. Proofs

Each theorem holds for every value of the constants under the assumptions the
modules name (`WorkerAssumption`, `PoolAssumption`, `CredentialAssumption`,
`TransportAssumption`, `AliasAssumption`, `RunAssumption`, `NoneAssumption`,
`ScriptAssumption`, `TimeAssumption`, `KilledWithinTheHour`, `CallsAssumption`,
`TopAssumption`, `TextAssumption`).  Every safety invariant and every action
property of the runs that pass is stated by a theorem.

* `PwshWorkerProofs`.  The inductive invariant adds to the types and the five
  invariants of the run three facts: `LifeCycle` (a call that began is waiting for its start, in
  flight or settled, and a process exists only once its call began), `KilledRun`
  (a signal is outstanding only for a process whose exit was not seen) and `Limit`
  (a process is live only while the restart limit is not passed).  They are needed
  because a name must not be spawned twice for `NoOrphan` and the restart count to
  hold, and because `SlotIsUsable` alone does not say that a signalled process is
  one that still runs.  From it: the five invariants, `DiesWithItsOwn`, and
  that each step is a step or a stutter of `CallBroker`.
* `CatalogPoolProofs`.  `Underway` (a pool is connected from its dial's success to
  its refusal, and can fail only after it), `Kept` (a registered pool was registered
  by its own call, with its catalog recorded and, on the fallback, its timer armed)
  and `Handed` (what was handed out had been registered) make `NeverShared` and
  `WarnedIffFallback` inductive: a hit returns what another call registered, so the
  facts must be about pools, not about calls.  `NoPoolLeaks`, `ErrorEvicts` and
  `LateEventsSpareOthers` follow from the same invariant.  `NeverShared` is only
  proved, no run checks it.
* `HttpTransportProofs`.  About `Credentials`, the types are inductive, and so is
  `PoolsKept`: a connected pool is keyed by the identity it is found under, was
  accepted by SQL Server and, on HTTP, was dialed with that identity.  It is what a hit
  hands to a caller that did not dial, so `HttpRunsAsTheCaller` is proved with it
  (`PoolForKeeps`, `PoolsKeptStep`).  `NoDriftOnceRead` follows by cases on `Resolve`.  About
  the transport, `OwnContext`: every request's context is its own headers, and the
  latest `getPool` ran in its asker's.  It is inductive because a request that enters
  or leaves changes both alike.  With it every step of the transport is a step of
  `Credentials` or leaves it alone (`TransportImplementsCredentials`), so what was
  proved of `Credentials` holds of it, and `RunsAsItself` follows.  The rate limiter's
  counter is compared with the requests that really got through, as a set of pairs
  of age and number: `Counts` says that the counter is the size of the part of that
  set inside the entry's window and that what is older than the window fits in one
  more limit.  Admitting, refusing, the end of a window, the sweep and a tick of the
  clock keep it; `WithinTwice` and `RefusedForAReason` are read off it.
* `PrimaryAliasProofs`.  `AliasInv` has three parts: `Replicas` (who is primary, and
  since when the others are not), `Cached` (a cached name was primary no longer ago
  than the entry's age) and `Resolves` (the same for a resolve under way: what it
  has `seen` was primary at most its own `age` ago, and while it searches without
  trouble the primary is in the fleet and not among the candidates it has passed).
  The last is what makes `NoFalseAlarm` inductive: a search can miss a primary only
  if a failover moved it behind the search, and that is the trouble the property
  excuses.  `StaleAtMost` bounds the age by the time to live plus that of one resolve.
* `HealthRunProofs`.  `Taken`, `Accounted` and `Waits`: an index below the counter
  is run by one slot or has ended, one above has not.  `EachTargetOnce` follows,
  and `DriftIsMutual` by the symmetry of what counts as a difference.  `DriftIsReal`
  needs besides that an inventory does not change once it was compared, for no
  process is left to end (`EndsWhileRunning`).
  `SubjectIsTheWorst` compares the sums the subject line is written from with what
  they should say about the whole run: `SumsAre` finds what the fold is after each
  target, and `SumsTell` climbs over the targets, each of which raises the worst
  verdict, or the count, by what its own report adds (`TellsOfOneMore`).
* `HealthCheckScriptProofs`.  Two halves that a step changes independently:
  `Progress` (the results are one for each check before the current one) and
  `Links`.  `NotBehindAStuckOne` is not inductive: that a new worker is none of the
  abandoned needs `Latest` (the worker in use has the highest number and no
  abandoned one has it).  `FreshUnlessRefused` needs that broken and abandoned
  connections are numbered no higher than the present one, `WrittenIsDelivered`
  that the flag is up whenever a command was left behind (`Flagged`).  `RenewKeeps`
  is the common step of the retry and of the cap.
* `HostJobsProofs`.  Types, and three inductive invariants.  `JobInv`: a job exists
  only between its creation and the end of the finally (`NoJobYet`), with
  `LeftOnlyByAKill`; `ScriptsAreRemoved`, which is only proved and
  checked by no run, needs only the types.  `SourceInv`: a run that
  may be used has written the file after the job was created, and no later step of
  another call takes that write away (`WritesStay`); hence `NotOlderThanItsJob`.
  `TimeInv` relates the clocks of one call, the age of its job, the time its process
  has been waited for and the time its script has spent: while the server is up the
  job is no older than the wait, and the wait is no longer than the timeout, so a
  sweep with the hour's threshold cannot meet a living call's job
  (`SweepSparesTheLiving`, the one theorem that needs `KilledWithinTheHour`); and
  without a slow step the wait is no longer than what the script has spent, which is
  within the budget as long as there is a job, so a kill, which comes later than the
  budget's end, finds the job removed (`FinallyGetsToRun`).
* `ToolCallsProofs`.  `WarningsReachTheirCall` is inductive with its types: a step adds
  a warning and what was met to the same call, or neither.  `RepliesMatchTheData`
  needs the states of the transaction: nothing is changed before its end, unless the
  statement ends it itself, the case the property excepts.
  `CutsAreTold` and `AbsenceIsKnown` are about whatever tools the table has, as long as
  each read of each is `GoodRead`: but for the tools the property itself excepts, a
  cut is noted, flagged in the reply, or the caller's own TOP.  The table is then shown to be so, one tool at a time
  (`ToolsAreGood`), and `ToldInv` carries it through the steps of a call.
  `StripsAsTheServerReads` is about the guard's `stripNoise`, for every text over every
  alphabet: what is left of a query is the code the server's lexer finds in it.  The
  scan looks ahead and may take several characters, or none, in a turn; the lexer
  takes one at a time and remembers.  `Agree` relates the two at the beginning of
  a turn, one lemma for each place the scan can be in shows that a turn brings it
  to where they agree again (`LineTurns`, `CommentTurns`, `DelimitedTurns`,
  `BatchTurns`), and `Weight` grows in each, so twice as many turns as there are
  characters are enough.

A few of these need induction over numbers, and the library's induction theorems
take an operator as a parameter, which the provers cannot instantiate.  It is
done in first-order terms instead: the intervals `0 .. n` ordered by strict inclusion
are well founded (`FS_StrictSubsetOrderingWellFounded`), so a set of numbers that is
not empty has a least one (`LeastNatural`), so a set that holds 0 and the successor
of each of its members below a bound holds all of them (`Climb`), so a recursive
function over an interval takes the value its equations give at each point
(`Reduction`).  The modules that use them each state them, for they extend modules
whose variables must not meet.

Only model-checked: liveness (`FallbackLeaves`, `EveryCallSettles`,
`MissesAreRetried`, `Converges`, `StuckChecksAreCut` and the fairness of
`ImplementsBroker`), since fairness and ENABLED are outside the prover's reach; and
the runs that end in a violation, whose properties are false.  The types of the
variables (`TypeOK`) are theorems for `CatalogPool`, `Credentials`,
`HealthCheckScript`, `HostJobs` and `PrimaryAlias` and a part of the inductive
invariant of `PwshWorker`; the proofs about `HealthRun` and `ToolCalls` use weaker
types of their own (`Types`, `Shape`), which is all they need.

## 5. Plan

Done: the shared state every tool goes through (worker, pools, credentials and
transport, alias), the program's largest part (health run and script), the host
jobs, the tools and the guards, and a theorem for each safety property.

Next, in order:

1. The cache of SQL tokens beside `HttpTransport`: a token of one caller must not
   serve another.
2. The scores, the coverage and the triage order as functions over a report, with
   theorems about them by the same `Reduction`.
3. The full types of `HealthRun` and `ToolCalls` as theorems.

## 6. Not modelled

The wording of messages, descriptions, remediation and HTML; the text of T-SQL
and of PowerShell beyond what `ToolTable` keeps; the check catalog, whose checks are
such text (`HealthCheckScript` has their kinds); the scores, sums over one report;
the drivers, Express, the MCP SDK, Entra and jose, which appear as outcomes (a dial
that fails, a header, a token refused); the cache of SQL tokens; parsing of the
fleet file, the flags of the report command and the TLS posture, which happen once
at start; a bound on HTTP sessions, for the code promises none; file reads from
hosts.
