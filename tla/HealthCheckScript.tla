-------------------------- MODULE HealthCheckScript --------------------------
(***************************************************************************)
(* dbatools.ts, buildHealthCheckScript(): the PowerShell script that runs  *)
(* the catalog of checks against one instance, one process per instance.   *)
(*                                                                         *)
(* The script has one connection, $server, and one worker runspace that    *)
(* was given that connection when it was made.  A check runs in the worker *)
(* under a wall-clock cap.  A command still running at the cap is          *)
(* abandoned with its worker and never waited for; the script reconnects   *)
(* and makes a new worker.  A check that failed because of the state of    *)
(* the connection runs once more after the same.  Reconnecting and making  *)
(* a worker may fail, which is swallowed: the old connection stays, and    *)
(* without a worker checks run inline, without the cap.  The results are   *)
(* printed at the end, and the process may be killed at any time.          *)
(***************************************************************************)
EXTENDS Naturals, Sequences

CONSTANTS
  Catalog,   \* the kinds of the checks, in the order of CATALOG
  Wrapped,   \* HEALTHCHECK_PER_CHECK_TIMEOUT_SECONDS is not 0
  None

(* What decides a check's status: skipped up front (no Windows credential, *)
(* or an assessment under a SQL login), no evaluator, an evaluator for     *)
(* which no rows is no verdict, one for which it is, and the assessment's  *)
(* child process, which reports its own failures as rows.                  *)
Kind == {"skipped", "inventory", "graded", "offendersOnly", "assessment"}

ASSUME ScriptAssumption ==
  /\ Catalog \in Seq(Kind)
  /\ Wrapped \in BOOLEAN
  /\ None \notin [id : Nat, conn : Nat]

Answer  == {"nothing", "rows", "oddRows", "unavailable", "childFailed", "declined"}
Verdict == {"pass", "attention", "fail"}
Outcome == Verdict \union {"ok", "empty", "skipped", "error"}
Place   == {"starting", "next", "running", "written", "exited", "died", "killed"}

VARIABLES
  at,         \* where the script is
  check,      \* the check it is at, an index of Catalog or one more
  attempt,    \* $__try
  conn,       \* $server, counted from 1; 0 before the first
  worker,     \* $__hcWorker: which one, and the connection it was given
  made,       \* how many workers were made
  stuck,      \* abandoned workers whose command still runs
  abandoned,  \* $__hcAbandoned
  broken,     \* connections on which a connection-state error was seen
  refused,    \* whether the latest reconnect failed
  results     \* the status of each check that ended

vars == <<at, check, attempt, conn, worker, made, stuck, abandoned, broken,
          refused, results>>

Init ==
  /\ at = "starting" /\ check = 1 /\ attempt = 1
  /\ conn = 0 /\ worker = None /\ made = 0
  /\ stuck = {} /\ abandoned = FALSE
  /\ broken = {} /\ refused = FALSE
  /\ results = <<>>

----------------------------------------------------------------------------
(* New-HcServer, as first run and as Reset-HcServer, which swallows.        *)
Reconnect ==
  \/ conn' = conn + 1 /\ refused' = FALSE
  \/ UNCHANGED conn   /\ refused' = TRUE

\* mutant: the worker is made before the connection is replaced
WorkerFirst ==
  \/ worker' = [id |-> made + 1, conn |-> conn] /\ made' = made + 1
  \/ worker' = None /\ UNCHANGED made

\* mutant: when no worker can be made the old one is kept
KeepWorker ==
  \/ worker' = [id |-> made + 1, conn |-> conn'] /\ made' = made + 1
  \/ UNCHANGED <<worker, made>>

(* New-HcWorkerRunspace, given the connection of that moment; or $null.     *)
NewWorker ==
  \/ worker' = [id |-> made + 1, conn |-> conn'] /\ made' = made + 1
  \/ worker' = None /\ UNCHANGED made

(* Reset-HcConnection.                                                      *)
ResetConnection ==
  /\ Reconnect
  /\ IF worker # None THEN NewWorker ELSE UNCHANGED <<worker, made>>

Connect ==
  /\ at = "starting"
  /\ conn' = 1
  /\ IF Wrapped THEN NewWorker ELSE UNCHANGED <<worker, made>>
  /\ at' = "next"
  /\ UNCHANGED <<check, attempt, stuck, abandoned, broken, refused, results>>

(* The module does not load, or the first connection fails: the script ends *)
(* with an error and prints nothing.                                        *)
ConnectFails ==
  /\ at = "starting"
  /\ at' = "died"
  /\ UNCHANGED <<check, attempt, conn, worker, made, stuck, abandoned, broken, refused, results>>

(* $results += ...; break                                                   *)
Conclude(status) ==
  /\ results' = Append(results, status)
  /\ check' = check + 1 /\ attempt' = 1
  /\ at' = "next"

Skip ==
  /\ at = "next" /\ check <= Len(Catalog) /\ Catalog[check] = "skipped"
  /\ Conclude("skipped")
  /\ UNCHANGED <<conn, worker, made, stuck, abandoned, broken, refused>>

Begin ==
  /\ at = "next" /\ check <= Len(Catalog) /\ Catalog[check] # "skipped"
  /\ at' = "running"
  /\ UNCHANGED <<check, attempt, conn, worker, made, stuck, abandoned, broken, refused, results>>

(* The statuses that rows can get: the evaluator's verdict, or ok where     *)
(* there is none or it fails on rows of an unexpected shape.                *)
Status(kind, answer) ==
  CASE answer = "declined" -> {"skipped"}
    [] answer = "nothing" -> IF kind \in {"offendersOnly", "assessment"} THEN {"pass"} ELSE {"empty"}
    [] answer = "unavailable" -> {"skipped"}
    [] answer = "childFailed" -> {"error"}
    [] answer = "rows" -> IF kind = "inventory" THEN {"ok"} ELSE Verdict
    [] answer = "oddRows" -> {"ok"}

(* The command came back: a host check may decline (__hc_skip), the         *)
(* assessment's child may have failed or found its module missing.          *)
Answered ==
  /\ at = "running"
  /\ \E answer \in Answer :
       /\ answer \in {"unavailable", "childFailed"} => Catalog[check] = "assessment"
       /\ answer = "declined" => Catalog[check] # "assessment"
       /\ \E status \in Status(Catalog[check], answer) : Conclude(status)
  /\ UNCHANGED <<conn, worker, made, stuck, abandoned, broken, refused>>

(* It threw: the check does not apply to the instance, or could not run.    *)
Throws ==
  /\ at = "running"
  /\ \E status \in {"skipped", "error"} : Conclude(status)
  /\ UNCHANGED <<conn, worker, made, stuck, abandoned, broken, refused>>

\* mutant: the connection is only replaced for the second attempt
ResetForRetry ==
  IF attempt < 2 THEN ResetConnection ELSE UNCHANGED <<conn, refused, worker, made>>

(* Every such failure replaces the connection, also one that is reported.   *)
Recover == ResetConnection

RetryOnce ==
  IF attempt < 2 THEN attempt' = 2 /\ UNCHANGED <<at, check, results>>
                 ELSE Conclude("error")

(* It threw an error that is about the connection (CONN_STATE_PS_RE).       *)
ConnectionFails ==
  /\ at = "running"
  /\ broken' = broken \union {conn}
  /\ Recover
  /\ RetryOnce
  /\ UNCHANGED <<stuck, abandoned>>

\* mutant: the flag is set only when the reconnect failed
FlagIfRefused == abandoned' = (abandoned \/ refused')

Flag == abandoned' = TRUE

\* mutant: Stop() first waits for the command, which need not end
StopAndWait == UNCHANGED stuck /\ FALSE

(* BeginStop, CloseAsync: the worker is left behind, its command running,   *)
(* with whatever it holds of the connection.                                *)
Abandon == stuck' = stuck \union {worker}

(* WaitOne came back at the cap, the command still running.                 *)
CutOff ==
  /\ at = "running" /\ worker # None
  /\ Abandon
  /\ Reconnect
  /\ NewWorker
  /\ Flag
  /\ Conclude("error")
  /\ UNCHANGED broken

(* An abandoned command ends after all.                                     *)
StuckEnds(w) ==
  /\ stuck' = stuck \ {w}
  /\ UNCHANGED <<at, check, attempt, conn, worker, made, abandoned, broken, refused, results>>

(* The worker is disposed of and the JSON is written.                       *)
Write ==
  /\ at = "next" /\ check > Len(Catalog)
  /\ worker \notin stuck                             \* Dispose() waits for it
  /\ at' = "written"
  /\ UNCHANGED <<check, attempt, conn, worker, made, stuck, abandoned, broken, refused, results>>

(* Exit(0) if a command was abandoned; the end of the script waits for      *)
(* whatever still runs.                                                     *)
Exit ==
  /\ at = "written"
  /\ abandoned \/ stuck = {}
  /\ at' = "exited"
  /\ UNCHANGED <<check, attempt, conn, worker, made, stuck, abandoned, broken, refused, results>>

(* runPowerShell kills it at HC_TIMEOUT_S; what it wrote is lost too.       *)
Killed ==
  /\ at \notin {"exited", "died", "killed"}
  /\ at' = "killed"
  /\ UNCHANGED <<check, attempt, conn, worker, made, stuck, abandoned, broken, refused, results>>

Step == Connect \/ ConnectFails \/ Skip \/ Begin \/ CutOff \/ Write \/ Exit

Next == \/ Step \/ Answered \/ Throws \/ ConnectionFails \/ Killed
        \/ \E w \in stuck : StuckEnds(w)

SafeSpec == Init /\ [][Next]_vars

(* The script goes on, and WaitOne returns at the cap.  A command need      *)
(* never end, and the kill need never come.                                 *)
Spec == SafeSpec /\ WF_vars(Step)

----------------------------------------------------------------------------
Ended == {"exited", "died", "killed"}

(* Types, and one status for each check before the current one, in order.   *)
TypeOK ==
  /\ at \in Place
  /\ check \in 1..Len(Catalog) + 1 /\ attempt \in {1, 2}
  /\ conn \in Nat /\ made \in Nat
  /\ worker \in [id : 1..made, conn : 0..conn] \union {None}
  /\ stuck \subseteq [id : 1..made, conn : 0..conn]
  /\ abandoned \in BOOLEAN /\ refused \in BOOLEAN
  /\ broken \subseteq 0..conn
  /\ results \in Seq(Outcome) /\ Len(results) = check - 1

(* "Reconnect BEFORE the new worker is built, or the worker captures the    *)
(* old connection" (checkRunner.test.ts:48-49): whatever was abandoned or   *)
(* retried, a check in the worker uses the script's present connection      *)
(* (lines 2269, 2278-2280, 2307-2308).                                      *)
WorkerIsCurrent == worker # None => worker.conn = conn

(* A check is never queued behind an abandoned command: the worker in use   *)
(* is not one that was left running (lines 2297-2308).                      *)
NotBehindAStuckOne == worker \notin stuck

(* A connection seen broken, or left to an abandoned command, is not used   *)
(* again unless the reconnect failed; so one failure does not make the      *)
(* later checks fail (lines 2306-2308, 2566-2570).                          *)
FreshUnlessRefused ==
  at \in {"next", "running"} /\ ~refused =>
    conn \notin broken \union {w.conn : w \in stuck}

(* What was written is delivered: the process does not wait for a command   *)
(* it abandoned, to be killed with its report written (lines 2585-2587).    *)
WrittenIsDelivered == at = "written" => abandoned \/ stuck = {}

(* A check that has a worker gets its result, or loses the worker to a      *)
(* failed replacement and with it the cap; it is not retried for ever.      *)
StuckChecksAreCut ==
  \A i \in 1..Len(Catalog) :
    (at = "running" /\ check = i /\ worker # None)
      ~> (check # i \/ at \in Ended \/ worker = None)
=============================================================================
