----------------------------- MODULE HostJobs ------------------------------
(***************************************************************************)
(* Reading something on a database host through a transient SQL Agent job: *)
(* get_host_event_log and generate_cluster_log of dbatools.ts, on one host.*)
(*                                                                         *)
(* A call writes a script to a temporary file and runs it in a PowerShell  *)
(* process of its own, which a timer kills (runPowerShell).  The script    *)
(* connects, removes old jobs of its tool, and unless connecting took too  *)
(* long creates a job, waits for it, reads the file the job wrote and      *)
(* removes the job in a finally block.  The job has a name of its own; the *)
(* file is the same for every call of a tool.                              *)
(***************************************************************************)
EXTENDS Naturals, Sequences, FiniteSets, FiniteSetsExt

CONSTANTS
  Call,          \* the calls
  Timeout,       \* tool -> the time runPowerShell gives its process
  Reserve,       \* what the script's budget keeps back of that time
  LeastBudget,   \* and the budget it takes in any case
  CreateReserve, \* what must be left of the budget to create a job
  Hour           \* the age from which a job counts as left behind

EventLog   == "get_host_event_log"
ClusterLog == "generate_cluster_log"
Tool       == {EventLog, ClusterLog}

ASSUME TimeAssumption ==
  /\ Timeout \in [Tool -> Nat \ {0}]
  /\ {LeastBudget, CreateReserve, Hour} \subseteq Nat
  /\ Reserve \in Nat \ {0}

(* The defaults: 120 s and 30 minutes. *)
ASSUME KilledWithinTheHour == \A t \in Tool : Timeout[t] <= Hour

VARIABLES
  server,   \* this MCP server: "up", "stopped" (signal, exit), "crashed"
  reply,    \* call -> "none" before it, "pending", "answer", "error"
  tool,     \* call -> the tool it is of
  script,   \* the calls whose script file is on disk
  pc,       \* call -> where its PowerShell process is
  waited,   \* call -> how long runPowerShell has waited for it
  spent,    \* call -> how long its script has run
  read,     \* call -> which write to the file of its tool it read, 0 for none
  job,      \* call -> its job: "none", "there", "removed", or "swept" by another call
  age,      \* call -> the age of its job, by the clock of the host
  run,      \* call -> the run of its job: "no", "on", "succeeded", "failed"
  writes,   \* tool -> the writes to the file its jobs write
  slow,     \* history: calls with a step that took time though no budget covers it
  unremoved \* history: calls whose finally could not remove the job

node   == <<server, reply, tool, script>>
proc   == <<pc, waited, spent, read>>
agent  == <<job, age, run, writes>>
past   == <<slow, unremoved>>
vars   == <<node, proc, agent, past>>

Gone   == {"none", "ended", "failed", "killed"}
Trying == {"starting", "polling", "reading"}
Alive(c) == pc[c] \notin Gone

Write == [by : Call, what : {"log", "error"}]

Init ==
  /\ server = "up"
  /\ reply = [c \in Call |-> "none"] /\ script = {}
  /\ tool = [c \in Call |-> EventLog]
  /\ pc = [c \in Call |-> "none"]
  /\ waited = [c \in Call |-> 0] /\ spent = [c \in Call |-> 0]
  /\ read = [c \in Call |-> 0]
  /\ job = [c \in Call |-> "none"] /\ age = [c \in Call |-> 0]
  /\ run = [c \in Call |-> "no"]
  /\ writes = [t \in Tool |-> <<>>]
  /\ slow = {} /\ unremoved = {}

Goto(c, place) == pc' = [pc EXCEPT ![c] = place] /\ UNCHANGED <<spent, slow>>

(* The process is no more, nor are its clock and what is noted about it.    *)
Leave(c, place) ==
  /\ pc' = [pc EXCEPT ![c] = place]
  /\ spent' = [spent EXCEPT ![c] = 0]
  /\ slow' = IF place = "killed" THEN slow ELSE slow \ {c}

(* A job that is no more has no age. *)
AgesOf(gone) == age' = [d \in Call |-> IF d \in gone THEN 0 ELSE age[d]]

\* mutant: the wait may last as long as the process
WholeTime(c) == Timeout[tool[c]]

(* transientJobGuard: the deadline of the script's waits. *)
Budget(c) ==
  IF Timeout[tool[c]] < LeastBudget + Reserve THEN LeastBudget ELSE Timeout[tool[c]] - Reserve

InBudget(c) == spent[c] < Budget(c)

----------------------------------------------------------------------------
(* runPowerShell, up to spawn. *)
Spawn(c) ==
  /\ server = "up" /\ reply[c] = "none"
  /\ reply' = [reply EXCEPT ![c] = "pending"]
  /\ \E t \in Tool : tool' = [tool EXCEPT ![c] = t]
  /\ script' = script \union {c}
  /\ Goto(c, "launching")
  /\ UNCHANGED <<server, waited, read, agent, unremoved>>

(* The first line of the script: its clock starts. *)
Begin(c) ==
  /\ pc[c] = "launching"
  /\ Goto(c, "connecting")
  /\ UNCHANGED <<node, waited, read, agent, unremoved>>

\* mutant: every job of the tool is swept, however old
AnyJob(c) == {d \in Call : tool[d] = tool[c] /\ job[d] = "there"}

(* The jobs with the prefix of the tool that are over an hour old. *)
LeftBehind(c) ==
  {d \in Call : tool[d] = tool[c] /\ job[d] = "there" /\ age[d] > Hour}

(* The module, the connection and the log directory; then the removals,      *)
(* whose failures are passed over.                                          *)
Sweep(c) ==
  /\ pc[c] = "connecting"
  /\ \E swept \in SUBSET LeftBehind(c) :
       /\ job' = [d \in Call |-> IF d \in swept THEN "swept" ELSE job[d]]
       /\ AgesOf(swept)
  /\ Goto(c, "checking")
  /\ UNCHANGED <<node, waited, read, run, writes, unremoved>>

LeavesTimeForAJob(c) == spent[c] + CreateReserve <= Budget(c)

(* "Connecting took ... Nothing was created on the server." *)
TooLate(c) ==
  /\ pc[c] = "checking" /\ ~LeavesTimeForAJob(c)
  /\ Leave(c, "failed")
  /\ UNCHANGED <<node, waited, read, agent, unremoved>>

\* mutant: no finally: what threw in the try ends the script
NoFinally == "failed"

AfterThrow == "cleaning"

(* New-DbaAgentJob, in the try; when it throws, the job may be there.       *)
Create(c) ==
  /\ pc[c] = "checking" /\ LeavesTimeForAJob(c)
  /\ \/ /\ \E place \in {"starting", AfterThrow} : Goto(c, place)
        /\ job' = [job EXCEPT ![c] = "there"]
        /\ age' = [age EXCEPT ![c] = 0]
     \/ Goto(c, AfterThrow) /\ UNCHANGED <<job, age>>
  /\ UNCHANGED <<node, waited, read, run, writes, unremoved>>

(* New-DbaAgentJobStep and Start-DbaAgentJob. *)
StartJob(c) ==
  /\ pc[c] = "starting" /\ job[c] = "there"
  /\ run' = [run EXCEPT ![c] = "on"]
  /\ Goto(c, "polling")
  /\ UNCHANGED <<node, waited, read, job, age, writes, unremoved>>

\* mutant: a run that has ended is taken for one that succeeded
AnyEnd(c) == run[c] \in {"succeeded", "failed"}

(* generate_cluster_log does not look at the outcome of the run. *)
Usable(c) ==
  run[c] = "succeeded" \/ (run[c] = "failed" /\ tool[c] = ClusterLog)

(* The job is idle. *)
PollIdle(c) ==
  /\ pc[c] = "polling" /\ job[c] = "there" /\ run[c] # "on"
  /\ Goto(c, IF Usable(c) THEN "reading" ELSE "cleaning")
  /\ UNCHANGED <<node, waited, read, agent, unremoved>>

(* The tries have run out, or the budget has. *)
GiveUp(c) ==
  /\ pc[c] = "polling" /\ (run[c] = "on" \/ job[c] # "there")
  /\ Goto(c, "cleaning")
  /\ UNCHANGED <<node, waited, read, agent, unremoved>>

(* OPENROWSET BULK over the file of the tool, which must exist. *)
ReadFile(c) ==
  /\ pc[c] = "reading" /\ writes[tool[c]] # <<>>
  /\ read' = [read EXCEPT ![c] = Len(writes[tool[c]])]
  /\ Goto(c, "cleaning")
  /\ UNCHANGED <<node, waited, agent, unremoved>>

(* A later command of the try throws. *)
Throw(c) ==
  /\ pc[c] \in Trying
  /\ Goto(c, AfterThrow)
  /\ UNCHANGED <<node, waited, read, agent, unremoved>>

(* The module cannot be loaded, or the server not be reached. *)
ThrowEarly(c) ==
  /\ pc[c] = "connecting"
  /\ Leave(c, "failed")
  /\ UNCHANGED <<node, waited, read, agent, unremoved>>

EndOf(c) == IF read[c] > 0 THEN "ended" ELSE "failed"

(* Remove-DbaAgentJob in the finally; whether a failure of it is an error of *)
(* the script is left open.                                                  *)
Finally(c) ==
  /\ pc[c] = "cleaning"
  /\ \/ /\ job' = [job EXCEPT ![c] = IF @ = "there" THEN "removed" ELSE @]
        /\ AgesOf({c})
        /\ Leave(c, EndOf(c))
        /\ UNCHANGED unremoved
     \/ /\ unremoved' = unremoved \union {c}
        /\ \E end \in {EndOf(c), "failed"} : Leave(c, end)
        /\ UNCHANGED <<job, age>>
  /\ UNCHANGED <<node, waited, read, run, writes>>

----------------------------------------------------------------------------
(* The run of the job on the host ends, the job removed or not: it wrote    *)
(* the file, or failed before it could.  The cluster log's job also writes  *)
(* the reason why it has no log.                                            *)
JobEnds(c) ==
  /\ run[c] = "on"
  /\ \/ /\ run' = [run EXCEPT ![c] = "succeeded"]
        /\ \E what \in {"log"} \union (IF tool[c] = ClusterLog THEN {"error"} ELSE {}) :
             writes' = [writes EXCEPT ![tool[c]] = Append(@, [by |-> c, what |-> what])]
     \/ /\ run' = [run EXCEPT ![c] = "failed"]
        /\ UNCHANGED writes
  /\ UNCHANGED <<node, proc, job, age, past>>

----------------------------------------------------------------------------
(* cleanup *)
WithoutScript(c) == script \ {c}

ClearTimeout(c) == waited' = [waited EXCEPT ![c] = 0]

ReadError(c) == writes[tool[c]][read[c]].what = "error"

(* The process closes. *)
Close(c) ==
  /\ server = "up" /\ reply[c] = "pending" /\ pc[c] \in {"ended", "failed"}
  /\ reply' = [reply EXCEPT ![c] =
                 IF pc[c] = "failed" \/ ReadError(c) THEN "error" ELSE "answer"]
  /\ script' = WithoutScript(c)
  /\ ClearTimeout(c)
  /\ UNCHANGED <<server, tool, pc, spent, read, agent, past>>

(* The process cannot be launched. *)
LaunchFails(c) ==
  /\ server = "up" /\ reply[c] = "pending" /\ pc[c] = "launching"
  /\ reply' = [reply EXCEPT ![c] = "error"]
  /\ script' = WithoutScript(c)
  /\ ClearTimeout(c)
  /\ Leave(c, "failed")
  /\ UNCHANGED <<server, tool, read, agent, unremoved>>

\* mutant: the timer looks whether the process lives, not whether the call waits
DueIfAlive(c) ==
  server = "up" /\ reply[c] = "pending" /\ Alive(c) /\ waited[c] >= Timeout[tool[c]]

Due(c) == server = "up" /\ reply[c] = "pending" /\ waited[c] >= Timeout[tool[c]]

(* The timer kills the process wherever it is. *)
Kill(c) ==
  /\ Due(c)
  /\ reply' = [reply EXCEPT ![c] = "error"]
  /\ script' = WithoutScript(c)
  /\ ClearTimeout(c)
  /\ Leave(c, IF Alive(c) THEN "killed" ELSE pc[c])
  /\ UNCHANGED <<server, tool, read, agent, unremoved>>

(* The MCP server stops, after removing the scripts, or crashes.  Its timers *)
(* are gone; the processes run on.                                           *)
Stop ==
  /\ server = "up"
  /\ \/ server' = "stopped" /\ script' = {}
     \/ server' = "crashed" /\ UNCHANGED script
  /\ waited' = [c \in Call |-> 0]
  /\ UNCHANGED <<reply, tool, pc, spent, read, agent, past>>

(* What takes time without a budget: launching, and the commands after the  *)
(* check other than the wait.                                               *)
Slow(c) ==
  \/ pc[c] \in {"launching", "checking", "starting", "reading", "cleaning"}
  \/ pc[c] = "polling" /\ (run[c] # "on" \/ ~InBudget(c))

(* Beyond these ages no guard tells two apart.                              *)
Older(old, most) == Min({old + 1, most})

Tick ==
  /\ \A c \in Call : ~Due(c)
  /\ waited' = [c \in Call |->
                  IF server = "up" /\ reply[c] = "pending"
                  THEN Older(waited[c], Timeout[tool[c]]) ELSE waited[c]]
  /\ spent' = [c \in Call |->
                 IF Alive(c) /\ pc[c] # "launching"
                 THEN Older(spent[c], Budget(c) + 1) ELSE spent[c]]
  /\ age' = [c \in Call |-> IF job[c] = "there" THEN Older(age[c], Hour + 1) ELSE age[c]]
  /\ slow' = slow \union {c \in Call : Slow(c)}
  /\ UNCHANGED <<node, pc, read, job, run, writes, unremoved>>

Script(c) ==
  \/ Begin(c) \/ Sweep(c) \/ TooLate(c) \/ Create(c) \/ StartJob(c)
  \/ PollIdle(c) \/ GiveUp(c) \/ ReadFile(c) \/ Throw(c)
  \/ ThrowEarly(c) \/ Finally(c)

Next ==
  \/ Tick \/ Stop
  \/ \E c \in Call :
       Spawn(c) \/ Script(c) \/ JobEnds(c) \/ Close(c) \/ LaunchFails(c) \/ Kill(c)

(* Time passes and timers fire; nothing on the host need ever answer. *)
Spec == Init /\ [][Next]_vars /\ WF_vars(Tick) /\ \A c \in Call : WF_vars(Kill(c))

----------------------------------------------------------------------------
TypeOK ==
  /\ server \in {"up", "stopped", "crashed"}
  /\ reply \in [Call -> {"none", "pending", "answer", "error"}]
  /\ tool \in [Call -> Tool] /\ script \subseteq Call
  /\ pc \in [Call -> Gone \union Trying \union
              {"launching", "connecting", "checking", "cleaning"}]
  /\ waited \in [Call -> Nat] /\ spent \in [Call -> Nat] /\ age \in [Call -> Nat]
  /\ read \in [Call -> Nat]
  /\ job \in [Call -> {"none", "there", "removed", "swept"}]
  /\ run \in [Call -> {"no", "on", "succeeded", "failed"}]
  /\ writes \in [Tool -> Seq(Write)]
  /\ slow \subseteq Call /\ unremoved \subseteq Call

(* A job outlives the process that created it only if the process was       *)
(* killed, or its finally could not remove it: no error path of the script  *)
(* leaves one.                                                              *)
LeftOnlyByAKill ==
  \A c \in Call :
    job[c] = "there" /\ ~Alive(c) => pc[c] = "killed" \/ c \in unremoved

(* "kept short of the kill, so the finally always gets to run": a killed    *)
(* process leaves no job, unless a command no budget covers took time, or   *)
(* the timeout is so short that the least budget outlasts it.               *)
FinallyGetsToRun ==
  \A c \in Call :
    pc[c] = "killed" /\ job[c] = "there"
      => c \in slow \/ c \in unremoved \/ Timeout[tool[c]] <= LeastBudget

(* No call removes the job of another that is still using it, as long as a  *)
(* timer watches that one.                                                  *)
SweepSparesTheLiving ==
  [][\A c \in Call :
       job'[c] = "swept" /\ job[c] # "swept" => ~Alive(c) \/ server # "up"]_vars

WroteAt(c, i) == i \in 1..Len(writes[tool[c]]) /\ writes[tool[c]][i].by = c

(* An event log answer was written by the call's own job, or after it by    *)
(* another call's, never before it.  A cluster log may be an old one, but   *)
(* only when the call's own job wrote nothing.                              *)
NotOlderThanItsJob ==
  \A c \in Call :
    read[c] > 0 =>
      \/ \E i \in 1..read[c] : WroteAt(c, i)
      \/ tool[c] = ClusterLog /\ run[c] = "failed"

(* A script is on disk only while its call waits, or after a crash: also a  *)
(* killed or unlaunched process leaves none.                                *)
ScriptsAreRemoved ==
  \A c \in script : reply[c] = "pending" \/ server = "crashed"

(* Whatever the host does, a call is answered or refused while the server   *)
(* is up.                                                                   *)
EveryCallSettles ==
  \A c \in Call : reply[c] = "pending" ~> (reply[c] # "pending" \/ server # "up")
=============================================================================
