----------------------------- MODULE HealthRun -----------------------------
(***************************************************************************)
(* A health check over several instances: run_health_check (dbatools.ts),  *)
(* whose slots take the targets from one shared counter, and the report    *)
(* command (runHealthReport and reportCli.ts), which takes them in order,  *)
(* skips those that produce no report, and mails a subject line.           *)
(*                                                                         *)
(* When every target has ended, the Agent job inventories of AG partners   *)
(* are compared and that finding is graded anew.  A report is represented  *)
(* by the worst grade of its other findings, by how many of its checks     *)
(* could not run, and by its job inventory.                                *)
(***************************************************************************)
EXTENDS Naturals, Sequences, SequencesExt, FiniteSets, FiniteSetsExt

CONSTANTS
  Target,       \* the instances checked
  Targets,      \* the same, as a sequence
  Partners,     \* target -> the targets its availability groups name
  Slots,        \* the concurrency of the tool
  Checks,       \* how many checks a report holds
  MaxErrored,   \* bound of the model: checks of one report that cannot run
  None

ASSUME RunAssumption ==
  /\ Targets \in Seq(Target) /\ IsInjective(Targets) /\ Target = ToSet(Targets)
  /\ Partners \in [Target -> SUBSET Target]
  /\ Slots \in Nat \ {0} /\ Checks \in Nat \ {0} /\ MaxErrored \in 0..Checks

(* One Agent job as a node has it: missing, not live (disabled or without   *)
(* an enabled schedule), or live with one of two texts of its steps.        *)
JobState  == {"missing", "dead", "live", "liveOther"}
Inventory == JobState \union {"unusable"}
Grade     == {"Pass", "Attention", "Fail"}

NoReport == [kind |-> "failed"]
Report   == [kind : {"report"}, worst : Grade, errored : 0..MaxErrored,
             jobs : Inventory,   \* the job on the node, when it was listed
             cut  : BOOLEAN]     \* the list ends, at a limit, before that job

ASSUME NoneAssumption == \A outcome \in Report \union {NoReport} : outcome # None

VARIABLES
  mode,      \* "tool" or "report"
  next,      \* the index the next free slot takes
  running,   \* slot -> the index it runs, 0 when it looks for one
  ordered,   \* what each target ended with, None before
  drift,     \* the grade of each report's job drift finding
  phase,     \* "running", "compared", "done", or "threw"
  subject    \* the subject of the report command

vars == <<mode, next, running, ordered, drift, phase, subject>>

NoSubject == [worst |-> "none", incomplete |-> FALSE]

Init ==
  /\ mode \in {"tool", "report"}
  /\ next = 1
  /\ running = [s \in 1..Slots |-> 0]
  /\ ordered = [t \in Target |-> None]
  /\ drift = [t \in Target |-> "Info"]
  /\ phase = "running"
  /\ subject = NoSubject

----------------------------------------------------------------------------
(* min(concurrency, targets); the report command is a plain loop. *)
Active == IF mode = "report" THEN {1} ELSE 1..Min({Slots, Len(Targets)})

(* i = next++ *)
Advance(s) == next' = next + 1

Take(s) ==
  /\ phase = "running" /\ s \in Active
  /\ running[s] = 0 /\ next <= Len(Targets)
  /\ running' = [running EXCEPT ![s] = next]
  /\ Advance(s)
  /\ UNCHANGED <<mode, ordered, drift, phase, subject>>

(* runOne never throws: a slot is free again whatever its target did. *)
Freed(s, outcome) == 0

(* The inventory of a node in no group is compared with nothing.            *)
Outcomes(t) ==
  {r \in Report : /\ Partners[t] = {} => r.jobs = "unusable"
                  /\ r.cut => r.jobs \in JobState} \union {NoReport}

(* The PowerShell process of a target ends: with a report, or with no       *)
(* output, unparsable output, or killed by its timeout.                     *)
End(s) ==
  /\ running[s] \in 1..Len(Targets)
  /\ \E outcome \in Outcomes(Targets[running[s]]) :
       /\ ordered' = [ordered EXCEPT ![Targets[running[s]]] = outcome]
       /\ running' = [running EXCEPT ![s] = Freed(s, outcome)]
  /\ UNCHANGED <<mode, next, drift, phase, subject>>

Reported(t) == ordered[t] # None /\ ordered[t].kind = "report"

(* inventoryOf: what was collected before any finding is graded anew. *)
HasInventory(t) == Reported(t) /\ ordered[t].jobs # "unusable"

\* mutant: a list that ends at a limit is taken for the whole
TakenForWhole(t) == TRUE

Complete(t) == ~ordered[t].cut

(* The job as the list of t has it. *)
Shown(t) == IF ordered[t].cut THEN "missing" ELSE ordered[t].jobs

\* mutant: inventories are read while findings are being graded anew
PeersNotYetGraded(t) ==
  {p \in Partners[t] : HasInventory(p) /\
     SelectInSeq(Targets, LAMBDA x : x = p) > SelectInSeq(Targets, LAMBDA x : x = t)}

Peers(t) == {p \in Partners[t] : HasInventory(p)}

IsLive(state) == state \in {"live", "liveOther"}

(* A difference that counts: a job that runs on a side and is not the same  *)
(* on the other.                                                            *)
LiveDifference(mine, theirs) == mine # theirs /\ (IsLive(mine) \/ IsLive(theirs))

Drift(t) ==
  IF ~HasInventory(t) \/ Peers(t) = {} \/ \E p \in Peers(t) \union {t} : ~Complete(p)
  THEN "Info"
  ELSE IF \E p \in Peers(t) : LiveDifference(Shown(t), Shown(p))
  THEN "Attention" ELSE "Pass"

(* applyReplicaJobDrift, once every slot has run out of targets. *)
Compare ==
  /\ phase = "running" /\ next > Len(Targets)
  /\ \A s \in Active : running[s] = 0
  /\ drift' = [t \in Target |-> Drift(t)]
  /\ phase' = "compared"
  /\ UNCHANGED <<mode, next, running, ordered, subject>>

(* What the status counts of a report show.                                 *)
Fails(t) == ordered[t].worst = "Fail"
Warns(t) == ordered[t].worst = "Attention" \/ drift[t] = "Attention"

\* mutant: a later report with attention findings takes CRITICAL back
LatestCounts(w, t) == IF Fails(t) THEN "CRITICAL" ELSE IF Warns(t) THEN "WARNING" ELSE w

Worse(w, t) == IF Fails(t) THEN "CRITICAL"
               ELSE IF Warns(t) /\ w # "CRITICAL" THEN "WARNING" ELSE w

(* The reductions over the reports, as one: over the first k targets, of    *)
(* which those that failed pushed no report.                                *)
Counted(sums, t) ==
  [worst   |-> Worse(sums.worst, t),
   errored |-> sums.errored + ordered[t].errored,
   total   |-> sums.total + Checks]

Sums[k \in 0 .. Len(Targets)] ==
  IF k = 0 THEN [worst |-> "OK", errored |-> 0, total |-> 0]
  ELSE IF Reported(Targets[k]) THEN Counted(Sums[k - 1], Targets[k]) ELSE Sums[k - 1]

\* mutant: more than a tenth, not at least
OverATenth(sums) == sums.total > 0 /\ 10 * sums.errored > sums.total

(* COVERAGE_DEGRADED_RATIO: a tenth of the checks of all reports.           *)
Degraded(sums) == sums.total > 0 /\ 10 * sums.errored >= sums.total

Subject ==
  LET sums == Sums[Len(Targets)]
  IN  [worst |-> sums.worst, incomplete |-> Degraded(sums)]

(* The report command throws when nothing reported, and mails otherwise.    *)
Finish ==
  /\ phase = "compared"
  /\ IF mode = "report" /\ ~\E t \in Target : Reported(t)
     THEN phase' = "threw" /\ UNCHANGED subject
     ELSE /\ phase' = "done"
          /\ subject' = IF mode = "report" THEN Subject ELSE NoSubject
  /\ UNCHANGED <<mode, next, running, ordered, drift>>

Next == (\E s \in 1..Slots : Take(s) \/ End(s)) \/ Compare \/ Finish

Spec == Init /\ [][Next]_vars

----------------------------------------------------------------------------
(* Types; every target below the counter is running or has ended.           *)
TypeOK ==
  /\ mode \in {"tool", "report"} /\ next \in 1..Len(Targets) + 1
  /\ running \in [1..Slots -> 0..Len(Targets)]
  /\ ordered \in [Target -> Report \union {None, NoReport}]
  /\ drift \in [Target -> {"Info", "Pass", "Attention"}]
  /\ phase \in {"running", "compared", "done", "threw"}
  /\ subject \in [worst : {"none", "OK", "WARNING", "CRITICAL"}, incomplete : BOOLEAN]

(* Each instance is checked once and by one slot, and the answer is given   *)
(* only when each has been (dbatools.ts:7490-7524).                         *)
EachTargetOnce ==
  /\ \A s \in 1..Slots : running[s] # 0 =>
       /\ ordered[Targets[running[s]]] = None
       /\ \A r \in 1..Slots : running[r] = running[s] => r = s
  /\ phase # "running" => \A t \in Target : ordered[t] # None

(* Both nodes of a pair get the drift finding, with the same grade, in      *)
(* whatever order they finished (dbatools.ts:7002, 7030-7073).              *)
DriftIsMutual ==
  \A t, p \in Target : Partners[t] = {p} /\ Partners[p] = {t} =>
    (drift[t] = drift[p])

(* A drift finding that was graded tells of the jobs as they are on the     *)
(* nodes: a list cut at its limit invents no job that is missing on the     *)
(* partner, and hides no difference behind a Pass (dbatools.ts:7023-7036).  *)
DriftIsReal ==
  \A t \in Target : drift[t] # "Info" =>
    (drift[t] = "Attention" <=>
       \E p \in Peers(t) : LiveDifference(ordered[t].jobs, ordered[p].jobs))

(* What was seen, and the checks of it that could not run.                  *)
Seen  == {t \in Target : Reported(t)}
Unrun == UNION {{t} \X (1 .. ordered[t].errored) : t \in Seen}

(* The subject is as bad as the worst report, whichever place it has in the *)
(* list; it says OK only if no report has anything to act on, and says      *)
(* INCOMPLETE just when at least a tenth of the checks in the reports could *)
(* not run (reportCli.ts:47-63).                                            *)
SubjectIsTheWorst ==
  phase = "done" /\ mode = "report" =>
    /\ subject.worst = "CRITICAL" <=> \E t \in Seen : Fails(t)
    /\ subject.worst = "OK" <=> \A t \in Seen : ~Fails(t) /\ ~Warns(t)
    /\ subject.incomplete <=> 10 * Cardinality(Unrun) >= Checks * Cardinality(Seen)

(* "It must never be possible to send [OK] for a run that could not look"   *)
(* (reportCli.ts:49-50).                                                    *)
NoOkUnseen ==
  phase = "done" /\ mode = "report" /\ subject = [worst |-> "OK", incomplete |-> FALSE] =>
    \A t \in Target : Reported(t)
=============================================================================
