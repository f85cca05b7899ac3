-------------------------- MODULE HostJobsProofs ---------------------------
(***************************************************************************)
(* HostJobs, for any calls and times: the types of its variables, and each *)
(* safety property of it.  Three inductive invariants carry them: what a   *)
(* call may have at each place of its script (JobInv), which write a run   *)
(* that succeeded has left in the file (SourceInv), and how the four clocks*)
(* of a call stand to each other (TimeInv).                                *)
(***************************************************************************)
EXTENDS HostJobs, SequenceTheorems, TLAPS

Early == {"none", "launching", "connecting", "checking"}
Steps == Gone \union Trying \union Early \union {"cleaning"}

(* The clocks count up to a most.                                           *)
LEMMA OlderIs ==
  ASSUME NEW old \in Nat, NEW most \in Nat
  PROVE  Older(old, most) = IF old + 1 <= most THEN old + 1 ELSE most
<1> DEFINE S == {old + 1, most}
           least == IF old + 1 <= most THEN old + 1 ELSE most
<1>1. least \in S /\ \A y \in S : least <= y OBVIOUS
<1>2. \A x, y \in S : x <= y /\ y <= x => x = y OBVIOUS
<1>3. Min(S) \in S /\ \A y \in S : Min(S) <= y
  <2> HIDE DEF S, least
  <2> QED BY <1>1 DEF Min
<1> QED BY <1>1, <1>2, <1>3 DEF Older

LEMMA OlderIsNat == ASSUME NEW old \in Nat, NEW most \in Nat PROVE Older(old, most) \in Nat
<1>1. Older(old, most) = IF old + 1 <= most THEN old + 1 ELSE most BY OlderIs
<1>2. old + 1 \in Nat OBVIOUS
<1> QED BY <1>1, <1>2

LEMMA BudgetIsNat ==
  ASSUME TypeOK, NEW c \in Call PROVE Budget(c) \in Nat /\ Timeout[tool[c]] \in Nat
<1>1. tool[c] \in Tool BY DEF TypeOK
<1>2. Timeout[tool[c]] \in Nat BY <1>1, TimeAssumption
<1>3. LeastBudget \in Nat /\ Reserve \in Nat BY TimeAssumption
<1> QED BY <1>2, <1>3 DEF Budget

(* Where a call is, and its clocks, are of their types.                     *)
ProcOK == /\ pc \in [Call -> Steps] /\ spent \in [Call -> Nat] /\ slow \subseteq Call

LEMMA LeaveKeepsProc ==
  ASSUME TypeOK, NEW c \in Call, NEW place \in Steps, Leave(c, place)
  PROVE  ProcOK'
  BY DEF TypeOK, Leave, ProcOK, Steps, Early, Gone, Trying

LEMMA GotoKeepsProc ==
  ASSUME TypeOK, NEW c \in Call, NEW place \in Steps, Goto(c, place)
  PROVE  ProcOK'
  BY DEF TypeOK, Goto, ProcOK, Steps, Early, Gone, Trying

NodeOK  == /\ server \in {"up", "stopped", "crashed"}
           /\ reply \in [Call -> {"none", "pending", "answer", "error"}]
           /\ tool \in [Call -> Tool] /\ script \subseteq Call
ClockOK == waited \in [Call -> Nat] /\ read \in [Call -> Nat] /\ unremoved \subseteq Call
JobOK   == /\ job \in [Call -> {"none", "there", "removed", "swept"}] /\ age \in [Call -> Nat]
           /\ run \in [Call -> {"no", "on", "succeeded", "failed"}]
           /\ writes \in [Tool -> Seq(Write)]

LEMMA TypeInParts == TypeOK <=> NodeOK /\ ProcOK /\ ClockOK /\ JobOK
<1>1. Steps = Gone \union Trying \union {"launching", "connecting", "checking", "cleaning"}
  BY DEF Steps, Early, Gone
<1> QED BY <1>1 DEF TypeOK, NodeOK, ProcOK, ClockOK, JobOK

(* The variables have the values the code can give them. *)
THEOREM TypeCorrect == Spec => []TypeOK
<1>1. Init => TypeOK
  BY DEF Init, TypeOK, Tool, Gone, EventLog, ClusterLog
<1>2. TypeOK /\ [Next]_vars => TypeOK'
  <2> SUFFICES ASSUME TypeOK, [Next]_vars PROVE NodeOK' /\ ProcOK' /\ ClockOK' /\ JobOK'
    <3>1. Steps = Gone \union Trying \union {"launching", "connecting", "checking", "cleaning"}
      BY DEF Steps, Early, Gone
    <3> QED BY <3>1 DEF TypeOK, NodeOK, ProcOK, ClockOK, JobOK
  <2> USE DEF node, proc, agent, past
  <2>0. NodeOK /\ ProcOK /\ ClockOK /\ JobOK BY TypeInParts
  <2>1. ASSUME NEW c \in Call, Spawn(c) PROVE NodeOK' /\ ProcOK' /\ ClockOK' /\ JobOK'
    <3>1. ProcOK' BY <2>1, GotoKeepsProc DEF Spawn, Steps, Early
    <3> QED BY <2>0, <2>1, <3>1 DEF Spawn, NodeOK, ClockOK, JobOK
  <2>2. ASSUME NEW c \in Call, Begin(c) PROVE NodeOK' /\ ProcOK' /\ ClockOK' /\ JobOK'
    <3>1. ProcOK' BY <2>2, GotoKeepsProc DEF Begin, Steps, Early
    <3> QED BY <2>0, <2>2, <3>1 DEF Begin, NodeOK, ClockOK, JobOK
  <2>3. ASSUME NEW c \in Call, Sweep(c) PROVE NodeOK' /\ ProcOK' /\ ClockOK' /\ JobOK'
    <3>1. ProcOK' BY <2>3, GotoKeepsProc DEF Sweep, Steps, Early
    <3> QED BY <2>0, <2>3, <3>1 DEF Sweep, AgesOf, NodeOK, ClockOK, JobOK
  <2>4. ASSUME NEW c \in Call, TooLate(c) \/ ThrowEarly(c)
        PROVE  NodeOK' /\ ProcOK' /\ ClockOK' /\ JobOK'
    <3>1. ProcOK' BY <2>4, LeaveKeepsProc DEF TooLate, ThrowEarly, Steps, Gone
    <3> QED BY <2>0, <2>4, <3>1 DEF TooLate, ThrowEarly, NodeOK, ClockOK, JobOK
  <2>5. ASSUME NEW c \in Call, Create(c) PROVE NodeOK' /\ ProcOK' /\ ClockOK' /\ JobOK'
    <3>1. ProcOK' BY <2>5, GotoKeepsProc DEF Create, Steps, Trying, AfterThrow
    <3> QED BY <2>0, <2>5, <3>1 DEF Create, NodeOK, ClockOK, JobOK
  <2>6. ASSUME NEW c \in Call, StartJob(c) PROVE NodeOK' /\ ProcOK' /\ ClockOK' /\ JobOK'
    <3>1. ProcOK' BY <2>6, GotoKeepsProc DEF StartJob, Steps, Trying
    <3> QED BY <2>0, <2>6, <3>1 DEF StartJob, NodeOK, ClockOK, JobOK
  <2>7. ASSUME NEW c \in Call, PollIdle(c) \/ GiveUp(c) \/ Throw(c)
        PROVE  NodeOK' /\ ProcOK' /\ ClockOK' /\ JobOK'
    <3>1. ProcOK'
      BY <2>7, GotoKeepsProc DEF PollIdle, GiveUp, Throw, AfterThrow, Steps, Trying
    <3> QED BY <2>0, <2>7, <3>1 DEF PollIdle, GiveUp, Throw, NodeOK, ClockOK, JobOK
  <2>8. ASSUME NEW c \in Call, ReadFile(c) PROVE NodeOK' /\ ProcOK' /\ ClockOK' /\ JobOK'
    <3>1. ProcOK' BY <2>8, GotoKeepsProc DEF ReadFile, Steps
    <3>2. Len(writes[tool[c]]) \in Nat BY <2>0, LenProperties DEF JobOK, NodeOK
    <3> QED BY <2>0, <2>8, <3>1, <3>2 DEF ReadFile, NodeOK, ClockOK, JobOK
  <2>9. ASSUME NEW c \in Call, Finally(c) PROVE NodeOK' /\ ProcOK' /\ ClockOK' /\ JobOK'
    <3>1. ProcOK' BY <2>9, LeaveKeepsProc DEF Finally, EndOf, Steps, Gone
    <3>2. NodeOK' BY <2>0, <2>9 DEF Finally, NodeOK
    <3>3. ClockOK' BY <2>0, <2>9 DEF Finally, ClockOK
    <3>4. job' \in [Call -> {"none", "there", "removed", "swept"}]
      BY <2>0, <2>9 DEF Finally, JobOK
    <3>5. age' \in [Call -> Nat]
      <4>1. CASE AgesOf({c}) BY <2>0, <4>1 DEF AgesOf, JobOK
      <4>2. CASE age' = age BY <2>0, <4>2 DEF JobOK
      <4> QED BY <2>9, <4>1, <4>2 DEF Finally
    <3> QED BY <2>0, <2>9, <3>1, <3>2, <3>3, <3>4, <3>5 DEF Finally, JobOK
  <2>10. ASSUME NEW c \in Call, JobEnds(c) PROVE NodeOK' /\ ProcOK' /\ ClockOK' /\ JobOK'
    <3>1. writes' \in [Tool -> Seq(Write)]
      <4>1. CASE UNCHANGED writes BY <2>0, <4>1 DEF JobOK
      <4>2. ASSUME NEW what \in {"log", "error"},
                   writes' = [writes EXCEPT ![tool[c]] = Append(@, [by |-> c, what |-> what])]
            PROVE  writes' \in [Tool -> Seq(Write)]
        <5>1. [by |-> c, what |-> what] \in Write BY DEF Write
        <5> QED BY <2>0, <4>2, <5>1, AppendProperties DEF JobOK, NodeOK
      <4> QED BY <2>10, <4>1, <4>2 DEF JobEnds
    <3>2. run' \in [Call -> {"no", "on", "succeeded", "failed"}]
      BY <2>0, <2>10 DEF JobEnds, JobOK
    <3> QED BY <2>0, <2>10, <3>1, <3>2 DEF JobEnds, NodeOK, ClockOK, JobOK, ProcOK
  <2>11. ASSUME NEW c \in Call, Close(c) PROVE NodeOK' /\ ProcOK' /\ ClockOK' /\ JobOK'
    BY <2>0, <2>11 DEF Close, ClearTimeout, WithoutScript, NodeOK, ClockOK, JobOK, ProcOK
  <2>12. ASSUME NEW c \in Call, LaunchFails(c) \/ Kill(c)
         PROVE  NodeOK' /\ ProcOK' /\ ClockOK' /\ JobOK'
    <3>1. pc[c] \in Steps BY <2>0 DEF ProcOK
    <3>2. ProcOK' BY <2>12, <3>1, LeaveKeepsProc DEF LaunchFails, Kill, Steps, Gone
    <3>3. NodeOK' BY <2>0, <2>12 DEF LaunchFails, Kill, WithoutScript, NodeOK
    <3>4. ClockOK' BY <2>0, <2>12 DEF LaunchFails, Kill, ClearTimeout, ClockOK
    <3>5. JobOK' BY <2>0, <2>12 DEF LaunchFails, Kill, JobOK
    <3> QED BY <3>2, <3>3, <3>4, <3>5
  <2>13. CASE Stop BY <2>0, <2>13 DEF Stop, NodeOK, ClockOK, JobOK, ProcOK
  <2>14. CASE Tick
    <3>1. waited' \in [Call -> Nat] /\ spent' \in [Call -> Nat] /\ age' \in [Call -> Nat]
      <4>1. Hour + 1 \in Nat BY TimeAssumption
      <4>2. \A c \in Call : Budget(c) + 1 \in Nat /\ Timeout[tool[c]] \in Nat BY BudgetIsNat
      <4>3. waited' \in [Call -> Nat]
        BY <2>0, <2>14, <4>2, OlderIsNat DEF Tick, ClockOK
      <4>4. spent' \in [Call -> Nat]
        BY <2>0, <2>14, <4>2, OlderIsNat DEF Tick, ProcOK
      <4>5. age' \in [Call -> Nat]
        BY <2>0, <2>14, <4>1, OlderIsNat DEF Tick, JobOK
      <4> QED BY <4>3, <4>4, <4>5
    <3> QED BY <2>0, <2>14, <3>1 DEF Tick, NodeOK, ClockOK, JobOK, ProcOK
  <2>15. CASE UNCHANGED vars BY <2>0, <2>15 DEF vars, NodeOK, ClockOK, JobOK, ProcOK
  <2> QED BY <2>1, <2>2, <2>3, <2>4, <2>5, <2>6, <2>7, <2>8, <2>9, <2>10, <2>11, <2>12,
             <2>13, <2>14, <2>15 DEF Next, Script
<1> QED BY <1>1, <1>2, PTL DEF Spec

----------------------------------------------------------------------------
(* A call has no process before it is made, and a process no job before it  *)
(* has checked the time that is left.                                       *)
NoJobYet ==
  \A c \in Call :
    /\ reply[c] = "none" => pc[c] = "none"
    /\ pc[c] \in Early => job[c] = "none"

JobInv == TypeOK /\ NoJobYet /\ LeftOnlyByAKill

LEMMA JobInvHolds == Spec => []JobInv
<1>1. Init => NoJobYet /\ LeftOnlyByAKill BY DEF Init, NoJobYet, LeftOnlyByAKill
<1>2. JobInv /\ [Next]_vars => NoJobYet' /\ LeftOnlyByAKill'
  <2> SUFFICES ASSUME JobInv, [Next]_vars PROVE NoJobYet' /\ LeftOnlyByAKill' OBVIOUS
  <2> USE DEF node, proc, agent, past, NoJobYet, LeftOnlyByAKill, Alive, Gone, Early
  <2>0. NodeOK /\ ProcOK /\ ClockOK /\ JobOK /\ NoJobYet /\ LeftOnlyByAKill
    BY TypeInParts DEF JobInv
  <2> USE <2>0 DEF NodeOK, ProcOK, JobOK
  <2>1. ASSUME NEW c \in Call, Spawn(c) PROVE NoJobYet' /\ LeftOnlyByAKill'
    BY <2>1 DEF Spawn, Goto
  <2>2. ASSUME NEW c \in Call, Begin(c) PROVE NoJobYet' /\ LeftOnlyByAKill'
    BY <2>2 DEF Begin, Goto
  <2>3. ASSUME NEW c \in Call, Sweep(c) PROVE NoJobYet' /\ LeftOnlyByAKill'
    <3>1. \A d \in Call : job'[d] = job[d] \/ (job[d] = "there" /\ job'[d] = "swept")
      BY <2>3 DEF Sweep, LeftBehind
    <3>2. \A d \in Call : IF d = c THEN pc[d] = "connecting" /\ pc'[d] = "checking"
                                     ELSE pc'[d] = pc[d]
      BY <2>3 DEF Sweep, Goto
    <3>3. reply' = reply /\ unremoved' = unremoved BY <2>3 DEF Sweep
    <3> QED BY <3>1, <3>2, <3>3
  <2>4. ASSUME NEW c \in Call, TooLate(c) \/ ThrowEarly(c)
        PROVE  NoJobYet' /\ LeftOnlyByAKill'
    <3>1. pc' = [pc EXCEPT ![c] = "failed"] /\ UNCHANGED <<reply, job, unremoved>>
      BY <2>4 DEF TooLate, ThrowEarly, Leave
    <3>2. pc[c] \in {"checking", "connecting"} BY <2>4 DEF TooLate, ThrowEarly
    <3> QED BY <3>1, <3>2
  <2>5. ASSUME NEW c \in Call, Create(c) PROVE NoJobYet' /\ LeftOnlyByAKill'
    <3>1. pc[c] = "checking" /\ UNCHANGED <<reply, unremoved>> BY <2>5 DEF Create
    <3>2. PICK place \in {"starting", "cleaning"} : pc' = [pc EXCEPT ![c] = place]
      BY <2>5 DEF Create, Goto, AfterThrow
    <3>3. job' = job \/ job' = [job EXCEPT ![c] = "there"] BY <2>5 DEF Create
    <3> QED BY <3>1, <3>2, <3>3
  <2>6. ASSUME NEW c \in Call, StartJob(c) \/ PollIdle(c) \/ GiveUp(c) \/ ReadFile(c) \/ Throw(c)
        PROVE  NoJobYet' /\ LeftOnlyByAKill'
    <3>1. PICK place \in Trying \union {"cleaning"} : pc' = [pc EXCEPT ![c] = place]
      BY <2>6 DEF StartJob, PollIdle, GiveUp, ReadFile, Throw, Goto, AfterThrow, Trying
    <3>2. pc[c] \in Trying
      BY <2>6 DEF StartJob, PollIdle, GiveUp, ReadFile, Throw, Trying
    <3>3. job' = job /\ reply' = reply /\ unremoved' = unremoved
      BY <2>6 DEF StartJob, PollIdle, GiveUp, ReadFile, Throw
    <3> QED BY <3>1, <3>2, <3>3 DEF Trying
  <2>7. ASSUME NEW c \in Call, Finally(c) PROVE NoJobYet' /\ LeftOnlyByAKill'
    <3>1. PICK end \in {"ended", "failed"} : pc' = [pc EXCEPT ![c] = end] /\ pc[c] = "cleaning"
      BY <2>7 DEF Finally, EndOf, Leave
    <3>2. \/ job' = [job EXCEPT ![c] = IF @ = "there" THEN "removed" ELSE @]
             /\ unremoved' = unremoved
          \/ job' = job /\ unremoved' = unremoved \union {c}
      BY <2>7 DEF Finally
    <3> QED BY <2>7, <3>1, <3>2 DEF Finally
  <2>8. ASSUME NEW c \in Call, JobEnds(c) \/ Close(c) PROVE NoJobYet' /\ LeftOnlyByAKill'
    BY <2>8 DEF JobEnds, Close
  <2>9. ASSUME NEW c \in Call, LaunchFails(c) PROVE NoJobYet' /\ LeftOnlyByAKill'
    BY <2>9 DEF LaunchFails, Leave
  <2>10. ASSUME NEW c \in Call, Kill(c) PROVE NoJobYet' /\ LeftOnlyByAKill'
    <3>1. pc' = [pc EXCEPT ![c] = IF Alive(c) THEN "killed" ELSE pc[c]]
      BY <2>10 DEF Kill, Leave
    <3> QED BY <2>10, <3>1 DEF Kill, Due
  <2>11. CASE Tick \/ Stop BY <2>11 DEF Tick, Stop
  <2>12. CASE UNCHANGED vars BY <2>12 DEF vars
  <2> QED BY <2>1, <2>2, <2>3, <2>4, <2>5, <2>6, <2>7, <2>8, <2>9, <2>10, <2>11, <2>12
    DEF Next, Script
<1> QED BY <1>1, <1>2, TypeCorrect, PTL DEF Spec, JobInv

(* Only a kill, or a removal that failed, leaves a job behind: no error     *)
(* path of the two scripts does (the finally of both).                      *)
THEOREM LeftOnlyByAKillHolds == Spec => []LeftOnlyByAKill
<1>1. JobInv => LeftOnlyByAKill BY DEF JobInv
<1> QED BY <1>1, JobInvHolds, PTL

(* A script is on disk only while its call waits, or after a crash          *)
(* (cleanup, _cleanupAllScripts).                                           *)
THEOREM ScriptsAreRemovedHolds == Spec => []ScriptsAreRemoved
<1>1. Init => ScriptsAreRemoved BY DEF Init, ScriptsAreRemoved
<1>2. TypeOK /\ ScriptsAreRemoved /\ [Next]_vars => ScriptsAreRemoved'
  <2> SUFFICES ASSUME TypeOK, ScriptsAreRemoved, [Next]_vars PROVE ScriptsAreRemoved'
    OBVIOUS
  <2> USE DEF node, proc, agent, past, ScriptsAreRemoved, TypeOK, WithoutScript
  <2>1. ASSUME NEW c \in Call, Spawn(c) PROVE ScriptsAreRemoved' BY <2>1 DEF Spawn
  <2>2. ASSUME NEW c \in Call, Script(c) \/ JobEnds(c) PROVE ScriptsAreRemoved'
    <3>1. UNCHANGED node
      BY <2>2 DEF Script, JobEnds, Begin, Sweep, TooLate, Create, StartJob, PollIdle, GiveUp,
                  ReadFile, Throw, ThrowEarly, Finally
    <3> QED BY <3>1
  <2>3. ASSUME NEW c \in Call, Close(c) \/ LaunchFails(c) \/ Kill(c)
        PROVE  ScriptsAreRemoved'
    BY <2>3 DEF Close, LaunchFails, Kill
  <2>4. CASE Tick \/ Stop BY <2>4 DEF Tick, Stop
  <2>5. CASE UNCHANGED vars BY <2>5 DEF vars
  <2> QED BY <2>1, <2>2, <2>3, <2>4, <2>5 DEF Next
<1> QED BY <1>1, <1>2, TypeCorrect, PTL DEF Spec

----------------------------------------------------------------------------
(* What a call has before it is made, and before its job has run.           *)
Fresh ==
  \A c \in Call :
    /\ reply[c] = "none" => pc[c] = "none" /\ run[c] = "no" /\ waited[c] = 0
    /\ pc[c] \in Early \union Trying => read[c] = 0
    /\ pc[c] \in Early => run[c] = "no"

(* A run that succeeded has written the file, and only a run that can be    *)
(* used is followed by a reading.                                           *)
Sourced ==
  \A c \in Call :
    /\ run[c] = "succeeded" => \E i \in 1..Len(writes[tool[c]]) : WroteAt(c, i)
    /\ pc[c] = "reading" => Usable(c)
    /\ read[c] <= Len(writes[tool[c]])

----------------------------------------------------------------------------
LEMMA FreshStays ==
  ASSUME TypeOK, NoJobYet, Fresh, [Next]_vars PROVE Fresh'
<1> USE DEF node, proc, agent, past, Fresh, Early, Trying
<1>0. NodeOK /\ ProcOK /\ ClockOK /\ JobOK BY TypeInParts
<1> USE <1>0 DEF NodeOK, ProcOK, ClockOK, JobOK
<1>1. ASSUME NEW c \in Call, Spawn(c) PROVE Fresh' BY <1>1 DEF Spawn, Goto
<1>2. ASSUME NEW c \in Call, Begin(c) PROVE Fresh' BY <1>2 DEF Begin, Goto
<1>3. ASSUME NEW c \in Call, Sweep(c) PROVE Fresh'
  <2>1. UNCHANGED <<node, waited, read, run>> /\ pc[c] = "connecting"
        /\ pc' = [pc EXCEPT ![c] = "checking"]
    BY <1>3 DEF Sweep, Goto
  <2> QED BY <2>1
<1>4. ASSUME NEW c \in Call, TooLate(c) \/ ThrowEarly(c) PROVE Fresh'
  BY <1>4 DEF TooLate, ThrowEarly, Leave
<1>5. ASSUME NEW c \in Call, Create(c) PROVE Fresh'
  <2>1. /\ UNCHANGED <<node, waited, read, run>> /\ pc[c] = "checking"
        /\ \/ pc' = [pc EXCEPT ![c] = "starting"]
           \/ pc' = [pc EXCEPT ![c] = "cleaning"]
    BY <1>5 DEF Create, Goto, AfterThrow
  <2> QED BY <2>1
<1>6. ASSUME NEW c \in Call, StartJob(c) PROVE Fresh' BY <1>6 DEF StartJob, Goto
<1>7. ASSUME NEW c \in Call, PollIdle(c) \/ GiveUp(c) \/ Throw(c) PROVE Fresh'
  <2>1. /\ UNCHANGED <<node, waited, read, run>> /\ pc[c] \in Trying
        /\ \/ pc' = [pc EXCEPT ![c] = "reading"]
           \/ pc' = [pc EXCEPT ![c] = "cleaning"]
    BY <1>7 DEF PollIdle, GiveUp, Throw, Goto, AfterThrow
  <2> QED BY <2>1
<1>8. ASSUME NEW c \in Call, ReadFile(c) PROVE Fresh' BY <1>8 DEF ReadFile, Goto
<1>9. ASSUME NEW c \in Call, Finally(c) PROVE Fresh'
  <2>1. /\ UNCHANGED <<node, waited, read, run>> /\ pc[c] = "cleaning"
        /\ \/ pc' = [pc EXCEPT ![c] = "ended"]
           \/ pc' = [pc EXCEPT ![c] = "failed"]
    BY <1>9 DEF Finally, Leave, EndOf
  <2> QED BY <2>1
<1>10. ASSUME NEW c \in Call, JobEnds(c) PROVE Fresh' BY <1>10 DEF JobEnds
<1>11. ASSUME NEW c \in Call, Close(c) PROVE Fresh' BY <1>11 DEF Close, ClearTimeout
<1>12. ASSUME NEW c \in Call, LaunchFails(c) \/ Kill(c) PROVE Fresh'
  <2>1. /\ UNCHANGED <<read, run>> /\ reply[c] = "pending"
        /\ reply' = [reply EXCEPT ![c] = "error"]
        /\ waited' = [waited EXCEPT ![c] = 0]
    BY <1>12 DEF LaunchFails, Kill, Due, ClearTimeout
  <2>2. PICK end \in Gone : pc' = [pc EXCEPT ![c] = end] /\ (end = "none" => pc[c] = "none")
    BY <1>12 DEF LaunchFails, Kill, Leave, Alive, Gone
  <2> QED BY <2>1, <2>2 DEF Gone
<1>13. CASE Stop BY <1>13 DEF Stop
<1>14. CASE Tick
  <2>1. \A c \in Call : reply[c] = "none" => waited'[c] = waited[c]
    BY <1>14 DEF Tick
  <2> QED BY <1>14, <2>1 DEF Tick
<1>15. CASE UNCHANGED vars BY <1>15 DEF vars
<1> QED BY <1>1, <1>2, <1>3, <1>4, <1>5, <1>6, <1>7, <1>8, <1>9, <1>10, <1>11, <1>12,
           <1>13, <1>14, <1>15 DEF Next, Script

(* A write stays where it is. *)
LEMMA WritesStay ==
  ASSUME TypeOK, NEW c \in Call, JobEnds(c)
  PROVE  \A t \in Tool :
           /\ Len(writes[t]) <= Len(writes'[t])
           /\ \A i \in 1..Len(writes[t]) : writes'[t][i] = writes[t][i]
<1>0. NodeOK /\ JobOK BY TypeInParts
<1>1. CASE UNCHANGED writes
  <2>1. \A t \in Tool : Len(writes[t]) \in Nat BY <1>0 DEF JobOK
  <2> QED BY <1>1, <2>1
<1>2. ASSUME NEW what \in {"log", "error"},
             writes' = [writes EXCEPT ![tool[c]] = Append(@, [by |-> c, what |-> what])]
      PROVE  \A t \in Tool :
               /\ Len(writes[t]) <= Len(writes'[t])
               /\ \A i \in 1..Len(writes[t]) : writes'[t][i] = writes[t][i]
  <2> TAKE t \in Tool
  <2>1. [by |-> c, what |-> what] \in Write BY DEF Write
  <2>2. writes[t] \in Seq(Write) /\ Len(writes[t]) \in Nat BY <1>0 DEF JobOK
  <2>3. CASE t = tool[c]
    <3>1. writes'[t] = Append(writes[t], [by |-> c, what |-> what])
      BY <1>0, <1>2, <2>3 DEF JobOK
    <3> QED BY <2>1, <2>2, <3>1, AppendProperties
  <2>4. CASE t # tool[c]
    <3>1. writes'[t] = writes[t] BY <1>0, <1>2, <2>4 DEF JobOK
    <3> QED BY <2>2, <3>1
  <2> QED BY <2>3, <2>4
<1> QED BY <1>1, <1>2 DEF JobEnds

(* Sourced holds for one call. *)
SourcedFor(c) ==
  /\ run[c] = "succeeded" => \E i \in 1..Len(writes[tool[c]]) : WroteAt(c, i)
  /\ pc[c] = "reading" => Usable(c)
  /\ read[c] <= Len(writes[tool[c]])

(* A step that changes none of these keeps it. *)
LEMMA SourcedIfUnchanged ==
  ASSUME NEW d \in Call, SourcedFor(d), tool'[d] = tool[d], run'[d] = run[d],
         read'[d] = read[d], writes' = writes, pc'[d] = "reading" => pc[d] = "reading"
  PROVE  SourcedFor(d)'
  BY DEF SourcedFor, WroteAt, Usable

LEMMA SourcedStays ==
  ASSUME TypeOK, NoJobYet, Fresh, Sourced, [Next]_vars PROVE Sourced'
<1> SUFFICES ASSUME NEW d \in Call PROVE SourcedFor(d)'
  BY DEF Sourced, SourcedFor
<1>0. NodeOK /\ ProcOK /\ ClockOK /\ JobOK BY TypeInParts
<1>a. SourcedFor(d) BY DEF Sourced, SourcedFor
<1> USE DEF node, proc, agent, past
<1>1. ASSUME NEW c \in Call, Spawn(c) PROVE SourcedFor(d)'
  <2>1. CASE d = c
    <3>1. /\ read[d] = 0 /\ run[d] = "no" /\ read' = read /\ run' = run
          /\ writes' = writes /\ pc'[d] = "launching"
      BY <1>0, <1>1, <2>1 DEF Spawn, Goto, Fresh, ProcOK, Early
    <3>2. tool'[d] \in Tool BY <1>0, <1>1, <2>1 DEF Spawn, NodeOK
    <3>3. Len(writes[tool'[d]]) \in Nat BY <1>0, <3>2, LenProperties DEF JobOK
    <3> QED BY <3>1, <3>3 DEF SourcedFor
  <2>2. CASE d # c
    BY <1>0, <1>1, <1>a, <2>2, SourcedIfUnchanged DEF Spawn, Goto, NodeOK, ProcOK
  <2> QED BY <2>1, <2>2
<1>2. ASSUME NEW c \in Call,
             Begin(c) \/ Sweep(c) \/ TooLate(c) \/ ThrowEarly(c) \/ Create(c)
      PROVE  SourcedFor(d)'
  <2>1. UNCHANGED <<tool, run, read, writes>>
    BY <1>2 DEF Begin, Sweep, TooLate, ThrowEarly, Create
  <2>2. PICK place \in {"connecting", "checking", "starting", "cleaning", "failed"} :
          pc' = [pc EXCEPT ![c] = place]
    BY <1>2 DEF Begin, Sweep, TooLate, ThrowEarly, Create, Goto, Leave, AfterThrow
  <2>3. pc'[d] = "reading" => pc[d] = "reading" BY <1>0, <2>2 DEF ProcOK
  <2> QED BY <1>a, <2>1, <2>3, SourcedIfUnchanged
<1>3. ASSUME NEW c \in Call, StartJob(c) PROVE SourcedFor(d)'
  <2>1. UNCHANGED <<tool, read, writes>> /\ run' = [run EXCEPT ![c] = "on"]
        /\ pc' = [pc EXCEPT ![c] = "polling"]
    BY <1>3 DEF StartJob, Goto
  <2> QED BY <1>0, <1>a, <2>1 DEF SourcedFor, WroteAt, Usable, ProcOK, JobOK
<1>4. ASSUME NEW c \in Call, PollIdle(c) PROVE SourcedFor(d)'
  <2>1. UNCHANGED <<tool, run, read, writes>>
        /\ pc' = [pc EXCEPT ![c] = IF Usable(c) THEN "reading" ELSE "cleaning"]
    BY <1>4 DEF PollIdle, Goto
  <2> QED BY <1>0, <1>a, <2>1 DEF SourcedFor, WroteAt, Usable, ProcOK
<1>5. ASSUME NEW c \in Call, GiveUp(c) \/ Throw(c) \/ Finally(c) PROVE SourcedFor(d)'
  <2>1. UNCHANGED <<tool, run, read, writes>> BY <1>5 DEF GiveUp, Throw, Finally
  <2>2. PICK place \in {"cleaning", "ended", "failed"} : pc' = [pc EXCEPT ![c] = place]
    BY <1>5 DEF GiveUp, Throw, Finally, Goto, Leave, AfterThrow, EndOf
  <2>3. pc'[d] = "reading" => pc[d] = "reading" BY <1>0, <2>2 DEF ProcOK
  <2> QED BY <1>a, <2>1, <2>3, SourcedIfUnchanged
<1>6. ASSUME NEW c \in Call, ReadFile(c) PROVE SourcedFor(d)'
  <2>1. UNCHANGED <<tool, run, writes>> /\ pc' = [pc EXCEPT ![c] = "cleaning"]
        /\ read' = [read EXCEPT ![c] = Len(writes[tool[c]])]
    BY <1>6 DEF ReadFile, Goto
  <2>2. Len(writes[tool[c]]) \in Nat BY <1>0, LenProperties DEF JobOK, NodeOK
  <2>3. CASE d = c
    <3>1. read'[d] = Len(writes[tool[d]]) /\ pc'[d] = "cleaning"
      BY <1>0, <2>1, <2>3 DEF ProcOK, ClockOK
    <3> QED BY <1>0, <1>a, <2>1, <2>2, <2>3, <3>1 DEF SourcedFor, WroteAt
  <2>4. CASE d # c
    <3>1. read'[d] = read[d] /\ pc'[d] = pc[d] BY <1>0, <2>1, <2>4 DEF ProcOK, ClockOK
    <3> QED BY <1>a, <2>1, <3>1, SourcedIfUnchanged
  <2> QED BY <2>3, <2>4
<1>7. ASSUME NEW c \in Call, JobEnds(c) PROVE SourcedFor(d)'
  <2>1. /\ Len(writes[tool[d]]) <= Len(writes'[tool[d]])
        /\ \A i \in 1..Len(writes[tool[d]]) : writes'[tool[d]][i] = writes[tool[d]][i]
    BY <1>0, <1>7, WritesStay DEF NodeOK
  <2>2. UNCHANGED <<tool, read, pc>> BY <1>7 DEF JobEnds
  <2>3. Len(writes[tool[d]]) \in Nat /\ read[d] \in Nat /\ writes[tool[d]] \in Seq(Write)
    BY <1>0, LenProperties DEF JobOK, NodeOK, ClockOK
  <2>4. Len(writes'[tool[d]]) \in Nat
    BY <1>0, <1>7, AppendProperties DEF JobEnds, JobOK, NodeOK, Write
  <2>5. read'[d] <= Len(writes'[tool'[d]])
    BY <1>a, <2>1, <2>2, <2>3, <2>4 DEF SourcedFor
  <2>6. CASE run'[d] = run[d]
    BY <1>a, <2>1, <2>2, <2>3, <2>4, <2>5, <2>6 DEF SourcedFor, WroteAt, Usable
  <2>7. CASE d = c /\ run' = [run EXCEPT ![c] = "failed"]
    <3>1. run[c] = "on" /\ run'[c] = "failed" BY <1>0, <1>7, <2>7 DEF JobEnds, JobOK
    <3> QED BY <1>a, <2>2, <2>5, <2>7, <3>1 DEF SourcedFor, Usable
  <2>8. ASSUME NEW what \in {"log", "error"}, d = c, run' = [run EXCEPT ![c] = "succeeded"],
               writes' = [writes EXCEPT ![tool[c]] = Append(@, [by |-> c, what |-> what])]
        PROVE  SourcedFor(d)'
    <3>1. [by |-> c, what |-> what] \in Write BY DEF Write
    <3>2. writes'[tool[c]] = Append(writes[tool[c]], [by |-> c, what |-> what])
      BY <1>0, <2>8 DEF JobOK, NodeOK
    <3>3. /\ Len(writes'[tool[c]]) = Len(writes[tool[c]]) + 1
          /\ writes'[tool[c]][Len(writes[tool[c]]) + 1] = [by |-> c, what |-> what]
      BY <2>3, <2>8, <3>1, <3>2, AppendProperties
    <3>4. writes'[tool'[d]][Len(writes'[tool'[d]])].by = d
          /\ Len(writes'[tool'[d]]) \in 1..Len(writes'[tool'[d]])
      BY <2>2, <2>3, <2>8, <3>3
    <3>5. \E i \in 1..Len(writes'[tool'[d]]) : WroteAt(d, i)'
      BY <3>4 DEF WroteAt
    <3>6. run'[d] = "succeeded" BY <1>0, <2>8 DEF JobOK
    <3>7. Usable(d)' BY <3>6 DEF Usable
    <3> QED BY <2>5, <3>5, <3>7 DEF SourcedFor
  <2> QED BY <1>0, <1>7, <2>6, <2>7, <2>8 DEF JobEnds, JobOK
<1>8. ASSUME NEW c \in Call, Close(c) \/ LaunchFails(c) \/ Kill(c) PROVE SourcedFor(d)'
  <2>1. UNCHANGED <<tool, run, read, writes>> BY <1>8 DEF Close, LaunchFails, Kill
  <2>2. pc'[d] = "reading" => pc[d] = "reading"
    BY <1>0, <1>8 DEF Close, LaunchFails, Kill, Leave, Alive, Gone, ProcOK
  <2> QED BY <1>a, <2>1, <2>2, SourcedIfUnchanged
<1>9. CASE Tick \/ Stop \/ UNCHANGED vars
  BY <1>9, <1>a, SourcedIfUnchanged DEF Tick, Stop, vars
<1> QED BY <1>1, <1>2, <1>3, <1>4, <1>5, <1>6, <1>7, <1>8, <1>9 DEF Next, Script

(* An event log answer was written by the call's own job, or after it by    *)
(* another's, never before it; only a cluster log may be an old one, when   *)
(* the call's own job wrote nothing.  What a run that succeeded wrote stays *)
(* in front of every later write, and only such a run is read after.        *)
NotOlder(c) ==
  read[c] > 0 =>
    \/ \E i \in 1..read[c] : WroteAt(c, i)
    \/ tool[c] = ClusterLog /\ run[c] = "failed"

SourceInv == TypeOK /\ NoJobYet /\ Fresh /\ Sourced

THEOREM NotOlderThanItsJobHolds == Spec => []NotOlderThanItsJob
<1>1. Init => Fresh /\ Sourced /\ NotOlderThanItsJob
  <2> SUFFICES ASSUME Init PROVE Fresh /\ Sourced /\ NotOlderThanItsJob OBVIOUS
  <2>1. \A c \in Call : /\ read[c] = 0 /\ run[c] = "no" /\ pc[c] = "none"
                        /\ waited[c] = 0 /\ writes[tool[c]] = <<>>
    BY DEF Init, Tool
  <2> QED BY <2>1 DEF Fresh, Sourced, NotOlderThanItsJob
<1>2. SourceInv /\ NotOlderThanItsJob /\ [Next]_vars
        => Fresh' /\ Sourced' /\ NotOlderThanItsJob'
  <2> SUFFICES ASSUME SourceInv, NotOlderThanItsJob, [Next]_vars, NEW d \in Call
               PROVE  NotOlder(d)'
    BY FreshStays, SourcedStays DEF SourceInv, NotOlderThanItsJob, NotOlder
  <2> USE DEF node, proc, agent, past
  <2>0. NodeOK /\ ProcOK /\ ClockOK /\ JobOK /\ Fresh /\ SourcedFor(d) /\ NotOlder(d)
    BY TypeInParts DEF SourceInv, Sourced, SourcedFor, NotOlderThanItsJob, NotOlder
  <2>1. ASSUME NEW c \in Call, Spawn(c) PROVE NotOlder(d)'
    <3>1. CASE d = c
      BY <2>0, <2>1, <3>1 DEF Spawn, Fresh, NotOlder, Early
    <3>2. CASE d # c
      BY <2>0, <2>1, <3>2 DEF Spawn, NotOlder, NodeOK, WroteAt
    <3> QED BY <3>1, <3>2
  <2>2. ASSUME NEW c \in Call, StartJob(c) PROVE NotOlder(d)'
    <3>1. CASE d = c
      BY <2>0, <2>2, <3>1 DEF StartJob, Fresh, NotOlder, Trying
    <3>2. CASE d # c
      BY <2>0, <2>2, <3>2 DEF StartJob, NotOlder, JobOK, WroteAt
    <3> QED BY <3>1, <3>2
  <2>3. ASSUME NEW c \in Call, ReadFile(c) PROVE NotOlder(d)'
    <3>1. UNCHANGED <<tool, run, writes>> /\ read' = [read EXCEPT ![c] = Len(writes[tool[c]])]
          /\ pc[c] = "reading"
      BY <2>3 DEF ReadFile
    <3>2. CASE d = c
      BY <2>0, <3>1, <3>2 DEF SourcedFor, NotOlder, Usable, WroteAt, ClockOK
    <3>3. CASE d # c
      BY <2>0, <3>1, <3>3 DEF NotOlder, WroteAt, ClockOK
    <3> QED BY <3>2, <3>3
  <2>4. ASSUME NEW c \in Call, JobEnds(c) PROVE NotOlder(d)'
    <3>1. UNCHANGED <<tool, read>> BY <2>4 DEF JobEnds
    <3>2. /\ Len(writes[tool[d]]) <= Len(writes'[tool[d]])
          /\ \A i \in 1..Len(writes[tool[d]]) : writes'[tool[d]][i] = writes[tool[d]][i]
      <4>1. tool[d] \in Tool BY <2>0 DEF NodeOK
      <4> QED BY <2>0, <2>4, <4>1, WritesStay DEF SourceInv
    <3>3. Len(writes[tool[d]]) \in Nat /\ Len(writes'[tool[d]]) \in Nat /\ read[d] \in Nat
      BY <2>0, <2>4, LenProperties, AppendProperties
      DEF JobEnds, JobOK, NodeOK, ClockOK, Write
    <3>4. run[d] = "failed" => run'[d] = "failed"
      BY <2>0, <2>4 DEF JobEnds, JobOK
    <3>5. ASSUME NEW i \in 1..read[d], WroteAt(d, i) PROVE WroteAt(d, i)'
      BY <3>1, <3>2, <3>3, <3>5 DEF WroteAt
    <3> QED BY <2>0, <3>1, <3>4, <3>5 DEF NotOlder
  <2>5. ASSUME UNCHANGED <<tool, run, read, writes>> PROVE NotOlder(d)'
    BY <2>0, <2>5 DEF NotOlder, WroteAt
  <2> QED
    BY <2>1, <2>2, <2>3, <2>4, <2>5
    DEF Next, Script, Begin, Sweep, TooLate, Create, PollIdle, GiveUp, Throw, ThrowEarly,
        Finally, Close, LaunchFails, Kill, Tick, Stop, vars
<1>3. JobInv => TypeOK /\ NoJobYet BY DEF JobInv
<1>4. SourceInv <=> TypeOK /\ NoJobYet /\ Fresh /\ Sourced BY DEF SourceInv
<1> QED BY <1>1, <1>2, <1>3, <1>4, JobInvHolds, PTL DEF Spec

----------------------------------------------------------------------------
(* While the timer watches a process, its job is no older than its call.    *)
WatchedFor(c) ==
  /\ Alive(c) => reply[c] = "pending"
  /\ reply[c] = "pending" => waited[c] <= Timeout[tool[c]]
  /\ Alive(c) /\ job[c] = "there" => age[c] <= waited[c]

(* Without a slow step, the time a call has waited is its script's own, and *)
(* of that the budget has not run out once there is a job.                  *)
InTimeFor(c) == Alive(c) /\ c \notin slow =>
  /\ waited[c] <= spent[c] \/ spent[c] > Budget(c)
  /\ pc[c] \in Trying \union {"cleaning"} => spent[c] <= Budget(c)

TimeFor(c) == (server = "up" => WatchedFor(c)) /\ InTimeFor(c)

(* A step that leaves the process of a call where it is keeps both. *)
LEMMA WatchedIfUnchanged ==
  ASSUME NEW d \in Call, WatchedFor(d), reply'[d] = reply[d], tool'[d] = tool[d],
         waited'[d] = waited[d], Alive(d)' => Alive(d),
         job'[d] = "there" => job[d] = "there" /\ age'[d] = age[d]
  PROVE  WatchedFor(d)'
  BY DEF WatchedFor

LEMMA InTimeIfUnchanged ==
  ASSUME NEW d \in Call, InTimeFor(d), tool'[d] = tool[d], waited'[d] = waited[d],
         Alive(d)' => /\ Alive(d) /\ spent'[d] = spent[d] /\ (d \in slow => d \in slow')
                      /\ \/ pc[d] \in Trying \union {"cleaning"}
                         \/ pc'[d] \notin Trying \union {"cleaning"}
  PROVE  InTimeFor(d)'
  BY DEF InTimeFor, Budget

(* Letting time pass keeps both: no clock runs ahead of another. *)
LEMMA TickKeepsTime ==
  ASSUME TypeOK, NEW d \in Call, Tick
  PROVE  /\ server = "up" /\ WatchedFor(d) => WatchedFor(d)'
         /\ InTimeFor(d) => InTimeFor(d)'
<1>0. NodeOK /\ ProcOK /\ ClockOK /\ JobOK BY TypeInParts
<1> DEFINE T == Timeout[tool[d]]
           B == Budget(d)
<1>1. /\ T \in Nat /\ B \in Nat /\ Hour + 1 \in Nat /\ waited[d] \in Nat
      /\ spent[d] \in Nat /\ age[d] \in Nat
  BY <1>0, BudgetIsNat, TimeAssumption DEF ProcOK, ClockOK, JobOK
<1>2. UNCHANGED <<server, reply, tool, pc, job, run>> BY DEF Tick, node
<1>3. ~Due(d) BY DEF Tick
<1>4. waited'[d] = IF server = "up" /\ reply[d] = "pending" THEN Older(waited[d], T)
                   ELSE waited[d]
  BY DEF Tick
<1>5. age'[d] = IF job[d] = "there" THEN Older(age[d], Hour + 1) ELSE age[d]
  BY DEF Tick
<1>6. spent'[d] = IF Alive(d) /\ pc[d] # "launching" THEN Older(spent[d], B + 1)
                  ELSE spent[d]
  BY DEF Tick
<1>7. Older(waited[d], T) = IF waited[d] + 1 <= T THEN waited[d] + 1 ELSE T
  BY <1>1, OlderIs
<1>8. Older(age[d], Hour + 1) <= age[d] + 1 BY <1>1, OlderIs
<1>9. Older(spent[d], B + 1) = IF spent[d] <= B THEN spent[d] + 1 ELSE B + 1
  BY <1>1, OlderIs
<1>10. ASSUME server = "up", WatchedFor(d) PROVE WatchedFor(d)'
  <2>1. /\ Alive(d)' <=> Alive(d)
        /\ reply'[d] = reply[d] /\ tool'[d] = tool[d] /\ job'[d] = job[d]
    BY <1>2 DEF Alive
  <2>2. CASE reply[d] = "pending"
    <3>1. waited[d] < T BY <1>1, <1>3, <1>10, <2>2 DEF Due
    <3>2. waited'[d] = waited[d] + 1 BY <1>1, <1>4, <1>7, <1>10, <2>2, <3>1
    <3>3. Alive(d) /\ job[d] = "there" => age'[d] <= age[d] + 1 BY <1>5, <1>8
    <3>4. Alive(d) /\ job[d] = "there" => age'[d] <= waited'[d]
      <4> HAVE Alive(d) /\ job[d] = "there"
      <4>1. age[d] <= waited[d] BY <1>10 DEF WatchedFor
      <4>2. age'[d] \in Nat BY <1>1, <1>5, OlderIsNat
      <4> QED BY <1>1, <3>2, <3>3, <4>1, <4>2
    <3> QED BY <1>1, <2>1, <2>2, <3>1, <3>2, <3>4 DEF WatchedFor
  <2>3. CASE reply[d] # "pending"
    BY <1>10, <2>1, <2>3 DEF WatchedFor
  <2> QED BY <2>2, <2>3
<1>11. ASSUME InTimeFor(d) PROVE InTimeFor(d)'
  <2> SUFFICES ASSUME Alive(d), d \notin slow'
               PROVE  /\ waited'[d] <= spent'[d] \/ spent'[d] > B
                      /\ pc[d] \in Trying \union {"cleaning"} => spent'[d] <= B
    BY <1>2 DEF InTimeFor, Alive, Budget
  <2>1. d \notin slow /\ ~Slow(d) BY DEF Tick
  <2>2. pc[d] \notin {"launching", "checking", "starting", "reading", "cleaning"}
        /\ (pc[d] = "polling" => spent[d] < B)
    BY <2>1 DEF Slow, InBudget
  <2>3. waited[d] <= spent[d] \/ spent[d] > B BY <1>11, <2>1 DEF InTimeFor
  <2>4. waited'[d] <= waited[d] + 1 /\ waited'[d] \in Nat BY <1>1, <1>4, <1>7
  <2>5. spent'[d] = IF spent[d] <= B THEN spent[d] + 1 ELSE B + 1
    BY <1>6, <1>9, <2>2
  <2>6. waited'[d] <= spent'[d] \/ spent'[d] > B BY <1>1, <2>3, <2>4, <2>5
  <2>7. pc[d] \in Trying \union {"cleaning"} => spent'[d] <= B
    BY <1>1, <2>2, <2>5 DEF Trying
  <2> QED BY <2>6, <2>7
<1> QED BY <1>10, <1>11

LEMMA TimeStays ==
  ASSUME TypeOK, NoJobYet, Fresh, NEW d \in Call, TimeFor(d), [Next]_vars
  PROVE  TimeFor(d)'
<1>0. NodeOK /\ ProcOK /\ ClockOK /\ JobOK BY TypeInParts
<1> USE DEF node, proc, agent, past
<1>1. ASSUME NEW c \in Call, Spawn(c) PROVE TimeFor(d)'
  <2>1. CASE d = c
    <3>1. pc[d] = "none" /\ waited[d] = 0 /\ job[d] = "none"
      BY <1>1, <2>1 DEF Spawn, Fresh, NoJobYet, Early
    <3>2. /\ UNCHANGED <<server, waited, job, age, spent>> /\ pc'[d] = "launching"
          /\ tool'[d] \in Tool
      BY <1>0, <1>1, <2>1 DEF Spawn, Goto, NodeOK, ProcOK
    <3>3. reply'[d] = "pending" BY <1>0, <1>1, <2>1 DEF Spawn, NodeOK
    <3>4. Timeout[tool'[d]] \in Nat /\ spent[d] \in Nat
      BY <1>0, <3>2, TimeAssumption DEF ProcOK
    <3> QED BY <3>1, <3>2, <3>3, <3>4
        DEF TimeFor, WatchedFor, InTimeFor, Trying
  <2>2. CASE d # c
    <3>1. /\ reply'[d] = reply[d] /\ tool'[d] = tool[d] /\ pc'[d] = pc[d]
          /\ UNCHANGED <<server, waited, job, age, spent, slow>>
      BY <1>0, <1>1, <2>2 DEF Spawn, Goto, NodeOK, ProcOK
    <3> QED BY <3>1, WatchedIfUnchanged, InTimeIfUnchanged DEF TimeFor, Alive
  <2> QED BY <2>1, <2>2
<1>2. ASSUME NEW c \in Call, Begin(c) \/ Sweep(c) PROVE TimeFor(d)'
  <2>1. UNCHANGED <<server, reply, tool, waited, spent, slow>>
        /\ (job'[d] = "there" => job[d] = "there" /\ age'[d] = age[d])
    BY <1>2 DEF Begin, Sweep, Goto, AgesOf
  <2>2. /\ Alive(d)' <=> Alive(d)
        /\ pc[d] \in Trying \union {"cleaning"} \/ pc'[d] \notin Trying \union {"cleaning"}
    BY <1>0, <1>2 DEF Begin, Sweep, Goto, Alive, Gone, Trying, ProcOK
  <2> QED BY <2>1, <2>2, WatchedIfUnchanged, InTimeIfUnchanged DEF TimeFor
<1>3. ASSUME NEW c \in Call,
             TooLate(c) \/ ThrowEarly(c) \/ Finally(c) \/ Close(c) \/ LaunchFails(c) \/ Kill(c)
      PROVE  TimeFor(d)'
  <2>1. CASE d = c
    <3>1. ~Alive(d)'
      BY <1>0, <1>3, <2>1 DEF TooLate, ThrowEarly, Finally, Close, LaunchFails, Kill, Leave,
         Alive, Gone, EndOf, ProcOK
    <3>2. UNCHANGED <<server, tool>>
      BY <1>3 DEF TooLate, ThrowEarly, Finally, Close, LaunchFails, Kill
    <3>3. reply'[d] = "pending" => reply[d] = "pending" /\ waited'[d] = waited[d]
      BY <1>0, <1>3, <2>1
      DEF TooLate, ThrowEarly, Finally, Close, LaunchFails, Kill, NodeOK
    <3> QED BY <3>1, <3>2, <3>3 DEF TimeFor, WatchedFor, InTimeFor
  <2>2. CASE d # c
    <3>1. UNCHANGED <<server, tool>> /\ reply'[d] = reply[d] /\ waited'[d] = waited[d]
      BY <1>0, <1>3, <2>2 DEF TooLate, ThrowEarly, Finally, Close, LaunchFails, Kill,
         ClearTimeout, NodeOK, ClockOK
    <3>2. pc'[d] = pc[d] /\ spent'[d] = spent[d] /\ (d \in slow => d \in slow')
      BY <1>0, <1>3, <2>2 DEF TooLate, ThrowEarly, Finally, Close, LaunchFails, Kill, Leave,
         ProcOK
    <3>3. job'[d] = "there" => job[d] = "there" /\ age'[d] = age[d]
      BY <1>0, <1>3, <2>2 DEF TooLate, ThrowEarly, Finally, Close, LaunchFails, Kill, AgesOf,
         JobOK
    <3> QED BY <3>1, <3>2, <3>3, WatchedIfUnchanged, InTimeIfUnchanged DEF TimeFor, Alive
  <2> QED BY <2>1, <2>2
<1>4. ASSUME NEW c \in Call, Create(c) PROVE TimeFor(d)'
  <2>1. UNCHANGED <<server, reply, tool, waited, spent, slow>> /\ spent[c] + CreateReserve <= Budget(c)
    BY <1>4 DEF Create, Goto, LeavesTimeForAJob
  <2>2. pc[c] = "checking" /\ \E place \in {"starting", "cleaning"} : pc' = [pc EXCEPT ![c] = place]
    BY <1>4 DEF Create, Goto, AfterThrow
  <2>3. \/ UNCHANGED <<job, age>>
        \/ job' = [job EXCEPT ![c] = "there"] /\ age' = [age EXCEPT ![c] = 0]
    BY <1>4 DEF Create
  <2>4. CASE d = c
    <3>1. Alive(d) /\ Alive(d)' BY <1>0, <2>2, <2>4 DEF Alive, Gone, ProcOK
    <3>2. Budget(d) \in Nat /\ CreateReserve \in Nat /\ spent[d] \in Nat /\ waited[d] \in Nat
      BY <1>0, BudgetIsNat, TimeAssumption DEF ProcOK, ClockOK
    <3>3. spent[d] <= Budget(d) BY <2>1, <2>4, <3>2
    <3>4. InTimeFor(d)' BY <2>1, <3>1, <3>3 DEF TimeFor, InTimeFor, Budget
    <3>5. server = "up" => WatchedFor(d)'
      BY <1>0, <2>1, <2>3, <2>4, <3>1, <3>2 DEF TimeFor, WatchedFor, JobOK
    <3> QED BY <2>1, <3>4, <3>5 DEF TimeFor
  <2>5. CASE d # c
    <3>1. pc'[d] = pc[d] /\ job'[d] = job[d] /\ age'[d] = age[d]
      BY <1>0, <2>2, <2>3, <2>5 DEF ProcOK, JobOK
    <3> QED BY <2>1, <3>1, WatchedIfUnchanged, InTimeIfUnchanged DEF TimeFor, Alive
  <2> QED BY <2>4, <2>5
<1>5. ASSUME NEW c \in Call, StartJob(c) \/ PollIdle(c) \/ GiveUp(c) \/ ReadFile(c) \/ Throw(c)
      PROVE  TimeFor(d)'
  <2>1. UNCHANGED <<server, reply, tool, waited, spent, slow, job, age>>
    BY <1>5 DEF StartJob, PollIdle, GiveUp, ReadFile, Throw, Goto
  <2>2. pc[c] \in Trying
        /\ \E place \in Trying \union {"cleaning"} : pc' = [pc EXCEPT ![c] = place]
    BY <1>5 DEF StartJob, PollIdle, GiveUp, ReadFile, Throw, Goto, AfterThrow, Trying
  <2>3. /\ Alive(d)' => Alive(d)
        /\ pc[d] \in Trying \union {"cleaning"} \/ pc'[d] \notin Trying \union {"cleaning"}
    BY <1>0, <2>2 DEF Alive, Gone, Trying, ProcOK
  <2> QED BY <2>1, <2>3, WatchedIfUnchanged, InTimeIfUnchanged DEF TimeFor
<1>6. ASSUME NEW c \in Call, JobEnds(c) PROVE TimeFor(d)'
  BY <1>6, WatchedIfUnchanged, InTimeIfUnchanged DEF JobEnds, TimeFor, Alive
<1>7. CASE Stop
  <2>1. server' # "up" /\ waited'[d] = 0 /\ UNCHANGED <<tool, pc, spent, slow>>
    BY <1>7 DEF Stop
  <2>2. spent[d] \in Nat BY <1>0 DEF ProcOK
  <2> QED BY <2>1, <2>2 DEF TimeFor, InTimeFor, Alive, Budget
<1>8. CASE Tick
  <2>1. server' = server BY <1>8 DEF Tick
  <2> QED BY <1>8, <2>1, TickKeepsTime DEF TimeFor
<1>9. CASE UNCHANGED vars
  BY <1>9, WatchedIfUnchanged, InTimeIfUnchanged DEF vars, TimeFor, Alive
<1> QED BY <1>1, <1>2, <1>3, <1>4, <1>5, <1>6, <1>7, <1>8, <1>9 DEF Next, Script

Timely  == \A c \in Call : TimeFor(c)
TimeInv == TypeOK /\ NoJobYet /\ Fresh /\ Timely

LEMMA TimeInvHolds == Spec => []TimeInv
<1>1. Init => Fresh /\ Timely
  <2> SUFFICES ASSUME Init, NEW c \in Call
               PROVE  /\ reply[c] = "none" /\ pc[c] = "none" /\ run[c] = "no"
                      /\ waited[c] = 0 /\ read[c] = 0 /\ TimeFor(c)
    BY DEF Fresh, Timely
  <2> QED BY DEF Init, TimeFor, WatchedFor, InTimeFor, Alive, Gone
<1>2. TimeInv /\ [Next]_vars => Fresh' /\ Timely'
  BY FreshStays, TimeStays DEF TimeInv, Timely
<1>3. JobInv => TypeOK /\ NoJobYet BY DEF JobInv
<1>4. TimeInv <=> TypeOK /\ NoJobYet /\ Fresh /\ Timely BY DEF TimeInv
<1> QED BY <1>1, <1>2, <1>3, <1>4, JobInvHolds, PTL DEF Spec

(* The age at which a job counts as left behind spares every job that a     *)
(* timer still watches: it is older than no timeout (the sweeps of both     *)
(* scripts).                                                                *)
THEOREM SweepSparesTheLivingHolds == Spec => SweepSparesTheLiving
<1>1. ASSUME TimeInv, [Next]_vars, NEW d \in Call, job'[d] = "swept", job[d] # "swept"
      PROVE  ~Alive(d) \/ server # "up"
  <2>0. JobOK /\ ClockOK /\ NodeOK BY <1>1, TypeInParts DEF TimeInv
  <2>1. PICK c \in Call : Sweep(c)
    <3>1. ASSUME NEW c \in Call, Create(c) \/ Finally(c) PROVE FALSE
      <4>1. \/ job' = job
            \/ job' = [job EXCEPT ![c] = "there"]
            \/ job' = [job EXCEPT ![c] = IF @ = "there" THEN "removed" ELSE @]
        BY <3>1 DEF Create, Finally
      <4> QED BY <1>1, <2>0, <4>1 DEF JobOK
    <3>2. ASSUME NEW c \in Call, Script(c), ~Sweep(c) PROVE FALSE
      <4>1. job' = job
        BY <3>1, <3>2 DEF Script, Begin, TooLate, StartJob, PollIdle, GiveUp, ReadFile, Throw,
           ThrowEarly, agent
      <4> QED BY <1>1, <4>1
    <3>3. (\E c \in Call : Script(c)) \/ job' = job
      BY <1>1 DEF Next, Spawn, JobEnds, Close, LaunchFails, Kill, Tick, Stop, vars, agent
    <3> QED BY <1>1, <3>2, <3>3
  <2>2. age[d] > Hour BY <1>1, <2>1 DEF Sweep, LeftBehind
  <2>3. Timeout[tool[d]] <= Hour BY <2>0, KilledWithinTheHour DEF NodeOK
  <2>4. Timeout[tool[d]] \in Nat /\ Hour \in Nat /\ age[d] \in Nat /\ waited[d] \in Nat
    BY <2>0, TimeAssumption DEF NodeOK, JobOK, ClockOK
  <2>5. job[d] = "there" BY <1>1, <2>1 DEF Sweep, LeftBehind
  <2> SUFFICES ASSUME Alive(d), server = "up" PROVE FALSE OBVIOUS
  <2>6. age[d] <= waited[d] /\ waited[d] <= Timeout[tool[d]]
    BY <1>1, <2>5 DEF TimeInv, Timely, TimeFor, WatchedFor
  <2> QED BY <2>2, <2>3, <2>4, <2>6
<1>2. TimeInv /\ [Next]_vars
        => [\A c \in Call : job'[c] = "swept" /\ job[c] # "swept"
              => ~Alive(c) \/ server # "up"]_vars
  BY <1>1
<1> QED BY <1>2, TimeInvHolds, PTL DEF Spec, SweepSparesTheLiving

(* "kept short of the kill, so the finally always gets to run": the budget  *)
(* ends before the timeout, and a call whose every slow step is within it   *)
(* is in its finally, or through with it, when the timer fires.             *)
Kept(c) ==
  pc[c] = "killed" /\ job[c] = "there"
    => c \in slow \/ c \in unremoved \/ Timeout[tool[c]] <= LeastBudget

LEMMA BudgetBeforeTimeout ==
  ASSUME TypeOK, NEW c \in Call PROVE Timeout[tool[c]] <= LeastBudget \/ Budget(c) < Timeout[tool[c]]
  BY TimeAssumption DEF TypeOK, Budget

LEMMA KeptIfUnchanged ==
  ASSUME NEW d \in Call, Kept(d), tool'[d] = tool[d],
         pc'[d] = "killed" /\ job'[d] = "there" =>
           /\ pc[d] = "killed" /\ job[d] = "there"
           /\ d \in slow => d \in slow'
           /\ d \in unremoved => d \in unremoved'
  PROVE  Kept(d)'
  BY DEF Kept

THEOREM FinallyGetsToRunHolds == Spec => []FinallyGetsToRun
<1>1. Init => FinallyGetsToRun BY DEF Init, FinallyGetsToRun
<1>2. TimeInv /\ FinallyGetsToRun /\ [Next]_vars => FinallyGetsToRun'
  <2> SUFFICES ASSUME TimeInv, FinallyGetsToRun, [Next]_vars, NEW d \in Call PROVE Kept(d)'
    BY DEF FinallyGetsToRun, Kept
  <2>0. NodeOK /\ ProcOK /\ ClockOK /\ JobOK /\ Kept(d)
    BY TypeInParts DEF TimeInv, FinallyGetsToRun, Kept
  <2> USE DEF node, proc, agent, past
  <2>1. ASSUME NEW c \in Call, Spawn(c) PROVE Kept(d)'
    <3>1. CASE d = c
      <4>1. pc'[d] # "killed" BY <2>0, <2>1, <3>1 DEF Spawn, Goto, ProcOK
      <4> QED BY <4>1 DEF Kept
    <3>2. CASE d # c
      <4>1. /\ tool'[d] = tool[d] /\ pc'[d] = pc[d] /\ UNCHANGED <<job, slow, unremoved>>
        BY <2>0, <2>1, <3>2 DEF Spawn, Goto, NodeOK, ProcOK
      <4> QED BY <2>0, <4>1, KeptIfUnchanged
    <3> QED BY <3>1, <3>2
  <2>2. ASSUME NEW c \in Call, Script(c) PROVE Kept(d)'
    <3>1. tool' = tool /\ (d \in unremoved => d \in unremoved')
      BY <2>2 DEF Script, Begin, Sweep, TooLate, Create, StartJob, PollIdle, GiveUp, ReadFile,
         Throw, ThrowEarly, Finally
    <3>2. d = c => pc'[d] # "killed"
      BY <2>0, <2>2 DEF Script, Begin, Sweep, TooLate, Create, StartJob, PollIdle, GiveUp,
         ReadFile, Throw, ThrowEarly, Finally, Goto, Leave, AfterThrow, EndOf, ProcOK
    <3>3. d # c => pc'[d] = pc[d] /\ (d \in slow => d \in slow')
      BY <2>0, <2>2 DEF Script, Begin, Sweep, TooLate, Create, StartJob, PollIdle, GiveUp,
         ReadFile, Throw, ThrowEarly, Finally, Goto, Leave, ProcOK
    <3>4. d # c /\ job'[d] = "there" => job[d] = "there"
      BY <2>0, <2>2 DEF Script, Begin, Sweep, TooLate, Create, StartJob, PollIdle, GiveUp,
         ReadFile, Throw, ThrowEarly, Finally, JobOK
    <3>5. CASE d = c BY <3>2, <3>5 DEF Kept
    <3>6. CASE d # c BY <2>0, <3>1, <3>3, <3>4, <3>6, KeptIfUnchanged
    <3> QED BY <3>5, <3>6
  <2>3. ASSUME NEW c \in Call, Kill(c) PROVE Kept(d)'
    <3>1. UNCHANGED <<tool, job, unremoved, age>>
          /\ pc' = [pc EXCEPT ![c] = IF Alive(c) THEN "killed" ELSE pc[c]]
          /\ (pc'[c] = "killed" => slow' = slow) /\ (d # c /\ d \in slow => d \in slow')
      BY <2>0, <2>3 DEF Kill, Leave, ProcOK
    <3>2. CASE d = c /\ Alive(c) /\ job[c] = "there"
      <4> SUFFICES ASSUME c \notin slow, Timeout[tool[c]] > LeastBudget PROVE FALSE
        BY <2>0, <3>1, <3>2, TimeAssumption DEF Kept, ProcOK, NodeOK
      <4>1. pc[c] \in Trying \union {"cleaning"}
        BY <2>0, <3>2 DEF TimeInv, NoJobYet, Alive, Early, ProcOK, Steps
      <4>2. spent[c] <= Budget(c) /\ waited[c] <= Timeout[tool[c]]
            /\ (waited[c] <= spent[c] \/ spent[c] > Budget(c))
        BY <2>3, <3>2, <4>1 DEF Kill, Due, TimeInv, Timely, TimeFor, WatchedFor, InTimeFor
      <4>3. waited[c] >= Timeout[tool[c]] BY <2>3 DEF Kill, Due
      <4>4. Timeout[tool[c]] <= LeastBudget \/ Budget(c) < Timeout[tool[c]]
        BY BudgetBeforeTimeout DEF TimeInv
      <4>5. /\ Budget(c) \in Nat /\ Timeout[tool[c]] \in Nat /\ LeastBudget \in Nat
            /\ spent[c] \in Nat /\ waited[c] \in Nat
        BY <2>0, BudgetIsNat, TimeAssumption DEF TimeInv, ProcOK, ClockOK
      <4> QED BY <4>2, <4>3, <4>4, <4>5
    <3>3. CASE d = c /\ (~Alive(c) \/ job[c] # "there")
      BY <2>0, <3>1, <3>3, KeptIfUnchanged DEF ProcOK
    <3>4. CASE d # c
      BY <2>0, <3>1, <3>4, KeptIfUnchanged DEF ProcOK
    <3> QED BY <3>2, <3>3, <3>4
  <2>4. ASSUME NEW c \in Call, LaunchFails(c) PROVE Kept(d)'
    <3>1. /\ UNCHANGED <<tool, job, unremoved>> /\ pc' = [pc EXCEPT ![c] = "failed"]
          /\ slow' = slow \ {c}
      BY <2>4 DEF LaunchFails, Leave
    <3> QED BY <2>0, <3>1, KeptIfUnchanged DEF ProcOK
  <2>5. ASSUME NEW c \in Call, JobEnds(c) \/ Close(c) PROVE Kept(d)'
    BY <2>0, <2>5, KeptIfUnchanged DEF JobEnds, Close
  <2>6. CASE Tick \/ Stop \/ UNCHANGED vars
    BY <2>0, <2>6, KeptIfUnchanged DEF Tick, Stop, vars
  <2> QED BY <2>1, <2>2, <2>3, <2>4, <2>5, <2>6 DEF Next
<1> QED BY <1>1, <1>2, TimeInvHolds, PTL DEF Spec
=============================================================================
