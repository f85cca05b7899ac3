---------------------- MODULE HealthCheckScriptProofs ----------------------
(***************************************************************************)
(* The safety properties of HealthCheckScript for any catalog of checks,   *)
(* wrapped or not.  The invariant has two halves: how far the script has   *)
(* come (Progress), and which workers and connections are which (Links).   *)
(***************************************************************************)
EXTENDS HealthCheckScript, TLAPS

(* One result for each check before the current one; what runs is a check.  *)
Progress ==
  /\ at \in Place
  /\ check \in 1..Len(Catalog) + 1 /\ attempt \in {1, 2}
  /\ results \in Seq(Outcome) /\ Len(results) = check - 1
  /\ at = "running" => check <= Len(Catalog)

LinkTypes ==
  /\ conn \in Nat /\ made \in Nat
  /\ worker \in [id : 1..made, conn : 0..conn] \union {None}
  /\ stuck \subseteq [id : 1..made, conn : 0..conn]
  /\ abandoned \in BOOLEAN /\ refused \in BOOLEAN
  /\ broken \subseteq 0..conn

(* The worker in use is the latest; the latest is stuck only if there is    *)
(* none in use.                                                             *)
Latest ==
  worker # None => worker.id = made /\ \A w \in stuck : w.id # made

Fresh == ~refused => conn \notin broken \union {w.conn : w \in stuck}

Flagged == stuck # {} => abandoned

Links == LinkTypes /\ WorkerIsCurrent /\ Latest /\ Fresh /\ Flagged

(* Before the first connection nothing was seen broken or left behind.      *)
Untouched ==
  at = "starting" => conn = 0 /\ worker = None /\ made = 0 /\ stuck = {} /\ broken = {}

IInv == Progress /\ Links /\ Untouched

linkVars == <<conn, worker, made, stuck, abandoned, broken, refused>>

----------------------------------------------------------------------------
LEMMA CatalogLength == Len(Catalog) \in Nat /\ \A i \in 1..Len(Catalog) : Catalog[i] \in Kind
  BY ScriptAssumption

(* Every answer has a status, whatever the check.                           *)
LEMMA StatusTyped ==
  ASSUME NEW kind, NEW answer \in Answer
  PROVE  Status(kind, answer) \subseteq Outcome
  BY DEF Status, Answer, Outcome, Verdict

(* A result is added and the script goes to the next check.                 *)
LEMMA ConcludeKeeps ==
  ASSUME Progress, check <= Len(Catalog), NEW status \in Outcome, Conclude(status)
  PROVE  Progress' /\ at' = "next"
<1>1. results' \in Seq(Outcome) /\ Len(results') = Len(results) + 1
  BY DEF Progress, Conclude
<1>2. check' \in 1..Len(Catalog) + 1 /\ check' = check + 1
  BY CatalogLength DEF Progress, Conclude
<1> QED BY <1>1, <1>2 DEF Progress, Conclude, Place

(* With an untouched link state the two halves are independent.             *)
LEMMA LinksSame == ASSUME Links, UNCHANGED linkVars PROVE Links'
  BY DEF Links, LinkTypes, WorkerIsCurrent, Latest, Fresh, Flagged, linkVars

(* A reconnect and a new worker, after seeing connection conn broken or     *)
(* leaving the worker behind.                                               *)
LEMMA RenewKeeps ==
  ASSUME Links, Reconnect, NewWorker,
         broken' \subseteq broken \union {conn},
         \/ UNCHANGED <<stuck, abandoned>>
         \/ worker # None /\ stuck' = stuck \union {worker} /\ abandoned' = TRUE
  PROVE  Links'
<1> USE ScriptAssumption DEF Links
<1>1. /\ conn \in Nat /\ made \in Nat /\ conn' \in {conn, conn + 1}
      /\ made' \in {made, made + 1}
      /\ worker' # None => worker' = [id |-> made + 1, conn |-> conn'] /\ made' = made + 1
  BY DEF LinkTypes, Reconnect, NewWorker
<1>2. stuck' \subseteq [id : 1..made, conn : 0..conn]
  BY DEF LinkTypes
<1>3. LinkTypes'
  <2>1. /\ 1..made \subseteq 1..made' /\ 0..conn \subseteq 0..conn' /\ conn \in 0..conn'
        /\ conn' \in 0..conn'
    BY <1>1
  <2>2. stuck' \subseteq [id : 1..made', conn : 0..conn'] BY <1>2, <2>1
  <2>3. broken' \subseteq 0..conn' BY <2>1 DEF LinkTypes
  <2>4. worker' \in [id : 1..made', conn : 0..conn'] \union {None}
    <3>1. CASE worker' = None BY <3>1
    <3>2. CASE worker' # None
      <4>1. made + 1 \in 1..made' BY <3>2, <1>1
      <4> QED BY <3>2, <4>1, <2>1, <1>1
    <3> QED BY <3>1, <3>2
  <2>5. abandoned' \in BOOLEAN /\ refused' \in BOOLEAN BY Zenon DEF LinkTypes, Reconnect
  <2>6. conn' \in Nat /\ made' \in Nat BY <1>1
  <2> QED BY <2>2, <2>3, <2>4, <2>5, <2>6 DEF LinkTypes
<1>4. WorkerIsCurrent' BY <1>1 DEF WorkerIsCurrent
<1>5. Latest'
  <2>1. \A w \in stuck' : w.id \in 1..made BY <1>2
  <2> QED BY <2>1, <1>1 DEF Latest
<1>6. Fresh'
  <2>1. CASE refused' = TRUE BY <2>1 DEF Fresh
  <2>2. CASE refused' = FALSE
    <3>1. conn' = conn + 1 BY <2>2 DEF Reconnect
    <3>2. \A w \in stuck' : w.conn \in 0..conn BY <1>2
    <3>3. \A c \in broken' : c \in 0..conn BY <1>1 DEF LinkTypes
    <3> QED BY <3>1, <3>2, <3>3, <1>1 DEF Fresh
  <2> QED BY <2>1, <2>2 DEF Reconnect
<1>7. Flagged' BY DEF Flagged
<1> QED BY <1>3, <1>4, <1>5, <1>6, <1>7

(* The same without a worker to replace: only the connection changes.       *)
LEMMA ReconnectKeeps ==
  ASSUME Links, Reconnect, worker = None, UNCHANGED <<worker, made, stuck, abandoned>>,
         broken' \subseteq broken \union {conn}
  PROVE  Links'
<1> USE DEF Links
<1>1. conn \in Nat /\ conn' \in {conn, conn + 1} BY DEF LinkTypes, Reconnect
<1>2. 0..conn \subseteq 0..conn' /\ conn \in 0..conn' BY <1>1
<1>3. LinkTypes'
  <2>1. stuck' \subseteq [id : 1..made', conn : 0..conn'] BY <1>2 DEF LinkTypes
  <2>2. broken' \subseteq 0..conn' BY <1>2 DEF LinkTypes
  <2>3. abandoned' \in BOOLEAN /\ refused' \in BOOLEAN BY Zenon DEF LinkTypes, Reconnect
  <2>4. conn' \in Nat /\ made' \in Nat /\ worker' = None BY <1>1 DEF LinkTypes
  <2> QED BY <2>1, <2>2, <2>3, <2>4 DEF LinkTypes
<1>4. Fresh'
  <2>1. CASE refused' = TRUE BY <2>1 DEF Fresh
  <2>2. CASE refused' = FALSE
    <3>1. conn' = conn + 1 BY <2>2 DEF Reconnect
    <3>2. \A w \in stuck' : w.conn \in 0..conn BY DEF LinkTypes
    <3>3. \A c \in broken' : c \in 0..conn BY <1>1 DEF LinkTypes
    <3> QED BY <3>1, <3>2, <3>3, <1>1 DEF Fresh
  <2> QED BY <2>1, <2>2 DEF Reconnect
<1>5. WorkerIsCurrent' /\ Latest' /\ Flagged'
  BY DEF WorkerIsCurrent, Latest, Flagged
<1> QED BY <1>3, <1>4, <1>5

LEMMA ResetKeeps ==
  ASSUME Links, ResetConnection, UNCHANGED <<stuck, abandoned>>,
         broken' = broken \union {conn}
  PROVE  Links'
<1>1. CASE worker # None BY <1>1, RenewKeeps DEF ResetConnection
<1>2. CASE worker = None BY <1>2, ReconnectKeeps DEF ResetConnection
<1> QED BY <1>1, <1>2

----------------------------------------------------------------------------
LEMMA InitHolds == Init => IInv
<1> SUFFICES ASSUME Init PROVE IInv OBVIOUS
<1> USE ScriptAssumption, CatalogLength DEF Init
<1>1. Progress BY DEF Progress, Place
<1>2. Links BY DEF Links, LinkTypes, WorkerIsCurrent, Latest, Fresh, Flagged
<1> QED BY <1>1, <1>2 DEF IInv, Untouched

(* The first connection, and the first worker where checks are wrapped.     *)
LEMMA ConnectKeeps == ASSUME IInv, Connect PROVE IInv'
<1> USE ScriptAssumption DEF IInv
<1>1. /\ at = "starting" /\ conn = 0 /\ worker = None /\ made = 0 /\ stuck = {} /\ broken = {}
      /\ at' = "next" /\ conn' = 1 /\ stuck' = {} /\ broken' = {}
      /\ UNCHANGED <<check, attempt, abandoned, refused, results>>
  BY DEF Connect, Untouched
<1>2. \/ worker' = None /\ made' = 0
      \/ worker' = [id |-> 1, conn |-> 1] /\ made' = 1
  BY <1>1 DEF Connect, NewWorker
<1>3. Progress' BY <1>1 DEF Progress, Place
<1>4. LinkTypes' BY <1>1, <1>2 DEF Links, LinkTypes
<1>5. WorkerIsCurrent' /\ Latest' /\ Fresh' /\ Flagged'
  BY <1>1, <1>2 DEF WorkerIsCurrent, Latest, Fresh, Flagged
<1> QED BY <1>1, <1>3, <1>4, <1>5 DEF Links, Untouched

(* The steps of the script that leave the links alone.                      *)
LEMMA StepsKeep ==
  ASSUME IInv, ConnectFails \/ Skip \/ Begin \/ Answered \/ Throws \/ Write \/ Exit \/ Killed
  PROVE  IInv'
<1> USE DEF IInv
<1>1. UNCHANGED linkVars
  BY DEF ConnectFails, Skip, Begin, Answered, Throws, Write, Exit, Killed, linkVars
<1>2. Links' BY <1>1, LinksSame
<1>3. Progress' /\ at' # "starting"
  <2>1. CASE ConnectFails \/ Begin \/ Write \/ Exit \/ Killed
    BY <2>1 DEF ConnectFails, Begin, Write, Exit, Killed, Progress, Place
  <2>2. CASE Skip BY <2>2, ConcludeKeeps DEF Skip, Outcome
  <2>3. CASE Answered
    <3>1. PICK answer \in Answer : \E status \in Status(Catalog[check], answer) : Conclude(status)
      BY <2>3 DEF Answered
    <3> PICK status \in Status(Catalog[check], answer) : Conclude(status) BY <3>1
    <3>2. status \in Outcome BY <3>1, StatusTyped
    <3>3. check <= Len(Catalog) BY <2>3 DEF Answered, Progress
    <3> QED BY <3>1, <3>2, <3>3, ConcludeKeeps
  <2>4. CASE Throws
    <3>1. check <= Len(Catalog) BY <2>4 DEF Throws, Progress
    <3> QED BY <2>4, <3>1, ConcludeKeeps DEF Throws, Outcome
  <2> QED BY <2>1, <2>2, <2>3, <2>4
<1> QED BY <1>2, <1>3 DEF Untouched

(* A connection-state failure: renewed, then retried or reported.           *)
LEMMA ConnectionFailsKeeps == ASSUME IInv, ConnectionFails PROVE IInv'
<1> USE DEF IInv
<1>1. Links' BY ResetKeeps DEF ConnectionFails, Recover
<1>2. at = "running" /\ check <= Len(Catalog) BY DEF ConnectionFails, Progress
<1>3. Progress' /\ at' # "starting"
  <2>1. CASE attempt < 2 BY <1>2, <2>1 DEF ConnectionFails, RetryOnce, Progress
  <2>2. CASE ~(attempt < 2)
    BY <1>2, <2>2, ConcludeKeeps DEF ConnectionFails, RetryOnce, Outcome
  <2> QED BY <2>1, <2>2
<1> QED BY <1>1, <1>3 DEF Untouched

(* The cap: the worker is left behind, flagged, and everything renewed.     *)
LEMMA CutOffKeeps == ASSUME IInv, CutOff PROVE IInv'
<1> USE DEF IInv
<1>1. Links' BY RenewKeeps DEF CutOff, Abandon, Flag
<1>2. at = "running" /\ check <= Len(Catalog) BY DEF CutOff, Progress
<1>3. Progress' /\ at' = "next" BY <1>2, ConcludeKeeps DEF CutOff, Outcome
<1> QED BY <1>1, <1>3 DEF Untouched

LEMMA StuckEndsKeeps == ASSUME IInv, NEW w \in stuck, StuckEnds(w) PROVE IInv'
<1> USE DEF IInv
<1>1. stuck' \subseteq stuck /\ UNCHANGED <<at, check, attempt, conn, worker, made, abandoned, broken, refused, results>>
  BY DEF StuckEnds
<1>2. Progress' BY <1>1 DEF Progress
<1>3. Links' BY <1>1 DEF Links, LinkTypes, WorkerIsCurrent, Latest, Fresh, Flagged
<1> QED BY <1>1, <1>2, <1>3 DEF Untouched

LEMMA NextKeeps == IInv /\ [Next]_vars => IInv'
<1> SUFFICES ASSUME IInv, [Next]_vars PROVE IInv' OBVIOUS
<1>1. CASE Connect BY <1>1, ConnectKeeps
<1>2. CASE ConnectFails \/ Skip \/ Begin \/ Answered \/ Throws \/ Write \/ Exit \/ Killed
  BY <1>2, StepsKeep
<1>3. CASE ConnectionFails BY <1>3, ConnectionFailsKeeps
<1>4. CASE CutOff BY <1>4, CutOffKeeps
<1>5. CASE \E w \in stuck : StuckEnds(w) BY <1>5, StuckEndsKeeps
<1>6. CASE UNCHANGED vars
  <2>1. Links' BY <1>6, LinksSame DEF IInv, vars, linkVars
  <2> QED BY <1>6, <2>1 DEF IInv, Progress, Untouched, vars
<1> QED BY <1>1, <1>2, <1>3, <1>4, <1>5, <1>6 DEF Next, Step

(* What the script keeps at every moment: one result per check in order, a  *)
(* worker that is the latest made, on the present connection, and a flag    *)
(* set whenever a command was left behind (dbatools.ts 2264-2312,           *)
(* 2528-2576).                                                              *)
THEOREM Invariance == SafeSpec => []IInv
  BY InitHolds, NextKeeps, PTL DEF SafeSpec

(* The module's type invariant, which also says that the results are one    *)
(* for each check before the current one.                                   *)
THEOREM TypeCorrect == SafeSpec => []TypeOK
<1>1. IInv => TypeOK BY DEF IInv, Progress, Links, LinkTypes, TypeOK
<1> QED BY <1>1, Invariance, PTL

(* However often workers are abandoned or replaced, the one in use has the  *)
(* script's present connection (dbatools.ts 2269, 2276-2279).               *)
THEOREM WorkerIsCurrentHolds == SafeSpec => []WorkerIsCurrent
<1>1. IInv => WorkerIsCurrent BY DEF IInv, Links
<1> QED BY <1>1, Invariance, PTL

(* No check waits behind an abandoned command (dbatools.ts 2302-2308).      *)
THEOREM NotBehindAStuckOneHolds == SafeSpec => []NotBehindAStuckOne
<1>1. IInv => NotBehindAStuckOne
  BY ScriptAssumption DEF IInv, Links, LinkTypes, Latest, NotBehindAStuckOne
<1> QED BY <1>1, Invariance, PTL

(* A connection seen broken or left to an abandoned command is used again   *)
(* only after a failed reconnect (dbatools.ts 2307, 2570).                  *)
THEOREM FreshUnlessRefusedHolds == SafeSpec => []FreshUnlessRefused
<1>1. IInv => FreshUnlessRefused BY DEF IInv, Links, Fresh, FreshUnlessRefused
<1> QED BY <1>1, Invariance, PTL

(* A written report is never held back by a command that was abandoned      *)
(* (dbatools.ts 2585-2587).                                                 *)
THEOREM WrittenIsDeliveredHolds == SafeSpec => []WrittenIsDelivered
<1>1. IInv => WrittenIsDelivered BY DEF IInv, Links, Flagged, WrittenIsDelivered
<1> QED BY <1>1, Invariance, PTL
=============================================================================
