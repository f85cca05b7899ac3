-------------------------- MODULE PwshWorkerProofs --------------------------
(***************************************************************************)
(* The safety of PwshWorker for every set of calls, every queue bound and  *)
(* every restart limit, and its implementation of CallBroker's steps.      *)
(***************************************************************************)
EXTENDS PwshWorker, FiniteSetTheorems, TLAPS

(* A call that began is waiting for its start(), in flight or settled, and *)
(* only one of these; a process exists only once its call began.           *)
LifeCycle ==
  /\ \A c \in starting : outcome[c] = Unsettled /\ pending[c] = None
  /\ \A c \in Call : phase[c] # "none" =>
       c \in starting \cup InFlight \/ outcome[c] # Unsettled

(* A signal is outstanding only for a process whose exit was not seen. *)
KilledRun == \A p \in killed : phase[p] = "running"

(* A process is live only while the restart limit is not passed. *)
Limit == proc # None => restarts <= MaxRestarts

Born == {p \in Proc : phase[p] # "none"}

IInv ==
  /\ TypeOK
  /\ SettledOnce
  /\ SlotIsUsable
  /\ NoOrphan
  /\ NoStraggler
  /\ CountedOnce
  /\ LifeCycle
  /\ KilledRun
  /\ Limit

-----------------------------------------------------------------------------
(* The set of processes ever spawned is finite, and taking the live one    *)
(* out of the count or putting it back changes the count by one.           *)
LEMMA BornCount ==
  ASSUME TypeOK
  PROVE  /\ IsFiniteSet(Born)
         /\ \A p \in Proc \cup {None} : Cardinality(Born \ {p}) \in Nat
         /\ proc \in Born => Cardinality(Born) = Cardinality(Born \ {proc}) + 1
<1>1. IsFiniteSet(Born)
  BY FS_Subset, WorkerAssumption DEF Born, Proc
<1>2. ASSUME NEW p \in Proc \cup {None} PROVE Cardinality(Born \ {p}) \in Nat
  BY <1>1, FS_RemoveElement, FS_CardinalityType, FS_Subset
<1>3. ASSUME proc \in Born PROVE Cardinality(Born) = Cardinality(Born \ {proc}) + 1
  <2>1. Cardinality(Born) \in Nat
    BY <1>1, FS_CardinalityType
  <2>2. Cardinality(Born \ {proc}) = Cardinality(Born) - 1
    BY <1>1, <1>3, FS_RemoveElement
  <2> QED BY <2>1, <2>2
<1> QED BY <1>1, <1>2, <1>3

(* InFlight is finite, so that its size and the queue bound compare. *)
LEMMA InFlightCount ==
  IsFiniteSet(InFlight) /\ Cardinality(InFlight) \in Nat
BY FS_Subset, FS_CardinalityType, WorkerAssumption DEF InFlight

LEMMA InitIInv == Init => IInv
<1> SUFFICES ASSUME Init PROVE IInv
  OBVIOUS
<1> USE WorkerAssumption
<1>1. TypeOK
  BY DEF Init, TypeOK, Proc, Outcome, Phase, Unsettled, Empty
<1>2. CountedOnce
  BY <1>1, BornCount DEF Init, CountedOnce, Born, TypeOK
<1>3. /\ SettledOnce /\ SlotIsUsable /\ NoOrphan /\ NoStraggler
      /\ LifeCycle /\ KilledRun /\ Limit
  BY DEF Init, SettledOnce, SlotIsUsable, NoOrphan, NoStraggler, LifeCycle,
         KilledRun, Limit, InFlight, Proc
<1> QED BY <1>1, <1>2, <1>3 DEF IInv

-----------------------------------------------------------------------------
(* One lemma per group of actions; each conjunct of the invariant that the *)
(* group can disturb has its step.                                         *)

LEMMA SubmitIInv ==
  ASSUME IInv, NEW c \in Call,
         c \in starting \/ Fresh(c),
         proc # None, Submit(c, proc),
         starting' = starting \ {c},
         UNCHANGED <<proc, restarts, buf, phase, killed, half>>
  PROVE  IInv'
<1> USE WorkerAssumption DEF Proc
<1>0. proc \in Proc
  BY DEF IInv, TypeOK
<1>1. outcome[c] = Unsettled /\ pending[c] = None
  BY DEF IInv, LifeCycle, Fresh, InFlight
<1>2. TypeOK'
  <2>1. inbox' \in [Proc -> Seq(Call)]
    <3>1. Append(inbox[proc], c) \in Seq(Call)
      BY <1>0 DEF IInv, TypeOK
    <3>2. inbox \in [Proc -> Seq(Call)] BY DEF IInv, TypeOK
    <3>3. inbox' = inbox \/ inbox' = [inbox EXCEPT ![proc] = Append(@, c)] BY DEF Submit
    <3> QED BY <1>0, <3>1, <3>2, <3>3
  <2>2. pending' \in [Call -> Proc \cup {None}]
    BY <1>0 DEF IInv, TypeOK, Submit
  <2>3. armed' \subseteq Call
    BY DEF IInv, TypeOK, Submit, SetTimer
  <2>4. outcome' \in [Call -> Outcome]
    BY DEF IInv, TypeOK, Submit, Refuse, Outcome
  <2> QED BY <2>1, <2>2, <2>3, <2>4 DEF IInv, TypeOK
<1>3. SettledOnce'
  BY <1>1, <1>0 DEF IInv, TypeOK, SettledOnce, Submit, SetTimer, Refuse, InFlight
<1>4. NoStraggler'
  BY <1>1, <1>0 DEF IInv, TypeOK, NoStraggler, SlotIsUsable, Submit, Refuse, InFlight
<1>5. LifeCycle'
  BY <1>1, <1>0 DEF IInv, TypeOK, LifeCycle, Submit, Refuse, InFlight, Unsettled
<1>6. SlotIsUsable' /\ NoOrphan' /\ CountedOnce' /\ KilledRun' /\ Limit'
  BY DEF IInv, SlotIsUsable, NoOrphan, CountedOnce, KilledRun, Limit
<1> QED BY <1>2, <1>3, <1>4, <1>5, <1>6 DEF IInv

LEMMA RefuseIInv ==
  ASSUME IInv, NEW c \in Call,
         c \in starting \/ Fresh(c),
         Refuse(c),
         starting' = starting \ {c},
         UNCHANGED <<proc, restarts, pending, armed, buf>>,
         UNCHANGED procVars
  PROVE  IInv'
<1> USE WorkerAssumption DEF Proc, procVars
<1>1. outcome[c] = Unsettled /\ pending[c] = None
  BY DEF IInv, LifeCycle, Fresh, InFlight
<1>2. TypeOK'
  BY DEF IInv, TypeOK, Refuse, Outcome
<1>3. SettledOnce'
  BY <1>1 DEF IInv, TypeOK, SettledOnce, Refuse, InFlight
<1>5. LifeCycle'
  BY <1>1 DEF IInv, TypeOK, LifeCycle, Refuse, InFlight, Unsettled
<1>6. /\ SlotIsUsable' /\ NoOrphan' /\ NoStraggler' /\ CountedOnce'
      /\ KilledRun' /\ Limit'
  BY DEF IInv, SlotIsUsable, NoOrphan, NoStraggler, CountedOnce, KilledRun, Limit,
         InFlight
<1> QED BY <1>2, <1>3, <1>5, <1>6 DEF IInv

LEMMA StartIInv ==
  ASSUME IInv, NEW c \in Call, Start(c)
  PROVE  IInv'
<1> USE WorkerAssumption DEF Proc, Start
<1>1. /\ outcome[c] = Unsettled /\ pending[c] = None /\ c \notin starting
      /\ phase[c] = "none" /\ c \notin killed
  BY DEF IInv, LifeCycle, Fresh, InFlight, KilledRun
<1>2. TypeOK'
  BY DEF IInv, TypeOK, Phase
<1>3. CountedOnce'
  <2>1. Born \ {proc} = Born
    BY DEF Born
  <2>2. Born' \ {proc'} = Born
    BY <1>1 DEF Born, IInv, TypeOK
  <2> QED BY <2>1, <2>2 DEF IInv, CountedOnce, Born
<1>4. SlotIsUsable' /\ NoOrphan' /\ NoStraggler' /\ KilledRun'
  BY <1>1 DEF IInv, TypeOK, SlotIsUsable, NoOrphan, NoStraggler, KilledRun, InFlight
<1>5. SettledOnce' /\ LifeCycle' /\ Limit'
  BY <1>1 DEF IInv, TypeOK, SettledOnce, LifeCycle, Limit, GaveUp, InFlight
<1> QED BY <1>2, <1>3, <1>4, <1>5 DEF IInv

LEMMA AnswerIInv ==
  ASSUME IInv, NEW c \in Call, NEW ok \in BOOLEAN,
         OnAnswer(c, ok) \/ IgnoreLine,
         UNCHANGED <<proc, starting, phase, killed>>,
         buf' = Empty,
         half' \subseteq Proc, inbox' \in [Proc -> Seq(Call)]
  PROVE  IInv'
<1> USE WorkerAssumption DEF Proc, OnAnswer, IgnoreLine, ClearTimers
<1>1. restarts' \in 0 .. MaxRestarts + 1 /\ restarts' <= restarts
  BY DEF IInv, TypeOK
<1>2. TypeOK'
  BY <1>1 DEF IInv, TypeOK, Outcome
<1>3. CountedOnce'
  <2>1. Cardinality(Born \ {proc}) \in Nat
    BY BornCount DEF IInv, TypeOK
  <2>2. restarts' <= Cardinality(Born \ {proc})
    BY <1>1, <2>1 DEF IInv, TypeOK, CountedOnce, Born
  <2> QED BY <2>2 DEF CountedOnce, Born
<1>4. SlotIsUsable' /\ NoOrphan' /\ KilledRun'
  BY DEF IInv, TypeOK, SlotIsUsable, NoOrphan, KilledRun
<1>5. \A d \in Call : pending'[d] \in {pending[d], None}
  BY DEF IInv, TypeOK, InFlight
<1>6. NoStraggler' /\ SettledOnce' /\ LifeCycle'
  <2>1. NoStraggler'
    BY <1>5 DEF IInv, NoStraggler, InFlight
  <2>2. SettledOnce'
    <3>1. CASE OnAnswer(c, ok)
      <4>1. InFlight' = InFlight \ {c}
        BY <3>1 DEF IInv, TypeOK, InFlight
      <4>2. armed' = InFlight'
        BY <3>1, <4>1 DEF IInv, SettledOnce
      <4>3. \A d \in InFlight' : outcome'[d] = Unsettled
        BY <3>1, <4>1 DEF IInv, TypeOK, SettledOnce
      <4> QED BY <4>2, <4>3 DEF SettledOnce
    <3>2. CASE IgnoreLine
      BY <3>2 DEF IInv, SettledOnce, InFlight
    <3> QED BY <3>1, <3>2
  <2>3. LifeCycle'
    BY DEF IInv, TypeOK, LifeCycle, InFlight, Unsettled
  <2> QED BY <2>1, <2>2, <2>3
<1>7. Limit'
  BY <1>1 DEF IInv, TypeOK, Limit
<1> QED BY <1>2, <1>3, <1>4, <1>6, <1>7 DEF IInv

(* Giving up the slot and counting a restart, for a process that is in the *)
(* slot or not. *)
LEMMA DisownCount ==
  ASSUME IInv, NEW p \in Proc, Disown(p)
  PROVE  /\ proc' \in Proc \cup {None} /\ restarts' \in 0 .. MaxRestarts + 1
         /\ restarts' <= Cardinality(Born \ {proc'})
         /\ proc' # None => restarts' <= MaxRestarts
<1> USE WorkerAssumption DEF Proc, Disown
<1>1. Cardinality(Born \ {proc}) \in Nat /\ restarts <= Cardinality(Born \ {proc})
  BY BornCount DEF IInv, TypeOK, CountedOnce, Born
<1>2. CASE proc = p
  <2>1. proc \in Born /\ proc' = None
    BY <1>2 DEF IInv, SlotIsUsable, Born
  <2>2. Cardinality(Born) = Cardinality(Born \ {proc}) + 1
    BY <2>1, BornCount DEF IInv
  <2>3. Born \ {proc'} = Born
    BY <2>1 DEF Born
  <2>4. restarts \in 0 .. MaxRestarts + 1 /\ restarts <= MaxRestarts
    BY <1>2 DEF IInv, TypeOK, Limit
  <2>5. restarts' = restarts + 1 /\ restarts' <= Cardinality(Born)
    BY <1>1, <1>2, <2>2, <2>4
  <2>6. restarts' \in 0 .. MaxRestarts + 1
    BY <2>4, <2>5
  <2>7. restarts' <= Cardinality(Born \ {proc'})
    BY <2>3, <2>5
  <2> QED BY <2>1, <2>6, <2>7
<1>3. CASE proc # p
  BY <1>1, <1>3 DEF IInv, TypeOK, Limit
<1> QED BY <1>2, <1>3

LEMMA TimeoutIInv ==
  ASSUME IInv, NEW c \in Call, Timeout(c)
  PROVE  IInv'
<1> DEFINE p == pending[c]
<1> USE WorkerAssumption DEF Proc, Timeout
<1>1. p \in Proc /\ Disown(p) /\ phase[p] = "running"
  BY DEF IInv, TypeOK, SettledOnce, InFlight, NoStraggler, AtEventLoop
<1>2. TypeOK'
  BY <1>1, DisownCount DEF IInv, TypeOK, Kill, Outcome
<1>3. CountedOnce' /\ Limit'
  BY <1>1, DisownCount DEF CountedOnce, Limit, Born
<1>4. SettledOnce'
  BY DEF IInv, TypeOK, SettledOnce, InFlight
<1>5. SlotIsUsable' /\ NoOrphan' /\ KilledRun'
  BY <1>1 DEF IInv, TypeOK, SlotIsUsable, NoOrphan, KilledRun, Kill, Disown
<1>6. NoStraggler'
  BY DEF IInv, TypeOK, NoStraggler, InFlight
<1>7. LifeCycle'
  BY DEF IInv, TypeOK, LifeCycle, InFlight, Unsettled, AtEventLoop, SettledOnce
<1> QED BY <1>2, <1>3, <1>4, <1>5, <1>6, <1>7 DEF IInv

LEMMA SettleIInv ==
  ASSUME IInv, NEW p \in Proc, Settle(p),
         phase[p] \in {"running", "failing"},
         NEW gone \in {"exited", "drained"},
         phase' = [phase EXCEPT ![p] = gone],
         killed' = killed \ {p},
         UNCHANGED <<inbox, half>>
  PROVE  IInv'
<1> USE WorkerAssumption DEF Proc, Settle, CallsOf, ClearTimers
<1>1. Disown(p) /\ p \in Born
  BY DEF Born
<1>2. TypeOK'
  BY <1>1, DisownCount DEF IInv, TypeOK, Phase, Outcome
<1>3. CountedOnce' /\ Limit'
  <2>1. Born' = Born
    BY <1>1 DEF Born, IInv, TypeOK
  <2> QED BY <1>1, <2>1, DisownCount DEF CountedOnce, Limit, Born
<1>4. SettledOnce'
  BY DEF IInv, TypeOK, SettledOnce, InFlight
<1>5. SlotIsUsable' /\ NoOrphan' /\ KilledRun'
  BY <1>1 DEF IInv, TypeOK, SlotIsUsable, NoOrphan, KilledRun, Disown
<1>6. NoStraggler'
  BY DEF IInv, TypeOK, NoStraggler, InFlight
<1>7. LifeCycle'
  BY DEF IInv, TypeOK, LifeCycle, InFlight, Unsettled, SettledOnce
<1> QED BY <1>2, <1>3, <1>4, <1>5, <1>6, <1>7 DEF IInv

-----------------------------------------------------------------------------
LEMMA NextIInv == IInv /\ [Next]_vars => IInv'
<1> SUFFICES ASSUME IInv, [Next]_vars PROVE IInv'
  OBVIOUS
<1> USE WorkerAssumption
<1>1. ASSUME NEW c \in Call, CallLive(c) PROVE IInv'
  BY <1>1, SubmitIInv DEF CallLive, Fresh
<1>2. ASSUME NEW c \in Call, StartRefused(c) PROVE IInv'
  BY <1>2, RefuseIInv DEF StartRefused, Fresh
<1>3. ASSUME NEW c \in Call, Start(c) PROVE IInv'
  BY <1>3, StartIInv
<1>4. ASSUME NEW c \in Call, Resume(c) PROVE IInv'
  <2>1. CASE proc = None
    BY <1>4, <2>1, RefuseIInv DEF Resume, procVars
  <2>2. CASE proc # None
    BY <1>4, <2>2, SubmitIInv DEF Resume
  <2> QED BY <2>1, <2>2
<1>5. ASSUME NEW c \in Call, Timeout(c) PROVE IInv'
  BY <1>5, TimeoutIInv
<1>6. ASSUME NEW p \in Proc, NEW ok \in BOOLEAN,
             WholeLine(p, ok) \/ SecondHalf(p, ok)
      PROVE  IInv'
  <2> DEFINE c == Head(inbox[p])
  <2>1. inbox[p] \in Seq(Call) /\ inbox[p] # <<>>
    BY <1>6 DEF WholeLine, SecondHalf, Readable, IInv, TypeOK
  <2>2. c \in Call /\ Tail(inbox[p]) \in Seq(Call)
    BY <2>1
  <2>3. inbox' \in [Proc -> Seq(Call)] /\ half' \subseteq Proc
    BY <1>6, <2>2 DEF WholeLine, SecondHalf, IInv, TypeOK
  <2>4. /\ OnAnswer(c, ok) \/ IgnoreLine
        /\ UNCHANGED <<proc, starting, phase, killed>> /\ buf' = Empty
    BY <1>6 DEF WholeLine, SecondHalf
  <2> QED BY <2>2, <2>3, <2>4, AnswerIInv
<1>7. ASSUME NEW p \in Proc, FirstHalf(p) PROVE IInv'
  <2>1. Head(inbox[p]) \in Call
    BY <1>7 DEF FirstHalf, Readable, IInv, TypeOK
  <2>2. TypeOK'
    BY <1>7, <2>1 DEF FirstHalf, IInv, TypeOK
  <2> QED
    BY <1>7, <2>2 DEF FirstHalf, IInv, SettledOnce, SlotIsUsable, NoOrphan,
       NoStraggler, CountedOnce, LifeCycle, KilledRun, Limit, InFlight
<1>8. ASSUME NEW p \in Proc, Drain(p) PROVE IInv'
  <2>1. TypeOK'
    BY <1>8 DEF Drain, IInv, TypeOK, Phase, jsVars
  <2>2. CountedOnce'
    <3>1. Born' = Born
      BY <1>8 DEF Drain, Born, IInv, TypeOK
    <3> QED BY <1>8, <3>1 DEF Drain, jsVars, IInv, CountedOnce, Born
  <2>3. /\ SettledOnce' /\ SlotIsUsable' /\ NoOrphan' /\ NoStraggler'
        /\ LifeCycle' /\ KilledRun' /\ Limit'
    BY <1>8 DEF Drain, jsVars, IInv, TypeOK, SettledOnce, SlotIsUsable, NoOrphan,
       NoStraggler, LifeCycle, KilledRun, Limit, InFlight, Proc
  <2> QED BY <2>1, <2>2, <2>3 DEF IInv
<1>9. ASSUME NEW p \in Proc, Exit(p) PROVE IInv'
  <2> DEFINE gone == IF inbox[p] = <<>> THEN "drained" ELSE "exited"
  <2>1. phase' = [phase EXCEPT ![p] = gone] /\ gone \in {"exited", "drained"}
    BY <1>9 DEF Exit
  <2> HIDE DEF gone
  <2> QED BY <1>9, <2>1, SettleIInv DEF Exit
<1>10. ASSUME NEW p \in Proc, SpawnError(p) PROVE IInv'
  <2>1. p \notin killed /\ phase[p] = "failing"
    BY <1>10 DEF SpawnError, IInv, KilledRun
  <2>2. killed' = killed \ {p}
    BY <1>10, <2>1 DEF SpawnError
  <2> QED BY <1>10, <2>1, <2>2, SettleIInv DEF SpawnError
<1>11. ASSUME Stop PROVE IInv'
  <2>1. TypeOK' /\ Limit'
    BY <1>11 DEF Stop, Kill, IInv, TypeOK, Limit
  <2>2. CountedOnce'
    <3>1. /\ Cardinality(Born) \in Nat /\ proc \in Born /\ proc' = None
          /\ Cardinality(Born) = Cardinality(Born \ {proc}) + 1
          /\ Cardinality(Born \ {proc}) \in Nat
      BY <1>11, BornCount, FS_CardinalityType
         DEF Stop, IInv, TypeOK, SlotIsUsable, Born
    <3>2. Born' \ {proc'} = Born
      BY <1>11, <3>1 DEF Stop, Born, Proc
    <3>3. restarts <= Cardinality(Born) /\ restarts' = restarts
      BY <1>11, <3>1 DEF Stop, IInv, TypeOK, CountedOnce, Born
    <3> QED BY <3>2, <3>3 DEF CountedOnce, Born
  <2>3. /\ SettledOnce' /\ SlotIsUsable' /\ NoOrphan' /\ NoStraggler'
        /\ LifeCycle' /\ KilledRun'
    BY <1>11 DEF Stop, Kill, IInv, TypeOK, SettledOnce, SlotIsUsable, NoOrphan,
       NoStraggler, LifeCycle, KilledRun, InFlight, AtEventLoop
  <2> QED BY <2>1, <2>2, <2>3 DEF IInv
<1>12. ASSUME UNCHANGED vars PROVE IInv'
  BY <1>12 DEF vars, IInv, TypeOK, SettledOnce, SlotIsUsable, NoOrphan,
     NoStraggler, CountedOnce, LifeCycle, KilledRun, Limit, InFlight
<1> QED
  BY <1>1, <1>2, <1>3, <1>4, <1>5, <1>6, <1>7, <1>8, <1>9, <1>10, <1>11, <1>12
     DEF Next

(* The inductive invariant holds of every behaviour. *)
THEOREM Invariance == Spec => []IInv
BY InitIInv, NextIInv, PTL DEF Spec
-----------------------------------------------------------------------------
(* A late answer, an exit and a timeout racing for one call settle it      *)
(* once, and no timer is left armed for a call that is over, for any       *)
(* number of calls and processes.                                          *)
THEOREM SettledOnceHolds == Spec => []SettledOnce
BY Invariance, PTL DEF IInv

(* The slot never holds a process known to be dying. *)
THEOREM SlotIsUsableHolds == Spec => []SlotIsUsable
BY Invariance, PTL DEF IInv

(* No running process is unreachable: it is in the slot or was signalled.  *)
THEOREM NoOrphanHolds == Spec => []NoOrphan
BY Invariance, PTL DEF IInv

(* Once the end of a process was seen, none of its calls is left pending.  *)
THEOREM NoStragglerHolds == Spec => []NoStraggler
BY Invariance, PTL DEF IInv

(* Each process counts at most once towards the restart limit. *)
THEOREM CountedOnceHolds == Spec => []CountedOnce
BY Invariance, PTL DEF IInv

(* A call fails with its own process only: whenever a call is settled as   *)
(* "died", the process whose end is being handled is the one its request   *)
(* was written to.                                                         *)
LEMMA StepDiesWithItsOwn ==
  ASSUME IInv, [Next]_vars, NEW c \in Call,
         outcome'[c] = "died", outcome[c] # "died"
  PROVE  c \in InFlight /\ phase'[pending[c]] # phase[pending[c]]
<1> USE WorkerAssumption DEF Proc
<1>1. outcome \in [Call -> Outcome] /\ phase \in [Proc -> Phase]
  BY DEF IInv, TypeOK
<1>2. CASE \E p \in Proc : Exit(p) \/ SpawnError(p)
  <2> PICK p \in Proc : Exit(p) \/ SpawnError(p)
    BY <1>2
  <2>1. c \in CallsOf(p) /\ Settle(p)
    BY <1>1 DEF Exit, SpawnError, Settle
  <2>2. phase[p] \in {"running", "failing"} /\ phase'[p] \in {"exited", "drained"}
    BY <1>1 DEF Exit, SpawnError
  <2> QED BY <2>1, <2>2 DEF CallsOf, InFlight
<1>3. CASE ~ \E p \in Proc : Exit(p) \/ SpawnError(p)
  <2>1. ASSUME NEW d \in Call, CallLive(d) \/ StartRefused(d) \/ Start(d) \/ Resume(d)
        PROVE  outcome'[c] \in {outcome[c], "refused"}
    BY <1>1, <2>1 DEF CallLive, StartRefused, Start, Resume, Submit, Refuse
  <2>2. ASSUME NEW d \in Call, Timeout(d)
        PROVE  outcome'[c] \in {outcome[c], "timedOut"}
    BY <1>1, <2>2 DEF Timeout
  <2>3. ASSUME NEW p \in Proc, NEW ok \in BOOLEAN,
               WholeLine(p, ok) \/ SecondHalf(p, ok)
        PROVE  outcome'[c] \in {outcome[c], "answered", "errored"}
    BY <1>1, <2>3 DEF WholeLine, SecondHalf, OnAnswer, IgnoreLine
  <2>4. ASSUME (\E p \in Proc : FirstHalf(p) \/ Drain(p)) \/ Stop \/ UNCHANGED vars
        PROVE  outcome' = outcome
    BY <2>4 DEF FirstHalf, Drain, Stop, jsVars, vars
  <2> QED BY <1>1, <1>3, <2>1, <2>2, <2>3, <2>4 DEF Next
<1> QED BY <1>2, <1>3

THEOREM DiesWithItsOwnHolds == Spec => DiesWithItsOwn
<1>1. IInv /\ [Next]_vars =>
        [\A c \in Call : outcome'[c] = "died" /\ outcome[c] # "died" =>
           /\ c \in InFlight
           /\ phase'[pending[c]] # phase[pending[c]]]_vars
  BY StepDiesWithItsOwn
<1> QED BY <1>1, Invariance, PTL DEF Spec, DiesWithItsOwn
-----------------------------------------------------------------------------
(* Refinement: every step of the worker is a step of the broker, or leaves *)
(* what the callers see unchanged.                                         *)

LEMMA RefusalRefines ==
  ASSUME IInv, NEW c \in Call, c \in starting \/ Fresh(c),
         Refuse(c), UNCHANGED pending
  PROVE  Broker!Next
<1>1. c \notin InFlight /\ outcome[c] = Unsettled
  BY DEF IInv, LifeCycle, Fresh, InFlight
<1>2. Broker!Refuse(c)
  BY <1>1 DEF Broker!Refuse, Refuse, InFlight, Unsettled, Broker!Unsettled
<1> QED BY <1>2 DEF Broker!Next

LEMMA SubmitRefines ==
  ASSUME IInv, NEW c \in Call, c \in starting \/ Fresh(c),
         proc # None, Submit(c, proc)
  PROVE  Broker!Next
<1>1. CASE Refuse(c) /\ UNCHANGED pending
  BY <1>1, RefusalRefines
<1>2. CASE ~QueueFull /\ pending' = [pending EXCEPT ![c] = proc] /\ UNCHANGED outcome
  <2>1. c \notin InFlight /\ outcome[c] = Unsettled
    BY DEF IInv, LifeCycle, Fresh, InFlight
  <2>2. InFlight' = InFlight \cup {c}
    BY <1>2 DEF InFlight, IInv, TypeOK
  <2>3. Cardinality(InFlight) < MaxQueue
    BY <1>2, InFlightCount, WorkerAssumption DEF QueueFull
  <2>4. Broker!Cardinality(InFlight) < MaxQueue
    BY <2>3 DEF Cardinality, Broker!Cardinality
  <2>5. Broker!Accept(c)
    BY <1>2, <2>1, <2>2, <2>4 DEF Broker!Accept, Unsettled, Broker!Unsettled
  <2> QED BY <2>5 DEF Broker!Next
<1> QED BY <1>1, <1>2 DEF Submit

LEMMA FinishRefines ==
  ASSUME IInv, NEW c \in InFlight, NEW o \in {"answered", "errored", "timedOut"},
         pending' = [pending EXCEPT ![c] = None],
         outcome' = [outcome EXCEPT ![c] = o]
  PROVE  Broker!Next
<1>1. c \in Call /\ outcome[c] = Unsettled
  BY DEF IInv, SettledOnce, InFlight
<1>2. InFlight' = InFlight \ {c}
  BY <1>1 DEF InFlight, IInv, TypeOK
<1>3. Broker!Finish(c, o)
  BY <1>1, <1>2 DEF Broker!Finish, Unsettled, Broker!Unsettled
<1> QED BY <1>1, <1>3 DEF Broker!Next, Broker!Answers

LEMMA SettleRefines ==
  ASSUME IInv, NEW p \in Proc, Settle(p)
  PROVE  Broker!Next
<1> DEFINE lost == CallsOf(p)
<1> USE WorkerAssumption DEF Proc
<1>1. lost \subseteq InFlight /\ lost \subseteq Call
  BY DEF CallsOf, InFlight
<1>2. \A c \in lost : outcome[c] = Unsettled
  BY <1>1 DEF IInv, SettledOnce
<1>3. InFlight' = InFlight \ lost
  BY DEF Settle, InFlight, IInv, TypeOK
<1>4. outcome' = [c \in Call |-> IF c \in lost THEN "died" ELSE outcome[c]]
  BY <1>2 DEF Settle
<1>5. Broker!Lose(lost)
  BY <1>1, <1>2, <1>3, <1>4 DEF Broker!Lose, Unsettled, Broker!Unsettled
<1> QED BY <1>1, <1>5 DEF Broker!Next

LEMMA StepRefines ==
  ASSUME IInv, [Next]_vars
  PROVE  [Broker!Next]_(Broker!vars)
<1> USE DEF Broker!vars
<1>1. ASSUME NEW c \in Call, CallLive(c) \/ Resume(c) \/ StartRefused(c)
      PROVE  Broker!Next
  BY <1>1, SubmitRefines, RefusalRefines
     DEF CallLive, Resume, StartRefused, Fresh
<1>2. ASSUME NEW c \in Call, Timeout(c) PROVE Broker!Next
  <2>1. c \in InFlight /\ outcome[c] = Unsettled
    BY <1>2 DEF Timeout, IInv, SettledOnce
  <2>2. outcome' = [outcome EXCEPT ![c] = "timedOut"]
    BY <1>2, <2>1 DEF Timeout
  <2> QED BY <1>2, <2>1, <2>2, FinishRefines DEF Timeout
<1>3. ASSUME NEW p \in Proc, NEW ok \in BOOLEAN,
             WholeLine(p, ok) \/ SecondHalf(p, ok)
      PROVE  [Broker!Next]_(Broker!vars)
  <2> DEFINE c == Head(inbox[p])
  <2>1. CASE OnAnswer(c, ok) /\ c \in InFlight
    <3>1. outcome[c] = Unsettled
      BY <2>1 DEF IInv, SettledOnce
    <3>2. outcome' = [outcome EXCEPT ![c] = IF ok THEN "answered" ELSE "errored"]
      BY <2>1, <3>1 DEF OnAnswer
    <3>3. pending' = [pending EXCEPT ![c] = None]
      BY <2>1 DEF OnAnswer
    <3> HIDE DEF c
    <3> QED BY <2>1, <3>2, <3>3, FinishRefines
  <2>2. CASE UNCHANGED <<pending, outcome>>
    BY <2>2 DEF InFlight
  <2> QED BY <1>3, <2>1, <2>2 DEF WholeLine, SecondHalf, OnAnswer, IgnoreLine
<1>4. ASSUME NEW p \in Proc, Exit(p) \/ SpawnError(p) PROVE Broker!Next
  BY <1>4, SettleRefines DEF Exit, SpawnError
<1>5. ASSUME \/ \E c \in Call : Start(c)
             \/ \E p \in Proc : FirstHalf(p) \/ Drain(p)
             \/ Stop
             \/ UNCHANGED vars
      PROVE  UNCHANGED <<InFlight, outcome>>
  BY <1>5 DEF Start, FirstHalf, Drain, Stop, jsVars, vars, InFlight
<1> QED BY <1>1, <1>2, <1>3, <1>4, <1>5 DEF Next

(* The worker implements the broker: a call is refused or accepted below   *)
(* the queue bound, and an accepted call is settled at most once, with its *)
(* own answer, its own timeout or the death of its process.                *)
THEOREM WorkerImplementsBroker == Spec => Broker!SafeSpec
<1>1. Init => Broker!Init
  BY DEF Init, Broker!Init, InFlight, Unsettled, Broker!Unsettled
<1>2. IInv /\ [Next]_vars => [Broker!Next]_(Broker!vars)
  BY StepRefines
<1> QED BY <1>1, <1>2, Invariance, PTL DEF Spec, Broker!SafeSpec
=============================================================================
