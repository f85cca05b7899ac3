----------------------------- MODULE CallBroker -----------------------------
(***************************************************************************)
(* What PwshWorker.call() promises its callers, with the process, the      *)
(* pipes and the restarts left out: a call is refused, or it is taken in   *)
(* flight, and a call in flight is settled exactly once.                   *)
(***************************************************************************)
EXTENDS Naturals, FiniteSets

CONSTANTS
  Call,       \* the calls that are made
  MaxQueue    \* how many of them may be in flight at once

VARIABLES
  inFlight,   \* the calls accepted and not settled yet
  outcome     \* what each call's promise was settled with

Unsettled == "unsettled"
Answers   == {"answered", "errored"}          \* the worker's own response
Losses    == {"timedOut", "died"}             \* no response came
Outcome   == {Unsettled, "refused"} \cup Answers \cup Losses

Init ==
  /\ inFlight = {}
  /\ outcome = [c \in Call |-> Unsettled]

Accept(c) ==
  /\ c \notin inFlight
  /\ outcome[c] = Unsettled
  /\ Cardinality(inFlight) < MaxQueue
  /\ inFlight' = inFlight \cup {c}
  /\ UNCHANGED outcome

Refuse(c) ==
  /\ c \notin inFlight
  /\ outcome[c] = Unsettled
  /\ outcome' = [outcome EXCEPT ![c] = "refused"]
  /\ UNCHANGED inFlight

Finish(c, o) ==
  /\ c \in inFlight
  /\ outcome[c] = Unsettled
  /\ outcome' = [outcome EXCEPT ![c] = o]
  /\ inFlight' = inFlight \ {c}

(* Calls may be lost together: they shared a process. *)
Lose(lost) ==
  /\ lost \subseteq inFlight
  /\ \A c \in lost : outcome[c] = Unsettled
  /\ outcome' = [c \in Call |-> IF c \in lost THEN "died" ELSE outcome[c]]
  /\ inFlight' = inFlight \ lost

Next ==
  \/ \E c \in Call : Accept(c) \/ Refuse(c)
  \/ \E c \in Call, o \in Answers \cup {"timedOut"} : Finish(c, o)
  \/ \E lost \in SUBSET inFlight : Lose(lost)

vars == <<inFlight, outcome>>

(* The promise without its liveness part. *)
SafeSpec == Init /\ [][Next]_vars

Settles(c) ==
  \/ \E o \in Answers \cup {"timedOut"} : Finish(c, o)
  \/ \E lost \in SUBSET inFlight : c \in lost /\ Lose(lost)

Spec == SafeSpec /\ \A c \in Call : WF_vars(Settles(c))
=============================================================================
