----------------------------- MODULE PwshWorker -----------------------------
(***************************************************************************)
(* pwshWorker.ts: one long-lived PowerShell process shared by every        *)
(* dbatools call, fed one JSON request per line on stdin and answering one *)
(* JSON line each on stdout, restarted when it dies.                       *)
(*                                                                         *)
(* The JavaScript side is run-to-completion: an action is what runs        *)
(* between two returns to the event loop.  A call() that has to start the  *)
(* process awaits start(), so it takes two actions; between them only      *)
(* microtasks and next-ticks run (other calls, stop(), a launch failure),  *)
(* never a timer, a data event or an exit event (AtEventLoop).             *)
(*                                                                         *)
(* The stdout pipe of a process is not a variable: what a process wrote    *)
(* and node has not read is a prefix of the answers to its inbox, in       *)
(* order, so a process "writes" when node reads.  Node may read after the  *)
(* exit event, until the stream ends (Drain).                              *)
(***************************************************************************)
EXTENDS Naturals, Sequences, FiniteSets

CONSTANTS
  Call,         \* the calls made on the worker; a call's id is the call
  None,         \* no process
  MaxQueue,     \* opts.maxQueue
  MaxRestarts   \* opts.maxRestarts

ASSUME WorkerAssumption ==
  /\ None \notin Call
  /\ IsFiniteSet(Call)
  /\ MaxQueue \in Nat
  /\ MaxRestarts \in Nat

(* A call runs start() at most once, so a process is named after the call  *)
(* whose start() spawned it.                                               *)
Proc == Call

Unsettled == "unsettled"
Outcome   == {Unsettled, "refused", "answered", "errored", "timedOut", "died"}
Phase     == {"none", "failing", "running", "exited", "drained"}

(* What this.buf holds: nothing, the first half of the answer to one call, *)
(* or text that no line ending can turn into an answer.                    *)
Empty   == "empty"
Garbled == "garbled"

VARIABLES
  proc,       \* this.proc: the live process or None
  restarts,   \* this.restarts
  pending,    \* this.pending: the process a call's request was written to,
              \* None for a call that is not in the map
  armed,      \* the calls whose timeout timer is armed
  buf,        \* this.buf
  starting,   \* the calls between `await this.start()` and its continuation
  outcome,    \* what each call()'s promise was settled with
  phase,      \* how far each process and its stdout have got
  killed,     \* processes sent a signal whose end node has not seen
  inbox,      \* requests written to a process's stdin and not answered
  half        \* processes that have written half of a line

jsVars   == <<proc, restarts, pending, armed, buf, starting, outcome>>
procVars == <<phase, killed, inbox, half>>
vars     == <<proc, restarts, pending, armed, buf, starting, outcome,
              phase, killed, inbox, half>>

InFlight == {c \in Call : pending[c] # None}      \* the keys of this.pending

(* No continuation and no next-tick is due: the loop may take an event. *)
AtEventLoop ==
  /\ starting = {}
  /\ \A p \in Proc : phase[p] # "failing"

Init ==
  /\ proc = None /\ restarts = 0 /\ buf = Empty
  /\ armed = {} /\ starting = {}
  /\ pending = [c \in Call |-> None]
  /\ outcome = [c \in Call |-> Unsettled]
  /\ phase = [p \in Proc |-> "none"]
  /\ killed = {}
  /\ inbox = [p \in Proc |-> <<>>]
  /\ half = {}

-----------------------------------------------------------------------------
(* call() and start() *)

Fresh(c) == /\ c \notin starting \cup InFlight
            /\ outcome[c] = Unsettled

Refuse(c) == outcome' = [outcome EXCEPT ![c] = "refused"]

QueueFullOffByOne == Cardinality(InFlight) > MaxQueue              \* mutant
QueueFull == Cardinality(InFlight) >= MaxQueue

GaveUp == restarts > MaxRestarts

NoTimer(c) == UNCHANGED armed                                      \* mutant
SetTimer(c) == armed' = armed \cup {c}

KeepTimers(calls) == UNCHANGED armed                               \* mutant
ClearTimers(calls) == armed' = armed \ calls

(* The part of call() after start(): the queue bound, the timer, the entry *)
(* and the write.  JSON.stringify or the write may throw; the catch takes  *)
(* back the entry and the timer.                                           *)
Submit(c, p) ==
  \/ /\ QueueFull
     /\ Refuse(c)
     /\ UNCHANGED <<pending, armed, inbox>>
  \/ /\ ~QueueFull
     /\ pending' = [pending EXCEPT ![c] = p]
     /\ SetTimer(c)
     /\ inbox' = IF phase[p] = "running"
                 THEN [inbox EXCEPT ![p] = Append(@, c)] ELSE inbox
     /\ UNCHANGED outcome
  \/ /\ ~QueueFull
     /\ Refuse(c)
     /\ UNCHANGED <<pending, armed, inbox>>

CallLive(c) ==
  /\ Fresh(c)
  /\ proc # None
  /\ Submit(c, proc)
  /\ UNCHANGED <<proc, restarts, buf, starting, phase, killed, half>>

(* start(): refused for good past the restart limit, or the boot script    *)
(* could not be written.                                                   *)
StartRefused(c) ==
  /\ Fresh(c)
  /\ proc = None
  /\ Refuse(c)
  /\ UNCHANGED <<proc, restarts, pending, armed, buf, starting>>
  /\ UNCHANGED procVars

(* start(): the spawn and the listeners; this.proc is set before the       *)
(* await.  Whether the executable could be launched is decided here, but   *)
(* its error event only comes with the next tick (SpawnError).             *)
Start(c) ==
  /\ Fresh(c)
  /\ proc = None
  /\ ~GaveUp
  /\ proc' = c
  /\ \E launch \in {"running", "failing"} : phase' = [phase EXCEPT ![c] = launch]
  /\ starting' = starting \cup {c}
  /\ UNCHANGED <<restarts, pending, armed, buf, outcome>>
  /\ UNCHANGED <<killed, inbox, half>>

(* The continuation of `await this.start()` reads this.proc again. *)
Resume(c) ==
  /\ c \in starting
  /\ starting' = starting \ {c}
  /\ IF proc = None
     THEN Refuse(c) /\ UNCHANGED <<pending, armed, inbox>>
     ELSE Submit(c, proc)
  /\ UNCHANGED <<proc, restarts, buf, phase, killed, half>>

-----------------------------------------------------------------------------
(* onData() *)

(* A complete line that parses as the answer to c. *)
OnAnswer(c, ok) ==
  IF c \in InFlight
  THEN /\ pending' = [pending EXCEPT ![c] = None]
       /\ ClearTimers({c})
       /\ outcome' = [outcome EXCEPT ![c] =
                        IF @ # Unsettled THEN @
                        ELSE IF ok THEN "answered" ELSE "errored"]
       /\ restarts' = IF ok THEN 0 ELSE restarts
  ELSE UNCHANGED <<pending, armed, outcome, restarts>>

IgnoreLine == UNCHANGED <<pending, armed, outcome, restarts>>

Readable(p) ==
  /\ AtEventLoop
  /\ phase[p] \in {"running", "exited"}
  /\ inbox[p] # <<>>

(* A chunk with the whole answer to the oldest request of p. *)
WholeLine(p, ok) ==
  /\ Readable(p)
  /\ p \notin half
  /\ IF buf = Empty THEN OnAnswer(Head(inbox[p]), ok) ELSE IgnoreLine
  /\ buf' = Empty
  /\ inbox' = [inbox EXCEPT ![p] = Tail(@)]
  /\ UNCHANGED <<proc, starting, phase, killed, half>>

(* A chunk that ends inside that answer: it stays in this.buf. *)
FirstHalf(p) ==
  /\ Readable(p)
  /\ p \notin half
  /\ buf' = IF buf = Empty THEN Head(inbox[p]) ELSE Garbled
  /\ half' = half \cup {p}
  /\ UNCHANGED <<proc, restarts, pending, armed, starting, outcome>>
  /\ UNCHANGED <<phase, killed, inbox>>

(* The rest of the line, with its newline. *)
SecondHalf(p, ok) ==
  /\ Readable(p)
  /\ p \in half
  /\ IF buf = Head(inbox[p]) THEN OnAnswer(Head(inbox[p]), ok) ELSE IgnoreLine
  /\ buf' = Empty
  /\ inbox' = [inbox EXCEPT ![p] = Tail(@)]
  /\ half' = half \ {p}
  /\ UNCHANGED <<proc, starting, phase, killed>>

(* The stream of a process that has exited reaches its end. *)
Drain(p) ==
  /\ AtEventLoop
  /\ phase[p] = "exited"
  /\ phase' = [phase EXCEPT ![p] = "drained"]
  /\ inbox' = [inbox EXCEPT ![p] = <<>>]
  /\ half' = half \ {p}
  /\ UNCHANGED jsVars
  /\ UNCHANGED killed

-----------------------------------------------------------------------------
(* The end of a process: onExit(), onSpawnError(), settle() *)

(* Only the live process is counted and gives up the slot: a timeout or    *)
(* stop() has accounted for one it disowned.                               *)
DisownCountsAll(p) ==                                              \* mutant
  /\ proc' = IF proc = p THEN None ELSE proc
  /\ restarts' = restarts + 1
DisownLazily(p) ==                                                 \* mutant
  /\ UNCHANGED proc
  /\ restarts' = IF proc = p THEN restarts + 1 ELSE restarts
Disown(p) ==
  /\ proc' = IF proc = p THEN None ELSE proc
  /\ restarts' = IF proc = p THEN restarts + 1 ELSE restarts

AllInFlight(p) == InFlight                                         \* mutant
OnlyOfTheLive(p) == {c \in Call : pending[c] = p /\ p = proc}      \* mutant
CallsOf(p) == {c \in Call : pending[c] = p}

Settle(p) ==
  LET lost == CallsOf(p) IN
  /\ Disown(p)
  /\ outcome' = [c \in Call |-> IF c \in lost /\ outcome[c] = Unsettled
                                THEN "died" ELSE outcome[c]]
  /\ pending' = [c \in Call |-> IF c \in lost THEN None ELSE pending[c]]
  /\ ClearTimers(lost)
  /\ UNCHANGED <<buf, starting>>

(* The exit event: a crash, or the end of a process that was signalled. *)
Exit(p) ==
  /\ AtEventLoop
  /\ phase[p] = "running"
  /\ Settle(p)
  /\ phase' = [phase EXCEPT ![p] = IF inbox[p] = <<>> THEN "drained" ELSE "exited"]
  /\ killed' = killed \ {p}
  /\ UNCHANGED <<inbox, half>>

(* The error event of a process that could not be launched. *)
SpawnError(p) ==
  /\ phase[p] = "failing"
  /\ Settle(p)
  /\ phase' = [phase EXCEPT ![p] = "drained"]
  /\ UNCHANGED <<killed, inbox, half>>

Abandon(p) == UNCHANGED killed                                     \* mutant
Kill(p) == killed' = IF phase[p] = "running" THEN killed \cup {p} ELSE killed

(* The timer of call(): drop the entry, kill the process, disown it. *)
Timeout(c) ==
  /\ AtEventLoop
  /\ c \in armed
  /\ armed' = armed \ {c}
  /\ pending' = [pending EXCEPT ![c] = None]
  /\ Kill(pending[c])
  /\ Disown(pending[c])
  /\ outcome' = [outcome EXCEPT ![c] = IF @ = Unsettled THEN "timedOut" ELSE @]
  /\ UNCHANGED <<buf, starting, phase, inbox, half>>

(* stop(): disowned and signalled; its calls wait for its exit. *)
Stop ==
  /\ proc # None
  /\ proc' = None
  /\ Kill(proc)
  /\ UNCHANGED <<restarts, pending, armed, buf, starting, outcome>>
  /\ UNCHANGED <<phase, inbox, half>>

-----------------------------------------------------------------------------
Next ==
  \/ \E c \in Call : \/ CallLive(c)
                     \/ StartRefused(c)
                     \/ Start(c)
                     \/ Resume(c)
                     \/ Timeout(c)
  \/ \E p \in Proc : \/ \E ok \in BOOLEAN : WholeLine(p, ok) \/ SecondHalf(p, ok)
                     \/ FirstHalf(p)
                     \/ Drain(p)
                     \/ Exit(p)
                     \/ SpawnError(p)
  \/ Stop

(* Node runs the continuation of an await and the next-tick of a launch    *)
(* error, and fires an armed timer.  Nothing is assumed of the worker      *)
(* process: it may never answer and, killed, it may never die.             *)
Fairness == \A c \in Call : /\ WF_vars(Resume(c))
                            /\ WF_vars(SpawnError(c))
                            /\ WF_vars(Timeout(c))

Spec == Init /\ [][Next]_vars /\ Fairness

-----------------------------------------------------------------------------
TypeOK ==
  /\ proc \in Proc \cup {None}
  /\ restarts \in 0 .. MaxRestarts + 1
  /\ pending \in [Call -> Proc \cup {None}]
  /\ armed \subseteq Call /\ starting \subseteq Call
  /\ buf \in Call \cup {Empty, Garbled}
  /\ outcome \in [Call -> Outcome]
  /\ phase \in [Proc -> Phase]
  /\ killed \subseteq Proc /\ half \subseteq Proc
  /\ inbox \in [Proc -> Seq(Call)]

(* A timeout is armed for exactly the calls still in the pending map, and  *)
(* such a call's promise is open: a late answer, an exit and a timeout     *)
(* racing for one call settle it once, and no timer is left that would     *)
(* later kill a process on behalf of a call that is over.                  *)
SettledOnce ==
  /\ armed = InFlight
  /\ \A c \in InFlight : outcome[c] = Unsettled

(* The slot never holds a process that exited, that failed to launch and   *)
(* reported it, or that was signalled: no new request is written into a    *)
(* process the worker already knows is dying.                              *)
SlotIsUsable ==
  proc # None => /\ phase[proc] \in {"running", "failing"}
                 /\ proc \notin killed

(* No process is leaked: one that runs is the one in the slot or has been  *)
(* told to die.  Two calls that find the slot empty, a timeout and a stop  *)
(* around the await of start() must not leave an unreachable process.      *)
NoOrphan ==
  \A p \in Proc : phase[p] = "running" => p = proc \/ p \in killed

(* A call outlives its process by nothing: once the end of a process was   *)
(* seen, no pending call is left that only its own timeout could settle.   *)
NoStraggler ==
  \A c \in InFlight : phase[pending[c]] \in {"running", "failing"}

(* A call fails with its process, never with another one: the late exit of *)
(* a replaced process leaves the calls of its replacement alone.           *)
DiesWithItsOwn ==
  [][\A c \in Call : outcome'[c] = "died" /\ outcome[c] # "died" =>
        /\ c \in InFlight
        /\ phase'[pending[c]] # phase[pending[c]]]_vars

(* Each process is counted at most once towards the restart limit: its     *)
(* timeout, its stop and its exit together add one, and the live process   *)
(* is not counted yet.                                                     *)
CountedOnce ==
  LET born == {p \in Proc : phase[p] # "none"} IN
  restarts <= Cardinality(born \ {proc})

(* Every call that waits for something is eventually settled, also when    *)
(* the worker never answers and never dies.                                *)
EveryCallSettles ==
  \A c \in Call : c \in starting \cup InFlight ~> outcome[c] # Unsettled

Broker == INSTANCE CallBroker WITH inFlight <- InFlight

(* The worker implements the broker its callers rely on. *)
ImplementsBroker == Broker!Spec

(* "Kill rather than abandon: [...] a half-consumed stdout stream would    *)
(* desynchronise the framing": after the kill, a process that answers a    *)
(* pending call in one whole line has that call settled.                   *)
WholeLinesAreHeard ==
  [][\A p \in Proc, ok \in BOOLEAN :
       WholeLine(p, ok) => Head(inbox[p]) \notin InFlight']_vars
=============================================================================
