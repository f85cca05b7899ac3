-------------------------- MODULE ToolCallsProofs --------------------------
(***************************************************************************)
(* ToolCalls, for any instances, calls and tools: what a call is told of   *)
(* the pools it ran on and of the rows it was not given, what an empty     *)
(* answer may say is not there, what execute_write says of its data, and,  *)
(* for any text, what the guards take it for.                              *)
(***************************************************************************)
EXTENDS ToolCalls, Integers, SequenceTheorems, FiniteSetTheorems, WellFoundedInduction,
        TLAPS

Over(f, S) == f = [x \in S |-> f[x]]

(* The variables are functions of the calls and the instances. *)
Shape ==
  /\ Over(call, Call) /\ Over(notes, Call) /\ Over(reply, Call)
  /\ Over(seen, Call) /\ Over(tx, Call)
  /\ fallback \in [Target -> BOOLEAN]

LEMMA ShapeStarts == Init => Shape
  BY DEF Init, Shape, Over

LEMMA ShapeStays == Shape /\ [Next]_vars => Shape'
<1> SUFFICES ASSUME Shape, [Next]_vars PROVE Shape' OBVIOUS
<1> USE DEF Shape, Over
<1>1. ASSUME NEW c \in Call, Start(c) \/ StartWrite(c) PROVE Shape'
  BY <1>1 DEF Start, StartWrite
<1>2. ASSUME NEW c \in Call, Refuse(c) \/ Finish(c) PROVE Shape'
  BY <1>2 DEF Refuse, Finish, Answer
<1>3. ASSUME NEW c \in Call, NEW i \in Target, RunQuery(c, i) PROVE Shape'
  BY <1>3 DEF RunQuery, Store
<1>4. ASSUME NEW c \in Call, NEW i \in Target, RunCmdlet(c, i) PROVE Shape'
  BY <1>4 DEF RunCmdlet
<1>5. ASSUME NEW c \in Call, NEW i \in Target, ReadFiles(c, i) PROVE Shape'
  BY <1>5 DEF ReadFiles
<1>6. ASSUME NEW c \in Call, NEW i \in Target, Fail(c, i) PROVE Shape'
  BY <1>6 DEF Fail
<1>7. ASSUME NEW c \in Call, RefuseWrite(c) \/ RunWrite(c) PROVE Shape'
  BY <1>7 DEF RefuseWrite, RunWrite, Settle
<1>8. ASSUME NEW c \in Call, BeginWrite(c) PROVE Shape'
  BY <1>8 DEF BeginWrite, Settle, Store
<1>9. ASSUME NEW c \in Call, EndWrite(c) PROVE Shape'
  BY <1>9 DEF EndWrite, Settle
<1>10. ASSUME NEW i \in Target, NewPool(i) PROVE Shape'
  BY <1>10 DEF NewPool
<1>11. CASE UNCHANGED vars BY <1>11 DEF vars
<1> QED BY <1>1, <1>2, <1>3, <1>4, <1>5, <1>6, <1>7, <1>8, <1>9, <1>10, <1>11 DEF Next

----------------------------------------------------------------------------
(* Of the warnings of a read, the fallback notice is its pool's. *)
LEMMA WarningsOfAPool ==
  ASSUME NEW r, NEW i, NEW j, NEW cut, NEW whole
  PROVE  FallbackNotice(j) \in Warnings(r, i, cut, whole) <=> fallback[i] /\ j = i
<1>1. FallbackNotice(j) # CutNotice(r, i) /\ FallbackNotice(j) # SetsNotice(i)
  BY DEF FallbackNotice, CutNotice, SetsNotice
<1>2. FallbackNotice(j) = FallbackNotice(i) <=> j = i BY DEF FallbackNotice
<1> QED BY <1>1, <1>2 DEF Warnings

(* A call is told as long as what is added to its store and to what its     *)
(* reads met goes together.                                                 *)
LEMMA ToldStays ==
  ASSUME Shape, WarningsReachTheirCall, NEW c \in Call, NEW w, NEW m,
         notes' = [notes EXCEPT ![c] = @ \union w],
         seen' = [seen EXCEPT ![c] = @ \union {m}],
         \A i \in Target : FallbackNotice(i) \in w <=> m.on = i /\ m.warned
  PROVE  WarningsReachTheirCall'
<1> SUFFICES ASSUME NEW d \in Call, NEW i \in Target
             PROVE  FallbackNotice(i) \in notes'[d]
                      <=> \E n \in seen'[d] : n.on = i /\ n.warned
  BY DEF WarningsReachTheirCall, FallbackNotice
<1>1. FallbackNotice(i) \in notes[d] <=> \E n \in seen[d] : n.on = i /\ n.warned
  BY DEF WarningsReachTheirCall
<1>2. CASE d = c
  <2>1. notes'[d] = notes[d] \union w /\ seen'[d] = seen[d] \union {m}
    BY <1>2 DEF Shape, Over
  <2> QED BY <1>1, <2>1
<1>3. CASE d # c
  <2>1. notes'[d] = notes[d] /\ seen'[d] = seen[d] BY <1>3 DEF Shape, Over
  <2> QED BY <1>1, <2>1
<1> QED BY <1>2, <1>3

LEMMA ToldIfNothingIsNoted ==
  ASSUME Shape, WarningsReachTheirCall, NEW c \in Call, NEW m, ~m.warned,
         notes' = notes, seen' = [seen EXCEPT ![c] = @ \union {m}]
  PROVE  WarningsReachTheirCall'
<1> DEFINE w == {}
<1>1. notes' = [notes EXCEPT ![c] = @ \union w] BY DEF Shape, Over
<1>2. \A i \in Target : FallbackNotice(i) \in w <=> m.on = i /\ m.warned OBVIOUS
<1> HIDE DEF w
<1> QED BY <1>1, <1>2, ToldStays

LEMMA ToldIfUnchanged ==
  ASSUME WarningsReachTheirCall, notes' = notes, seen' = seen
  PROVE  WarningsReachTheirCall'
  BY DEF WarningsReachTheirCall, FallbackNotice

(* A call is told of every fallback pool its reads or its write ran on, and *)
(* of no other (runInCatalogFallbackScope, catalogFallback).                *)
THEOREM WarningsReachTheirCallHolds == Spec => []WarningsReachTheirCall
<1>1. Init => Shape /\ WarningsReachTheirCall
  BY ShapeStarts DEF Init, WarningsReachTheirCall
<1>2. Shape /\ WarningsReachTheirCall /\ [Next]_vars => Shape' /\ WarningsReachTheirCall'
  <2> SUFFICES ASSUME Shape, WarningsReachTheirCall, [Next]_vars
               PROVE  WarningsReachTheirCall'
    BY ShapeStays
  <2>1. ASSUME NEW c \in Call, Start(c) \/ StartWrite(c) PROVE WarningsReachTheirCall'
    BY <2>1, ToldIfUnchanged DEF Start, StartWrite
  <2>2. ASSUME NEW c \in Call, Refuse(c) \/ Finish(c) PROVE WarningsReachTheirCall'
    BY <2>2, ToldIfUnchanged DEF Refuse, Finish
  <2>3. ASSUME NEW c \in Call, NEW i \in Target, RunQuery(c, i)
        PROVE  WarningsReachTheirCall'
    <3>1. PICK produced, whole, cut, kept :
            /\ notes' = Store(c, Warnings(Now(c), i, cut, whole))
            /\ seen' = [seen EXCEPT ![c] = @ \union {Met(Now(c), i, produced, kept, whole)}]
      <4>1. PICK produced \in Sizes(Now(c)), whole \in BOOLEAN :
              LET served == Served(Now(c), produced)
                  cut    == Truncated(Now(c), served)
                  kept   == Kept(Now(c), served)
              IN  /\ notes' = Store(c, Warnings(Now(c), i, cut, whole))
                  /\ seen' = [seen EXCEPT ![c] = @ \union {Met(Now(c), i, produced, kept, whole)}]
        BY <2>3, Zenon DEF RunQuery
      <4> QED BY <4>1, Zenon
    <3> DEFINE w == Warnings(Now(c), i, cut, whole)
               m == Met(Now(c), i, produced, kept, whole)
    <3>2. \A j \in Target : FallbackNotice(j) \in w <=> m.on = j /\ m.warned
      BY WarningsOfAPool DEF Met
    <3>3. notes' = [notes EXCEPT ![c] = @ \union w] BY <3>1 DEF Store
    <3> HIDE DEF w, m
    <3> QED BY <3>1, <3>2, <3>3, ToldStays DEF w, m
  <2>4. ASSUME NEW c \in Call, NEW i \in Target, RunCmdlet(c, i)
        PROVE  WarningsReachTheirCall'
    BY <2>4, ToldIfUnchanged DEF RunCmdlet
  <2>5. ASSUME NEW c \in Call, NEW i \in Target, ReadFiles(c, i)
        PROVE  WarningsReachTheirCall'
    <3>1. PICK produced, whole, kept :
            seen' = [seen EXCEPT ![c] = @ \union {
               [Met(Now(c), i, produced, kept, whole)
                  EXCEPT !.warned = FALSE]}]
      BY <2>5 DEF ReadFiles
    <3> DEFINE m == [Met(Now(c), i, produced, kept, whole)
                       EXCEPT !.warned = FALSE]
    <3>2. ~m.warned BY DEF Met
    <3>3. notes' = notes BY <2>5 DEF ReadFiles
    <3> HIDE DEF m
    <3> QED BY <3>1, <3>2, <3>3, ToldIfNothingIsNoted DEF m
  <2>6. ASSUME NEW c \in Call, NEW i \in Target, Fail(c, i) PROVE WarningsReachTheirCall'
    <3>1. notes' = notes BY <2>6 DEF Fail
    <3>2. \/ seen' = seen
          \/ seen' = [seen EXCEPT ![c] = @ \union {Missed(Now(c), i)}]
      BY <2>6 DEF Fail
    <3>3. ~Missed(Now(c), i).warned BY DEF Missed, Met
    <3> QED BY <3>1, <3>2, <3>3, ToldIfUnchanged, ToldIfNothingIsNoted
  <2>7. ASSUME NEW c \in Call, RefuseWrite(c) \/ RunWrite(c) PROVE WarningsReachTheirCall'
    BY <2>7, ToldIfUnchanged DEF RefuseWrite, RunWrite
  <2>8. ASSUME NEW c \in Call, BeginWrite(c) PROVE WarningsReachTheirCall'
    <3> DEFINE i == call[c].target
               w(warned) == IF warned THEN {FallbackNotice(i)} ELSE {}
    <3>1. PICK warned \in BOOLEAN :
            /\ notes' = [notes EXCEPT ![c] = @ \union w(warned)]
            /\ seen' = [seen EXCEPT ![c] = @ \union {WriteMet(c, warned, FALSE)}]
      BY <2>8 DEF BeginWrite, Store
    <3>2. \A j \in Target : FallbackNotice(j) \in w(warned)
            <=> WriteMet(c, warned, FALSE).on = j /\ WriteMet(c, warned, FALSE).warned
      BY DEF WriteMet, FallbackNotice
    <3> HIDE DEF w
    <3> QED BY <3>1, <3>2, ToldStays
  <2>9. ASSUME NEW c \in Call, EndWrite(c) PROVE WarningsReachTheirCall'
    <3>1. PICK lost \in BOOLEAN :
            seen' = [seen EXCEPT ![c] = @ \union {WriteMet(c, FALSE, lost)}]
      BY <2>9 DEF EndWrite
    <3>2. notes' = notes /\ ~WriteMet(c, FALSE, lost).warned BY <2>9 DEF EndWrite, WriteMet
    <3> QED BY <3>1, <3>2, ToldIfNothingIsNoted
  <2>10. ASSUME NEW i \in Target, NewPool(i) PROVE WarningsReachTheirCall'
    BY <2>10, ToldIfUnchanged DEF NewPool
  <2>11. CASE UNCHANGED vars BY <2>11, ToldIfUnchanged DEF vars
  <2> QED
    BY <2>1, <2>2, <2>3, <2>4, <2>5, <2>6, <2>7, <2>8, <2>9, <2>10, <2>11 DEF Next
<1> QED BY <1>1, <1>2, PTL DEF Spec

----------------------------------------------------------------------------
(* What is committed stays as it was answered, and only a write can end its *)
(* transaction itself.                                                      *)
Settled ==
  \A c \in Call :
    /\ c \in changed => call[c].tool # "none" /\ (reply[c] # "none" \/ tx[c] = "own")
    /\ tx[c] = "own" => call[c].tool = ExecuteWrite

DataInv == Shape /\ RepliesMatchTheData /\ Settled

(* A step of a call whose transaction is as it was, and which ends it in    *)
(* what it answers, if it answers.                                          *)
LEMMA DataStays ==
  ASSUME DataInv, NEW c \in Call,
         \A d \in Call \ {c} : /\ call'[d] = call[d] /\ reply'[d] = reply[d]
                               /\ tx'[d] = tx[d] /\ (d \in changed' <=> d \in changed),
         c \in changed' => call'[c].tool # "none" /\ (reply'[c] # "none" \/ tx'[c] = "own"),
         tx'[c] = "own" => call'[c].tool = ExecuteWrite,
         tx'[c] # "own" =>
           /\ reply'[c] = "applied" => c \in changed'
           /\ c \in changed' => \/ reply'[c] = "applied"
                                \/ call'[c].path = "commit" /\ tx'[c] = "unheard"
  PROVE  RepliesMatchTheData' /\ Settled'
<1>1. ASSUME NEW d \in Call
      PROVE  /\ tx'[d] # "own" =>
                  /\ reply'[d] = "applied" => d \in changed'
                  /\ d \in changed' => \/ reply'[d] = "applied"
                                       \/ call'[d].path = "commit" /\ tx'[d] = "unheard"
             /\ d \in changed' => call'[d].tool # "none" /\ (reply'[d] # "none" \/ tx'[d] = "own")
             /\ tx'[d] = "own" => call'[d].tool = ExecuteWrite
  <2>1. CASE d = c BY <2>1
  <2>2. CASE d # c BY <2>2 DEF DataInv, RepliesMatchTheData, Settled
  <2> QED BY <2>1, <2>2
<1> QED BY <1>1 DEF RepliesMatchTheData, Settled

(* As long as the statement leaves the transaction alone, applied is        *)
(* committed, and a dry run and a failure left nothing behind, save a       *)
(* commit whose acknowledgement never came (executeWrite).                  *)
THEOREM RepliesMatchTheDataHolds == Spec => []RepliesMatchTheData
<1>1. Init => DataInv
  BY ShapeStarts DEF Init, DataInv, RepliesMatchTheData, Settled
<1>2. DataInv /\ [Next]_vars => DataInv'
  <2> SUFFICES ASSUME DataInv, [Next]_vars
               PROVE  RepliesMatchTheData' /\ Settled'
    BY ShapeStays DEF DataInv
  <2> USE DEF Shape, Over
  <2>0. Shape /\ Settled BY DEF DataInv
  <2>1. ASSUME NEW c \in Call, Start(c) \/ StartWrite(c)
        PROVE  RepliesMatchTheData' /\ Settled'
    <3>1. c \notin changed /\ tx[c] # "own" /\ UNCHANGED <<reply, tx, changed>>
      BY <2>0, <2>1 DEF Start, StartWrite, Settled, ExecuteWrite
    <3>2. reply[c] # "applied" BY <2>0, <3>1 DEF DataInv, RepliesMatchTheData
    <3>3. \A d \in Call \ {c} : call'[d] = call[d] BY <2>0, <2>1 DEF Start, StartWrite
    <3> QED BY <3>1, <3>2, <3>3, DataStays
  <2>2. ASSUME NEW c \in Call, Refuse(c) \/ Finish(c)
        PROVE  RepliesMatchTheData' /\ Settled'
    <3>1. PICK r \in {"error", "answer", "absent"} :
            reply' = [reply EXCEPT ![c] = r] /\ UNCHANGED <<call, tx, changed>>
      BY <2>2 DEF Refuse, Finish, Answer, ReplyOf
    <3>2. c \notin changed /\ tx[c] # "own"
      BY <2>0, <2>2 DEF Refuse, Finish, Reading, Running, Writes, Settled
    <3> QED BY <2>0, <3>1, <3>2, DataStays
  <2>3. ASSUME NEW c \in Call, NEW i \in Target,
               RunQuery(c, i) \/ RunCmdlet(c, i) \/ ReadFiles(c, i)
        PROVE  RepliesMatchTheData' /\ Settled'
    <3>1. Reading(c) /\ UNCHANGED <<reply, tx, changed>>
      BY <2>3 DEF RunQuery, RunCmdlet, ReadFiles
    <3>2. PICK d : call' = [call EXCEPT ![c] = d]
      <4>1. CASE RunQuery(c, i) BY <4>1 DEF RunQuery
      <4>2. CASE RunCmdlet(c, i) BY <4>2 DEF RunCmdlet
      <4>3. CASE ReadFiles(c, i) BY <4>3 DEF ReadFiles
      <4> QED BY <2>3, <4>1, <4>2, <4>3
    <3>3. c \notin changed /\ tx[c] # "own" /\ reply[c] = "none"
      BY <2>0, <3>1 DEF Reading, Running, Writes, Settled
    <3>4. \A b \in Call \ {c} : call'[b] = call[b] BY <2>0, <3>2
    <3> QED BY <3>1, <3>3, <3>4, DataStays
  <2>4. ASSUME NEW c \in Call, NEW i \in Target, Fail(c, i)
        PROVE  RepliesMatchTheData' /\ Settled'
    <3>1. c \notin changed /\ tx[c] # "own" /\ reply[c] = "none" /\ UNCHANGED <<tx, changed>>
      BY <2>0, <2>4 DEF Fail, Reading, Running, Writes, Settled
    <3>2. \A d \in Call \ {c} : call'[d] = call[d] /\ reply'[d] = reply[d]
      BY <2>0, <2>4 DEF Fail
    <3>3. reply'[c] # "applied" BY <2>0, <2>4, <3>1 DEF Fail
    <3> QED BY <3>1, <3>2, <3>3, DataStays
  <2>5. ASSUME NEW c \in Call, NEW state, NEW r, Writing(c), Settle(c, state, r),
               changed' \subseteq changed \union {c}, changed \subseteq changed',
               c \in changed' => r # "none" \/ state = "own",
               state # "own" =>
                 /\ r = "applied" => c \in changed'
                 /\ c \in changed' => \/ r = "applied"
                                      \/ call[c].path = "commit" /\ state = "unheard"
        PROVE  RepliesMatchTheData' /\ Settled'
    <3>1. tx'[c] = state /\ reply'[c] = r /\ call' = call BY <2>0, <2>5 DEF Settle
    <3>2. \A d \in Call \ {c} : reply'[d] = reply[d] /\ tx'[d] = tx[d]
      BY <2>0, <2>5 DEF Settle
    <3>3. call[c].tool = ExecuteWrite /\ call[c].tool # "none"
      BY <2>5 DEF Writing, Writes, Running
    <3> QED BY <2>5, <3>1, <3>2, <3>3, DataStays
  <2>6. ASSUME NEW c \in Call, RefuseWrite(c) \/ BeginWrite(c)
        PROVE  RepliesMatchTheData' /\ Settled'
    <3>1. PICK state \in {"open", "none"}, r \in {"none", "error"} : Settle(c, state, r)
      BY <2>6 DEF RefuseWrite, BeginWrite
    <3>2. Writing(c) /\ c \notin changed /\ UNCHANGED changed
      BY <2>0, <2>6 DEF RefuseWrite, BeginWrite, Writing, Running, Settled
    <3> QED BY <2>5, <3>1, <3>2
  <2>7. ASSUME NEW c \in Call, RunWrite(c) PROVE RepliesMatchTheData' /\ Settled'
    <3>1. Writing(c) /\ c \notin changed
      BY <2>0, <2>7 DEF RunWrite, Writing, Running, Settled
    <3>2. CASE /\ Settle(c, "ran", "none") \/ Settle(c, "ended", "error")
               /\ UNCHANGED changed
      <4>1. PICK state \in {"ran", "ended"}, r \in {"none", "error"} : Settle(c, state, r)
        BY <3>2
      <4> QED BY <2>5, <3>1, <3>2, <4>1
    <3>3. CASE /\ Settle(c, "own", "none") \/ Settle(c, "own", "error")
               /\ changed' \in {changed, changed \union {c}}
      <4>1. PICK r \in {"none", "error"} : Settle(c, "own", r) BY <3>3
      <4> QED BY <2>5, <3>1, <3>3, <4>1
    <3> QED BY <2>7, <3>2, <3>3 DEF RunWrite
  <2>8. ASSUME NEW c \in Call, EndWrite(c) PROVE RepliesMatchTheData' /\ Settled'
    <3>1. Writing(c) /\ tx[c] \in {"ran", "own"} /\ (tx[c] # "own" => c \notin changed)
      BY <2>0, <2>8 DEF EndWrite, Writing, Running, Settled
    <3>2. PICK state, r :
            /\ Settle(c, state, r) /\ r # "none"
            /\ \/ /\ state = (IF tx[c] = "own" THEN "own" ELSE "ended")
                  /\ r = (IF call[c].path = "commit" THEN "applied" ELSE "dry run")
               \/ /\ state = (IF tx[c] = "own" THEN "own" ELSE "unheard")
                  /\ r = "error"
      BY <2>8 DEF EndWrite
    <3>3. tx'[c] = state BY <2>0, <3>2 DEF Settle
    <3>4. \/ changed' = IF Commits(c) THEN changed \union {c} ELSE changed
          \/ state \in {"unheard", "own"} /\ UNCHANGED changed
      BY <2>8, <3>3 DEF EndWrite
    <3>5. ASSUME state # "own"
          PROVE  /\ r = "applied" => c \in changed'
                 /\ c \in changed' => \/ r = "applied"
                                      \/ call[c].path = "commit" /\ state = "unheard"
      BY <3>1, <3>2, <3>4, <3>5 DEF Commits
    <3>6. changed' \subseteq changed \union {c} /\ changed \subseteq changed' BY <3>4
    <3> QED BY <2>5, <3>1, <3>2, <3>5, <3>6
  <2>9. ASSUME NEW i \in Target, NewPool(i) PROVE RepliesMatchTheData' /\ Settled'
    BY <2>9 DEF NewPool, DataInv, RepliesMatchTheData, Settled
  <2>10. CASE UNCHANGED vars
    BY <2>10 DEF vars, DataInv, RepliesMatchTheData, Settled
  <2> QED BY <2>1, <2>2, <2>3, <2>4, <2>6, <2>7, <2>8, <2>9, <2>10 DEF Next
<1>3. DataInv => RepliesMatchTheData BY DEF DataInv
<1> QED BY <1>1, <1>2, <1>3, PTL DEF Spec

----------------------------------------------------------------------------
(* The tool table, read by read. *)
ReadRecord ==
  [via : {"sql", "cmdlet", "file", "alias"}, cap : Nat, own : Nat, asked : BOOLEAN,
   tells : {"note", "field", "no"}, fails : {"error", "said", "empty"},
   fills : BOOLEAN, user : BOOLEAN, on : {"target", "all"},
   main : BOOLEAN, after : {"any", "none", "some"}]

SameKind(p, q) == p.via = q.via /\ p.user = q.user
SameRows(p, q) == p.cap = q.cap /\ p.own = q.own /\ p.asked = q.asked
SameTold(p, q) == p.tells = q.tells
SameEnds(p, q) == p.fails = q.fails /\ p.fills = q.fills

LEMMA KeepIs ==
  ASSUME NEW q \in ReadRecord, NEW n \in Nat
  PROVE  LET p == Keep(n, q)
         IN  /\ p \in ReadRecord /\ SameKind(p, q) /\ SameTold(p, q) /\ SameEnds(p, q)
             /\ p.cap = n /\ p.own = q.own /\ p.asked = q.asked
  BY DEF Keep, ReadRecord, SameKind, SameTold, SameEnds

LEMMA TopIs ==
  ASSUME NEW q \in ReadRecord, NEW n \in Nat
  PROVE  LET p == Top(n, q)
         IN  /\ p \in ReadRecord /\ SameKind(p, q) /\ SameTold(p, q) /\ SameEnds(p, q)
             /\ p.own = n /\ p.cap = q.cap /\ p.asked = q.asked
  BY DEF Top, ReadRecord, SameKind, SameTold, SameEnds

LEMMA AskedTopIs ==
  ASSUME NEW q \in ReadRecord
  PROVE  LET p == AskedTop(q)
         IN  /\ p \in ReadRecord /\ SameKind(p, q) /\ SameTold(p, q) /\ SameEnds(p, q)
             /\ p.asked /\ p.cap = q.cap
  <1>1. TopN \in Nat BY TopAssumption
<1> QED BY <1>1 DEF AskedTop, ReadRecord, SameKind, SameTold, SameEnds

LEMMA FlaggedIs ==
  ASSUME NEW q \in ReadRecord
  PROVE  LET p == Flagged(q)
         IN  /\ p \in ReadRecord /\ SameKind(p, q) /\ SameRows(p, q) /\ SameEnds(p, q)
             /\ p.tells = "field"
  BY DEF Flagged, ReadRecord, SameKind, SameRows, SameEnds

LEMMA UnflaggedIs ==
  ASSUME NEW q \in ReadRecord
  PROVE  LET p == Unflagged(q)
         IN  /\ p \in ReadRecord /\ SameKind(p, q) /\ SameRows(p, q) /\ SameEnds(p, q)
             /\ p.tells = "no"
  BY DEF Unflagged, ReadRecord, SameKind, SameRows, SameEnds

LEMMA PerDatabaseIs ==
  ASSUME NEW q \in ReadRecord
  PROVE  LET p == PerDatabase(q)
         IN  /\ p \in ReadRecord /\ SameKind(p, q) /\ SameRows(p, q) /\ SameTold(p, q)
             /\ p.fails = q.fails
  BY DEF PerDatabase, ReadRecord, SameKind, SameRows, SameTold

LEMMA BestEffortIs ==
  ASSUME NEW q \in ReadRecord
  PROVE  LET p == BestEffort(q)
         IN  /\ p \in ReadRecord /\ SameKind(p, q) /\ SameRows(p, q) /\ SameTold(p, q)
             /\ p.fails = "empty" /\ p.fills = q.fills
  BY DEF BestEffort, ReadRecord, SameKind, SameRows, SameTold

LEMMA ReportedIs ==
  ASSUME NEW q \in ReadRecord
  PROVE  LET p == Reported(q)
         IN  /\ p \in ReadRecord /\ SameKind(p, q) /\ SameRows(p, q) /\ SameTold(p, q)
             /\ p.fails = "said" /\ p.fills = q.fills
  BY DEF Reported, ReadRecord, SameKind, SameRows, SameTold

LEMMA PlainIs ==
  ASSUME NEW q \in ReadRecord, NEW rows \in {"none", "some"},
         NEW p \in {After(rows, q), Beside(q)}
  PROVE  /\ p \in ReadRecord /\ SameKind(p, q) /\ SameRows(p, q)
         /\ SameTold(p, q) /\ SameEnds(p, q)
<1>1. CASE p = After(rows, q)
  BY <1>1 DEF After, ReadRecord, SameKind, SameRows, SameTold, SameEnds
<1>2. CASE p = Beside(q)
  BY <1>2 DEF Beside, ReadRecord, SameKind, SameRows, SameTold, SameEnds
<1> QED BY <1>1, <1>2

LEMMA QueryIs ==
  /\ Query \in ReadRecord /\ Query.via = "sql" /\ Query.cap = 200
  /\ Query.own = 0 /\ Query.tells = "note" /\ Query.fails = "error"
  /\ Query.asked = FALSE /\ Query.fills = FALSE /\ Query.user = FALSE
<1>1. Query \in ReadRecord /\ Query.via = "sql" /\ Query.cap = 200
  BY DEF Query, Read, ReadRecord
<1>2. /\ Query.own = 0 /\ Query.tells = "note" /\ Query.fails = "error"
      /\ Query.asked = FALSE /\ Query.fills = FALSE /\ Query.user = FALSE
  BY DEF Query, Read
<1> QED BY <1>1, <1>2

LEMMA CmdletIs ==
  ASSUME NEW p \in {Cmdlet, Read("alias", 0)}
  PROVE  /\ p \in ReadRecord /\ p.via # "file" /\ p.cap = 0 /\ p.own = 0
         /\ p.tells = "note" /\ p.fails = "error" /\ p.fills = FALSE /\ p.user = FALSE
<1>1. CASE p = Cmdlet BY <1>1 DEF Cmdlet, Read, ReadRecord
<1>2. CASE p = Read("alias", 0) BY <1>2 DEF Read, ReadRecord
<1> QED BY <1>1, <1>2

LEMMA DocumentIs ==
  /\ Document \in ReadRecord /\ Document.cap = 0 /\ Document.own = 0
  /\ Document.tells = "note" /\ Document.user = FALSE /\ Document.asked = FALSE
<1> DEFINE p == Read("file", 0)
<1>1. /\ p \in ReadRecord /\ p.cap = 0 /\ p.own = 0 /\ p.tells = "note"
      /\ p.user = FALSE /\ p.asked = FALSE
  BY DEF Read, ReadRecord
<1> QED BY <1>1, BestEffortIs DEF Document, SameRows, SameTold, SameKind

LEMMA UserQueryIs ==
  ASSUME NEW n \in Nat
  PROVE  LET p == UserQuery(n)
         IN  /\ p \in ReadRecord /\ p.user /\ p.via = "sql" /\ p.tells = "field"
             /\ p.fails = "error"
<1> DEFINE q == Flagged(Keep(n, Query))
<1>1. q \in ReadRecord /\ q.via = "sql" /\ q.tells = "field" /\ q.fails = "error"
  <2> DEFINE k == Keep(n, Query)
  <2>1. k \in ReadRecord /\ SameKind(k, Query) /\ SameEnds(k, Query)
    BY QueryIs, KeepIs
  <2> HIDE DEF k
  <2>2. /\ Flagged(k) \in ReadRecord /\ SameKind(Flagged(k), k) /\ SameEnds(Flagged(k), k)
        /\ Flagged(k).tells = "field"
    BY <2>1, FlaggedIs
  <2>3. k.via = "sql" /\ k.fails = "error" BY <2>1, QueryIs DEF SameKind, SameEnds
  <2>4. Flagged(k).via = "sql" /\ Flagged(k).fails = "error"
    BY <2>2, <2>3 DEF SameKind, SameEnds
  <2> QED BY <2>2, <2>4 DEF k
<1>2. UserQuery(n) = [q EXCEPT !.user = TRUE] BY DEF UserQuery
<1> HIDE DEF q
<1> QED BY <1>1, <1>2 DEF ReadRecord

CallersSql == {"execute_query", "fan_out_query"}

GoodRead(name, empty, r) ==
  /\ r \in ReadRecord
  /\ name \notin CutsInSilence =>
       /\ r.tells # "no" /\ (r.via = "file" => r.cap = 0)
       /\ r.user \/ r.own = 0 \/ r.own > r.cap \/ r.asked
  /\ name \in CallersSql => r.user /\ r.via = "sql" /\ r.fails # "empty"
  /\ empty = "absent" /\ name \notin AbsentUnread =>
       ~r.fills /\ ~r.user /\ r.via # "file" /\ r.fails # "empty"

GoodReads(name, empty, reads) ==
  /\ Len(reads) \in 0 .. 4 /\ DOMAIN reads = 1 .. Len(reads)
  /\ \A k \in 1 .. Len(reads) : GoodRead(name, empty, reads[k])

Noted(reads) == \A k \in 1 .. Len(reads) : reads[k].tells = "note"

GoodTool(name, t) ==
  /\ GoodReads(name, t.empty, t.reads) /\ GoodReads(name, t.empty, t.dbatools)
  /\ Noted(t.dbatools)

LEMMA NoReads == ASSUME NEW name, NEW empty PROVE GoodReads(name, empty, <<>>)
  BY DEF GoodReads

LEMMA OneRead ==
  ASSUME NEW name, NEW empty, NEW r, GoodRead(name, empty, r)
  PROVE  GoodReads(name, empty, <<r>>)
  BY DEF GoodReads

LEMMA TwoReads ==
  ASSUME NEW name, NEW empty, NEW r, NEW s, GoodRead(name, empty, r), GoodRead(name, empty, s)
  PROVE  GoodReads(name, empty, <<r, s>>)
  BY DEF GoodReads

LEMMA ThreeReads ==
  ASSUME NEW name, NEW empty, NEW r, NEW s, NEW t,
         GoodRead(name, empty, r), GoodRead(name, empty, s), GoodRead(name, empty, t)
  PROVE  GoodReads(name, empty, <<r, s, t>>)
  BY DEF GoodReads

LEMMA FourReads ==
  ASSUME NEW name, NEW empty, NEW r, NEW s, NEW t, NEW u, GoodRead(name, empty, r),
         GoodRead(name, empty, s), GoodRead(name, empty, t), GoodRead(name, empty, u)
  PROVE  GoodReads(name, empty, <<r, s, t, u>>)
  BY DEF GoodReads

LEMMA ToolIs ==
  ASSUME NEW name, NEW empty, NEW reads, GoodReads(name, empty, reads)
  PROVE  GoodTool(name, Tool(reads, empty)) /\ GoodTool(name, Checked(Tool(reads, empty)))
  BY NoReads DEF GoodTool, Noted, Tool, Checked

LEMMA OrIs ==
  ASSUME NEW name, NEW empty, NEW reads, NEW first, GoodReads(name, empty, reads),
         GoodReads(name, empty, first), Noted(first)
  PROVE  /\ GoodTool(name, Or(first, Tool(reads, empty)))
         /\ GoodTool(name, Checked(Or(first, Tool(reads, empty))))
  BY DEF GoodTool, Tool, Checked, Or

LEMMA PlainReadsAreGood ==
  ASSUME NEW name, name \notin CallersSql, NEW empty
  PROVE  /\ GoodRead(name, empty, Query) /\ GoodRead(name, empty, Cmdlet)
         /\ GoodRead(name, empty, Read("alias", 0))
         /\ \A n \in Nat : GoodRead(name, empty, Keep(n, Query))
<1>1. GoodRead(name, empty, Query) BY QueryIs DEF GoodRead
<1>2. ASSUME NEW p \in {Cmdlet, Read("alias", 0)} PROVE GoodRead(name, empty, p)
  <2>1. /\ p \in ReadRecord /\ p.via # "file" /\ p.cap = 0 /\ p.own = 0
        /\ p.tells = "note" /\ p.fails = "error" /\ p.fills = FALSE /\ p.user = FALSE
    BY CmdletIs
  <2> QED BY <2>1 DEF GoodRead
<1>3. ASSUME NEW n \in Nat PROVE GoodRead(name, empty, Keep(n, Query))
  <2> DEFINE p == Keep(n, Query)
  <2>1. p \in ReadRecord /\ SameKind(p, Query) /\ SameTold(p, Query) /\ SameEnds(p, Query)
        /\ p.own = Query.own
    BY QueryIs, KeepIs
  <2> HIDE DEF p
  <2>2. /\ p.via # "file" /\ p.own = 0 /\ p.tells = "note" /\ p.fails = "error"
        /\ p.fills = FALSE /\ p.user = FALSE
    BY <2>1, QueryIs DEF SameKind, SameTold, SameEnds
  <2>3. GoodRead(name, empty, p) BY <2>1, <2>2 DEF GoodRead
  <2> QED BY <2>3 DEF p
<1> QED BY <1>1, <1>2, <1>3

LEMMA WrappedReadsAreGood ==
  ASSUME NEW name, NEW empty, NEW q, GoodRead(name, empty, q)
  PROVE  /\ GoodRead(name, empty, AskedTop(q)) /\ GoodRead(name, empty, Flagged(q))
         /\ GoodRead(name, empty, Beside(q))
         /\ GoodRead(name, empty, After("some", q)) /\ GoodRead(name, empty, After("none", q))
         /\ GoodRead(name, empty, Reported(q))
<1> USE DEF GoodRead, SameKind, SameRows, SameTold, SameEnds
<1>1. GoodRead(name, empty, AskedTop(q)) BY AskedTopIs
<1>2. GoodRead(name, empty, Flagged(q)) BY FlaggedIs
<1>3. ASSUME NEW rows \in {"none", "some"},
             NEW p \in {After(rows, q), Beside(q)}
      PROVE  GoodRead(name, empty, p)
  <2>1. /\ p \in ReadRecord /\ SameKind(p, q) /\ SameRows(p, q)
        /\ SameTold(p, q) /\ SameEnds(p, q)
    <3> HIDE DEF GoodRead, SameKind, SameRows, SameTold, SameEnds
    <3>1. q \in ReadRecord BY DEF GoodRead
    <3> QED BY <3>1, PlainIs, Zenon
  <2> QED BY <2>1
<1>4. /\ GoodRead(name, empty, Beside(q))
      /\ GoodRead(name, empty, After("some", q)) /\ GoodRead(name, empty, After("none", q))
  <2> HIDE DEF GoodRead
  <2> QED BY <1>3
<1>5. GoodRead(name, empty, Reported(q)) BY ReportedIs
<1> QED BY <1>1, <1>2, <1>4, <1>5

LEMMA BestEffortsAreGood ==
  ASSUME NEW name, NEW empty, NEW q, GoodRead(name, empty, q),
         name \notin CallersSql, empty # "absent" \/ name \in AbsentUnread
  PROVE  GoodRead(name, empty, BestEffort(q)) /\ GoodRead(name, empty, PerDatabase(q))
  BY BestEffortIs, PerDatabaseIs DEF GoodRead, SameKind, SameRows, SameTold

(* A TOP of its own lets one more row through than are kept, or the tool is *)
(* one of those that do not tell.                                           *)
LEMMA TopsAreGood ==
  ASSUME NEW name, name \notin CallersSql, NEW empty, NEW m \in Nat
  PROVE  /\ m > 200 => GoodRead(name, empty, Top(m, Query))
         /\ \A n \in Nat : m > n => GoodRead(name, empty, Keep(n, Top(m, Query)))
         /\ \A n \in Nat : name \in CutsInSilence
              => GoodRead(name, empty, Unflagged(Keep(n, Top(m, Query))))
<1>1. /\ Top(m, Query) \in ReadRecord /\ Top(m, Query).via = "sql" /\ ~Top(m, Query).user
      /\ Top(m, Query).tells = "note" /\ Top(m, Query).fails = "error"
      /\ ~Top(m, Query).fills /\ Top(m, Query).own = m /\ Top(m, Query).cap = 200
  <2>1. /\ Top(m, Query) \in ReadRecord /\ SameKind(Top(m, Query), Query)
        /\ SameTold(Top(m, Query), Query) /\ SameEnds(Top(m, Query), Query)
        /\ Top(m, Query).own = m /\ Top(m, Query).cap = Query.cap
    BY QueryIs, TopIs
  <2> QED BY <2>1, QueryIs DEF SameKind, SameTold, SameEnds
<1>2. m > 200 => GoodRead(name, empty, Top(m, Query)) BY <1>1 DEF GoodRead
<1>3. ASSUME NEW n \in Nat
      PROVE  LET p == Keep(n, Top(m, Query))
             IN  /\ p \in ReadRecord /\ p.via = "sql" /\ ~p.user
                 /\ p.tells = "note" /\ p.fails = "error"
                 /\ ~p.fills /\ p.own = m /\ p.cap = n
  <2> DEFINE t == Top(m, Query)
             p == Keep(n, t)
  <2>1. /\ t \in ReadRecord /\ t.via = "sql" /\ ~t.user /\ t.tells = "note"
        /\ t.fails = "error" /\ ~t.fills /\ t.own = m
    BY <1>1
  <2> HIDE DEF t
  <2>2. /\ p \in ReadRecord /\ SameKind(p, t) /\ SameTold(p, t) /\ SameEnds(p, t)
        /\ p.cap = n /\ p.own = t.own
    BY <2>1, KeepIs
  <2> HIDE DEF p
  <2>3. /\ p.via = "sql" /\ ~p.user /\ p.tells = "note" /\ p.fails = "error" /\ ~p.fills
        /\ p.own = m
    BY <2>1, <2>2 DEF SameKind, SameTold, SameEnds
  <2> QED BY <2>2, <2>3 DEF p, t
<1>4. ASSUME NEW n \in Nat, m > n PROVE GoodRead(name, empty, Keep(n, Top(m, Query)))
  BY <1>3, <1>4 DEF GoodRead
<1>5. ASSUME NEW n \in Nat, name \in CutsInSilence
      PROVE  GoodRead(name, empty, Unflagged(Keep(n, Top(m, Query))))
  <2> DEFINE p == Keep(n, Top(m, Query))
  <2>1. /\ p \in ReadRecord /\ p.via = "sql" /\ ~p.user /\ p.fails = "error" /\ ~p.fills
    BY <1>3
  <2> HIDE DEF p
  <2>2. /\ Unflagged(p) \in ReadRecord /\ Unflagged(p).via = "sql" /\ ~Unflagged(p).user
        /\ Unflagged(p).fails = "error" /\ ~Unflagged(p).fills
    BY <2>1, UnflaggedIs DEF SameKind, SameEnds
  <2>3. GoodRead(name, empty, Unflagged(p)) BY <1>5, <2>2 DEF GoodRead
  <2> QED BY <2>3 DEF p
<1> QED BY <1>2, <1>4, <1>5

LEMMA DocumentsAreGood ==
  ASSUME NEW name, NEW empty, name \notin CallersSql, empty # "absent" \/ name \in AbsentUnread
  PROVE  /\ GoodRead(name, empty, Document)
         /\ name \in CutsInSilence => GoodRead(name, empty, Unflagged(Keep(40, Document)))
<1>1. GoodRead(name, empty, Document) BY DocumentIs DEF GoodRead
<1>2. Keep(40, Document) \in ReadRecord BY DocumentIs, KeepIs
<1>3. Unflagged(Keep(40, Document)) \in ReadRecord BY <1>2, UnflaggedIs
<1>4. name \in CutsInSilence => GoodRead(name, empty, Unflagged(Keep(40, Document)))
  BY <1>3 DEF GoodRead
<1> QED BY <1>1, <1>4

LEMMA UserQueriesAreGood ==
  ASSUME NEW name, NEW empty, empty # "absent", NEW n \in Nat
  PROVE  /\ GoodRead(name, empty, UserQuery(n))
         /\ GoodRead(name, empty, [Reported(UserQuery(n)) EXCEPT !.on = "all"])
<1>1. GoodRead(name, empty, UserQuery(n)) BY UserQueryIs DEF GoodRead
<1>2. ASSUME NEW q, GoodRead(name, empty, q) PROVE GoodRead(name, empty, [q EXCEPT !.on = "all"])
  BY <1>2 DEF GoodRead, ReadRecord
<1> QED BY <1>1, <1>2, WrappedReadsAreGood

LEMMA OneNoted == ASSUME NEW r, r.tells = "note" PROVE Noted(<<r>>)
  BY DEF Noted

LEMMA TwoNoted ==
  ASSUME NEW r, NEW s, r.tells = "note", s.tells = "note"
  PROVE  Noted(<<r, s>>)
  BY DEF Noted

LEMMA FirstCmdlet ==
  ASSUME NEW name, name \notin CallersSql, NEW empty
  PROVE  GoodReads(name, empty, <<Cmdlet>>) /\ Noted(<<Cmdlet>>)
<1>1. GoodReads(name, empty, <<Cmdlet>>) BY PlainReadsAreGood, OneRead
<1>2. Noted(<<Cmdlet>>) BY CmdletIs, OneNoted
<1> QED BY <1>1, <1>2

LEMMA KeptTopsAreGood ==
  ASSUME NEW name, name \notin CallersSql, NEW empty, NEW m \in Nat, NEW n \in Nat, m > n
  PROVE  GoodRead(name, empty, Keep(n, Top(m, Query)))
  BY TopsAreGood

LEMMA EveryUserQueryIsGood ==
  ASSUME NEW name, NEW empty, empty # "absent", NEW n \in Nat
  PROVE  GoodRead(name, empty, [Reported(UserQuery(n)) EXCEPT !.on = "all"])
  BY UserQueriesAreGood, Zenon

LEMMA UserQueryIsGood ==
  ASSUME NEW name, NEW empty, empty # "absent", NEW n \in Nat
  PROVE  GoodRead(name, empty, UserQuery(n))
  BY UserQueriesAreGood

----------------------------------------------------------------------------
LEMMA AppDataToolsAreGood ==
  /\ GoodTool("list_instances", list_instances)
  /\ GoodTool("get_current_primary", get_current_primary)
  /\ GoodTool("list_databases", list_databases)
  /\ GoodTool("list_tables", list_tables)
  /\ GoodTool("describe_object", describe_object)
  /\ GoodTool("fan_out_query", fan_out_query)
  /\ GoodTool("execute_query", execute_query)
  /\ GoodTool("list_schema_docs", list_schema_docs)
  /\ GoodTool("describe_schema", describe_schema)
  /\ GoodTool("describe_doc_object", describe_doc_object)
  /\ GoodTool("search_schema_docs", search_schema_docs)
<1>1. GoodTool("list_instances", list_instances)
  BY SMT, NoReads, ToolIs DEF list_instances
<1>2. GoodTool("get_current_primary", get_current_primary)
  BY SMT, PlainReadsAreGood, BestEffortsAreGood, TwoReads, ToolIs DEF
     get_current_primary, CallersSql, AbsentUnread
<1>3. GoodTool("list_databases", list_databases)
  BY SMT, PlainReadsAreGood, OneRead, ToolIs DEF list_databases, CallersSql
<1>4. GoodTool("list_tables", list_tables)
  BY SMT, PlainReadsAreGood, WrappedReadsAreGood, OneRead, ToolIs DEF list_tables,
     CallersSql
<1>5. GoodTool("describe_object", describe_object)
  BY SMT, PlainReadsAreGood, WrappedReadsAreGood, BestEffortsAreGood, ThreeReads,
     ToolIs DEF describe_object, CallersSql, AbsentUnread
<1>6. GoodTool("fan_out_query", fan_out_query)
  <2> DEFINE r == [Reported(UserQuery(200)) EXCEPT !.on = "all"]
  <2>1. GoodRead("fan_out_query", "list", r)
    <3>1. "list" # "absent" /\ 200 \in Nat OBVIOUS
    <3> QED BY <3>1, EveryUserQueryIsGood
  <2>2. fan_out_query = Checked(Tool(<<r>>, "list")) BY DEF fan_out_query
  <2> HIDE DEF r
  <2> QED BY SMT, <2>1, <2>2, OneRead, ToolIs
<1>7. GoodTool("execute_query", execute_query)
  <2>1. GoodRead("execute_query", "list", UserQuery(500)) BY UserQueryIsGood
  <2> QED BY SMT, <2>1, OneRead, ToolIs DEF execute_query
<1>8. GoodTool("list_schema_docs", list_schema_docs)
  BY SMT, DocumentsAreGood, OneRead, ToolIs DEF list_schema_docs, CallersSql,
     AbsentUnread
<1>9. GoodTool("describe_schema", describe_schema)
  BY SMT, DocumentsAreGood, OneRead, ToolIs DEF describe_schema, CallersSql,
     AbsentUnread
<1>10. GoodTool("describe_doc_object", describe_doc_object)
  BY SMT, DocumentsAreGood, OneRead, ToolIs DEF describe_doc_object, CallersSql,
     AbsentUnread
<1>11. GoodTool("search_schema_docs", search_schema_docs)
  BY SMT, DocumentsAreGood, OneRead, ToolIs DEF search_schema_docs, CallersSql,
     CutsInSilence
<1> QED BY <1>1, <1>2, <1>3, <1>4, <1>5, <1>6, <1>7, <1>8, <1>9, <1>10, <1>11

LEMMA DmvToolsAreGood ==
  /\ GoodTool("get_active_sessions", get_active_sessions)
  /\ GoodTool("get_blocking_chains", get_blocking_chains)
  /\ GoodTool("get_hiq", get_hiq)
  /\ GoodTool("get_top_queries", get_top_queries)
  /\ GoodTool("get_wait_stats", get_wait_stats)
  /\ GoodTool("get_file_io_stats", get_file_io_stats)
  /\ GoodTool("get_cpu_history", get_cpu_history)
  /\ GoodTool("get_memory_usage", get_memory_usage)
  /\ GoodTool("get_tempdb_usage", get_tempdb_usage)
  /\ GoodTool("get_database_info", get_database_info)
  /\ GoodTool("get_server_info", get_server_info)
  /\ GoodTool("get_missing_indexes", get_missing_indexes)
  /\ GoodTool("get_index_usage_stats", get_index_usage_stats)
  /\ GoodTool("get_database_files", get_database_files)
  /\ GoodTool("get_query_store_regressions", get_query_store_regressions)
  /\ GoodTool("get_plan_cache_pollution", get_plan_cache_pollution)
  /\ GoodTool("get_long_running_transactions", get_long_running_transactions)
  /\ GoodTool("get_deadlock_history", get_deadlock_history)
  /\ GoodTool("get_latch_stats", get_latch_stats)
  /\ GoodTool("get_ag_health", get_ag_health)
  /\ GoodTool("get_distributed_ag_health", get_distributed_ag_health)
  /\ GoodTool("get_log_paths", get_log_paths)
  /\ GoodTool("get_memory_dumps", get_memory_dumps)
  /\ GoodTool("get_machine_spec", get_machine_spec)
  /\ GoodTool("get_backup_status", get_backup_status)
  /\ GoodTool("get_vlf_count", get_vlf_count)
  /\ GoodTool("get_buffer_pool_by_object", get_buffer_pool_by_object)
  /\ GoodTool("get_statistics_health", get_statistics_health)
  /\ GoodTool("get_index_fragmentation", get_index_fragmentation)
  /\ GoodTool("get_job_status", get_job_status)
  /\ GoodTool("get_columnstore_health", get_columnstore_health)
  /\ GoodTool("get_perfmon_counters", get_perfmon_counters)
<1>1. GoodTool("get_active_sessions", get_active_sessions)
  BY SMT, FirstCmdlet, PlainReadsAreGood, WrappedReadsAreGood, OneRead, OrIs DEF
     get_active_sessions, CallersSql
<1>2. GoodTool("get_blocking_chains", get_blocking_chains)
  BY SMT, PlainReadsAreGood, OneRead, ToolIs DEF get_blocking_chains, CallersSql
<1>3. GoodTool("get_hiq", get_hiq)
  <2>1. TopN \in Nat /\ TopN + 1 \in Nat /\ TopN + 1 > TopN BY TopAssumption
  <2>2. GoodRead("get_hiq", "list", Keep(TopN, Top(TopN + 1, Query)))
    BY SMT, <2>1, KeptTopsAreGood DEF CallersSql
  <2> QED BY SMT, <2>2, WrappedReadsAreGood, OneRead, ToolIs DEF get_hiq
<1>4. GoodTool("get_top_queries", get_top_queries)
  BY SMT, PlainReadsAreGood, WrappedReadsAreGood, OneRead, ToolIs DEF get_top_queries,
     CallersSql
<1>5. GoodTool("get_wait_stats", get_wait_stats)
  BY SMT, FirstCmdlet, PlainReadsAreGood, WrappedReadsAreGood, OneRead, OrIs DEF
     get_wait_stats, CallersSql
<1>6. GoodTool("get_file_io_stats", get_file_io_stats)
  BY SMT, PlainReadsAreGood, OneRead, ToolIs DEF get_file_io_stats, CallersSql
<1>7. GoodTool("get_cpu_history", get_cpu_history)
  BY SMT, PlainReadsAreGood, OneRead, ToolIs DEF get_cpu_history, CallersSql
<1>8. GoodTool("get_memory_usage", get_memory_usage)
  BY SMT, PlainReadsAreGood, ThreeReads, ToolIs DEF get_memory_usage, CallersSql
<1>9. GoodTool("get_tempdb_usage", get_tempdb_usage)
  BY SMT, PlainReadsAreGood, TwoReads, ToolIs DEF get_tempdb_usage, CallersSql
<1>10. GoodTool("get_database_info", get_database_info)
  BY SMT, PlainReadsAreGood, OneRead, ToolIs DEF get_database_info, CallersSql
<1>11. GoodTool("get_server_info", get_server_info)
  BY SMT, PlainReadsAreGood, FourReads, ToolIs DEF get_server_info, CallersSql
<1>12. GoodTool("get_missing_indexes", get_missing_indexes)
  BY SMT, PlainReadsAreGood, WrappedReadsAreGood, OneRead, ToolIs DEF
     get_missing_indexes, CallersSql
<1>13. GoodTool("get_index_usage_stats", get_index_usage_stats)
  <2>1. GoodRead("get_index_usage_stats", "list", Keep(1000, Top(1001, Query)))
    BY SMT, KeptTopsAreGood DEF CallersSql
  <2> QED BY SMT, <2>1, WrappedReadsAreGood, BestEffortsAreGood, OneRead, ToolIs
          DEF get_index_usage_stats, CallersSql
<1>14. GoodTool("get_database_files", get_database_files)
  BY SMT, PlainReadsAreGood, OneRead, ToolIs DEF get_database_files, CallersSql
<1>15. GoodTool("get_query_store_regressions", get_query_store_regressions)
  BY SMT, PlainReadsAreGood, WrappedReadsAreGood, OneRead, ToolIs DEF
     get_query_store_regressions, CallersSql
<1>16. GoodTool("get_plan_cache_pollution", get_plan_cache_pollution)
  BY SMT, PlainReadsAreGood, WrappedReadsAreGood, TwoReads, ToolIs DEF
     get_plan_cache_pollution, CallersSql
<1>17. GoodTool("get_long_running_transactions", get_long_running_transactions)
  BY SMT, PlainReadsAreGood, OneRead, ToolIs DEF get_long_running_transactions,
     CallersSql
<1>18. GoodTool("get_deadlock_history", get_deadlock_history)
  BY SMT, PlainReadsAreGood, WrappedReadsAreGood, OneRead, ToolIs DEF
     get_deadlock_history, CallersSql
<1>19. GoodTool("get_latch_stats", get_latch_stats)
  BY SMT, FirstCmdlet, PlainReadsAreGood, WrappedReadsAreGood, OneRead, OrIs DEF
     get_latch_stats, CallersSql
<1>20. GoodTool("get_ag_health", get_ag_health)
  BY SMT, PlainReadsAreGood, WrappedReadsAreGood, ThreeReads, ToolIs DEF
     get_ag_health, CallersSql
<1>21. GoodTool("get_distributed_ag_health", get_distributed_ag_health)
  BY SMT, PlainReadsAreGood, OneRead, ToolIs DEF get_distributed_ag_health, CallersSql
<1>22. GoodTool("get_log_paths", get_log_paths)
  BY SMT, PlainReadsAreGood, OneRead, ToolIs DEF get_log_paths, CallersSql
<1>23. GoodTool("get_memory_dumps", get_memory_dumps)
  BY SMT, PlainReadsAreGood, WrappedReadsAreGood, OneRead, ToolIs DEF
     get_memory_dumps, CallersSql
<1>24. GoodTool("get_machine_spec", get_machine_spec)
  BY SMT, PlainReadsAreGood, TwoReads, ToolIs DEF get_machine_spec, CallersSql
<1>25. GoodTool("get_backup_status", get_backup_status)
  BY SMT, PlainReadsAreGood, OneRead, ToolIs DEF get_backup_status, CallersSql
<1>26. GoodTool("get_vlf_count", get_vlf_count)
  BY SMT, PlainReadsAreGood, OneRead, ToolIs DEF get_vlf_count, CallersSql
<1>27. GoodTool("get_buffer_pool_by_object", get_buffer_pool_by_object)
  BY SMT, PlainReadsAreGood, WrappedReadsAreGood, BestEffortsAreGood, OneRead, ToolIs
     DEF get_buffer_pool_by_object, CallersSql, AbsentUnread
<1>28. GoodTool("get_statistics_health", get_statistics_health)
  <2> DEFINE objects == Beside(Keep(1000000, Query))
             first   == <<objects, After("some", Cmdlet)>>
  <2>1. /\ GoodRead("get_statistics_health", "absent", objects)
        /\ GoodRead("get_statistics_health", "absent", After("some", Cmdlet))
        /\ GoodRead("get_statistics_health", "absent", Query)
    BY SMT, PlainReadsAreGood, WrappedReadsAreGood DEF CallersSql
  <2>2. GoodReads("get_statistics_health", "absent", first)
    <3> HIDE DEF objects
    <3> QED BY SMT, <2>1, TwoReads
  <2>3. GoodReads("get_statistics_health", "absent", <<Query>>)
    BY SMT, <2>1, OneRead
  <2>4. Noted(first)
    <3>1. Keep(1000000, Query) \in ReadRecord /\ Keep(1000000, Query).tells = "note"
      BY QueryIs, KeepIs DEF SameTold
    <3>2. objects.tells = "note" BY <3>1, PlainIs DEF SameTold
    <3>3. After("some", Cmdlet).tells = "note" BY CmdletIs, PlainIs DEF SameTold
    <3> HIDE DEF objects
    <3> QED BY SMT, <3>2, <3>3, TwoNoted
  <2>5. get_statistics_health = Checked(Or(first, Tool(<<Query>>, "absent")))
    BY DEF get_statistics_health
  <2> HIDE DEF first
  <2> QED BY SMT, <2>2, <2>3, <2>4, <2>5, OrIs
<1>29. GoodTool("get_index_fragmentation", get_index_fragmentation)
  BY SMT, PlainReadsAreGood, WrappedReadsAreGood, OneRead, ToolIs DEF
     get_index_fragmentation, CallersSql
<1>30. GoodTool("get_job_status", get_job_status)
  BY SMT, PlainReadsAreGood, TopsAreGood, WrappedReadsAreGood, TwoReads, ToolIs DEF
     get_job_status, CallersSql, CutsInSilence
<1>31. GoodTool("get_columnstore_health", get_columnstore_health)
  <2>1. GoodRead("get_columnstore_health", "absent", Top(201, Query))
    BY SMT, TopsAreGood DEF CallersSql
  <2> QED BY SMT, <2>1, BestEffortsAreGood, OneRead, ToolIs
          DEF get_columnstore_health, CallersSql, AbsentUnread
<1>32. GoodTool("get_perfmon_counters", get_perfmon_counters)
  BY SMT, PlainReadsAreGood, OneRead, ToolIs DEF get_perfmon_counters, CallersSql
<1> QED BY <1>1, <1>2, <1>3, <1>4, <1>5, <1>6, <1>7, <1>8, <1>9, <1>10, <1>11,
     <1>12, <1>13, <1>14, <1>15, <1>16, <1>17, <1>18, <1>19, <1>20, <1>21, <1>22,
     <1>23, <1>24, <1>25, <1>26, <1>27, <1>28, <1>29, <1>30, <1>31, <1>32

ToolNames == DOMAIN AppDataTools \union DOMAIN DmvTools

LEMMA NotATool == "none" \notin ToolNames /\ ExecuteWrite \notin ToolNames
  BY DEF ToolNames, AppDataTools, DmvTools, ExecuteWrite

LEMMA ToolsAreGood ==
  ASSUME NEW name \in ToolNames
  PROVE  GoodTool(name, ToolNamed(name))
<1>1. CASE name \in DOMAIN AppDataTools
  <2>1. GoodTool(name, AppDataTools[name])
    BY <1>1, AppDataToolsAreGood DEF AppDataTools
  <2> QED BY <1>1, <2>1 DEF ToolNamed
<1>2. CASE name \in DOMAIN DmvTools /\ name \notin DOMAIN AppDataTools
  <2>1. GoodTool(name, DmvTools[name])
    BY <1>2, DmvToolsAreGood DEF DmvTools
  <2> QED BY <1>2, <2>1 DEF ToolNamed
<1> QED BY <1>1, <1>2 DEF ToolNames

----------------------------------------------------------------------------
LEMMA LeastOfFew ==
  ASSUME NEW S \in SUBSET (1 .. 5), S # {}
  PROVE  Min(S) \in S
<1>1. \E n \in S : \A m \in S : n <= m
  <2>1. CASE 1 \in S BY <2>1
  <2>2. CASE 1 \notin S /\ 2 \in S BY <2>2
  <2>3. CASE 1 \notin S /\ 2 \notin S /\ 3 \in S BY <2>3
  <2>4. CASE 1 \notin S /\ 2 \notin S /\ 3 \notin S /\ 4 \in S BY <2>4
  <2>5. CASE 1 \notin S /\ 2 \notin S /\ 3 \notin S /\ 4 \notin S
    <3>1. \A n \in S : n = 5 BY <2>5
    <3>2. PICK n \in S : TRUE OBVIOUS
    <3> QED BY <3>1, <3>2
  <2> QED BY <2>1, <2>2, <2>3, <2>4, <2>5
<1> QED BY <1>1 DEF Min

LEMMA LeastOfThree ==
  ASSUME NEW a \in Nat, NEW b \in Nat, NEW c \in Nat
  PROVE  /\ Min({a} \union {b}) \in {a, b}
         /\ Min({a} \union {b}) <= a /\ Min({a} \union {b}) <= b
         /\ Min({a} \union {b} \union {c}) \in {a, b, c}
         /\ Min({a} \union {b} \union {c}) <= a /\ Min({a} \union {b} \union {c}) <= b
<1>1. \E n \in {a} \union {b} : \A m \in {a} \union {b} : n <= m OBVIOUS
<1>2. \E n \in {a} \union {b} \union {c} : \A m \in {a} \union {b} \union {c} : n <= m
  OBVIOUS
<1>3. /\ Min({a} \union {b}) \in {a} \union {b}
      /\ \A m \in {a} \union {b} : Min({a} \union {b}) <= m
  BY <1>1 DEF Min
<1>4. /\ Min({a} \union {b} \union {c}) \in {a} \union {b} \union {c}
      /\ \A m \in {a} \union {b} \union {c} : Min({a} \union {b} \union {c}) <= m
  BY <1>2 DEF Min
<1> QED BY <1>3, <1>4

(* Rows are lost by the cut of capRows, or by a TOP of the batch that is not *)
(* over the rows to keep.                                                    *)
LEMMA RowsLost ==
  ASSUME NEW r \in ReadRecord, NEW produced \in Nat,
         NEW served, served = Served(r, produced),
         NEW kept, kept = Kept(r, served)
  PROVE  /\ served \in Nat /\ (Truncated(r, served) => produced > kept)
         /\ produced > kept /\ ~Truncated(r, served) =>
              ~Wrapped(r) /\ kept = r.own /\ r.own <= r.cap
<1>1. r.cap \in Nat /\ r.own \in Nat /\ r.cap + 1 \in Nat BY DEF ReadRecord
<1> DEFINE top == IF Wrapped(r) THEN r.cap + 1 ELSE r.own
<1>2. top \in Nat BY <1>1
<1>3. served = Min({produced} \union {top}) BY DEF Served
<1>4. served \in {produced, top} /\ served <= produced
  <2> HIDE DEF top
  <2> QED BY <1>2, <1>3, LeastOfThree
<1> QED BY <1>1, <1>4 DEF Truncated, Kept

(* The read after one of a few is one of those to come, or past the last. *)
LEMMA NextReadIs ==
  ASSUME NEW reads, Len(reads) \in 0 .. 4, DOMAIN reads = 1 .. Len(reads),
         NEW k \in 1 .. Len(reads), NEW some
  PROVE  NextRead(reads, k, some) \in Nat \ {0}
<1> DEFINE S == {j \in (k + 1)..(Len(reads) + 1) :
                   j \in DOMAIN reads => reads[j].after \in {"any", IF some THEN "some" ELSE "none"}}
<1>1. S \in SUBSET (1 .. 5) /\ Len(reads) + 1 \in S OBVIOUS
<1>2. NextRead(reads, k, some) = Min(S) BY DEF NextRead
<1> HIDE DEF S
<1>3. Min(S) \in S BY <1>1, LeastOfFew
<1>4. Min(S) \in 1 .. 5 BY <1>1, <1>3
<1> QED BY <1>2, <1>4

----------------------------------------------------------------------------
CallRecord ==
  [tool : ToolNames \union {"none", ExecuteWrite}, target : Target \union {"none"},
   path : {"dmv", "dbatools", "commit", "dry"}, step : Nat,
   left : SUBSET (Target \union {"none"}), some : BOOLEAN, found : BOOLEAN,
   flagged : SUBSET Target, said : BOOLEAN]

(* A call of a read tool is at a read of one of its paths; the dbatools     *)
(* path has no field to say truncated in, and a write has none.             *)
GoodCall(cl) ==
  /\ cl \in CallRecord
  /\ cl.tool \in ToolNames => cl.path \in {"dmv", "dbatools"} /\ cl.step # 0
  /\ cl.tool \notin ToolNames \/ cl.path = "dbatools" => cl.flagged = {}

LEMMA AtIs ==
  ASSUME NEW cl \in CallRecord, NEW path \in {"dmv", "dbatools"}, NEW k \in Nat \ {0}
  PROVE  /\ At(cl, path, k) \in CallRecord /\ At(cl, path, k).step = k
         /\ At(cl, path, k).path = path /\ At(cl, path, k).tool = cl.tool
         /\ At(cl, path, k).flagged = cl.flagged
<1> DEFINE l == IF k \in DOMAIN Reads(cl.tool, path) /\ Reads(cl.tool, path)[k].on = "all"
                THEN Target ELSE {cl.target}
<1>1. l \in SUBSET (Target \union {"none"}) BY DEF CallRecord
<1>2. At(cl, path, k) = [cl EXCEPT !.path = path, !.step = k, !.left = l] BY DEF At
<1> HIDE DEF l
<1>3. /\ At(cl, path, k).step = k /\ At(cl, path, k).path = path
      /\ At(cl, path, k).tool = cl.tool /\ At(cl, path, k).flagged = cl.flagged
  BY <1>2 DEF CallRecord
<1>4. At(cl, path, k) \in CallRecord
  <2>1. k \in Nat OBVIOUS
  <2> QED BY <1>1, <1>2, <2>1 DEF CallRecord
<1> QED BY <1>3, <1>4

LEMMA BegunIs ==
  ASSUME NEW name \in ToolNames, NEW i \in Target \union {"none"}, NEW path \in {"dmv", "dbatools"}
  PROVE  /\ GoodCall(Begun(name, i, path)) /\ Begun(name, i, path).tool = name
         /\ Begun(name, i, path).flagged = {}
<1> DEFINE cl == [Idle EXCEPT !.tool = name, !.target = i]
<1>1. cl \in CallRecord /\ cl.tool = name /\ cl.flagged = {} BY DEF Idle, CallRecord
<1>2. Begun(name, i, path) = At(cl, path, 1) BY DEF Begun
<1> HIDE DEF cl
<1>3. /\ At(cl, path, 1) \in CallRecord /\ At(cl, path, 1).step = 1
      /\ At(cl, path, 1).path = path /\ At(cl, path, 1).tool = name
      /\ At(cl, path, 1).flagged = {}
  BY <1>1, AtIs
<1> QED BY <1>2, <1>3 DEF GoodCall

LEMMA PastIs ==
  ASSUME NEW cl, GoodCall(cl), cl.tool \in ToolNames,
         NEW reads, reads = Reads(cl.tool, cl.path), cl.step \in 1 .. Len(reads),
         Len(reads) \in 0 .. 4, DOMAIN reads = 1 .. Len(reads), NEW i, NEW rows \in Nat
  PROVE  /\ GoodCall(Past(cl, i, rows)) /\ Past(cl, i, rows).tool = cl.tool
         /\ Past(cl, i, rows).flagged = cl.flagged
<1> DEFINE some  == cl.some \/ (cl.step = 1 /\ rows > 0)
           found == cl.found \/ (rows > 0 /\ reads[cl.step].main)
           got   == [cl EXCEPT !.some = some, !.found = found]
           next  == NextRead(reads, cl.step, some)
<1> USE DEF GoodCall
<1>1. /\ some \in BOOLEAN /\ found \in BOOLEAN OBVIOUS
<1>2. Past(cl, i, rows) = IF cl.left = {i} THEN At(got, cl.path, next)
                          ELSE [got EXCEPT !.left = @ \ {i}]
  BY DEF Past
<1>3. next \in Nat \ {0} BY NextReadIs
<1> HIDE DEF some, found, next
<1>4. /\ got \in CallRecord /\ got.tool = cl.tool /\ got.flagged = cl.flagged
      /\ got.path = cl.path /\ got.step = cl.step
  BY <1>1 DEF CallRecord
<1> HIDE DEF got
<1>5. CASE cl.left = {i} BY <1>2, <1>3, <1>4, <1>5, AtIs
<1>6. CASE cl.left # {i}
  <2>1. LET p == [got EXCEPT !.left = @ \ {i}]
        IN  /\ p \in CallRecord /\ p.tool = got.tool /\ p.flagged = got.flagged
            /\ p.path = got.path /\ p.step = got.step
    BY <1>4 DEF CallRecord
  <2> QED BY <1>2, <1>4, <1>6, <2>1
<1> QED BY <1>5, <1>6

LEMMA FlagIs ==
  ASSUME NEW cl, GoodCall(cl), cl.tool \in ToolNames, NEW i \in Target, cl.path # "dbatools"
  PROVE  LET f == [cl EXCEPT !.flagged = @ \union {i}]
         IN  /\ GoodCall(f) /\ f.tool = cl.tool /\ f.path = cl.path /\ f.step = cl.step
             /\ f.left = cl.left /\ f.flagged = cl.flagged \union {i}
<1> DEFINE f == [cl EXCEPT !.flagged = @ \union {i}]
<1>1. /\ f \in CallRecord /\ f.tool = cl.tool /\ f.path = cl.path /\ f.step = cl.step
      /\ f.left = cl.left /\ f.flagged = cl.flagged \union {i}
  BY DEF GoodCall, CallRecord
<1> HIDE DEF f
<1>2. GoodCall(f) BY <1>1 DEF GoodCall
<1> QED BY <1>1, <1>2 DEF f

(* What a call that is at a read is known to be at. *)
LEMMA NowIs ==
  ASSUME NEW c \in Call, GoodCall(call[c]), Reading(c),
         NEW reads, reads = Reads(call[c].tool, call[c].path)
  PROVE  /\ call[c].tool \in ToolNames
         /\ Len(reads) \in 0 .. 4 /\ DOMAIN reads = 1 .. Len(reads)
         /\ HasMore(c) => /\ call[c].step \in 1 .. Len(reads)
                          /\ Now(c) = reads[call[c].step]
                          /\ GoodRead(call[c].tool, ToolNamed(call[c].tool).empty, Now(c))
                          /\ call[c].path = "dbatools" => Now(c).tells = "note"
<1> DEFINE name == call[c].tool
<1>1. name \in ToolNames BY DEF Reading, Running, Writes, GoodCall, CallRecord
<1>2. call[c].path \in {"dmv", "dbatools"} /\ call[c].step \in Nat \ {0}
  BY <1>1 DEF GoodCall, CallRecord
<1>3. GoodTool(name, ToolNamed(name)) BY <1>1, ToolsAreGood
<1>4. /\ GoodReads(name, ToolNamed(name).empty, reads)
      /\ call[c].path = "dbatools" => Noted(reads)
  BY <1>2, <1>3 DEF GoodTool, Reads
<1>5. Len(reads) \in 0 .. 4 /\ DOMAIN reads = 1 .. Len(reads) BY <1>4 DEF GoodReads
<1>6. ASSUME HasMore(c)
      PROVE  /\ call[c].step \in 1 .. Len(reads) /\ Now(c) = reads[call[c].step]
             /\ GoodRead(name, ToolNamed(name).empty, Now(c))
             /\ call[c].path = "dbatools" => Now(c).tells = "note"
  <2>1. call[c].step \in 1 .. Len(reads) BY <1>2, <1>5, <1>6 DEF HasMore
  <2>2. Now(c) = reads[call[c].step] BY DEF Now
  <2> QED BY <1>4, <2>1, <2>2 DEF GoodReads, Noted
<1> QED BY <1>1, <1>5, <1>6

----------------------------------------------------------------------------
SaidCut(cl, ns, i) == i \in cl.flagged \/ \E n \in ns : n.kind = "cut" /\ n.on = i

CutsTold(cl, ns, ms) ==
  cl.tool \notin CutsInSilence => \A m \in ms : m.lost =>
    \/ m.on \in cl.flagged
    \/ [kind |-> "cut", on |-> m.on, cap |-> m.cap] \in ns
    \/ m.asked

CutsReal(cl, ns, ms) ==
  \A i \in Target : SaidCut(cl, ns, i) => \E m \in ms : m.on = i /\ m.lost

SetsTold(cl, ns, ms) ==
  cl.tool \in CallersSql => \A m \in ms : m.whole \/ SetsNotice(m.on) \in ns

IsSure(name) == name \in ToolNames \ AbsentUnread /\ ToolNamed(name).empty = "absent"

Wholly(cl, ms) == IsSure(cl.tool) => \A m \in ms : m.whole

(* What a call has said, in its answer and in its warnings, of what its     *)
(* reads met.                                                               *)
Told(cl, ns, ms) ==
  CutsTold(cl, ns, ms) /\ CutsReal(cl, ns, ms) /\ SetsTold(cl, ns, ms) /\ Wholly(cl, ms)

LEMMA ToldBesides ==
  ASSUME NEW cl, NEW ns, NEW ms, Told(cl, ns, ms),
         NEW d, d.tool = cl.tool, d.flagged = cl.flagged
  PROVE  Told(d, ns, ms)
  BY DEF Told, CutsTold, CutsReal, SetsTold, Wholly, SaidCut

(* A read is told of as it says itself, and all before it as before. *)
LEMMA ToldOfOneMore ==
  ASSUME NEW cl, NEW ns, NEW ms, Told(cl, ns, ms),
         NEW d, d.tool = cl.tool, cl.flagged \subseteq d.flagged, NEW w, NEW m,
         cl.tool \notin CutsInSilence /\ m.lost =>
           \/ m.on \in d.flagged \/ [kind |-> "cut", on |-> m.on, cap |-> m.cap] \in w
           \/ m.asked,
         \A i \in d.flagged : i \in cl.flagged \/ (m.on = i /\ m.lost),
         \A n \in w : n.kind = "cut" => m.on = n.on /\ m.lost,
         cl.tool \in CallersSql => m.whole \/ SetsNotice(m.on) \in w,
         IsSure(cl.tool) => m.whole
  PROVE  Told(d, ns \union w, ms \union {m})
<1>1. CutsTold(d, ns \union w, ms \union {m}) BY DEF Told, CutsTold
<1>2. CutsReal(d, ns \union w, ms \union {m}) 
  <2> SUFFICES ASSUME NEW i \in Target, SaidCut(d, ns \union w, i)
               PROVE  \E n \in ms \union {m} : n.on = i /\ n.lost
    BY DEF CutsReal
  <2>1. CASE SaidCut(cl, ns, i) BY <2>1 DEF Told, CutsReal
  <2>2. CASE ~SaidCut(cl, ns, i)
    <3>1. m.on = i /\ m.lost BY <2>2 DEF SaidCut
    <3> QED BY <3>1
  <2> QED BY <2>1, <2>2
<1>3. SetsTold(d, ns \union w, ms \union {m}) BY DEF Told, SetsTold
<1>4. Wholly(d, ms \union {m}) BY DEF Told, Wholly
<1> QED BY <1>1, <1>2, <1>3, <1>4 DEF Told

CallTold(c) ==
  /\ GoodCall(call[c]) /\ Told(call[c], notes[c], seen[c])
  /\ call[c].tool = "none" => notes[c] = {} /\ seen[c] = {} /\ reply[c] = "none"
  /\ reply[c] = "absent" => IsSure(call[c].tool) \/ call[c].tool \in AbsentUnread

ToldInv == Shape /\ \A c \in Call : CallTold(c)

(* A read of c: what it met, what it noted and what c has of it. *)
LEMMA ARead ==
  ASSUME NEW c \in Call, CallTold(c), Shape, Reading(c), NEW d,
         GoodCall(d), d.tool = call[c].tool, NEW w, NEW m,
         Told(d, notes[c] \union w, seen[c] \union {m}),
         call' = [call EXCEPT ![c] = d], notes' = [notes EXCEPT ![c] = @ \union w],
         seen' = [seen EXCEPT ![c] = @ \union {m}], reply' = reply
  PROVE  CallTold(c)'
<1>1. /\ call'[c] = d /\ notes'[c] = notes[c] \union w /\ seen'[c] = seen[c] \union {m}
  BY DEF Shape, Over
<1>2. d.tool # "none" /\ reply'[c] = "none" BY DEF Reading, Running
<1> QED BY <1>1, <1>2 DEF CallTold

LEMMA ToldAfterAQuery ==
  ASSUME ToldInv, NEW c \in Call, NEW i \in Target, RunQuery(c, i)
  PROVE  CallTold(c)'
<1> DEFINE r == Now(c)
           reads == Reads(call[c].tool, call[c].path)
           name == call[c].tool
<1>1. CallTold(c) /\ Shape BY DEF ToldInv
<1>2. Reading(c) /\ HasMore(c) /\ r.via = "sql" /\ reply' = reply BY DEF RunQuery
<1>3. /\ name \in ToolNames /\ Len(reads) \in 0 .. 4 /\ DOMAIN reads = 1 .. Len(reads)
      /\ call[c].step \in 1 .. Len(reads)
      /\ GoodRead(name, ToolNamed(name).empty, r)
      /\ call[c].path = "dbatools" => r.tells = "note"
  BY <1>1, <1>2, NowIs DEF CallTold
<1>4. r \in ReadRecord /\ r.cap \in Nat /\ r.own \in Nat BY <1>3 DEF GoodRead, ReadRecord
<1>5. PICK produced \in Sizes(r), whole \in BOOLEAN :
        /\ whole \/ r.fills \/ (r.user /\ produced = r.cap)
        /\ LET served == Served(r, produced)
               cut    == Truncated(r, served)
               kept   == Kept(r, served)
           IN  /\ call' = [call EXCEPT ![c] = Past(Flag(@, r, i, cut), i, kept)]
               /\ notes' = Store(c, Warnings(r, i, cut, whole))
               /\ seen' = [seen EXCEPT ![c] = @ \union {Met(r, i, produced, kept, whole)}]
  BY Zenon DEF RunQuery
<1> DEFINE served == Served(r, produced)
           cut    == Truncated(r, served)
           kept   == Kept(r, served)
           w      == Warnings(r, i, cut, whole)
           m      == Met(r, i, produced, kept, whole)
           f      == Flag(call[c], r, i, cut)
           d      == Past(f, i, kept)
<1>6. produced \in Nat BY <1>4 DEF Sizes
<1>7. /\ served \in Nat
      /\ cut => produced > kept
      /\ produced > kept /\ ~cut =>
           ~Wrapped(r) /\ kept = r.own /\ r.own <= r.cap
  <2>1. served = Served(r, produced) /\ kept = Kept(r, served)
        /\ cut = Truncated(r, served)
    OBVIOUS
  <2> HIDE DEF served, kept, r, cut
  <2> QED BY <1>4, <1>6, <2>1, RowsLost
<1>8. cut \in BOOLEAN /\ kept \in Nat
  BY <1>4, <1>7 DEF Truncated, Kept
<1>9. /\ GoodCall(f) /\ f.tool = name /\ f.path = call[c].path /\ f.step = call[c].step
      /\ cut /\ r.tells = "field" => f.flagged = call[c].flagged \union {i}
      /\ ~(cut /\ r.tells = "field") => f.flagged = call[c].flagged
  <2>1. GoodCall(call[c]) BY <1>1 DEF CallTold
  <2>2. CASE cut /\ r.tells = "field"
    <3>1. f = [call[c] EXCEPT !.flagged = @ \union {i}] BY <2>2 DEF Flag
    <3>2. call[c].path # "dbatools" BY <1>3, <2>2
    <3> HIDE DEF f, cut, r, reads
    <3> QED BY <1>3, <2>1, <2>2, <3>1, <3>2, FlagIs
  <2>3. CASE ~(cut /\ r.tells = "field")
    <3>1. f = call[c] BY <2>3 DEF Flag
    <3> HIDE DEF f, cut, r, reads
    <3> QED BY <2>1, <2>3, <3>1
  <2> QED BY <2>2, <2>3
<1>10. GoodCall(d) /\ d.tool = name /\ d.flagged = f.flagged
  <2> HIDE DEF f, kept
  <2> QED BY <1>3, <1>8, <1>9, PastIs
<1>11. /\ m.on = i /\ m.cap = r.cap /\ m.lost = (produced > kept) /\ m.whole = whole
       /\ m.asked = (r.asked /\ kept = r.own)
  BY DEF Met
<1>12. /\ cut /\ r.tells = "note" => [kind |-> "cut", on |-> i, cap |-> r.cap] \in w
       /\ \A n \in w : n.kind = "cut" => n.on = i /\ cut
       /\ r.user /\ ~whole => SetsNotice(i) \in w
  BY DEF Warnings, CutNotice, SetsNotice, FallbackNotice
<1> HIDE DEF served, cut, kept, w, m, f, d
<1>13. Told(d, notes[c] \union w, seen[c] \union {m})
  <2>1. ASSUME name \notin CutsInSilence, m.lost
        PROVE  \/ m.on \in d.flagged
               \/ [kind |-> "cut", on |-> m.on, cap |-> m.cap] \in w
               \/ m.asked
    <3>1. r.tells \in {"note", "field"} /\ (Wrapped(r) \/ r.own > r.cap \/ r.asked)
      BY <1>3, <2>1 DEF GoodRead, ReadRecord, Wrapped
    <3>2. CASE cut
      <4>1. CASE r.tells = "field" BY <1>9, <1>10, <1>11, <3>2, <4>1
      <4>2. CASE r.tells = "note"
        <5>1. [kind |-> "cut", on |-> i, cap |-> r.cap] \in w BY <1>12, <3>2, <4>2
        <5>2. [kind |-> "cut", on |-> m.on, cap |-> m.cap] \in w
          BY <1>11, <5>1, Zenon
        <5> QED BY <5>2
      <4> QED BY <3>1, <4>1, <4>2
    <3>3. CASE ~cut
      <4>1. ~Wrapped(r) /\ kept = r.own /\ r.own <= r.cap BY <1>7, <1>11, <2>1, <3>3
      <4>2. r.asked BY <1>4, <3>1, <4>1
      <4> QED BY <1>11, <4>1, <4>2
    <3> QED BY <3>2, <3>3
  <2>2. \A j \in d.flagged : j \in call[c].flagged \/ (m.on = j /\ m.lost)
    BY <1>7, <1>9, <1>10, <1>11
  <2>3. \A n \in w : n.kind = "cut" => m.on = n.on /\ m.lost BY <1>7, <1>11, <1>12
  <2>4. name \in CallersSql => m.whole \/ SetsNotice(m.on) \in w
    BY <1>3, <1>11, <1>12 DEF GoodRead
  <2>5. IsSure(name) => m.whole BY <1>3, <1>5, <1>11 DEF IsSure, GoodRead
  <2>6. Told(call[c], notes[c], seen[c]) BY <1>1 DEF CallTold
  <2>7. call[c].flagged \subseteq d.flagged BY <1>9, <1>10
  <2> QED BY <1>10, <2>1, <2>2, <2>3, <2>4, <2>5, <2>6, <2>7, ToldOfOneMore
<1>14. /\ call' = [call EXCEPT ![c] = d] /\ notes' = [notes EXCEPT ![c] = @ \union w]
       /\ seen' = [seen EXCEPT ![c] = @ \union {m}]
  BY <1>1, <1>5 DEF Store, Shape, Over, served, cut, kept, w, m, f, d
<1> QED BY <1>1, <1>2, <1>10, <1>13, <1>14, ARead

(* A step of c that nothing is read by: its call goes on, and what it was   *)
(* told of stays.                                                           *)
LEMMA AStep ==
  ASSUME NEW c \in Call, CallTold(c), Shape, Reading(c), NEW d,
         GoodCall(d), d.tool = call[c].tool, d.flagged = call[c].flagged,
         call' = [call EXCEPT ![c] = d], notes' = notes, seen' = seen,
         reply'[c] # "absent"
  PROVE  CallTold(c)'
<1>1. call'[c] = d BY DEF Shape, Over
<1>2. d.tool # "none" BY DEF Reading, Running
<1>3. Told(d, notes[c], seen[c]) BY ToldBesides DEF CallTold
<1> QED BY <1>1, <1>2, <1>3 DEF CallTold

(* A read that noted nothing: it lost nothing it had to tell of, and missed *)
(* nothing that a sentence rests on.                                        *)
LEMMA AReadUnnoted ==
  ASSUME NEW c \in Call, CallTold(c), Shape, Reading(c), NEW d,
         GoodCall(d), d.tool = call[c].tool, d.flagged = call[c].flagged, NEW m,
         d.tool \notin CutsInSilence => ~m.lost,
         d.tool \notin CallersSql, ~IsSure(d.tool),
         call' = [call EXCEPT ![c] = d], notes' = notes,
         seen' = [seen EXCEPT ![c] = @ \union {m}], reply' = reply
  PROVE  CallTold(c)'
<1> DEFINE w == {}
<1>1. Told(call[c], notes[c], seen[c]) BY DEF CallTold
<1>2. Told(d, notes[c] \union w, seen[c] \union {m})
  <2>1. \A n \in w : n.kind = "cut" => m.on = n.on /\ m.lost OBVIOUS
  <2> HIDE DEF w
  <2> QED BY <1>1, <2>1, ToldOfOneMore
<1>3. notes' = [notes EXCEPT ![c] = @ \union w] BY DEF Shape, Over
<1> HIDE DEF w
<1> QED BY <1>2, <1>3, ARead

LEMMA ToldAfterACmdlet ==
  ASSUME ToldInv, NEW c \in Call, NEW i \in Target, RunCmdlet(c, i)
  PROVE  CallTold(c)'
<1> DEFINE reads == Reads(call[c].tool, call[c].path)
<1>1. CallTold(c) /\ Shape BY DEF ToldInv
<1>2. Reading(c) /\ HasMore(c) /\ notes' = notes /\ seen' = seen /\ reply' = reply
  BY DEF RunCmdlet
<1>3. PICK rows \in {0, 1} : call' = [call EXCEPT ![c] = Past(@, i, rows)] BY DEF RunCmdlet
<1> DEFINE d == Past(call[c], i, rows)
<1>4. /\ call[c].tool \in ToolNames /\ Len(reads) \in 0 .. 4 /\ DOMAIN reads = 1 .. Len(reads)
      /\ call[c].step \in 1 .. Len(reads)
  BY <1>1, <1>2, NowIs DEF CallTold
<1>5. GoodCall(d) /\ d.tool = call[c].tool /\ d.flagged = call[c].flagged
  BY <1>1, <1>3, <1>4, PastIs DEF CallTold
<1>6. call' = [call EXCEPT ![c] = d] BY <1>1, <1>3 DEF Shape, Over
<1>7. reply'[c] # "absent" BY <1>2 DEF Reading, Running
<1> HIDE DEF d
<1> QED BY <1>1, <1>2, <1>5, <1>6, <1>7, AStep

LEMMA ToldAfterAFile ==
  ASSUME ToldInv, NEW c \in Call, NEW i \in Target, ReadFiles(c, i)
  PROVE  CallTold(c)'
<1> DEFINE r == Now(c)
           reads == Reads(call[c].tool, call[c].path)
           name == call[c].tool
<1>1. CallTold(c) /\ Shape BY DEF ToldInv
<1>2. /\ Reading(c) /\ HasMore(c) /\ r.via = "file" /\ notes' = notes /\ reply' = reply
  BY DEF ReadFiles
<1>3. /\ name \in ToolNames /\ Len(reads) \in 0 .. 4 /\ DOMAIN reads = 1 .. Len(reads)
      /\ call[c].step \in 1 .. Len(reads)
      /\ GoodRead(name, ToolNamed(name).empty, r)
  BY <1>1, <1>2, NowIs DEF CallTold
<1>4. r.cap \in Nat BY <1>3 DEF GoodRead, ReadRecord
<1>5. PICK produced \in {0, 1, r.cap + 1}, whole \in BOOLEAN :
        LET kept == IF r.cap > 0 THEN Min({produced, r.cap}) ELSE produced
        IN  /\ call' = [call EXCEPT ![c] = Past(@, i, kept)]
            /\ seen' = [seen EXCEPT ![c] = @ \union {
                 [Met(r, i, produced, kept, whole) EXCEPT !.warned = FALSE]}]
  BY Zenon DEF ReadFiles
<1> DEFINE kept == IF r.cap > 0 THEN Min({produced, r.cap}) ELSE produced
           m == [Met(r, i, produced, kept, whole) EXCEPT !.warned = FALSE]
           d == Past(call[c], i, kept)
<1>6. kept \in Nat
  <2>1. produced \in Nat BY <1>4
  <2>2. Min({produced} \union {r.cap}) \in {produced, r.cap} BY <1>4, <2>1, LeastOfThree
  <2>3. {produced} \union {r.cap} = {produced, r.cap} OBVIOUS
  <2> QED BY <1>4, <2>1, <2>2, <2>3
<1>7. GoodCall(d) /\ d.tool = name /\ d.flagged = call[c].flagged
  <2> HIDE DEF kept
  <2> QED BY <1>1, <1>3, <1>6, PastIs DEF CallTold
<1>8. name \notin CutsInSilence => ~m.lost
  <2>1. name \notin CutsInSilence => r.cap = 0 BY <1>2, <1>3 DEF GoodRead
  <2>2. m.lost <=> produced > kept BY DEF Met
  <2> HIDE DEF m
  <2> QED BY <1>4, <2>1, <2>2
<1>9. name \notin CallersSql /\ ~IsSure(name) BY <1>2, <1>3 DEF GoodRead, IsSure
<1>10. /\ call' = [call EXCEPT ![c] = d] /\ seen' = [seen EXCEPT ![c] = @ \union {m}]
  BY <1>1, <1>5 DEF Shape, Over
<1> HIDE DEF kept, m, d
<1> QED BY <1>1, <1>2, <1>7, <1>8, <1>9, <1>10, AReadUnnoted

LEMMA ToldAfterAFailure ==
  ASSUME ToldInv, NEW c \in Call, NEW i \in Target, Fail(c, i)
  PROVE  CallTold(c)'
<1> DEFINE r == Now(c)
           reads == Reads(call[c].tool, call[c].path)
           name == call[c].tool
<1>1. CallTold(c) /\ Shape BY DEF ToldInv
<1>2. Reading(c) /\ HasMore(c) /\ notes' = notes BY DEF Fail
<1>3. /\ name \in ToolNames /\ Len(reads) \in 0 .. 4 /\ DOMAIN reads = 1 .. Len(reads)
      /\ call[c].step \in 1 .. Len(reads)
      /\ GoodRead(name, ToolNamed(name).empty, r)
  BY <1>1, <1>2, NowIs DEF CallTold
<1>5. CASE /\ call[c].path = "dbatools" /\ UNCHANGED <<reply, seen>>
           /\ call' = [call EXCEPT ![c] = Begun(@.tool, @.target, "dmv")]
  <2> DEFINE d == Begun(name, call[c].target, "dmv")
  <2>1. GoodCall(d) /\ d.tool = name /\ d.flagged = {}
    BY <1>1, <1>3, BegunIs DEF CallTold, GoodCall, CallRecord
  <2>2. call[c].flagged = {} BY <1>1, <1>5 DEF CallTold, GoodCall
  <2>3. call' = [call EXCEPT ![c] = d] BY <1>1, <1>5 DEF Shape, Over
  <2>4. reply'[c] # "absent" BY <1>2, <1>5 DEF Reading, Running
  <2> HIDE DEF d
  <2> QED BY <1>1, <1>2, <1>5, <2>1, <2>2, <2>3, <2>4, AStep
<1>6. CASE reply' = [reply EXCEPT ![c] = "error"] /\ UNCHANGED <<call, seen>>
  <2>1. reply'[c] = "error" BY <1>1, <1>6 DEF Shape, Over
  <2>2. call[c].tool # "none" BY <1>2 DEF Reading, Running
  <2> QED BY <1>1, <1>2, <1>6, <2>1, <2>2 DEF CallTold
<1>7. CASE /\ call' = [call EXCEPT ![c] = Past([@ EXCEPT !.said = TRUE], i, 0)]
           /\ UNCHANGED <<reply, seen>>
  <2> DEFINE e == [call[c] EXCEPT !.said = TRUE]
             d == Past(e, i, 0)
  <2>1. /\ e \in CallRecord /\ e.tool = name /\ e.path = call[c].path
        /\ e.step = call[c].step /\ e.flagged = call[c].flagged
    BY <1>1 DEF CallTold, GoodCall, CallRecord
  <2>2. GoodCall(e)
    <3> HIDE DEF e
    <3> QED BY <1>1, <2>1 DEF CallTold, GoodCall
  <2>3. GoodCall(d) /\ d.tool = name /\ d.flagged = call[c].flagged
    <3> HIDE DEF e
    <3> QED BY <1>3, <2>1, <2>2, PastIs
  <2>4. call' = [call EXCEPT ![c] = d] BY <1>1, <1>7 DEF Shape, Over
  <2>5. reply'[c] # "absent" BY <1>2, <1>7 DEF Reading, Running
  <2> HIDE DEF e, d
  <2> QED BY <1>1, <1>2, <1>7, <2>3, <2>4, <2>5, AStep
<1>8. CASE /\ r.fails = "empty" /\ call' = [call EXCEPT ![c] = Past(@, i, 0)]
           /\ seen' = [seen EXCEPT ![c] = @ \union {Missed(r, i)}] /\ UNCHANGED reply
  <2> DEFINE d == Past(call[c], i, 0)
             m == Missed(r, i)
  <2>1. GoodCall(d) /\ d.tool = name /\ d.flagged = call[c].flagged
    BY <1>1, <1>3, PastIs DEF CallTold
  <2>2. ~m.lost
    <3>1. m.lost <=> 0 > 0 BY DEF Missed, Met
    <3> HIDE DEF m
    <3> QED BY <3>1
  <2>3. name \notin CallersSql /\ ~IsSure(name) BY <1>3, <1>8 DEF GoodRead, IsSure
  <2>4. call' = [call EXCEPT ![c] = d] BY <1>1, <1>8 DEF Shape, Over
  <2> HIDE DEF d, m
  <2>5. seen' = [seen EXCEPT ![c] = @ \union {m}] BY <1>8 DEF m
  <2> QED BY <1>1, <1>2, <1>8, <2>1, <2>2, <2>3, <2>4, <2>5, AReadUnnoted
<1> QED BY <1>5, <1>6, <1>7, <1>8 DEF Fail

LEMMA ToldAfterAStart ==
  ASSUME ToldInv, NEW c \in Call, Start(c) \/ StartWrite(c)
  PROVE  CallTold(c)'
<1>1. CallTold(c) /\ Shape /\ call[c].tool = "none" /\ UNCHANGED <<notes, seen, reply>>
  BY DEF ToldInv, Start, StartWrite
<1>2. notes[c] = {} /\ seen[c] = {} /\ reply[c] = "none" BY <1>1 DEF CallTold
<1>3. ASSUME NEW d, GoodCall(d), d.flagged = {}, d.tool # "none", call' = [call EXCEPT ![c] = d]
      PROVE  CallTold(c)'
  <2>1. call'[c] = d BY <1>1, <1>3 DEF Shape, Over
  <2>2. Told(d, {}, {}) BY <1>3 DEF Told, CutsTold, CutsReal, SaidCut, SetsTold, Wholly
  <2> QED BY <1>1, <1>2, <1>3, <2>1, <2>2 DEF CallTold
<1>4. CASE Start(c)
  <2>1. PICK name \in (ToolsOf[c] \intersect Exposed(profile)) \ {ExecuteWrite}, i \in Target :
          call' = [call EXCEPT ![c] = Begun(name, i, FirstPath(name))]
    BY <1>4 DEF Start
  <2>2. name \in ToolNames BY DEF Exposed, ToolNames
  <2>3. FirstPath(name) \in {"dmv", "dbatools"} BY DEF FirstPath
  <2>4. /\ GoodCall(Begun(name, i, FirstPath(name)))
        /\ Begun(name, i, FirstPath(name)).tool = name
        /\ Begun(name, i, FirstPath(name)).flagged = {}
    BY <2>2, <2>3, BegunIs
  <2>5. name # "none" BY <2>2, NotATool
  <2> QED BY <1>3, <2>1, <2>4, <2>5
<1>5. CASE StartWrite(c)
  <2>1. PICK path \in {"commit", "dry"}, i \in Target :
          call' = [call EXCEPT ![c] =
                     [Idle EXCEPT !.tool = ExecuteWrite, !.target = i, !.path = path]]
    BY <1>5 DEF StartWrite
  <2> DEFINE d == [Idle EXCEPT !.tool = ExecuteWrite, !.target = i, !.path = path]
  <2>2. d \in CallRecord /\ d.tool = ExecuteWrite /\ d.flagged = {} BY DEF Idle, CallRecord
  <2>3. ExecuteWrite # "none" BY DEF ExecuteWrite
  <2> HIDE DEF d
  <2>4. GoodCall(d) BY <2>2, NotATool DEF GoodCall
  <2>5. call' = [call EXCEPT ![c] = d] BY <2>1 DEF d
  <2> QED BY <1>3, <2>2, <2>3, <2>4, <2>5
<1> QED BY <1>4, <1>5

LEMMA ToldAfterAReply ==
  ASSUME ToldInv, NEW c \in Call, Refuse(c) \/ Finish(c)
  PROVE  CallTold(c)'
<1>1. CallTold(c) /\ Shape /\ Reading(c) /\ UNCHANGED <<call, notes, seen>>
  BY DEF ToldInv, Refuse, Finish, Answer
<1>2. call[c].tool \in ToolNames BY <1>1 DEF Reading, Running, Writes, CallTold, GoodCall, CallRecord
<1>3. reply'[c] = "absent" => ToolNamed(call[c].tool).empty = "absent"
  <2>1. CASE Refuse(c)
    <3>1. reply'[c] = "error" BY <1>1, <2>1 DEF Refuse, Answer, Shape, Over
    <3> QED BY <3>1
  <2>2. CASE Finish(c)
    <3>1. reply'[c] = ReplyOf(call[c]) BY <1>1, <2>2 DEF Finish, Answer, Shape, Over
    <3> QED BY <3>1 DEF ReplyOf
  <2> QED BY <2>1, <2>2
<1>4. call[c].tool # "none" BY <1>2, NotATool
<1> QED BY <1>1, <1>2, <1>3, <1>4 DEF CallTold, IsSure

(* A write's own rows are its preview, and it warns of its pool alone. *)
LEMMA ToldAfterAWrite ==
  ASSUME ToldInv, NEW c \in Call,
         RefuseWrite(c) \/ BeginWrite(c) \/ RunWrite(c) \/ EndWrite(c)
  PROVE  CallTold(c)'
<1>1. CallTold(c) /\ Shape /\ call' = call /\ call[c].tool = ExecuteWrite
  BY DEF ToldInv, RefuseWrite, BeginWrite, RunWrite, EndWrite, Settle, Writing, Writes
<1>2. /\ call[c].tool \in CutsInSilence /\ call[c].tool \notin CallersSql
      /\ ~IsSure(call[c].tool) /\ call[c].tool # "none"
  BY <1>1, NotATool DEF CutsInSilence, CallersSql, IsSure, ExecuteWrite
<1>3. reply'[c] # "absent"
  <2>1. PICK state, r : Settle(c, state, r) /\ r \in {"none", "error", "applied", "dry run"}
    BY DEF RefuseWrite, BeginWrite, RunWrite, EndWrite
  <2>2. reply'[c] = r BY <1>1, <2>1 DEF Settle, Shape, Over
  <2> QED BY <2>1, <2>2
<1>4. Told(call[c], notes[c], seen[c]) BY <1>1 DEF CallTold
<1>5. ASSUME NEW w, NEW m, \A n \in w : n.kind = "fallback",
             notes'[c] = notes[c] \union w, seen'[c] = seen[c] \union {m}
      PROVE  CallTold(c)'
  <2>1. Told(call[c], notes[c] \union w, seen[c] \union {m})
    BY <1>2, <1>4, <1>5, ToldOfOneMore
  <2> QED BY <1>1, <1>2, <1>3, <1>5, <2>1 DEF CallTold
<1>6. CASE RefuseWrite(c) \/ RunWrite(c)
  <2>1. notes' = notes /\ seen' = seen BY <1>6 DEF RefuseWrite, RunWrite
  <2> QED BY <1>1, <1>2, <1>3, <2>1 DEF CallTold
<1>7. CASE BeginWrite(c)
  <2>1. PICK warned \in BOOLEAN :
          /\ notes' = Store(c, IF warned THEN {FallbackNotice(call[c].target)} ELSE {})
          /\ seen' = [seen EXCEPT ![c] = @ \union {WriteMet(c, warned, FALSE)}]
    BY <1>7 DEF BeginWrite
  <2> DEFINE w == IF warned THEN {FallbackNotice(call[c].target)} ELSE {}
             m == WriteMet(c, warned, FALSE)
  <2>2. \A n \in w : n.kind = "fallback" BY DEF FallbackNotice
  <2> HIDE DEF w, m
  <2>3. notes'[c] = notes[c] \union w /\ seen'[c] = seen[c] \union {m}
    BY <1>1, <2>1 DEF Store, Shape, Over, w, m
  <2> QED BY <1>5, <2>2, <2>3
<1>8. CASE EndWrite(c)
  <2>1. PICK lost \in BOOLEAN : seen' = [seen EXCEPT ![c] = @ \union {WriteMet(c, FALSE, lost)}]
    BY <1>8 DEF EndWrite
  <2> DEFINE w == {}
             m == WriteMet(c, FALSE, lost)
  <2>2. \A n \in w : n.kind = "fallback" OBVIOUS
  <2> HIDE DEF m
  <2>3. notes'[c] = notes[c] \union w /\ seen'[c] = seen[c] \union {m}
    BY <1>1, <1>8, <2>1 DEF EndWrite, Shape, Over, m
  <2> HIDE DEF w
  <2> QED BY <1>5, <2>2, <2>3
<1> QED BY <1>6, <1>7, <1>8

LEMMA OneCall ==
  ASSUME ToldInv, [Next]_vars, NEW c \in Call, CallTold(c)',
         \A d \in Call \ {c} : /\ call'[d] = call[d] /\ notes'[d] = notes[d]
                               /\ seen'[d] = seen[d] /\ reply'[d] = reply[d]
  PROVE  ToldInv'
<1>1. Shape' BY ShapeStays DEF ToldInv
<1>2. ASSUME NEW d \in Call \ {c} PROVE CallTold(d)'
  <2>1. CallTold(d) BY DEF ToldInv
  <2> QED BY <2>1 DEF CallTold
<1> QED BY <1>1, <1>2 DEF ToldInv

LEMMA ToldInvStarts == Init => ToldInv
<1> SUFFICES ASSUME Init PROVE ToldInv OBVIOUS
<1>1. Shape BY ShapeStarts
<1>3. ASSUME NEW c \in Call PROVE CallTold(c)
  <2>1. call[c] = Idle /\ notes[c] = {} /\ seen[c] = {} /\ reply[c] = "none" BY DEF Init
  <2>2. Idle \in CallRecord /\ Idle.tool = "none" /\ Idle.flagged = {} BY DEF Idle, CallRecord
  <2>3. GoodCall(Idle) BY <2>2, NotATool DEF GoodCall
  <2>4. Told(Idle, {}, {}) BY <2>2 DEF Told, CutsTold, CutsReal, SaidCut, SetsTold, Wholly
  <2> QED BY <2>1, <2>2, <2>3, <2>4 DEF CallTold
<1> QED BY <1>1, <1>3 DEF ToldInv

LEMMA ToldInvStays == ToldInv /\ [Next]_vars => ToldInv'
<1> SUFFICES ASSUME ToldInv, [Next]_vars PROVE ToldInv' OBVIOUS
<1> USE DEF Shape, Over
<1>0. Shape BY DEF ToldInv
<1>1. ASSUME NEW c \in Call, Start(c) \/ StartWrite(c) PROVE ToldInv'
  <2>2. \A d \in Call \ {c} : /\ call'[d] = call[d] /\ notes'[d] = notes[d]
                              /\ seen'[d] = seen[d] /\ reply'[d] = reply[d]
    BY <1>0, <1>1 DEF Start, StartWrite
  <2> QED BY <1>0, <1>1, <2>2, ToldAfterAStart, OneCall
<1>2. ASSUME NEW c \in Call, Refuse(c) \/ Finish(c) PROVE ToldInv'
  <2>2. \A d \in Call \ {c} : /\ call'[d] = call[d] /\ notes'[d] = notes[d]
                              /\ seen'[d] = seen[d] /\ reply'[d] = reply[d]
    BY <1>0, <1>2 DEF Refuse, Finish, Answer
  <2> QED BY <1>0, <1>2, <2>2, ToldAfterAReply, OneCall
<1>3. ASSUME NEW c \in Call, NEW i \in Target, RunQuery(c, i) PROVE ToldInv'
  <2>1. \A d \in Call \ {c} : /\ call'[d] = call[d] /\ notes'[d] = notes[d]
                              /\ seen'[d] = seen[d] /\ reply'[d] = reply[d]
    BY <1>0, <1>3 DEF RunQuery, Store
  <2> QED BY <1>3, <2>1, ToldAfterAQuery, OneCall
<1>4. ASSUME NEW c \in Call, NEW i \in Target, RunCmdlet(c, i) PROVE ToldInv'
  <2>2. \A d \in Call \ {c} : /\ call'[d] = call[d] /\ notes'[d] = notes[d]
                              /\ seen'[d] = seen[d] /\ reply'[d] = reply[d]
    BY <1>0, <1>4 DEF RunCmdlet
  <2> QED BY <1>0, <1>4, <2>2, ToldAfterACmdlet, OneCall
<1>5. ASSUME NEW c \in Call, NEW i \in Target, ReadFiles(c, i) PROVE ToldInv'
  <2>2. \A d \in Call \ {c} : /\ call'[d] = call[d] /\ notes'[d] = notes[d]
                              /\ seen'[d] = seen[d] /\ reply'[d] = reply[d]
    BY <1>0, <1>5 DEF ReadFiles
  <2> QED BY <1>0, <1>5, <2>2, ToldAfterAFile, OneCall
<1>6. ASSUME NEW c \in Call, NEW i \in Target, Fail(c, i) PROVE ToldInv'
  <2>1. \A d \in Call \ {c} : /\ call'[d] = call[d] /\ notes'[d] = notes[d]
                              /\ seen'[d] = seen[d] /\ reply'[d] = reply[d]
    BY <1>0, <1>6 DEF Fail
  <2> QED BY <1>6, <2>1, ToldAfterAFailure, OneCall
<1>7. ASSUME NEW c \in Call, RefuseWrite(c) \/ BeginWrite(c) \/ RunWrite(c) \/ EndWrite(c)
      PROVE  ToldInv'
  <2>2. PICK state, r : Settle(c, state, r)
    BY <1>7 DEF RefuseWrite, BeginWrite, RunWrite, EndWrite
  <2>3. \A d \in Call \ {c} : call'[d] = call[d] /\ reply'[d] = reply[d]
    BY <1>0, <2>2 DEF Settle
  <2>4. \A d \in Call \ {c} : notes'[d] = notes[d] /\ seen'[d] = seen[d]
    BY <1>0, <1>7 DEF RefuseWrite, BeginWrite, RunWrite, EndWrite, Store
  <2> QED BY <1>0, <1>7, <2>3, <2>4, ToldAfterAWrite, OneCall
<1>8. ASSUME NEW i \in Target, NewPool(i) PROVE ToldInv'
  <2>2. UNCHANGED <<call, notes, seen, reply>> BY <1>8 DEF NewPool
  <2> QED BY <2>2, ShapeStays DEF ToldInv, CallTold
<1>9. CASE UNCHANGED vars
  BY <1>9, ShapeStays DEF ToldInv, CallTold, vars
<1> QED BY <1>1, <1>2, <1>3, <1>4, <1>5, <1>6, <1>7, <1>8, <1>9 DEF Next

(* Rows are lost without a word only where the code says so, what is called *)
(* cut was, and no result set of the caller's SQL is dropped in silence     *)
(* (capRows, finishQuery, noteRowCap, noteResultSets).                      *)
THEOREM CutsAreToldHolds == Spec => []CutsAreTold
<1>1. ToldInv => CutsAreTold
  BY DEF ToldInv, CallTold, Told, CutsTold, CutsReal, SaidCut, SetsTold, CallersSql, CutsAreTold
<1> QED BY <1>1, ToldInvStarts, ToldInvStays, PTL DEF Spec

(* A sentence that there is nothing rests on reads that succeeded and       *)
(* missed nothing.                                                          *)
THEOREM AbsenceIsKnownHolds == Spec => []AbsenceIsKnown
<1>1. ToldInv => AbsenceIsKnown
  BY DEF ToldInv, CallTold, Told, Wholly, AbsenceIsKnown
<1> QED BY <1>1, ToldInvStarts, ToldInvStays, PTL DEF Spec
----------------------------------------------------------------------------
(* The guards.  stripNoise and the lexer are recursive functions, reduced   *)
(* by an induction over numbers, and go through a batch side by side.       *)

(* A set of numbers that is not empty has a least one: among the intervals  *)
(* that begin at 0 and end in the set, one holds no other.                  *)
LEMMA LeastNatural ==
  ASSUME NEW S \in SUBSET Nat, S # {}
  PROVE  \E n \in S : \A m \in S : n <= m
<1>1. PICK top \in S : TRUE OBVIOUS
<1> DEFINE R == StrictSubsetOrdering(0 .. top)
           T == {0 .. n : n \in {m \in S : m <= top}}
<1>2. IsFiniteSet(0 .. top) BY <1>1, FS_Interval
<1>3. T \subseteq FiniteSubsetsOf(0 .. top)
  <2>1. ASSUME NEW n \in S, n <= top PROVE 0 .. n \in SUBSET (0 .. top) /\ IsFiniteSet(0 .. n)
    BY <1>1, <2>1, FS_Interval
  <2> QED BY <2>1 DEF FiniteSubsetsOf
<1>4. T # {} BY <1>1
<1>5. IsWellFoundedOn(R, FiniteSubsetsOf(0 .. top)) BY FS_StrictSubsetOrderingWellFounded
<1>6. PICK x \in T : \A y \in T : <<y, x>> \notin R
  <2> HIDE DEF R, T
  <2> QED BY <1>3, <1>4, <1>5, WFMin
<1>7. PICK n \in S : n <= top /\ x = 0 .. n OBVIOUS
<1>8. ASSUME NEW m \in S, m < n PROVE FALSE
  <2>0. m \in Nat /\ n \in Nat /\ top \in Nat OBVIOUS
  <2>1. m \in Nat /\ n \in Nat /\ top \in Nat /\ m <= top BY <1>7, <1>8, <2>0
  <2>2. 0 .. m \in T BY <2>1
  <2>3. 0 .. m \in SUBSET (0 .. top) /\ x \in SUBSET (0 .. top) BY <1>7, <2>1
  <2>4. n \in x /\ n \notin 0 .. m /\ 0 .. m \subseteq x BY <1>7, <1>8, <2>1
  <2>5. <<0 .. m, x>> \in R BY <2>3, <2>4 DEF StrictSubsetOrdering
  <2> QED BY <1>6, <2>2, <2>5
<1>9. \A m \in S : n <= m BY <1>8
<1> QED BY <1>9

(* What holds at 0, and at k when it holds before, holds up to L.           *)
LEMMA Climb ==
  ASSUME NEW L \in Nat, NEW S, 0 \in S, \A k \in 1 .. L : k - 1 \in S => k \in S
  PROVE  \A k \in 0 .. L : k \in S
<1> SUFFICES ASSUME NEW k \in 0 .. L, k \notin S PROVE FALSE OBVIOUS
<1> DEFINE B == {i \in 0 .. L : i \notin S}
<1>1. B \in SUBSET Nat /\ B # {} OBVIOUS
<1>2. PICK n \in B : \A m \in B : n <= m
  <2> HIDE DEF B
  <2> QED BY <1>1, LeastNatural
<1>3. n # 0 /\ n \in 1 .. L OBVIOUS
<1>4. n - 1 \in 0 .. L /\ n - 1 \notin B BY <1>2, <1>3
<1> QED BY <1>3, <1>4

(* A reduction exists: of any steps over any values.                        *)
Reduces(f, base, h, m) == f[0] = base /\ \A k \in 1 .. m : f[k] = h[k][f[k - 1]]

LEMMA Reduction ==
  ASSUME NEW L \in Nat, NEW A, NEW base \in A, NEW h \in [1 .. L -> [A -> A]]
  PROVE  \E f \in [0 .. L -> A] : Reduces(f, base, h, L)
<1> DEFINE S == {m \in 0 .. L : \E f \in [0 .. m -> A] : Reduces(f, base, h, m)}
<1>1. 0 \in S
  <2> DEFINE f == [k \in 0 .. 0 |-> base]
  <2>1. f \in [0 .. 0 -> A] /\ Reduces(f, base, h, 0) BY DEF Reduces
  <2> QED BY <2>1
<1>2. ASSUME NEW m \in 1 .. L, m - 1 \in S PROVE m \in S
  <2>1. PICK f \in [0 .. m - 1 -> A] : Reduces(f, base, h, m - 1) BY <1>2
  <2> DEFINE g == [k \in 0 .. m |-> IF k = m THEN h[m][f[m - 1]] ELSE f[k]]
  <2>2. f[m - 1] \in A /\ h[m] \in [A -> A] BY <2>1
  <2>3. g \in [0 .. m -> A] BY <2>1, <2>2
  <2>4. ASSUME NEW k \in 1 .. m PROVE g[k] = h[k][g[k - 1]]
    <3>1. k - 1 \in 0 .. m /\ k - 1 # m /\ g[k - 1] = f[k - 1] OBVIOUS
    <3>2. CASE k = m BY <3>1, <3>2
    <3>3. CASE k # m BY <2>1, <3>1, <3>3 DEF Reduces
    <3> QED BY <3>2, <3>3
  <2>5. g[0] = base BY <2>1 DEF Reduces
  <2> HIDE DEF g
  <2>6. Reduces(g, base, h, m) BY <2>4, <2>5 DEF Reduces
  <2>7. m \in 0 .. L OBVIOUS
  <2> QED BY <2>3, <2>6, <2>7
<1>3. \A k \in 0 .. L : k \in S
  <2> HIDE DEF S
  <2> QED BY <1>1, <1>2, Climb
<1> QED BY <1>3

(* What the scan and the lexer may be in.                                   *)
Place     == {"batch", "line", "comment", "string", "name"}
Mode      == {"code", "dash", "slash", "line", "comment", "star", "opening",
              "string", "quote", "name", "named"}
Delimiter == {"", "'", "]", "\""}
Letter    == Char \union {" ", "-", "/"}
Output    == Seq(Letter)
Scanner   == [in : Place, at : Nat \ {0}, depth : Int, close : Delimiter, out : Output]
Lexer     == [mode : Mode, depth : Int, close : Delimiter, out : Output]

LEMMA OneMore ==
  ASSUME NEW o \in Output, NEW c \in Letter PROVE Append(o, c) \in Output
  BY AppendProperties DEF Output

(* A turn keeps the scan of its type, and a character the lexer of its.     *)
LEMMA TurnIsTyped ==
  ASSUME NEW q \in Seq(Char), NEW s \in Scanner, s.at <= Len(q) PROVE Turn(q, s) \in Scanner
<1> DEFINE c == q[s.at]
<1>1. s.at \in Nat \ {0} /\ s.at \in 1 .. Len(q) /\ c \in Char /\ Len(q) \in Nat BY DEF Scanner
<1>2. s.out \in Output /\ s.depth \in Int /\ s.close \in Delimiter /\ s.in \in Place
      /\ DOMAIN s = {"in", "at", "depth", "close", "out"}
  BY DEF Scanner
<1>3. Append(s.out, c) \in Output /\ Append(s.out, " ") \in Output BY <1>1, <1>2, OneMore DEF Letter
<1>4. Append(Append(s.out, c), c) \in Output BY <1>1, <1>3, OneMore DEF Letter
<1> DEFINE next == s.at + 1  after == s.at + 2
<1>5. next \in Nat \ {0} /\ after \in Nat \ {0} BY <1>1
<1>6. s.depth + 1 \in Int /\ s.depth - 1 \in Int BY <1>2
<1>7. InBatch(q, s) \in Scanner
  <2>1. [s EXCEPT !.in = "line", !.at = @ + 2, !.out = Append(@, " ")] \in Scanner
    BY <1>2, <1>3, <1>5, <1>6 DEF Scanner, Place
  <2>2. [s EXCEPT !.in = "comment", !.depth = @ + 1, !.at = @ + 2,
                  !.out = Append(@, " ")] \in Scanner
    BY <1>2, <1>3, <1>5, <1>6 DEF Scanner, Place
  <2>3. ASSUME c = "'"
        PROVE  [s EXCEPT !.in = "string", !.close = c, !.at = @ + 1,
                         !.out = Append(Append(@, c), c)] \in Scanner
    BY <1>2, <1>4, <1>5, <2>3 DEF Scanner, Place, Delimiter
  <2>4. ASSUME c \in {"[", "\""}
        PROVE  [s EXCEPT !.in = "name", !.close = IF c = "[" THEN "]" ELSE c, !.at = @ + 1,
                         !.out = Append(@, c)] \in Scanner
    BY <1>2, <1>3, <1>5, <2>4 DEF Scanner, Place, Delimiter
  <2>5. [s EXCEPT !.at = @ + 1, !.out = Append(@, c)] \in Scanner
    BY <1>2, <1>3, <1>5 DEF Scanner
  <2> QED BY <2>1, <2>2, <2>3, <2>4, <2>5 DEF InBatch
<1>8. InLine(q, s) \in Scanner BY <1>2, <1>5 DEF InLine, Scanner, Place
<1>9. InComment(q, s) \in Scanner
  BY <1>2, <1>5, <1>6 DEF InComment, Scanner, Place
<1>10. InDelimited(q, s) \in Scanner
  <2> DEFINE one == Copied([s EXCEPT !.at = @ + 1], c)
  <2>1. one \in Scanner /\ one.out \in {s.out, Append(s.out, c)} /\ one.at = next
    BY <1>2, <1>3, <1>5 DEF Copied, Scanner
  <2>2. [one EXCEPT !.in = "batch"] \in Scanner BY <2>1 DEF Scanner, Place
  <2>3. Append(one.out, c) \in Output /\ one.at + 1 \in Nat \ {0}
    <3> HIDE DEF one
    <3>1. Append(one.out, c) \in Output BY <2>1, <1>3, <1>4
    <3>2. one.at + 1 \in Nat \ {0} BY <2>1, <1>1
    <3> QED BY <3>1, <3>2
  <2>4. [one EXCEPT !.at = @ + 1] \in Scanner BY <2>1, <2>3 DEF Scanner
  <2>5. Copied([one EXCEPT !.at = @ + 1], c) \in Scanner
    BY <2>1, <2>3, <2>4 DEF Copied, Scanner
  <2> QED BY <2>1, <2>2, <2>5 DEF InDelimited
<1> QED BY <1>1, <1>7, <1>8, <1>9, <1>10 DEF Turn

LEMMA CodeIsTyped ==
  ASSUME NEW l \in Lexer, NEW c \in Char PROVE Code(l, c) \in Lexer
<1>1. l.out \in Output BY DEF Lexer
<1>2. Append(l.out, c) \in Output BY <1>1, OneMore DEF Letter
<1>3. Append(Append(l.out, c), c) \in Output BY <1>2, OneMore DEF Letter
<1> QED BY <1>1, <1>2, <1>3 DEF Code, Lexer, Mode, Delimiter

LEMMA CommentIsTyped ==
  ASSUME NEW l \in Lexer, NEW c \in Char PROVE Comment(l, c) \in Lexer
<1>1. l.depth + 1 \in Int /\ l.depth - 1 \in Int BY DEF Lexer
<1>2. [l EXCEPT !.mode = "star"] \in Lexer BY DEF Lexer, Mode
<1>3. [l EXCEPT !.mode = "opening"] \in Lexer BY DEF Lexer, Mode
<1>4. [l EXCEPT !.mode = "comment"] \in Lexer BY DEF Lexer, Mode
<1>5. [l EXCEPT !.depth = @ - 1, !.mode = IF l.depth = 1 THEN "code" ELSE "comment"] \in Lexer
  BY <1>1 DEF Lexer, Mode
<1>6. [l EXCEPT !.depth = @ + 1, !.mode = "comment"] \in Lexer BY <1>1 DEF Lexer, Mode
<1> QED BY <1>2, <1>3, <1>4, <1>5, <1>6 DEF Comment

LEMMA LexStepIsTyped ==
  ASSUME NEW l \in Lexer, NEW c \in Char PROVE LexStep(l, c) \in Lexer
<1>1. l.out \in Output /\ l.depth + 1 \in Int BY DEF Lexer
<1>2. \A p \in Letter : Append(l.out, p) \in Output BY <1>1, OneMore
<1>3. Code(l, c) \in Lexer /\ Comment(l, c) \in Lexer BY CodeIsTyped, CommentIsTyped
<1>4. ASSUME NEW p \in Letter PROVE AfterPending(l, p, c) \in Lexer
  <2>1. [l EXCEPT !.out = Append(@, p)] \in Lexer BY <1>2 DEF Lexer
  <2> QED BY <2>1, CodeIsTyped DEF AfterPending
<1>5. Append(l.out, c) \in Output /\ Append(l.out, " ") \in Output BY <1>2 DEF Letter
<1>6. AfterPending(l, "-", c) \in Lexer /\ AfterPending(l, "/", c) \in Lexer BY <1>4 DEF Letter
<1>7. [l EXCEPT !.mode = "line", !.out = Append(@, " ")] \in Lexer BY <1>5 DEF Lexer, Mode
<1>8. [l EXCEPT !.mode = "comment", !.depth = @ + 1, !.out = Append(@, " ")] \in Lexer
  BY <1>1, <1>5 DEF Lexer, Mode
<1>9. [l EXCEPT !.mode = "quote"] \in Lexer /\ [l EXCEPT !.mode = "string"] \in Lexer
  BY DEF Lexer, Mode
<1>10. [l EXCEPT !.out = Append(@, c), !.mode = IF c = l.close THEN "named" ELSE "name"] \in Lexer
  BY <1>5 DEF Lexer, Mode
<1>11. [l EXCEPT !.mode = "name", !.out = Append(@, c)] \in Lexer BY <1>5 DEF Lexer, Mode
<1> QED BY <1>3, <1>6, <1>7, <1>8, <1>9, <1>10, <1>11 DEF LexStep

(* Both recursions are reductions, so what Scan and Lex are is what they    *)
(* are said to be.                                                          *)
LEMMA ScanIs ==
  ASSUME NEW q \in Seq(Char)
  PROVE  /\ Scan(q) \in [0 .. 2 * Len(q) -> Scanner]
         /\ Scan(q)[0] = Opened
         /\ \A k \in 1 .. 2 * Len(q) : Scan(q)[k] = Turn(q, Scan(q)[k - 1])
<1> DEFINE N == 2 * Len(q)
           h == [k \in 1 .. N |-> [s \in Scanner |-> Turn(q, s)]]
<1>1. N \in Nat BY LenProperties
<1>2. Opened \in Scanner BY EmptySeq DEF Opened, Scanner, Place, Delimiter, Output
<1>3. ASSUME NEW s \in Scanner PROVE Turn(q, s) \in Scanner
  <2>1. CASE s.at <= Len(q) BY <2>1, TurnIsTyped
  <2>2. CASE ~(s.at <= Len(q)) BY <2>2, <1>1 DEF Turn, Scanner
  <2> QED BY <2>1, <2>2
<1>4. h \in [1 .. N -> [Scanner -> Scanner]] BY <1>3
<1>5. PICK f \in [0 .. N -> Scanner] : Reduces(f, Opened, h, N)
  <2> HIDE DEF N, h
  <2> QED BY <1>1, <1>2, <1>4, Reduction
<1>6. ASSUME NEW k \in 1 .. N PROVE f[k] = Turn(q, f[k - 1])
  <2>1. k - 1 \in 0 .. N BY <1>1
  <2> QED BY <1>5, <2>1 DEF Reduces
<1>7. f = [k \in 0 .. N |-> IF k = 0 THEN Opened ELSE Turn(q, f[k - 1])]
  BY <1>1, <1>5, <1>6 DEF Reduces
<1>8. Scan(q) = [k \in 0 .. N |-> IF k = 0 THEN Opened ELSE Turn(q, Scan(q)[k - 1])]
  BY <1>7 DEF Scan
<1>9. Scan(q)[0] = Opened /\ \A k \in 1 .. N : Scan(q)[k] = Turn(q, Scan(q)[k - 1])
  BY <1>1, <1>8
<1>10. \A k \in 0 .. N : k \in {j \in 0 .. N : Scan(q)[j] \in Scanner}
  <2> DEFINE S == {j \in 0 .. N : Scan(q)[j] \in Scanner}
  <2>1. 0 \in S BY <1>1, <1>2, <1>9
  <2>2. ASSUME NEW k \in 1 .. N, k - 1 \in S PROVE k \in S BY <1>1, <1>3, <1>9, <2>2
  <2> HIDE DEF S, N
  <2> QED BY <1>1, <2>1, <2>2, Climb DEF S
<1> QED BY <1>8, <1>9, <1>10

LEMMA LexIs ==
  ASSUME NEW q \in Seq(Char)
  PROVE  /\ Lex(q) \in [0 .. Len(q) -> Lexer]
         /\ Lex(q)[0] = NothingRead
         /\ \A k \in 1 .. Len(q) : Lex(q)[k] = LexStep(Lex(q)[k - 1], q[k])
<1> DEFINE N == Len(q)
           h == [k \in 1 .. N |-> [l \in Lexer |-> LexStep(l, q[k])]]
<1>1. N \in Nat /\ \A k \in 1 .. N : q[k] \in Char BY LenProperties, ElementOfSeq
<1>2. NothingRead \in Lexer BY EmptySeq DEF NothingRead, Lexer, Mode, Delimiter, Output
<1>3. \A k \in 1 .. N, l \in Lexer : LexStep(l, q[k]) \in Lexer BY <1>1, LexStepIsTyped
<1>4. h \in [1 .. N -> [Lexer -> Lexer]] BY <1>3
<1>5. PICK f \in [0 .. N -> Lexer] : Reduces(f, NothingRead, h, N)
  <2> HIDE DEF N, h
  <2> QED BY <1>1, <1>2, <1>4, Reduction
<1>6. ASSUME NEW k \in 1 .. N PROVE f[k] = LexStep(f[k - 1], q[k])
  <2>1. k - 1 \in 0 .. N BY <1>1
  <2> QED BY <1>5, <2>1 DEF Reduces
<1>7. f = [k \in 0 .. N |-> IF k = 0 THEN NothingRead ELSE LexStep(f[k - 1], q[k])]
  BY <1>1, <1>5, <1>6 DEF Reduces
<1>8. Lex(q) = [k \in 0 .. N |-> IF k = 0 THEN NothingRead ELSE LexStep(Lex(q)[k - 1], q[k])]
  BY <1>7 DEF Lex
<1>9. Lex(q)[0] = NothingRead /\ \A k \in 1 .. N : Lex(q)[k] = LexStep(Lex(q)[k - 1], q[k])
  BY <1>1, <1>8
<1>10. \A k \in 0 .. N : k \in {j \in 0 .. N : Lex(q)[j] \in Lexer}
  <2> DEFINE S == {j \in 0 .. N : Lex(q)[j] \in Lexer}
  <2>1. 0 \in S BY <1>1, <1>2, <1>9
  <2>2. ASSUME NEW k \in 1 .. N, k - 1 \in S PROVE k \in S BY <1>1, <1>3, <1>9, <2>2
  <2> HIDE DEF S, N
  <2> QED BY <1>1, <2>1, <2>2, Climb DEF S
<1> QED BY <1>8, <1>9, <1>10

(* How the lexer stands when the scan is at a character and has just begun  *)
(* a turn. In the batch, what the last character began, or ended, makes no  *)
(* difference to the next: it is read as code that follows what the scan    *)
(* has put out.                                                             *)
Outside(q, s, l) ==
  /\ Ended(l) = s.out
  /\ s.at <= Len(q) => LexStep(l, q[s.at]) = Code([l EXCEPT !.out = s.out], q[s.at])

(* In a comment the scan looks ahead, and the lexer remembers: what it      *)
(* remembers is not the first half of what follows.                         *)
WithinComment(q, s, l) ==
  /\ l.mode \in {"comment", "star", "opening"} /\ l.out = s.out
  /\ s.at <= Len(q) => (l.mode = "star" => q[s.at] # "/") /\ (l.mode = "opening" => q[s.at] # "*")

WithinDelimiters(s, l) ==
  /\ s.in \in {"string", "name"} /\ l.mode = s.in /\ l.out = s.out
  /\ s.close = IF s.in = "string" THEN "'" ELSE l.close

Agree(q, s, l) ==
  /\ l.depth = s.depth
  /\ CASE s.in = "batch"   -> Outside(q, s, l)
       [] s.in = "line"    -> l.mode = "line" /\ l.out = s.out
       [] s.in = "comment" -> WithinComment(q, s, l)
       [] OTHER            -> WithinDelimiters(s, l)

(* The end of a line takes no character, but only once for each line.       *)
Weight(s) == IF s.in = "line" THEN 2 * s.at - 1 ELSE 2 * s.at

Onward(q, s, t, l) ==
  /\ t.at \in s.at .. Len(q) + 1 /\ Weight(t) > Weight(s)
  /\ Agree(q, t, l)

LEMMA LexReads ==
  ASSUME NEW q \in Seq(Char), NEW i \in 1 .. Len(q)
  PROVE  Lex(q)[i - 1] \in Lexer /\ q[i] \in Char /\ Lex(q)[i] = LexStep(Lex(q)[i - 1], q[i])
<1>1. Len(q) \in Nat /\ i - 1 \in 0 .. Len(q) OBVIOUS
<1> QED BY <1>1, LexIs, ElementOfSeq

LEMMA LineTurns ==
  ASSUME NEW q \in Seq(Char), NEW s \in Scanner, s.at <= Len(q), s.in = "line",
         Agree(q, s, Lex(q)[s.at - 1])
  PROVE  LET t == InLine(q, s) IN Onward(q, s, t, Lex(q)[t.at - 1])
<1> DEFINE c == q[s.at]  l == Lex(q)[s.at - 1]
<1>1. s.at \in 1 .. Len(q) /\ Len(q) \in Nat BY DEF Scanner
<1>2. l \in Lexer /\ c \in Char /\ Lex(q)[s.at] = LexStep(l, c) BY <1>1, LexReads
<1>3. l.mode = "line" /\ l.out = s.out /\ l.depth = s.depth BY DEF Agree
<1>4. CASE c = Newline
  <2> DEFINE t == [s EXCEPT !.in = "batch"]
  <2>1. t.at = s.at /\ t.in = "batch" /\ t.out = s.out /\ t.depth = s.depth BY DEF Scanner
  <2>2. [l EXCEPT !.out = s.out] = l BY <1>2, <1>3 DEF Lexer
  <2>3. LexStep(l, c) = Code(l, c) BY <1>3, <1>4 DEF LexStep
  <2>4. Ended(l) = s.out BY <1>3 DEF Ended
  <2>5. Agree(q, t, l) BY <1>3, <2>1, <2>2, <2>3, <2>4 DEF Agree, Outside
  <2>6. Weight(t) > Weight(s) BY <1>1, <2>1 DEF Weight
  <2> QED BY <1>1, <1>4, <2>1, <2>5, <2>6 DEF InLine, Onward
<1>5. CASE c # Newline
  <2> DEFINE t == [s EXCEPT !.at = @ + 1]
  <2>1. t.at = s.at + 1 /\ t.in = "line" /\ t.out = s.out /\ t.depth = s.depth BY DEF Scanner
  <2>2. LexStep(l, c) = l BY <1>3, <1>5 DEF LexStep
  <2>3. t.at - 1 = s.at BY <1>1, <2>1
  <2>4. Agree(q, t, Lex(q)[s.at]) BY <1>2, <1>3, <2>1, <2>2 DEF Agree
  <2>5. Weight(t) > Weight(s) /\ t.at \in s.at .. Len(q) + 1 BY <1>1, <2>1 DEF Weight
  <2> QED BY <1>5, <2>3, <2>4, <2>5 DEF InLine, Onward
<1> QED BY <1>4, <1>5

LEMMA LexReadsTwo ==
  ASSUME NEW q \in Seq(Char), NEW i \in 1 .. Len(q), NEW a, NEW b, Starts(q, i, a, b)
  PROVE  /\ i + 2 \in i .. Len(q) + 1 /\ i + 2 - 1 = i + 1
         /\ Lex(q)[i + 1] = LexStep(LexStep(Lex(q)[i - 1], a), b)
<1>1. i + 1 \in 1 .. Len(q) /\ i + 1 - 1 = i /\ Len(q) \in Nat BY DEF Starts
<1>2. q[i] = a /\ q[i + 1] = b BY DEF Starts
<1>3. Lex(q)[i] = LexStep(Lex(q)[i - 1], a) BY <1>2, LexReads
<1>4. Lex(q)[i + 1] = LexStep(Lex(q)[i], b) BY <1>1, <1>2, LexReads
<1> QED BY <1>1, <1>3, <1>4

LEMMA CommentTurns ==
  ASSUME NEW q \in Seq(Char), NEW s \in Scanner, s.at <= Len(q), s.in = "comment",
         Agree(q, s, Lex(q)[s.at - 1])
  PROVE  LET t == InComment(q, s) IN Onward(q, s, t, Lex(q)[t.at - 1])
<1> DEFINE c == q[s.at]  l == Lex(q)[s.at - 1]
<1>1. s.at \in 1 .. Len(q) /\ Len(q) \in Nat BY DEF Scanner
<1>2. l \in Lexer /\ c \in Char /\ Lex(q)[s.at] = LexStep(l, c) BY <1>1, LexReads
<1>3. /\ l.mode \in {"comment", "star", "opening"} /\ l.out = s.out /\ l.depth = s.depth
      /\ (l.mode = "star" => c # "/") /\ (l.mode = "opening" => c # "*")
  BY <1>1 DEF Agree, WithinComment
<1>4. LexStep(l, c) = Comment(l, c) BY <1>3 DEF LexStep
<1>5. ASSUME Starts(q, s.at, "/", "*")
      PROVE  Onward(q, s, [s EXCEPT !.depth = @ + 1, !.at = @ + 2], Lex(q)[s.at + 1])
  <2> DEFINE t == [s EXCEPT !.depth = @ + 1, !.at = @ + 2]
             m == [l EXCEPT !.mode = "opening"]
  <2>1. t.at = s.at + 2 /\ t.in = "comment" /\ t.out = s.out /\ t.depth = s.depth + 1
    BY DEF Scanner
  <2>2. c = "/" /\ c # "*" BY <1>5 DEF Starts
  <2>3. LexStep(l, "/") = m BY <1>3, <1>4, <2>2 DEF Comment
  <2>4. m.mode = "opening" /\ m.out = l.out /\ m.depth = l.depth /\ m \in Lexer
    BY <1>2 DEF Lexer, Mode
  <2>5. LexStep(m, "*") = [m EXCEPT !.depth = @ + 1, !.mode = "comment"]
    BY <2>4 DEF LexStep, Comment
  <2>6. Lex(q)[s.at + 1] = [m EXCEPT !.depth = @ + 1, !.mode = "comment"]
    BY <1>1, <1>5, <2>3, <2>5, LexReadsTwo
  <2> DEFINE k == Lex(q)[s.at + 1]
  <2>7. k.depth = s.depth + 1 /\ k.mode = "comment" /\ k.out = s.out
    BY <1>3, <2>4, <2>6 DEF Lexer
  <2>8. Agree(q, t, k) BY <2>1, <2>7 DEF Agree, WithinComment
  <2>9. Weight(t) > Weight(s) /\ t.at \in s.at .. Len(q) + 1
    BY <1>1, <1>5, <2>1, LexReadsTwo DEF Weight
  <2> QED BY <2>8, <2>9 DEF Onward
<1>6. ASSUME Starts(q, s.at, "*", "/")
      PROVE  Onward(q, s, [s EXCEPT !.depth = @ - 1, !.at = @ + 2,
                                    !.in = IF s.depth = 1 THEN "batch" ELSE @],
                    Lex(q)[s.at + 1])
  <2> DEFINE t == [s EXCEPT !.depth = @ - 1, !.at = @ + 2,
                            !.in = IF s.depth = 1 THEN "batch" ELSE @]
             m == [l EXCEPT !.mode = "star"]
  <2>1. /\ t.at = s.at + 2 /\ t.out = s.out /\ t.depth = s.depth - 1
        /\ t.in = IF s.depth = 1 THEN "batch" ELSE "comment"
    BY DEF Scanner
  <2>2. c = "*" /\ c # "/" BY <1>6 DEF Starts
  <2>3. LexStep(l, "*") = m BY <1>3, <1>4, <2>2 DEF Comment
  <2>4. m.mode = "star" /\ m.out = l.out /\ m.depth = l.depth /\ m \in Lexer
    BY <1>2 DEF Lexer, Mode
  <2>5. LexStep(m, "/") = [m EXCEPT !.depth = @ - 1,
                                    !.mode = IF m.depth = 1 THEN "code" ELSE "comment"]
    BY <2>4 DEF LexStep, Comment
  <2> DEFINE k == Lex(q)[s.at + 1]
  <2>6. k = [m EXCEPT !.depth = @ - 1, !.mode = IF m.depth = 1 THEN "code" ELSE "comment"]
    BY <1>1, <1>6, <2>3, <2>5, LexReadsTwo
  <2>7. /\ k.depth = s.depth - 1 /\ k.out = s.out /\ k \in Lexer
        /\ k.mode = IF s.depth = 1 THEN "code" ELSE "comment"
    <3>1. k \in Lexer
      <4>1. s.at + 1 \in 1 .. Len(q) /\ Lex(q) \in [0 .. Len(q) -> Lexer]
        BY <1>1, <1>6, LexIs DEF Starts
      <4> QED BY <1>1, <4>1
    <3> HIDE DEF k, l
    <3>2. k.depth = s.depth - 1 /\ k.out = s.out BY <1>3, <2>4, <2>6 DEF Lexer
    <3>3. k.mode = IF s.depth = 1 THEN "code" ELSE "comment" BY <1>3, <2>4, <2>6 DEF Lexer
    <3> QED BY <3>1, <3>2, <3>3
  <2>8. k.mode = "code" => Outside(q, t, k)
    <3>1. ASSUME k.mode = "code" PROVE [k EXCEPT !.out = t.out] = k /\ Ended(k) = t.out
      BY <2>1, <2>7, <3>1 DEF Lexer, Ended
    <3>2. ASSUME k.mode = "code", NEW x PROVE LexStep(k, x) = Code(k, x) BY <3>2 DEF LexStep
    <3> QED BY <3>1, <3>2 DEF Outside
  <2>9. Agree(q, t, k) BY <2>1, <2>7, <2>8 DEF Agree, WithinComment
  <2>10. Weight(t) > Weight(s) /\ t.at \in s.at .. Len(q) + 1
    BY <1>1, <1>6, <2>1, LexReadsTwo DEF Weight
  <2> QED BY <2>9, <2>10 DEF Onward
<1>7. ASSUME ~Starts(q, s.at, "/", "*"), ~Starts(q, s.at, "*", "/")
      PROVE  Onward(q, s, [s EXCEPT !.at = @ + 1], Lex(q)[s.at])
  <2> DEFINE t == [s EXCEPT !.at = @ + 1]  k == Comment(l, c)
  <2>1. t.at = s.at + 1 /\ t.in = "comment" /\ t.out = s.out /\ t.depth = s.depth
    BY DEF Scanner
  <2>2. k = [l EXCEPT !.mode = IF c = "*" THEN "star" ELSE IF c = "/" THEN "opening" ELSE "comment"]
    BY <1>3 DEF Comment
  <2>3. /\ k.depth = l.depth /\ k.out = l.out
        /\ k.mode = IF c = "*" THEN "star" ELSE IF c = "/" THEN "opening" ELSE "comment"
    BY <1>2, <2>2 DEF Lexer
  <2>4. t.at <= Len(q) => (c = "*" => q[t.at] # "/") /\ (c = "/" => q[t.at] # "*")
    BY <1>1, <1>7, <2>1 DEF Starts
  <2>5. Agree(q, t, k) BY <1>3, <2>1, <2>3, <2>4 DEF Agree, WithinComment
  <2>6. Weight(t) > Weight(s) /\ t.at \in s.at .. Len(q) + 1 BY <1>1, <2>1 DEF Weight
  <2> QED BY <1>2, <1>4, <2>5, <2>6 DEF Onward
<1>8. /\ [s EXCEPT !.depth = @ + 1, !.at = @ + 2].at - 1 = s.at + 1
      /\ [s EXCEPT !.depth = @ - 1, !.at = @ + 2,
                   !.in = IF s.depth = 1 THEN "batch" ELSE @].at - 1 = s.at + 1
      /\ [s EXCEPT !.at = @ + 1].at - 1 = s.at
  BY <1>1 DEF Scanner
<1> QED BY <1>5, <1>6, <1>7, <1>8 DEF InComment

LEMMA DelimitedTurns ==
  ASSUME NEW q \in Seq(Char), NEW s \in Scanner, s.at <= Len(q), s.in \in {"string", "name"},
         Agree(q, s, Lex(q)[s.at - 1])
  PROVE  LET t == InDelimited(q, s) IN Onward(q, s, t, Lex(q)[t.at - 1])
<1> DEFINE c == q[s.at]  l == Lex(q)[s.at - 1]
           named == s.in = "name"
           one == Copied([s EXCEPT !.at = @ + 1], c)
           once == IF named THEN Append(s.out, c) ELSE s.out
<1>1. s.at \in 1 .. Len(q) /\ Len(q) \in Nat BY DEF Scanner
<1>2. l \in Lexer /\ c \in Char /\ Lex(q)[s.at] = LexStep(l, c) BY <1>1, LexReads
<1>3. /\ l.mode = s.in /\ l.out = s.out /\ l.depth = s.depth
      /\ s.close = IF s.in = "string" THEN "'" ELSE l.close
  BY DEF Agree, WithinDelimiters
<1>4. /\ one.at = s.at + 1 /\ one.in = s.in /\ one.depth = s.depth /\ one.close = s.close
      /\ one.out = once /\ DOMAIN one = {"in", "at", "depth", "close", "out"}
  BY DEF Copied, Scanner
<1> DEFINE k == LexStep(l, c)
<1>5. /\ k.depth = l.depth /\ k.out = once /\ k.close = l.close /\ k \in Lexer
      /\ k.mode = IF named THEN IF c = s.close THEN "named" ELSE "name"
                  ELSE IF c = s.close THEN "quote" ELSE "string"
  <2>1. k \in Lexer BY <1>2, LexStepIsTyped
  <2>2. CASE named
    <3>1. k = [l EXCEPT !.out = Append(@, c), !.mode = IF c = l.close THEN "named" ELSE "name"]
      BY <1>3, <2>2 DEF LexStep
    <3> QED BY <1>2, <1>3, <2>1, <2>2, <3>1 DEF Lexer
  <2>3. CASE ~named
    <3>1. k = IF c = "'" THEN [l EXCEPT !.mode = "quote"] ELSE l
      BY <1>3, <2>3 DEF LexStep
    <3> QED BY <1>2, <1>3, <2>1, <2>3, <3>1 DEF Lexer
  <2> QED BY <2>2, <2>3
<1> HIDE DEF one, k, l, c
<1>6. CASE c # s.close
  <2>1. Agree(q, one, k) BY <1>3, <1>4, <1>5, <1>6 DEF Agree, WithinDelimiters
  <2>2. Weight(one) > Weight(s) /\ one.at \in s.at .. Len(q) + 1 /\ one.at - 1 = s.at
    BY <1>1, <1>4 DEF Weight
  <2>3. InDelimited(q, s) = one BY <1>6 DEF InDelimited, one, c
  <2>4. Lex(q)[s.at] = k BY <1>2 DEF k, c, l
  <2> QED BY <2>1, <2>2, <2>3, <2>4 DEF Onward
<1>7. CASE c = s.close /\ Starts(q, s.at, c, c)
  <2> DEFINE t == Copied([one EXCEPT !.at = @ + 1], c)
             m == LexStep(k, c)
  <2>1. InDelimited(q, s) = t BY <1>7 DEF InDelimited, one, c
  <2>2. /\ t.at = s.at + 2 /\ t.in = s.in /\ t.depth = s.depth /\ t.close = s.close
        /\ t.out = IF named THEN Append(once, c) ELSE once
    <3> DEFINE u == [one EXCEPT !.at = @ + 1]
    <3>1. /\ u.at = s.at + 2 /\ u.in = s.in /\ u.depth = s.depth /\ u.close = s.close
          /\ u.out = once /\ DOMAIN u = {"in", "at", "depth", "close", "out"}
      BY <1>1, <1>4
    <3>2. t = IF named THEN [u EXCEPT !.out = Append(u.out, c)] ELSE u
      BY <3>1 DEF Copied
    <3> HIDE DEF u, t
    <3> QED BY <3>1, <3>2
  <2>3. t.at - 1 = s.at + 1 /\ t.at \in s.at .. Len(q) + 1 /\ Weight(t) > Weight(s)
    <3>1. s.at \in 1 .. Len(q) - 1 /\ Len(q) \in Nat BY <1>1, <1>7, LexReadsTwo
    <3> HIDE DEF t, once
    <3>2. t.at - 1 = s.at + 1 /\ t.at \in s.at .. Len(q) + 1 BY <2>2, <3>1
    <3>3. Weight(t) > Weight(s) BY <2>2, <3>1 DEF Weight
    <3> QED BY <3>2, <3>3
  <2>4. Lex(q)[s.at + 1] = m BY <1>1, <1>7, LexReadsTwo DEF k, l
  <2>5. m.depth = l.depth /\ m.mode = s.in /\ m.close = l.close
        /\ m.out = IF named THEN Append(once, c) ELSE once
    <3>1. CASE named
      <4>1. m = [k EXCEPT !.mode = "name", !.out = Append(@, c)]
        BY <1>3, <1>5, <1>7, <3>1 DEF LexStep
      <4> QED BY <1>3, <1>5, <3>1, <4>1 DEF Lexer
    <3>2. CASE ~named
      <4>1. m = [k EXCEPT !.mode = "string"] BY <1>3, <1>5, <1>7, <3>2 DEF LexStep
      <4> QED BY <1>3, <1>5, <3>2, <4>1 DEF Lexer
    <3> QED BY <3>1, <3>2
  <2> HIDE DEF t, m
  <2>6. Agree(q, t, m) BY <1>3, <2>2, <2>5 DEF Agree, WithinDelimiters
  <2> QED BY <2>1, <2>3, <2>4, <2>6 DEF Onward
<1>8. CASE c = s.close /\ ~Starts(q, s.at, c, c)
  <2> DEFINE t == [one EXCEPT !.in = "batch"]
  <2>1. InDelimited(q, s) = t BY <1>8 DEF InDelimited, one, c
  <2>2. t.at = s.at + 1 /\ t.in = "batch" /\ t.depth = s.depth /\ t.out = once
    BY <1>4
  <2>3. t.at - 1 = s.at /\ t.at \in s.at .. Len(q) + 1 /\ Weight(t) > Weight(s)
    <3> HIDE DEF t
    <3>1. Weight(t) = 2 * (s.at + 1) /\ Weight(s) = 2 * s.at BY <2>2 DEF Weight
    <3> QED BY <1>1, <2>2, <3>1
  <2>4. Lex(q)[s.at] = k BY <1>2 DEF k, c, l
  <2>5. t.at <= Len(q) => q[t.at] # c BY <1>1, <1>8, <2>2 DEF Starts, c
  <2>6. Ended(k) = t.out BY <1>5, <2>2 DEF Ended
  <2>7. [k EXCEPT !.out = t.out] = k BY <1>5, <2>2 DEF Lexer
  <2>8. t.at <= Len(q) => LexStep(k, q[t.at]) = Code(k, q[t.at])
    <3>1. ASSUME NEW x, x # c PROVE LexStep(k, x) = Code(k, x)
      BY <1>3, <1>5, <1>8, <3>1 DEF LexStep
    <3> QED BY <2>5, <3>1
  <2>9. Agree(q, t, k) BY <1>3, <1>5, <2>2, <2>6, <2>7, <2>8 DEF Agree, Outside
  <2> QED BY <2>1, <2>3, <2>4, <2>9 DEF Onward
<1> QED BY <1>6, <1>7, <1>8

LEMMA BatchTurns ==
  ASSUME NEW q \in Seq(Char), NEW s \in Scanner, s.at <= Len(q), s.in = "batch",
         Agree(q, s, Lex(q)[s.at - 1])
  PROVE  LET t == InBatch(q, s) IN Onward(q, s, t, Lex(q)[t.at - 1])
<1> DEFINE c == q[s.at]  l == Lex(q)[s.at - 1]
           b == [l EXCEPT !.out = s.out]
           k == Lex(q)[s.at]
<1>1. s.at \in 1 .. Len(q) /\ Len(q) \in Nat BY DEF Scanner
<1>2. l \in Lexer /\ c \in Char /\ k = LexStep(l, c) BY <1>1, LexReads
<1>3. l.depth = s.depth /\ k = Code(b, c) BY <1>1, <1>2 DEF Agree, Outside
<1>4. b \in Lexer /\ b.out = s.out /\ b.depth = s.depth BY <1>2, <1>3 DEF Lexer, Scanner
<1>5. ASSUME NEW t, NEW m, t.at = s.at + 2, Starts(q, s.at, c, q[s.at + 1]),
             t.in # "batch", Lex(q)[s.at + 1] = m, Agree(q, t, m)
      PROVE  Onward(q, s, t, Lex(q)[t.at - 1])
  <2>1. t.at - 1 = s.at + 1 /\ t.at \in s.at .. Len(q) + 1 BY <1>1, <1>5 DEF Starts
  <2>2. Weight(t) > Weight(s) BY <1>1, <1>5 DEF Weight
  <2> QED BY <1>5, <2>1, <2>2 DEF Onward
<1>6. ASSUME NEW t, t.at = s.at + 1, t.in # "line", Agree(q, t, k)
      PROVE  Onward(q, s, t, Lex(q)[t.at - 1])
  <2>1. t.at - 1 = s.at /\ t.at \in s.at .. Len(q) + 1 /\ Weight(t) > Weight(s)
    BY <1>1, <1>6 DEF Weight
  <2> QED BY <1>6, <2>1 DEF Onward
<1> HIDE DEF b, k, l, c
<1>7. CASE Starts(q, s.at, "-", "-")
  <2> DEFINE t == [s EXCEPT !.in = "line", !.at = @ + 2, !.out = Append(@, " ")]
             m == LexStep(k, "-")
  <2>1. c = "-" /\ q[s.at + 1] = "-" BY <1>7 DEF Starts, c
  <2>2. t.at = s.at + 2 /\ t.in = "line" /\ t.out = Append(s.out, " ") /\ t.depth = s.depth
    BY DEF Scanner
  <2>3. k = [b EXCEPT !.mode = "dash"] BY <1>3, <2>1 DEF Code
  <2>4. k.mode = "dash" /\ k.out = s.out /\ k.depth = s.depth /\ k \in Lexer
    BY <1>4, <2>3 DEF Lexer, Mode
  <2>5. m = [k EXCEPT !.mode = "line", !.out = Append(@, " ")] BY <2>4 DEF LexStep
  <2>6. m.mode = "line" /\ m.out = Append(s.out, " ") /\ m.depth = s.depth
    BY <2>4, <2>5 DEF Lexer
  <2>7. Agree(q, t, m) BY <2>2, <2>6 DEF Agree
  <2>8. Lex(q)[s.at + 1] = m BY <1>1, <1>2, <1>7, <2>1, LexReadsTwo DEF l
  <2> QED BY <1>5, <1>7, <2>1, <2>2, <2>7, <2>8 DEF InBatch
<1>8. CASE Starts(q, s.at, "/", "*")
  <2> DEFINE t == [s EXCEPT !.in = "comment", !.depth = @ + 1, !.at = @ + 2, !.out = Append(@, " ")]
             m == LexStep(k, "*")
  <2>1. c = "/" /\ q[s.at + 1] = "*" /\ ~Starts(q, s.at, "-", "-") BY <1>8 DEF Starts, c
  <2>2. /\ t.at = s.at + 2 /\ t.in = "comment" /\ t.out = Append(s.out, " ")
        /\ t.depth = s.depth + 1
    BY DEF Scanner
  <2>3. k = [b EXCEPT !.mode = "slash"] BY <1>3, <2>1 DEF Code
  <2>4. k.mode = "slash" /\ k.out = s.out /\ k.depth = s.depth /\ k \in Lexer
    BY <1>4, <2>3 DEF Lexer, Mode
  <2>5. m = [k EXCEPT !.mode = "comment", !.depth = @ + 1, !.out = Append(@, " ")]
    BY <2>4 DEF LexStep
  <2>6. m.mode = "comment" /\ m.out = Append(s.out, " ") /\ m.depth = s.depth + 1
    BY <2>4, <2>5 DEF Lexer
  <2>7. Agree(q, t, m) BY <2>2, <2>6 DEF Agree, WithinComment
  <2>8. Lex(q)[s.at + 1] = m BY <1>1, <1>2, <1>8, <2>1, LexReadsTwo DEF l
  <2>9. InBatch(q, s) = t BY <1>8, <2>1 DEF InBatch
  <2> QED BY <1>5, <1>8, <2>1, <2>2, <2>7, <2>8, <2>9
<1>9. ASSUME ~Starts(q, s.at, "-", "-"), ~Starts(q, s.at, "/", "*")
      PROVE  LET t == InBatch(q, s) IN Onward(q, s, t, Lex(q)[t.at - 1])
  <2>1. CASE c = "'"
    <3> DEFINE t == [s EXCEPT !.in = "string", !.close = c, !.at = @ + 1,
                              !.out = Append(Append(@, c), c)]
    <3>1. /\ t.at = s.at + 1 /\ t.in = "string" /\ t.out = Append(Append(s.out, c), c)
          /\ t.depth = s.depth /\ t.close = "'"
      BY <2>1 DEF Scanner
    <3>2. k = [b EXCEPT !.mode = "string", !.out = Append(Append(@, c), c)]
      BY <1>3, <2>1 DEF Code
    <3>3. k.mode = "string" /\ k.out = Append(Append(s.out, c), c) /\ k.depth = s.depth
      BY <1>4, <3>2 DEF Lexer
    <3>4. Agree(q, t, k) BY <3>1, <3>3 DEF Agree, WithinDelimiters
    <3>5. InBatch(q, s) = t BY <1>9, <2>1 DEF InBatch, c
    <3> QED BY <1>6, <3>1, <3>4, <3>5
  <2>2. CASE c \in {"[", "\""}
    <3> DEFINE t == [s EXCEPT !.in = "name", !.close = IF c = "[" THEN "]" ELSE c, !.at = @ + 1,
                              !.out = Append(@, c)]
    <3>1. /\ t.at = s.at + 1 /\ t.in = "name" /\ t.out = Append(s.out, c)
          /\ t.depth = s.depth /\ t.close = IF c = "[" THEN "]" ELSE c
      BY DEF Scanner
    <3>2. k = [b EXCEPT !.mode = "name", !.close = IF c = "[" THEN "]" ELSE c,
                        !.out = Append(@, c)]
      BY <1>3, <2>2 DEF Code
    <3>3. /\ k.mode = "name" /\ k.out = Append(s.out, c) /\ k.depth = s.depth
          /\ k.close = IF c = "[" THEN "]" ELSE c
      BY <1>4, <3>2 DEF Lexer
    <3>4. Agree(q, t, k) BY <3>1, <3>3 DEF Agree, WithinDelimiters
    <3>5. InBatch(q, s) = t BY <1>9, <2>2 DEF InBatch, c
    <3> QED BY <1>6, <3>1, <3>4, <3>5
  <2>3. CASE c \notin {"'", "[", "\""}
    <3> DEFINE t == [s EXCEPT !.at = @ + 1, !.out = Append(@, c)]
    <3>1. t.at = s.at + 1 /\ t.in = "batch" /\ t.out = Append(s.out, c) /\ t.depth = s.depth
      BY DEF Scanner
    <3>2. t.at <= Len(q) => (c = "-" => q[t.at] # "-") /\ (c = "/" => q[t.at] # "*")
      BY <1>1, <1>9, <3>1 DEF Starts, c
    <3>3. k = CASE c = "-" -> [b EXCEPT !.mode = "dash"]
                [] c = "/" -> [b EXCEPT !.mode = "slash"]
                [] OTHER   -> [b EXCEPT !.mode = "code", !.out = Append(@, c)]
      BY <1>3, <2>3 DEF Code
    <3>4. /\ k.mode = IF c = "-" THEN "dash" ELSE IF c = "/" THEN "slash" ELSE "code"
          /\ k.out = IF c \in {"-", "/"} THEN s.out ELSE Append(s.out, c)
          /\ k.depth = s.depth
      BY <1>4, <3>3 DEF Lexer
    <3>5. Ended(k) = t.out BY <3>1, <3>4 DEF Ended
    <3>6. k \in Lexer BY <1>2, LexStepIsTyped
    <3>7. t.at <= Len(q) => LexStep(k, q[t.at]) = Code([k EXCEPT !.out = t.out], q[t.at])
      <4>1. CASE c \in {"-", "/"} BY <3>1, <3>2, <3>4, <4>1 DEF LexStep, AfterPending
      <4>2. CASE c \notin {"-", "/"}
        <5>1. [k EXCEPT !.out = t.out] = k BY <3>1, <3>4, <3>6, <4>2 DEF Lexer
        <5>2. \A x : LexStep(k, x) = Code(k, x) BY <3>4, <4>2 DEF LexStep
        <5> QED BY <5>1, <5>2
      <4> QED BY <4>1, <4>2
    <3>8. Agree(q, t, k) BY <3>1, <3>4, <3>5, <3>7 DEF Agree, Outside
    <3>9. InBatch(q, s) = t BY <1>9, <2>3 DEF InBatch, c
    <3> QED BY <1>6, <3>1, <3>8, <3>9
  <2> QED BY <2>1, <2>2, <2>3
<1> QED BY <1>7, <1>8, <1>9

(* Whatever loop the scan is in, its turn brings it on and leaves the two   *)
(* agreed.                                                                  *)
LEMMA TurnsAgree ==
  ASSUME NEW q \in Seq(Char), NEW s \in Scanner, s.at <= Len(q), Agree(q, s, Lex(q)[s.at - 1])
  PROVE  LET t == Turn(q, s) IN Onward(q, s, t, Lex(q)[t.at - 1])
<1>1. Turn(q, s) = CASE s.in = "batch"   -> InBatch(q, s)
                     [] s.in = "line"    -> InLine(q, s)
                     [] s.in = "comment" -> InComment(q, s)
                     [] OTHER            -> InDelimited(q, s)
  BY DEF Turn, Scanner
<1>2. CASE s.in = "batch" BY <1>1, <1>2, BatchTurns
<1>3. CASE s.in = "line" BY <1>1, <1>3, LineTurns
<1>4. CASE s.in = "comment" BY <1>1, <1>4, CommentTurns
<1>5. CASE s.in \in {"string", "name"} BY <1>1, <1>5, DelimitedTurns
<1> QED BY <1>2, <1>3, <1>4, <1>5 DEF Scanner, Place

Scanned(q, s, k) ==
  /\ s \in Scanner /\ s.at \in 1 .. Len(q) + 1
  /\ Agree(q, s, Lex(q)[s.at - 1])
  /\ s.at <= Len(q) => Weight(s) >= k + 2

(* By induction over the turns, of which twice the characters are enough.   *)
LEMMA ScanAgrees ==
  ASSUME NEW q \in Seq(Char)
  PROVE  \A k \in 0 .. 2 * Len(q) : Scanned(q, Scan(q)[k], k)
<1> DEFINE N == 2 * Len(q)
           S == {k \in 0 .. N : Scanned(q, Scan(q)[k], k)}
<1>1. Len(q) \in Nat /\ N \in Nat BY LenProperties
<1>2. 0 \in S
  <2> DEFINE s == Opened  l == NothingRead
  <2>1. Scan(q)[0] = s /\ Lex(q)[0] = l /\ s \in Scanner /\ l \in Lexer /\ 0 \in 0 .. N
    BY <1>1, ScanIs, LexIs
  <2>2. s.at = 1 /\ s.in = "batch" /\ s.depth = 0 /\ s.out = <<>> BY DEF Opened
  <2>3. l.mode = "code" /\ l.depth = 0 /\ l.out = <<>> BY DEF NothingRead
  <2> HIDE DEF s, l
  <2>4. Ended(l) = s.out /\ [l EXCEPT !.out = <<>>] = l BY <2>1, <2>2, <2>3 DEF Ended, Lexer
  <2>5. \A x : LexStep(l, x) = Code(l, x) BY <2>3 DEF LexStep
  <2>6. Agree(q, s, l) BY <2>2, <2>3, <2>4, <2>5 DEF Agree, Outside
  <2>7. Weight(s) = 2 /\ s.at - 1 = 0 /\ s.at \in 1 .. Len(q) + 1 BY <1>1, <2>2 DEF Weight
  <2>8. Scanned(q, s, 0) BY <2>1, <2>6, <2>7 DEF Scanned
  <2> QED BY <2>1, <2>8
<1>3. ASSUME NEW k \in 1 .. N, k - 1 \in S PROVE k \in S
  <2> DEFINE s == Scan(q)[k - 1]  t == Scan(q)[k]
  <2>1. t = Turn(q, s) /\ t \in Scanner /\ k \in 0 .. N BY <1>1, ScanIs
  <2>2. Scanned(q, s, k - 1) BY <1>3
  <2> HIDE DEF s, t, N
  <2>3. ASSUME s.at <= Len(q) PROVE Scanned(q, t, k)
    <3>1. Onward(q, s, t, Lex(q)[t.at - 1]) BY <2>1, <2>2, <2>3, TurnsAgree DEF Scanned
    <3>2. t.at \in 1 .. Len(q) + 1 /\ s.at \in Nat BY <1>1, <2>2, <3>1 DEF Onward, Scanned
    <3>3. Weight(s) \in Int /\ Weight(t) \in Int BY <3>2 DEF Weight
    <3>4. Weight(t) >= k + 2 BY <1>1, <2>2, <2>3, <3>1, <3>3 DEF Onward, Scanned
    <3> QED BY <2>1, <3>1, <3>2, <3>4 DEF Onward, Scanned
  <2>4. ASSUME ~(s.at <= Len(q)) PROVE Scanned(q, t, k)
    <3>1. t = s BY <1>1, <2>1, <2>2, <2>4 DEF Turn, Scanned
    <3> QED BY <2>2, <2>4, <3>1 DEF Scanned
  <2>5. Scanned(q, t, k) BY <2>3, <2>4
  <2> QED BY <2>1, <2>5 DEF t
<1>4. \A k \in 0 .. N : k \in S
  <2> HIDE DEF S, N
  <2> QED BY <1>1, <1>2, <1>3, Climb
<1> QED BY <1>4

(* stripNoise of a batch of any length and any characters is what a lexer   *)
(* of the language takes it for.                                            *)
THEOREM StripsAsTheServerReads == ASSUME NEW q \in Seq(Char) PROVE ReadAsTheServer(q)
<1> DEFINE N == 2 * Len(q)  s == Scan(q)[N]  l == Lex(q)[Len(q)]
<1>1. Len(q) \in Nat /\ N \in Nat /\ N \in 0 .. N BY LenProperties
<1>2. Scanned(q, s, N) BY <1>1, ScanAgrees
<1>3. s.at = Len(q) + 1
  <2> HIDE DEF s
  <2>1. CASE s.at <= Len(q) BY <1>1, <1>2, <2>1 DEF Scanned, Weight
  <2> QED BY <1>1, <1>2, <2>1 DEF Scanned
<1>4. s.at - 1 = Len(q) BY <1>1, <1>3
<1>5. Agree(q, s, l) /\ s \in Scanner BY <1>2, <1>4 DEF Scanned
<1>6. Ended(l) = s.out
  <2> HIDE DEF s, l
  <2>1. CASE s.in = "batch" BY <1>5, <2>1 DEF Agree, Outside
  <2>2. CASE s.in = "line" BY <1>5, <2>2 DEF Agree, Ended
  <2>3. CASE s.in = "comment" BY <1>5, <2>3 DEF Agree, WithinComment, Ended
  <2>4. CASE s.in \in {"string", "name"} BY <1>5, <2>4 DEF Agree, WithinDelimiters, Ended
  <2> QED BY <1>5, <2>1, <2>2, <2>3, <2>4 DEF Scanner, Place
<1> QED BY <1>6 DEF ReadAsTheServer, stripNoise

(* Whatever batches are looked at, the guards see them as the server does.  *)
THEOREM GuardReadsAsTheServerHolds == Spec => []GuardReadsAsTheServer
<1>1. \A q \in Text : ReadAsTheServer(q) BY TextAssumption, StripsAsTheServerReads
<1>2. GuardReadsAsTheServer BY <1>1 DEF GuardReadsAsTheServer
<1> QED BY <1>2, PTL
=============================================================================
