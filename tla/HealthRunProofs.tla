-------------------------- MODULE HealthRunProofs --------------------------
(***************************************************************************)
(* HealthRun for any targets, groups and number of slots: each target is   *)
(* checked once and the comparison waits for all of them; the grades of a  *)
(* pair agree; and what the reductions over the reports compute, by        *)
(* induction over the list, is what the subject has to say.                *)
(***************************************************************************)
EXTENDS HealthRun, FiniteSetTheorems, WellFoundedInduction, TLAPS

Indices == 1..Len(Targets)

Types ==
  /\ next \in 1..Len(Targets) + 1
  /\ running \in [1..Slots -> 0..Len(Targets)]
  /\ ordered \in [Target -> Report \union {None, NoReport}]
  /\ phase \in {"running", "compared", "done", "threw"}

(* Only active slots run; what a slot runs was taken, has not ended, and is *)
(* run by no other slot.                                                    *)
Taken ==
  \A s \in 1..Slots : running[s] # 0 =>
    /\ s \in Active
    /\ running[s] < next
    /\ ordered[Targets[running[s]]] = None
    /\ \A r \in 1..Slots : running[r] = running[s] => r = s

(* Untaken targets have not ended; taken ones are running or have.          *)
Accounted ==
  \A i \in Indices :
    /\ i >= next => ordered[Targets[i]] = None
    /\ i < next => \/ ordered[Targets[i]] # None
                   \/ \E s \in 1..Slots : running[s] = i

(* The comparison comes after the last target.                              *)
Waits == phase # "running" => \A t \in Target : ordered[t] # None

IInv == Types /\ Taken /\ Accounted /\ Waits

----------------------------------------------------------------------------
(* The list names every target once, so indices and targets correspond.     *)
LEMMA Listed ==
  /\ Len(Targets) \in Nat
  /\ \A i \in Indices : Targets[i] \in Target
  /\ \A i, j \in Indices : Targets[i] = Targets[j] => i = j
  /\ \A t \in Target : \E i \in Indices : Targets[i] = t
<1>1. DOMAIN Targets = Indices BY RunAssumption DEF Indices
<1> QED BY <1>1, RunAssumption DEF IsInjective, ToSet, Indices

(* Taking a target: it had not ended and nobody else ran it.                *)
LEMMA TakeKeeps ==
  ASSUME IInv, NEW s \in 1..Slots, Take(s)
  PROVE  IInv'
<1> USE DEF Indices
<1>1. Len(Targets) \in Nat /\ next \in Indices BY Listed DEF IInv, Types, Take
<1>2. /\ running' = [running EXCEPT ![s] = next] /\ next' = next + 1
      /\ UNCHANGED <<mode, ordered, phase>> /\ phase = "running" /\ s \in Active
  BY DEF Take, Advance
<1>3. Active' = Active BY <1>2 DEF Active
<1>4. Types' BY <1>1, <1>2 DEF IInv, Types
<1>5. /\ running'[s] = next
      /\ \A r \in 1..Slots : r # s => running'[r] = running[r]
  BY <1>2 DEF IInv, Types
<1>6. Taken'
  <2> SUFFICES ASSUME NEW q \in 1..Slots, running'[q] # 0
               PROVE  /\ q \in Active' /\ running'[q] < next'
                      /\ ordered'[Targets[running'[q]]] = None
                      /\ \A r \in 1..Slots : running'[r] = running'[q] => r = q
    BY DEF Taken
  <2>1. \A r \in 1..Slots : r # s => running'[r] = 0 \/ running'[r] < next
    BY <1>5 DEF IInv, Taken
  <2>2. CASE q = s BY <2>2, <2>1, <1>1, <1>2, <1>3, <1>5 DEF IInv, Accounted
  <2>3. CASE q # s
    <3>1. running'[q] = running[q] /\ running[q] < next /\ running[q] \in Nat
      BY <2>3, <1>5, <2>1 DEF IInv, Types
    <3> QED BY <3>1, <2>3, <1>1, <1>2, <1>3, <1>5 DEF IInv, Taken
  <2> QED BY <2>2, <2>3
<1>7. Accounted'
  <2> SUFFICES ASSUME NEW i \in Indices
               PROVE  /\ i >= next' => ordered'[Targets[i]] = None
                      /\ i < next' => \/ ordered'[Targets[i]] # None
                                      \/ \E r \in 1..Slots : running'[r] = i
    BY <1>2 DEF Accounted
  <2>1. CASE i = next BY <2>1, <1>1, <1>2, <1>5
  <2>2. CASE i # next
    <3>1. \A r \in 1..Slots : running[r] = i => running'[r] = i
      <4>1. running[s] = 0 BY DEF Take
      <4> QED BY <4>1, <1>1, <1>5
    <3> QED BY <2>2, <3>1, <1>1, <1>2 DEF IInv, Accounted
  <2> QED BY <2>1, <2>2
<1>8. Waits' BY <1>2 DEF Waits
<1> QED BY <1>4, <1>6, <1>7, <1>8 DEF IInv

(* A target ends: only its own entry and its own slot change.               *)
LEMMA EndKeeps ==
  ASSUME IInv, NEW s \in 1..Slots, End(s)
  PROVE  IInv'
<1> USE DEF Indices
<1> DEFINE n == running[s]
<1>1. /\ n \in Indices /\ Len(Targets) \in Nat /\ UNCHANGED <<mode, next, phase>>
      /\ running' = [running EXCEPT ![s] = 0]
  BY Listed DEF End, Freed
<1>2. PICK outcome \in Report \union {NoReport} :
        ordered' = [ordered EXCEPT ![Targets[n]] = outcome]
  BY DEF End, Outcomes
<1>3. outcome # None BY NoneAssumption
<1>4. /\ ordered'[Targets[n]] # None
      /\ \A i \in Indices : i # n => ordered'[Targets[i]] = ordered[Targets[i]]
      /\ \A t \in Target : ordered[t] # None => ordered'[t] # None
      /\ ordered' \in [Target -> Report \union {None, NoReport}]
  BY <1>1, <1>2, <1>3, Listed DEF IInv, Types
<1>5. /\ running'[s] = 0
      /\ \A r \in 1..Slots : r # s => running'[r] = running[r]
  BY <1>1 DEF IInv, Types
<1>6. Active' = Active BY <1>1 DEF Active
<1>7. Types' BY <1>1, <1>4 DEF IInv, Types
<1>8. \A r \in 1..Slots : r # s => running[r] # n
  BY <1>1 DEF IInv, Taken
<1>9. Taken'
  <2> SUFFICES ASSUME NEW q \in 1..Slots, running'[q] # 0
               PROVE  /\ q \in Active' /\ running'[q] < next'
                      /\ ordered'[Targets[running'[q]]] = None
                      /\ \A r \in 1..Slots : running'[r] = running'[q] => r = q
    BY DEF Taken
  <2>1. q # s /\ running'[q] = running[q] /\ running[q] # n /\ running[q] \in Indices
    BY <1>5, <1>8 DEF IInv, Types
  <2>2. ordered'[Targets[running[q]]] = None BY <2>1, <1>4 DEF IInv, Taken
  <2> QED BY <2>1, <2>2, <1>1, <1>5, <1>6 DEF IInv, Taken
<1>10. Accounted'
  <2> SUFFICES ASSUME NEW i \in Indices
               PROVE  /\ i >= next' => ordered'[Targets[i]] = None
                      /\ i < next' => \/ ordered'[Targets[i]] # None
                                      \/ \E r \in 1..Slots : running'[r] = i
    BY <1>1 DEF Accounted
  <2>1. n < next BY <1>1 DEF IInv, Taken
  <2>2. CASE i = n BY <2>1, <2>2, <1>1, <1>4 DEF IInv, Types
  <2>3. CASE i # n
    <3>1. \A r \in 1..Slots : running[r] = i => running'[r] = i BY <2>3, <1>5
    <3> QED BY <2>3, <3>1, <1>1, <1>4 DEF IInv, Accounted
  <2> QED BY <2>2, <2>3
<1>11. Waits' BY <1>1, <1>4 DEF IInv, Waits
<1> QED BY <1>7, <1>9, <1>10, <1>11 DEF IInv

(* The comparison: no slot runs and no target is left, so all have ended.   *)
LEMMA CompareWaits ==
  ASSUME IInv, Compare
  PROVE  \A t \in Target : ordered[t] # None
<1> USE DEF Indices
<1> SUFFICES ASSUME NEW t \in Target PROVE ordered[t] # None OBVIOUS
<1>1. PICK i \in Indices : Targets[i] = t BY Listed
<1>2. i < next BY Listed DEF Compare, IInv, Types
<1>3. \A s \in 1..Slots : running[s] # i
  BY DEF Compare, IInv, Taken
<1> QED BY <1>1, <1>2, <1>3 DEF IInv, Accounted

(* The inductive invariant holds of every behaviour.                        *)
THEOREM Invariance == Spec => []IInv
<1>1. Init => IInv
  <2> SUFFICES ASSUME Init PROVE IInv OBVIOUS
  <2> USE DEF Indices
  <2>1. Types BY Listed DEF Init, Types
  <2>2. Taken BY DEF Init, Taken
  <2>3. Accounted BY Listed DEF Init, Accounted
  <2>4. Waits BY DEF Init, Waits
  <2> QED BY <2>1, <2>2, <2>3, <2>4 DEF IInv
<1>2. IInv /\ [Next]_vars => IInv'
  <2> SUFFICES ASSUME IInv, [Next]_vars PROVE IInv' OBVIOUS
  <2>1. CASE \E s \in 1..Slots : Take(s) BY <2>1, TakeKeeps
  <2>2. CASE \E s \in 1..Slots : End(s) BY <2>2, EndKeeps
  <2>3. CASE Compare
    <3>1. UNCHANGED <<mode, next, running, ordered>> /\ phase' = "compared"
      BY <2>3 DEF Compare
    <3> QED BY <2>3, <3>1, CompareWaits DEF IInv, Types, Taken, Accounted, Waits, Active
  <2>4. CASE Finish
    <3>1. /\ UNCHANGED <<mode, next, running, ordered>>
          /\ phase = "compared" /\ phase' \in {"done", "threw"}
      BY <2>4 DEF Finish
    <3> QED BY <3>1 DEF IInv, Types, Taken, Accounted, Waits, Active
  <2>5. CASE UNCHANGED vars
    BY <2>5 DEF vars, IInv, Types, Taken, Accounted, Waits, Active
  <2> QED BY <2>1, <2>2, <2>3, <2>4, <2>5 DEF Next
<1> QED BY <1>1, <1>2, PTL DEF Spec

(* Each instance is checked once and by one slot, and the answer is given   *)
(* only when each has been, for any fleet and any concurrency               *)
(* (dbatools.ts:7490-7524).                                                 *)
THEOREM EachTargetOnceHolds == Spec => []EachTargetOnce
<1>1. IInv => EachTargetOnce BY DEF IInv, Taken, Waits, EachTargetOnce
<1> QED BY <1>1, Invariance, PTL

----------------------------------------------------------------------------
(* What differs from one side differs from the other: the kinds of          *)
(* difference, and what makes one count, are symmetric.                     *)
LEMMA Symmetric ==
  ASSUME NEW t \in Target, NEW p \in Target, Partners[t] = {p}, Partners[p] = {t}
  PROVE  Drift(t) = Drift(p)
<1>1. LiveDifference(Shown(t), Shown(p)) <=> LiveDifference(Shown(p), Shown(t))
  BY DEF LiveDifference
<1>2. CASE HasInventory(t) /\ HasInventory(p)
  <2>1. Peers(t) = {p} /\ Peers(p) = {t} BY <1>2 DEF Peers
  <2> QED BY <1>1, <1>2, <2>1 DEF Drift
<1>3. CASE ~HasInventory(t) \/ ~HasInventory(p)
  <2>1. /\ ~HasInventory(t) \/ Peers(t) = {}
        /\ ~HasInventory(p) \/ Peers(p) = {}
    BY <1>3 DEF Peers
  <2> QED BY <2>1 DEF Drift
<1> QED BY <1>2, <1>3

(* The two nodes of a pair have the same grade, whatever inventories came   *)
(* and in whatever order (dbatools.ts:7030-7073).                           *)
THEOREM DriftIsMutualHolds == Spec => []DriftIsMutual
<1>1. Init => DriftIsMutual BY DEF Init, DriftIsMutual
<1>2. DriftIsMutual /\ [Next]_vars => DriftIsMutual'
  <2> SUFFICES ASSUME DriftIsMutual, [Next]_vars PROVE DriftIsMutual' OBVIOUS
  <2>1. CASE Compare
    <3>1. drift' = [t \in Target |-> Drift(t)] BY <2>1 DEF Compare
    <3> QED BY <3>1, Symmetric DEF DriftIsMutual
  <2>2. CASE UNCHANGED drift BY <2>2 DEF DriftIsMutual
  <2> QED BY <2>1, <2>2 DEF Next, Take, End, Finish, vars
<1> QED BY <1>1, <1>2, PTL DEF Spec

(* Nothing is graded before the comparison. *)
Ungraded == phase = "running" => \A t \in Target : drift[t] = "Info"

(* A process ends only while the run goes on, so an inventory that was      *)
(* compared does not change.                                                *)
LEMMA EndsWhileRunning ==
  ASSUME IInv, NEW s \in 1..Slots, End(s)
  PROVE  phase = "running"
<1>1. running[s] \in Indices BY DEF End, Indices
<1>2. Targets[running[s]] \in Target BY <1>1, Listed
<1>3. ordered[Targets[running[s]]] = None /\ Len(Targets) \in Nat
  BY <1>1, Listed DEF IInv, Taken, Indices
<1> QED BY <1>2, <1>3 DEF IInv, Waits

(* A finding that was graded tells of the jobs as they are on the nodes,    *)
(* whatever lists were cut at their limit (dbatools.ts:7023-7036).          *)
THEOREM DriftIsRealHolds == Spec => []DriftIsReal
<1> DEFINE Graded == Ungraded /\ DriftIsReal
<1>1. Init => Graded BY DEF Init, Ungraded, DriftIsReal
<1>2. IInv /\ Graded /\ [Next]_vars => Graded'
  <2> SUFFICES ASSUME IInv, Graded, [Next]_vars PROVE Graded' OBVIOUS
  <2>1. CASE Compare
    <3>1. /\ drift' = [t \in Target |-> Drift(t)] /\ ordered' = ordered
          /\ phase' = "compared"
      BY <2>1 DEF Compare
    <3>2. ASSUME NEW t \in Target, Drift(t) # "Info"
          PROVE  Drift(t) = "Attention" <=>
                   \E p \in Peers(t) : LiveDifference(ordered[t].jobs, ordered[p].jobs)
      <4>1. \A p \in Peers(t) \union {t} : Shown(p) = ordered[p].jobs
        BY <3>2 DEF Drift, Complete, Shown
      <4> QED BY <3>2, <4>1 DEF Drift
    <3>3. \A t \in Target : Peers(t)' = Peers(t) BY <3>1 DEF Peers, HasInventory, Reported
    <3> QED BY <3>1, <3>2, <3>3 DEF Ungraded, DriftIsReal
  <2>2. CASE \E s \in 1..Slots : End(s)
    <3>1. phase = "running" BY <2>2, EndsWhileRunning
    <3>2. UNCHANGED <<drift, phase>> BY <2>2 DEF End
    <3> QED BY <3>1, <3>2 DEF Ungraded, DriftIsReal
  <2>3. CASE UNCHANGED <<ordered, drift>> /\ (phase' = "running" => phase = "running")
    <3>1. \A t \in Target : Peers(t)' = Peers(t) BY <2>3 DEF Peers, HasInventory, Reported
    <3> QED BY <2>3, <3>1 DEF Ungraded, DriftIsReal
  <2> QED BY <2>1, <2>2, <2>3 DEF Next, Take, Finish, vars
<1> QED BY <1>1, <1>2, Invariance, PTL DEF Spec

----------------------------------------------------------------------------
(* The reductions of the report command, by induction over the targets.     *)
(* A set of numbers that is not empty has a least one: among the intervals  *)
(* that begin at 0 and end in the set, one holds no other.                  *)
LEMMA LeastNatural ==
  ASSUME NEW S \in SUBSET Nat, S # {}
  PROVE  \E n \in S : \A m \in S : n <= m
<1>1. PICK top \in S : TRUE OBVIOUS
<1> DEFINE R == StrictSubsetOrdering(0 .. top)
           T == {0 .. n : n \in {m \in S : m <= top}}
<1>2. IsFiniteSet(0 .. top) BY <1>1, FS_Interval
<1>3. T \subseteq FiniteSubsetsOf(0 .. top)
  <2>1. ASSUME NEW n \in S, n <= top PROVE 0 .. n \in SUBSET (0 .. top) /\ IsFiniteSet(0 .. n)
    BY <1>1, <2>1, FS_Interval
  <2> QED BY <2>1 DEF FiniteSubsetsOf
<1>4. T # {} BY <1>1
<1>5. IsWellFoundedOn(R, FiniteSubsetsOf(0 .. top)) BY FS_StrictSubsetOrderingWellFounded
<1>6. PICK x \in T : \A y \in T : <<y, x>> \notin R
  <2> HIDE DEF R, T
  <2> QED BY <1>3, <1>4, <1>5, WFMin
<1>7. PICK n \in S : n <= top /\ x = 0 .. n OBVIOUS
<1>8. ASSUME NEW m \in S, m < n PROVE FALSE
  <2>1. m \in Nat /\ n \in Nat /\ top \in Nat /\ m <= top BY <1>7, <1>8
  <2>2. 0 .. m \in T BY <2>1
  <2>3. 0 .. m \in SUBSET (0 .. top) /\ x \in SUBSET (0 .. top) BY <1>7, <2>1
  <2>4. n \in x /\ n \notin 0 .. m /\ 0 .. m \subseteq x BY <1>7, <1>8, <2>1
  <2>5. <<0 .. m, x>> \in R BY <2>3, <2>4 DEF StrictSubsetOrdering
  <2> QED BY <1>6, <2>2, <2>5
<1>9. \A m \in S : n <= m BY <1>8
<1> QED BY <1>9

(* What holds at 0, and at k when it holds before, holds up to L.           *)
LEMMA Climb ==
  ASSUME NEW L \in Nat, NEW S, 0 \in S, \A k \in 1 .. L : k - 1 \in S => k \in S
  PROVE  \A k \in 0 .. L : k \in S
<1> SUFFICES ASSUME NEW k \in 0 .. L, k \notin S PROVE FALSE OBVIOUS
<1> DEFINE B == {i \in 0 .. L : i \notin S}
<1>1. B \in SUBSET Nat /\ B # {} OBVIOUS
<1>2. PICK n \in B : \A m \in B : n <= m
  <2> HIDE DEF B
  <2> QED BY <1>1, LeastNatural
<1>3. n # 0 /\ n \in 1 .. L OBVIOUS
<1>4. n - 1 \in 0 .. L /\ n - 1 \notin B BY <1>2, <1>3
<1> QED BY <1>3, <1>4

(* A reduction exists: of any steps over any values.                        *)
Reduces(f, base, h, m) == f[0] = base /\ \A k \in 1 .. m : f[k] = h[k][f[k - 1]]

LEMMA Reduction ==
  ASSUME NEW L \in Nat, NEW A, NEW base \in A, NEW h \in [1 .. L -> [A -> A]]
  PROVE  \E f \in [0 .. L -> A] : Reduces(f, base, h, L)
<1> DEFINE S == {m \in 0 .. L : \E f \in [0 .. m -> A] : Reduces(f, base, h, m)}
<1>1. 0 \in S
  <2> DEFINE f == [k \in 0 .. 0 |-> base]
  <2>1. f \in [0 .. 0 -> A] /\ Reduces(f, base, h, 0) BY DEF Reduces
  <2> QED BY <2>1
<1>2. ASSUME NEW m \in 1 .. L, m - 1 \in S PROVE m \in S
  <2>1. PICK f \in [0 .. m - 1 -> A] : Reduces(f, base, h, m - 1) BY <1>2
  <2> DEFINE g == [k \in 0 .. m |-> IF k = m THEN h[m][f[m - 1]] ELSE f[k]]
  <2>2. f[m - 1] \in A /\ h[m] \in [A -> A] BY <2>1
  <2>3. g \in [0 .. m -> A] BY <2>1, <2>2
  <2>4. ASSUME NEW k \in 1 .. m PROVE g[k] = h[k][g[k - 1]]
    <3>1. k - 1 \in 0 .. m /\ k - 1 # m /\ g[k - 1] = f[k - 1] OBVIOUS
    <3>2. CASE k = m BY <3>1, <3>2
    <3>3. CASE k # m BY <2>1, <3>1, <3>3 DEF Reduces
    <3> QED BY <3>2, <3>3
  <2>5. g[0] = base BY <2>1 DEF Reduces
  <2> HIDE DEF g
  <2>6. Reduces(g, base, h, m) BY <2>4, <2>5 DEF Reduces
  <2>7. m \in 0 .. L OBVIOUS
  <2> QED BY <2>3, <2>6, <2>7
<1>3. \A k \in 0 .. L : k \in S
  <2> HIDE DEF S
  <2> QED BY <1>1, <1>2, Climb
<1> QED BY <1>3

Verdict == {"OK", "WARNING", "CRITICAL"}
SumsOf  == [worst : Verdict, errored : Nat, total : Nat]

NoSums == [worst |-> "OK", errored |-> 0, total |-> 0]
After(w, k) == IF Reported(Targets[k]) THEN Counted(w, Targets[k]) ELSE w

(* What a report says is a number of checks.                                *)
LEMMA ErroredIsNat ==
  ASSUME Types, NEW t \in Target, Reported(t)
  PROVE  ordered[t].errored \in Nat
<1>1. ordered[t] # NoReport BY DEF Reported, NoReport
<1>2. ordered[t] \in Report BY <1>1 DEF Types, Reported
<1>3. MaxErrored \in Nat BY RunAssumption
<1> QED BY <1>2, <1>3 DEF Report

LEMMA SumsAre ==
  ASSUME Types
  PROVE  LET L == Len(Targets)
         IN  /\ Sums[0] = NoSums
             /\ \A k \in 1 .. L : Sums[k] = After(Sums[k - 1], k)
             /\ \A k \in 0 .. L : Sums[k] \in SumsOf
<1> DEFINE L == Len(Targets)
           D(f) == [k \in 0 .. L |-> IF k = 0 THEN NoSums ELSE After(f[k - 1], k)]
           h == [k \in 1 .. L |-> [w \in SumsOf |-> After(w, k)]]
<1>0. L \in Nat BY Listed
<1>1. \A k \in 1 .. L, w \in SumsOf : After(w, k) \in SumsOf
  <2> SUFFICES ASSUME NEW k \in 1 .. L, NEW w \in SumsOf, Reported(Targets[k])
               PROVE  Counted(w, Targets[k]) \in SumsOf
    BY DEF After
  <2>1. Targets[k] \in Target BY Listed DEF Indices
  <2>2. ordered[Targets[k]].errored \in Nat BY <2>1, ErroredIsNat
  <2>3. Checks \in Nat BY RunAssumption
  <2>4. Worse(w.worst, Targets[k]) \in Verdict BY DEF Worse, SumsOf, Verdict
  <2> QED BY <2>2, <2>3, <2>4 DEF Counted, SumsOf
<1>2. PICK f \in [0 .. L -> SumsOf] : Reduces(f, NoSums, h, L)
  <2>1. h \in [1 .. L -> [SumsOf -> SumsOf]] BY <1>1
  <2>2. NoSums \in SumsOf BY DEF NoSums, SumsOf, Verdict
  <2> HIDE DEF h, L
  <2> QED BY <1>0, <2>1, <2>2, Reduction
<1>3. f = D(f)
  <2>1. ASSUME NEW k \in 0 .. L
        PROVE  f[k] = IF k = 0 THEN NoSums ELSE After(f[k - 1], k)
    <3>1. CASE k = 0 BY <1>2, <3>1 DEF Reduces
    <3>2. CASE k # 0
      <4>1. k \in 1 .. L /\ k - 1 \in 0 .. L BY <1>0, <3>2
      <4>2. f[k] = h[k][f[k - 1]] /\ f[k - 1] \in SumsOf BY <1>2, <4>1 DEF Reduces
      <4> QED BY <3>2, <4>1, <4>2
    <3> QED BY <3>1, <3>2
  <2> HIDE DEF L
  <2> QED BY <1>2, <2>1
<1>4. Sums = CHOOSE g : g = D(g) BY DEF Sums, After, NoSums
<1>5. Sums = D(Sums)
  <2> HIDE DEF D
  <2> QED BY <1>3, <1>4
<1>6. ASSUME NEW k \in 0 .. L
      PROVE  Sums[k] = IF k = 0 THEN NoSums ELSE After(Sums[k - 1], k)
  <2>1. Sums[k] = D(Sums)[k] BY <1>5, Zenon
  <2>2. \A g : D(g)[k] = IF k = 0 THEN NoSums ELSE After(g[k - 1], k) OBVIOUS
  <2> HIDE DEF D
  <2> QED BY <2>1, <2>2
<1> DEFINE S == {k \in 0 .. L : Sums[k] \in SumsOf}
<1>7. \A k \in 0 .. L : k \in S
  <2>1. 0 \in S BY <1>0, <1>6 DEF SumsOf, NoSums, Verdict
  <2>2. ASSUME NEW k \in 1 .. L, k - 1 \in S PROVE k \in S
    <3>1. k \in 0 .. L /\ k # 0 BY <1>0
    <3> QED BY <1>1, <1>6, <2>2, <3>1
  <2> HIDE DEF S, L
  <2> QED BY <1>0, <2>1, <2>2, Climb
<1>8. 0 \in 0 .. L /\ \A k \in 1 .. L : k \in 0 .. L /\ k # 0 BY <1>0
<1> QED BY <1>6, <1>7, <1>8

(* What the sums tell of the first k targets.                               *)
SeenTo(k)  == {t \in {Targets[i] : i \in 1 .. k} : Reported(t)}
UnrunTo(k) == UNION {{t} \X (1 .. ordered[t].errored) : t \in SeenTo(k)}

Tells(k, sums) ==
  /\ IsFiniteSet(SeenTo(k)) /\ IsFiniteSet(UnrunTo(k))
  /\ sums.worst = "CRITICAL" <=> \E t \in SeenTo(k) : Fails(t)
  /\ sums.worst = "OK" <=> \A t \in SeenTo(k) : ~Fails(t) /\ ~Warns(t)
  /\ sums.errored = Cardinality(UnrunTo(k))
  /\ sums.total = Checks * Cardinality(SeenTo(k))
  /\ SeenTo(k) # {} => sums.total > 0

(* One more report: its grade, its checks, and those that could not run.    *)
LEMMA TellsOfOneMore ==
  ASSUME Types, NEW k \in 1 .. Len(Targets), Reported(Targets[k]),
         NEW sums \in SumsOf, Tells(k - 1, sums)
  PROVE  Tells(k, Counted(sums, Targets[k]))
<1> DEFINE t == Targets[k]
           e == ordered[t].errored
           U == {t} \X (1 .. e)
<1>1. t \in Target /\ e \in Nat /\ Checks \in Nat \ {0} /\ Len(Targets) \in Nat
  BY Listed, ErroredIsNat, RunAssumption DEF Indices
<1>2. t \notin SeenTo(k - 1) BY <1>1, Listed DEF SeenTo, Indices
<1>3. SeenTo(k) = SeenTo(k - 1) \union {t} BY <1>1 DEF SeenTo
<1>4. UnrunTo(k) = UnrunTo(k - 1) \union U
  <2> HIDE DEF U
  <2> QED BY <1>3 DEF UnrunTo, U
<1>5. UnrunTo(k - 1) \cap U = {} BY <1>2 DEF UnrunTo
<1>6. /\ IsFiniteSet(SeenTo(k))
      /\ Cardinality(SeenTo(k)) = Cardinality(SeenTo(k - 1)) + 1
      /\ Cardinality(SeenTo(k - 1)) \in Nat
  BY <1>2, <1>3, FS_AddElement, FS_CardinalityType DEF Tells
<1>7. IsFiniteSet(U) /\ Cardinality(U) = e
  <2>1. e \in Nat BY <1>1
  <2> HIDE DEF t, e
  <2>2. IsFiniteSet(1 .. e) /\ Cardinality(1 .. e) = IF 1 > e THEN 0 ELSE e - 1 + 1
    <3>1. 1 \in Int /\ e \in Int BY <2>1
    <3> QED BY <3>1, FS_Interval
  <2>3. IsFiniteSet({t}) /\ Cardinality({t}) = 1 BY FS_Singleton
  <2>4. IsFiniteSet({t} \X (1 .. e))
        /\ Cardinality({t} \X (1 .. e)) = Cardinality({t}) * Cardinality(1 .. e)
    BY <2>2, <2>3, FS_Product
  <2>5. Cardinality(1 .. e) = e BY <2>1, <2>2
  <2> QED BY <2>1, <2>3, <2>4, <2>5
<1>8. /\ IsFiniteSet(UnrunTo(k))
      /\ Cardinality(UnrunTo(k)) = Cardinality(UnrunTo(k - 1)) + e
  <2>1. IsFiniteSet(UnrunTo(k - 1)) /\ Cardinality(UnrunTo(k - 1)) \in Nat
    BY FS_CardinalityType DEF Tells
  <2>2. Cardinality({}) = 0 BY FS_EmptySet
  <2> HIDE DEF U, e
  <2>3. /\ IsFiniteSet(UnrunTo(k - 1) \union U)
        /\ Cardinality(UnrunTo(k - 1) \union U)
             = Cardinality(UnrunTo(k - 1)) + Cardinality(U) - Cardinality(UnrunTo(k - 1) \cap U)
    BY <1>7, <2>1, FS_Union
  <2>4. Cardinality(UnrunTo(k - 1) \cap U) = 0 BY <1>5, <2>2
  <2>5. Cardinality(U) = e /\ e \in Nat BY <1>1, <1>7 DEF e
  <2>6. Cardinality(UnrunTo(k - 1) \union U) = Cardinality(UnrunTo(k - 1)) + e
    BY <2>1, <2>3, <2>4, <2>5
  <2> QED BY <1>4, <2>3, <2>6
<1> DEFINE new == Counted(sums, t)
<1>9. /\ new.worst = Worse(sums.worst, t) /\ new.errored = sums.errored + e
      /\ new.total = sums.total + Checks
  BY DEF Counted
<1>10. /\ new.worst = "CRITICAL" <=> \E u \in SeenTo(k) : Fails(u)
       /\ new.worst = "OK" <=> \A u \in SeenTo(k) : ~Fails(u) /\ ~Warns(u)
  <2> HIDE DEF new, t
  <2> QED BY <1>3, <1>9 DEF Tells, Worse, SumsOf, Verdict
<1>11. new.total = Checks * Cardinality(SeenTo(k)) /\ new.total > 0
  <2> DEFINE n == Cardinality(SeenTo(k - 1))
  <2>1. sums.total \in Nat /\ sums.total = Checks * n BY DEF Tells, SumsOf
  <2>2. Cardinality(SeenTo(k)) = n + 1 /\ n \in Nat BY <1>6
  <2> HIDE DEF n, new
  <2>3. Checks * (n + 1) = Checks * n + Checks BY <1>1, <2>2
  <2> QED BY <1>1, <1>9, <2>1, <2>2, <2>3
<1>12. new.errored = Cardinality(UnrunTo(k)) BY <1>8, <1>9 DEF Tells
<1> QED BY <1>6, <1>8, <1>10, <1>11, <1>12 DEF Tells

LEMMA SumsTell ==
  ASSUME Types
  PROVE  Tells(Len(Targets), Sums[Len(Targets)])
<1> DEFINE L == Len(Targets)
           S == {k \in 0 .. L : Tells(k, Sums[k])}
<1>0. L \in Nat BY Listed
<1>1. 0 \in S
  <2>1. SeenTo(0) = {} /\ UnrunTo(0) = {} BY DEF SeenTo, UnrunTo
  <2>2. Sums[0] = NoSums BY SumsAre
  <2>3. Checks * 0 = 0 BY RunAssumption
  <2>4. IsFiniteSet({}) /\ Cardinality({}) = 0 BY FS_EmptySet
  <2>5. Sums[0].worst = "OK" /\ Sums[0].errored = 0 /\ Sums[0].total = 0 BY <2>2 DEF NoSums
  <2>6. Tells(0, Sums[0]) BY <2>1, <2>3, <2>4, <2>5 DEF Tells
  <2> QED BY <1>0, <2>6
<1>2. ASSUME NEW k \in 1 .. L, k - 1 \in S PROVE k \in S
  <2>1. k \in 0 .. L /\ k - 1 \in 0 .. L /\ Tells(k - 1, Sums[k - 1]) BY <1>0, <1>2
  <2>2. Sums[k] = After(Sums[k - 1], k) /\ Sums[k - 1] \in SumsOf BY <2>1, SumsAre
  <2>3. CASE Reported(Targets[k])
    <3>1. Sums[k] = Counted(Sums[k - 1], Targets[k]) BY <2>2, <2>3 DEF After
    <3>2. Tells(k, Sums[k]) BY <2>1, <2>2, <2>3, <3>1, TellsOfOneMore
    <3> QED BY <2>1, <3>2
  <2>4. CASE ~Reported(Targets[k])
    <3>1. Sums[k] = Sums[k - 1] BY <2>2, <2>4 DEF After
    <3>2. SeenTo(k) = SeenTo(k - 1) BY <1>0, <2>4 DEF SeenTo
    <3>3. UnrunTo(k) = UnrunTo(k - 1) BY <3>2 DEF UnrunTo
    <3>4. Tells(k, Sums[k]) BY <2>1, <3>1, <3>2, <3>3 DEF Tells
    <3> QED BY <2>1, <3>4
  <2> QED BY <2>3, <2>4
<1>3. \A k \in 0 .. L : k \in S
  <2> HIDE DEF S, L
  <2> QED BY <1>0, <1>1, <1>2, Climb
<1> QED BY <1>0, <1>3

(* The subject is as bad as the worst report and says INCOMPLETE just when  *)
(* a tenth of the checks could not run, for any fleet (reportCli.ts:47-63). *)
THEOREM SubjectIsTheWorstHolds == Spec => []SubjectIsTheWorst
<1>1. Init => SubjectIsTheWorst BY DEF Init, SubjectIsTheWorst
<1>2. IInv /\ SubjectIsTheWorst /\ [Next]_vars => SubjectIsTheWorst'
  <2> SUFFICES ASSUME IInv, SubjectIsTheWorst, [Next]_vars, phase' = "done", mode' = "report"
               PROVE  SubjectIsTheWorst'
    BY DEF SubjectIsTheWorst
  <2>1. CASE Finish
    <3> DEFINE sums == Sums[Len(Targets)]
    <3>1. /\ subject' = [worst |-> sums.worst, incomplete |-> Degraded(sums)]
          /\ UNCHANGED <<mode, ordered, drift>> /\ \E t \in Target : Reported(t)
      BY <2>1 DEF Finish, Subject
    <3>2. Tells(Len(Targets), sums) BY SumsTell DEF IInv
    <3>3. SeenTo(Len(Targets)) = Seen BY Listed DEF SeenTo, Seen, Indices
    <3>4. UnrunTo(Len(Targets)) = Unrun BY <3>3 DEF UnrunTo, Unrun
    <3>5. sums.total > 0 BY <3>1, <3>2, <3>3 DEF Tells, Seen
    <3>6. subject'.worst = sums.worst /\ subject'.incomplete = Degraded(sums) BY <3>1
    <3> HIDE DEF sums
    <3>7. /\ subject'.worst = "CRITICAL" <=> \E t \in Seen : Fails(t)
          /\ subject'.worst = "OK" <=> \A t \in Seen : ~Fails(t) /\ ~Warns(t)
      BY <3>2, <3>3, <3>6 DEF Tells
    <3>8. subject'.incomplete <=> 10 * Cardinality(Unrun) >= Checks * Cardinality(Seen)
      BY <3>2, <3>3, <3>4, <3>5, <3>6 DEF Tells, Degraded
    <3>9. /\ Seen' = Seen /\ Unrun' = Unrun
          /\ \A t \in Seen : (Fails(t)' <=> Fails(t)) /\ (Warns(t)' <=> Warns(t))
      BY <3>1 DEF Seen, Unrun, Reported, Fails, Warns
    <3> QED BY <3>7, <3>8, <3>9 DEF SubjectIsTheWorst
  <2>2. CASE \E s \in 1..Slots : End(s)
    <3>1. PICK s \in 1..Slots : End(s) BY <2>2
    <3>2. running[s] \in Indices /\ phase = "done" BY <3>1 DEF End, Indices
    <3>3. ordered[Targets[running[s]]] = None /\ Targets[running[s]] \in Target
      BY <3>2, Listed DEF IInv, Taken, Indices
    <3> QED BY <3>2, <3>3 DEF IInv, Waits
  <2>3. CASE UNCHANGED vars
    BY <2>3 DEF vars, SubjectIsTheWorst, Seen, Unrun, Reported, Fails, Warns
  <2> QED BY <2>1, <2>2, <2>3 DEF Next, Take, Compare
<1> QED BY <1>1, <1>2, Invariance, PTL DEF Spec
=============================================================================
