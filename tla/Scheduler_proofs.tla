-------------------------- MODULE Scheduler_proofs --------------------------
(***************************************************************************)
(* Theorems about Scheduler for any targets, goroutines, workers, delays   *)
(* and switches.  The counters of the code (the semaphore and s.wg) are    *)
(* compared with sets of goroutines, one goroutine joining or leaving at a *)
(* time.                                                                   *)
(***************************************************************************)
EXTENDS Scheduler, WellFoundedInduction, FiniteSetTheorems, TLAPS

\* The goroutines that hold a worker, those that s.wg counts, and the loop's
\* own share of s.wg.
Holders == In("scanning")
Counted == {g \in Goroutines : Tracked(g)}
LoopCount == IF loop \in {"sweeping", "sleeping"} THEN 1 ELSE 0

\* s.wg counts a goroutine that does r.
Counts(r) == r.origin \in {"sweep", "add"} /\ r.state # "spawning"

(* A goroutine is idle in all of its fields or in none.                      *)
LEMMA JobFields ==
  ASSUME NEW r \in Job \cup {None}
  PROVE  /\ r = None <=> r.state = "none"
         /\ r = None <=> r.origin = "none"
         /\ r # None => r \in Job
         /\ r # None =>
              r.target \in Targets /\ r.origin \in Origins
                /\ r.state \in States
BY DEF Job, None, Origins, States

(* What an idle goroutine looks like.                                        *)
LEMMA SlotFree == None \in Job \cup {None} /\ None.state = "none"
  /\ None.origin = "none"
BY DEF None

(* Changing the state of a scan keeps its target and origin.                 *)
LEMMA Restated ==
  ASSUME NEW g \in Goroutines, NEW s \in States,
    job \in [Goroutines -> Job \cup {None}], job[g] # None
  PROVE  \E r \in Job : /\ [job EXCEPT ![g].state = s] = [job EXCEPT ![g] = r]
                        /\ r.target = job[g].target
                        /\ r.origin = job[g].origin
                        /\ r.state = s
<1> DEFINE r == [target |-> job[g].target, origin |-> job[g].origin,
      state |-> s]
<1>1. r \in Job
  BY JobFields DEF Job
<1>2. [job[g] EXCEPT !.state = s] = r
  BY DEF Job
<1>3. [job EXCEPT ![g].state = s] = [job EXCEPT ![g] = r]
  BY <1>2
<1> QED
  BY <1>1, <1>3

(* The goroutines are finitely many.                                         *)
LEMMA FiniteSlots == 
  /\ IsFiniteSet(Holders) /\ Cardinality(Holders) \in Nat
  /\ IsFiniteSet(Counted) /\ Cardinality(Counted) \in Nat
<1>1. Holders \in SUBSET Goroutines /\ Counted \in SUBSET Goroutines
  BY DEF Holders, Counted, In
<1> QED
  BY <1>1, GoroutinesAreFinite, FS_Subset, FS_CardinalityType

(* What an element more or less does to a cardinality.                       *)
LEMMA OneMoreOrLess ==
  ASSUME NEW S, NEW x, IsFiniteSet(S)
  PROVE  /\ Cardinality(S) \in Nat
         /\ x \notin S => Cardinality(S \cup {x}) = Cardinality(S) + 1
         /\ x \in S => S \cup {x} = S
         /\ x \in S =>
              Cardinality(S \ {x}) = Cardinality(S) - 1 /\ Cardinality(S) > 0
         /\ x \notin S => S \ {x} = S
<1>1. Cardinality(S) \in Nat
  BY FS_CardinalityType
<1>2. x \in S => Cardinality(S) # 0
  BY FS_EmptySet
<1> QED
  BY <1>1, <1>2, FS_AddElement, FS_RemoveElement

(* What a step that gives one goroutine something else to do changes in the  *)
(* two sets.                                                                 *)
LEMMA SlotSet ==
  ASSUME TypeOK, NEW g \in Goroutines, NEW r \in Job \cup {None},
         job' = [job EXCEPT ![g] = r]
  PROVE  /\ job' \in [Goroutines -> Job \cup {None}]
         /\ Holders' = IF r.state = "scanning"
              THEN Holders \cup {g} ELSE Holders \ {g}
         /\ Counted' = IF Counts(r) THEN Counted \cup {g} ELSE Counted \ {g}
<1>1. job' \in [Goroutines -> Job \cup {None}]
  BY DEF TypeOK
<1>2. \A h \in Goroutines : job'[h] = IF h = g THEN r ELSE job[h]
  BY DEF TypeOK
<1>3. \A h : h \in Holders' <=> h \in Goroutines /\ job'[h].state = "scanning"
  BY DEF Holders, In
<1>4. \A h : h \in Holders <=> h \in Goroutines /\ job[h].state = "scanning"
  BY DEF Holders, In
<1>5. \A h : h \in Counted' <=> h \in Goroutines /\ Counts(job'[h])
  BY DEF Counted, Tracked, Counts
<1>6. \A h : h \in Counted <=> h \in Goroutines /\ Counts(job[h])
  BY DEF Counted, Tracked, Counts
<1>7. Holders' = IF r.state = "scanning" THEN Holders \cup {g}
        ELSE Holders \ {g}
  BY <1>2, <1>3, <1>4
<1>8. Counted' = IF Counts(r) THEN Counted \cup {g} ELSE Counted \ {g}
  BY <1>2, <1>5, <1>6
<1> QED
  BY <1>1, <1>7, <1>8

-----------------------------------------------------------------------------

(* Every non-empty set of naturals has a least element.  The induction on    *)
(* the number of failures below takes the least counterexample.              *)
LEMMA LeastElement ==
  ASSUME NEW S \in SUBSET Nat, S # {}
  PROVE  \E m \in S : \A k \in S : m <= k
<1> DEFINE R == {p \in Nat \X Nat : p[1] < p[2]}
<1>1. IsWellFoundedOn(R, Nat)
  BY NatLessThanWellFounded DEF OpToRel
<1>2. PICK m \in S : \A k \in S : ~ (<<k, m>> \in R)
  <2> HIDE DEF R
  <2> QED
    BY <1>1, WFMin
<1>3. ASSUME NEW k \in S PROVE m <= k
  <2>1. k \in Nat /\ m \in Nat
    OBVIOUS
  <2>2. ~ (<<k, m>> \in R)
    BY <1>2
  <2>3. ~ (k < m)
    BY <2>1, <2>2
  <2> QED
    BY <2>1, <2>3
<1> QED
  BY <1>3

(* The loop of backoffFor yields a delay of at most RetryMax, for any number *)
(* of failures.                                                              *)
LEMMA BackoffIsCapped ==
  ASSUME NEW n \in Nat \ {0}
  PROVE  Backoff(n) \in 0..RetryMax
<1> DEFINE Step(f, i) == IF i = 1 THEN RetryBase
                         ELSE IF 2 * f[i - 1] >= RetryMax THEN RetryMax
                         ELSE 2 * f[i - 1]
           Solves(f, m) == f = [i \in 1..m |-> Step(f, i)]
           Unsolved == {m \in Nat : ~ \E f : Solves(f, m)}
<1>1. Unsolved = {}
  <2>1. SUFFICES ASSUME Unsolved # {} PROVE FALSE
    OBVIOUS
  <2>2. Unsolved \in SUBSET Nat
    OBVIOUS
  <2>3. PICK m \in Unsolved : \A k \in Unsolved : m <= k
    <3> HIDE DEF Unsolved
    <3> QED
      BY <2>1, <2>2, LeastElement
  <2>4. m \in Nat
    BY <2>2
  <2>5. m # 0
    <3>1. Solves(<<>>, 0)
      OBVIOUS
    <3> QED
      BY <3>1
  <2>6. m - 1 \in Nat /\ m - 1 \notin Unsolved
    <3> HIDE DEF Unsolved
    <3> QED
      BY <2>3, <2>4, <2>5
  <2>7. PICK f : Solves(f, m - 1)
    BY <2>6
  <2> DEFINE h == [i \in 1..m |-> IF i = m THEN Step(f, m) ELSE f[i]]
  <2>8. \A i \in 1..m : h[i] = Step(h, i)
    <3> SUFFICES ASSUME NEW i \in 1..m PROVE h[i] = Step(h, i)
      OBVIOUS
    <3>1. i = 1 \/ (i > 1 /\ i - 1 \in 1..m - 1 /\ i - 1 # m)
      BY <2>4
    <3>2. i > 1 => h[i - 1] = f[i - 1]
      BY <3>1, <2>4
    <3>3. Step(h, i) = Step(f, i)
      BY <3>1, <3>2
    <3>4. i # m => i \in 1..m - 1
      BY <2>4
    <3>5. i # m => f[i] = Step(f, i)
      BY <3>4, <2>7
    <3> QED
      BY <3>3, <3>5
  <2>9. Solves(h, m)
    BY <2>8
  <2> QED
    BY <2>3, <2>9
<1>2. \E f : Solves(f, n)
  BY <1>1
<1> DEFINE d == CHOOSE f : Solves(f, n)
<1>3. Solves(d, n)
  <2> HIDE DEF Solves
  <2> QED
    BY <1>2
<1> HIDE DEF d
<1>4. \A i \in 1..n : d[i] = Step(d, i)
  BY <1>3
<1> DEFINE Untyped == {m \in 1..n : d[m] \notin Nat}
<1>5. Untyped = {}
  <2>1. SUFFICES ASSUME Untyped # {} PROVE FALSE
    OBVIOUS
  <2>2. Untyped \in SUBSET Nat
    OBVIOUS
  <2>3. PICK m \in Untyped : \A k \in Untyped : m <= k
    <3> HIDE DEF Untyped
    <3> QED
      BY <2>1, <2>2, LeastElement
  <2>4. m # 1
    BY <1>4, DelaysArePositive
  <2>5. m - 1 \in 1..n /\ d[m - 1] \in Nat
    BY <2>3, <2>4
  <2>6. d[m] \in Nat
    <3>1. d[m] = Step(d, m)
      BY <1>4
    <3> QED
      BY <3>1, <2>4, <2>5, DelaysArePositive
  <2> QED
    BY <2>6
<1>6. d[n] \in Nat
  BY <1>5
<1>7. Backoff(n) = IF d[n] > RetryMax THEN RetryMax ELSE d[n]
  BY DEF Backoff, d
<1> QED
  BY <1>6, <1>7, DelaysArePositive

-----------------------------------------------------------------------------

\* Only AddTarget leaves the lock before it calls wg.Add.
SpawningIsAdd ==
  \A g \in Goroutines : job[g].state = "spawning" => job[g].origin = "add"

\* Stop is called on a scheduler that was started.
StopFollowsStart == loop = "unstarted" => stop = "uncalled"

\* The inductive invariant.
IInv ==
  /\ TypeOK
  /\ WorkersBounded
  /\ GroupCounts
  /\ StopWaitsForSweeps
  /\ SpawningIsAdd
  /\ StopFollowsStart

(* The same change, counted.                                                 *)
LEMMA SlotCards ==
  ASSUME TypeOK, NEW g \in Goroutines, NEW r \in Job \cup {None},
         job' = [job EXCEPT ![g] = r]
  PROVE  /\ job' \in [Goroutines -> Job \cup {None}]
         /\ \A h \in Goroutines : job'[h] = IF h = g THEN r ELSE job[h]
         /\ Cardinality(Holders') \in Nat
         /\ Cardinality(Counted') \in Nat
         /\ (r.state = "scanning" /\ job[g].state # "scanning") =>
              Cardinality(Holders') = Cardinality(Holders) + 1
         /\ (r.state # "scanning" /\ job[g].state = "scanning") =>
              Cardinality(Holders') = Cardinality(Holders) - 1
         /\ (r.state = "scanning" <=> job[g].state = "scanning") =>
              Cardinality(Holders') = Cardinality(Holders)
         /\ (Counts(r) /\ ~ Tracked(g)) =>
              Cardinality(Counted') = Cardinality(Counted) + 1
         /\ (~ Counts(r) /\ Tracked(g)) =>
              Cardinality(Counted') = Cardinality(Counted) - 1
         /\ (Counts(r) <=> Tracked(g)) =>
              Cardinality(Counted') = Cardinality(Counted)
<1>1. /\ job' \in [Goroutines -> Job \cup {None}]
      /\ Holders' = IF r.state = "scanning" THEN Holders \cup {g}
           ELSE Holders \ {g}
      /\ Counted' = IF Counts(r) THEN Counted \cup {g} ELSE Counted \ {g}
  BY SlotSet
<1>2. \A h \in Goroutines : job'[h] = IF h = g THEN r ELSE job[h]
  BY DEF TypeOK
<1>3. g \in Holders <=> job[g].state = "scanning"
  BY DEF Holders, In
<1>4. g \in Counted <=> Tracked(g)
  BY DEF Counted
<1>5. IsFiniteSet(Holders) /\ IsFiniteSet(Counted)
  BY FiniteSlots
<1>6. IsFiniteSet(Holders') /\ IsFiniteSet(Counted')
  BY <1>1, <1>5, FS_AddElement, FS_RemoveElement
<1>7. Cardinality(Holders') \in Nat /\ Cardinality(Counted') \in Nat
  BY <1>6, FS_CardinalityType
<1>8. /\ (r.state = "scanning" /\ job[g].state # "scanning") =>
           Cardinality(Holders') = Cardinality(Holders) + 1
      /\ (r.state # "scanning" /\ job[g].state = "scanning") =>
           Cardinality(Holders') = Cardinality(Holders) - 1
      /\ (r.state = "scanning" <=> job[g].state = "scanning") =>
           Cardinality(Holders') = Cardinality(Holders)
  BY <1>1, <1>3, <1>5, OneMoreOrLess
<1>9. /\ (Counts(r) /\ ~ Tracked(g)) =>
           Cardinality(Counted') = Cardinality(Counted) + 1
      /\ (~ Counts(r) /\ Tracked(g)) =>
           Cardinality(Counted') = Cardinality(Counted) - 1
      /\ (Counts(r) <=> Tracked(g)) =>
           Cardinality(Counted') = Cardinality(Counted)
  BY <1>1, <1>4, <1>5, OneMoreOrLess
<1> QED
  BY <1>1, <1>2, <1>7, <1>8, <1>9

(* A step that leaves the goroutines alone leaves the sets alone.            *)
LEMMA SlotsKept ==
  ASSUME job' = job
  PROVE  Holders' = Holders /\ Counted' = Counted
BY DEF Holders, Counted, In, Tracked

(* The counting properties, in terms of the two sets.                        *)
LEMMA CountsMeaning ==
  /\ WorkersBounded <=> sem = Cardinality(Holders) /\ sem <= Workers
  /\ GroupCounts <=> wg = Cardinality(Counted) + LoopCount
  /\ WorkersBounded' <=> sem' = Cardinality(Holders') /\ sem' <= Workers
  /\ GroupCounts' <=> wg' = Cardinality(Counted') + LoopCount'
BY DEF WorkersBounded, GroupCounts, Holders, Counted, LoopCount

(* The scheduler starts with nothing under way.                              *)
LEMMA InitIInv == Init => IInv
<1> SUFFICES ASSUME Init PROVE IInv
  OBVIOUS
<1>1. TypeOK
  <2>1. 0 \in 0..Interval /\ 0 \in 0..MaxFailures /\ 0 \in 0..RetryMax
    BY DelaysArePositive
  <2>2. job \in [Goroutines -> Job \cup {None}]
    BY SlotFree DEF Init
  <2>3. /\ failures \in [Targets -> 0..MaxFailures]
        /\ gate \in [Targets -> 0..RetryMax]
    BY <2>1 DEF Init
  <2> QED
    BY <2>1, <2>2, <2>3 DEF Init, TypeOK
<1>2. \A g \in Goroutines : job[g] = None
  BY DEF Init
<1>3. Holders = {} /\ Counted = {}
  BY <1>2, SlotFree DEF Holders, In, Counted, Tracked
<1>4. WorkersBounded /\ GroupCounts
  BY <1>3, FS_EmptySet, CountsMeaning, WorkersIsPositive DEF Init, LoopCount
<1>5. StopWaitsForSweeps /\ SpawningIsAdd /\ StopFollowsStart
  BY <1>2, SlotFree DEF Init, StopWaitsForSweeps, SpawningIsAdd,
     StopFollowsStart
<1> QED
  BY <1>1, <1>4, <1>5 DEF IInv

(* The loop's own steps and time change no goroutine.                        *)
LEMMA LoopSteps ==
  ASSUME IInv,
    Start \/ SweepEnds \/ Wake \/ LoopExits \/ Tick
      \/ \E t \in Targets : SweepSkips(t)
  PROVE  IInv'
<1> USE DEF Start, SweepEnds, Wake, LoopExits, Tick, SweepSkips
<1>1. job' = job /\ sem' = sem
  OBVIOUS
<1>2. Holders' = Holders /\ Counted' = Counted
  BY <1>1, SlotsKept
<1>3. /\ wg \in Nat
      /\ \/ wg' = wg /\ LoopCount' = LoopCount
         \/ wg' = wg + 1 /\ LoopCount = 0 /\ LoopCount' = 1
         \/ wg' = wg - 1 /\ LoopCount = 1 /\ LoopCount' = 0
  BY DEF LoopCount, IInv, TypeOK
<1>4. WorkersBounded'
  BY <1>1, <1>2, CountsMeaning DEF IInv
<1>5. GroupCounts'
  BY <1>2, <1>3, FiniteSlots, CountsMeaning DEF IInv, LoopCount
<1>6. wg' \in Nat
  BY <1>2, <1>5, FiniteSlots, CountsMeaning DEF LoopCount
<1>7. sleep' \in 0..Interval
  BY DelaysArePositive DEF IInv, TypeOK
<1>8. gate' \in [Targets -> 0..RetryMax]
  BY DelaysArePositive DEF IInv, TypeOK
<1>9. TypeOK'
  BY <1>1, <1>6, <1>7, <1>8 DEF IInv, TypeOK
<1>10. StopWaitsForSweeps'
  BY <1>1 DEF IInv, StopWaitsForSweeps, StopFollowsStart, TypeOK
<1>11. SpawningIsAdd' /\ StopFollowsStart'
  BY <1>1 DEF IInv, SpawningIsAdd, StopFollowsStart
<1> QED
  BY <1>4, <1>5, <1>9, <1>10, <1>11 DEF IInv

(* Nor do the operator's, apart from asking for scans.                       *)
LEMMA OperatorSteps ==
  ASSUME IInv, Signal \/ Stop \/ \E t \in Targets : RemoveTarget(t)
  PROVE  IInv'
<1> USE DEF Signal, Stop, RemoveTarget
<1>1. job' = job /\ sem' = sem /\ wg' = wg /\ loop' = loop
  OBVIOUS
<1>2. Holders' = Holders /\ Counted' = Counted /\ LoopCount' = LoopCount
  BY <1>1, SlotsKept DEF LoopCount
<1>3. WorkersBounded' /\ GroupCounts'
  BY <1>1, <1>2, CountsMeaning DEF IInv
<1>4. TypeOK'
  BY <1>1 DEF IInv, TypeOK
<1>5. StopWaitsForSweeps' /\ SpawningIsAdd' /\ StopFollowsStart'
  BY <1>1 DEF IInv, StopWaitsForSweeps, SpawningIsAdd, StopFollowsStart
<1> QED
  BY <1>3, <1>4, <1>5 DEF IInv

(* wg.Wait returns at zero: then no goroutine and no loop is counted.        *)
LEMMA StopReturnsStep ==
  ASSUME IInv, StopReturns
  PROVE  IInv'
<1> USE DEF StopReturns
<1>1. job' = job /\ sem' = sem /\ wg' = wg /\ loop' = loop
  OBVIOUS
<1>2. Holders' = Holders /\ Counted' = Counted /\ LoopCount' = LoopCount
  BY <1>1, SlotsKept DEF LoopCount
<1>3. WorkersBounded' /\ GroupCounts'
  BY <1>1, <1>2, CountsMeaning DEF IInv
<1>4. TypeOK'
  BY <1>1 DEF IInv, TypeOK
<1>5. Cardinality(Counted) = 0 /\ LoopCount = 0
  BY CountsMeaning, FiniteSlots DEF IInv, LoopCount
<1>6. Counted = {}
  BY <1>5, FiniteSlots, FS_EmptySet
<1>7. loop = "exited"
  BY <1>5 DEF IInv, TypeOK, LoopCount, StopFollowsStart
<1>8. ASSUME NEW g \in Goroutines PROVE job[g].origin # "sweep"
  BY <1>6 DEF Counted, Tracked, IInv, SpawningIsAdd
<1>9. StopWaitsForSweeps'
  BY <1>1, <1>7, <1>8 DEF StopWaitsForSweeps
<1>10. SpawningIsAdd' /\ StopFollowsStart'
  BY <1>1, <1>7 DEF IInv, SpawningIsAdd, StopFollowsStart
<1> QED
  BY <1>3, <1>4, <1>9, <1>10 DEF IInv

(* A sweep, AddTarget and ScanNow give an idle goroutine a scan; only the    *)
(* sweep has called wg.Add by then.                                          *)
LEMMA SpawnSteps ==
  ASSUME IInv, NEW t \in Targets, NEW g \in Goroutines,
         SweepScans(t, g) \/ AddTarget(t, g) \/ ScanNow(t, g)
  PROVE  IInv'
<1>1. CASE SweepScans(t, g)
  <2> DEFINE r == [target |-> t, origin |-> "sweep", state |-> "waiting"]
  <2>1. /\ r \in Job /\ Counts(r) /\ r.state # "scanning"
             /\ r.state # "spawning"
        /\ r.origin = "sweep"
    BY DEF Job, Origins, States, Counts
  <2>2. /\ job[g] = None /\ job' = [job EXCEPT ![g] = r] /\ wg' = wg + 1
        /\ loop = "sweeping" /\ todo' \subseteq todo
        /\ UNCHANGED <<targets, cancelled, stop, loop, sleep, failures, gate,
                       sem>>
    BY <1>1 DEF SweepScans, Spawn, Active
  <2>3. ~ Tracked(g) /\ job[g].state # "scanning"
    BY <2>2, SlotFree DEF Tracked
  <2> HIDE DEF r
  <2>4. /\ job' \in [Goroutines -> Job \cup {None}]
        /\ \A h \in Goroutines : job'[h] = IF h = g THEN r ELSE job[h]
        /\ Cardinality(Holders') = Cardinality(Holders)
        /\ Cardinality(Counted') = Cardinality(Counted) + 1
    BY <2>1, <2>2, <2>3, SlotCards DEF IInv
  <2>5. LoopCount' = LoopCount /\ LoopCount \in Nat
    BY <2>2 DEF LoopCount
  <2>6. WorkersBounded' /\ GroupCounts'
    BY <2>2, <2>4, <2>5, FiniteSlots, CountsMeaning DEF IInv
  <2>7. TypeOK'
    BY <2>2, <2>4 DEF IInv, TypeOK
  <2>8. SpawningIsAdd' /\ StopFollowsStart'
    BY <2>1, <2>2, <2>4 DEF IInv, SpawningIsAdd, StopFollowsStart
  <2>9. StopWaitsForSweeps'
    BY <2>2 DEF IInv, StopWaitsForSweeps
  <2> QED
    BY <2>6, <2>7, <2>8, <2>9 DEF IInv
<1>2. ASSUME UNCHANGED <<cancelled, stop, loop, todo, sleep, failures, gate,
                         sem, wg>>,
             targets' \subseteq Targets,
             NEW r \in Job, ~ Counts(r), r.state # "scanning",
               r.origin # "sweep",
             r.state = "spawning" => r.origin = "add",
             job[g] = None, job' = [job EXCEPT ![g] = r]
      PROVE  IInv'
  <2>1. ~ Tracked(g) /\ job[g].state # "scanning"
    BY <1>2, SlotFree DEF Tracked
  <2>2. /\ job' \in [Goroutines -> Job \cup {None}]
        /\ \A h \in Goroutines : job'[h] = IF h = g THEN r ELSE job[h]
        /\ Cardinality(Holders') = Cardinality(Holders)
        /\ Cardinality(Counted') = Cardinality(Counted)
    BY <1>2, <2>1, SlotCards DEF IInv
  <2>3. LoopCount' = LoopCount
    BY <1>2 DEF LoopCount
  <2>4. WorkersBounded' /\ GroupCounts'
    BY <1>2, <2>2, <2>3, CountsMeaning DEF IInv
  <2>5. TypeOK'
    BY <1>2, <2>2 DEF IInv, TypeOK
  <2>6. SpawningIsAdd' /\ StopFollowsStart' /\ StopWaitsForSweeps'
    BY <1>2, <2>2 DEF IInv, SpawningIsAdd, StopFollowsStart, StopWaitsForSweeps
  <2> QED
    BY <2>4, <2>5, <2>6 DEF IInv
<1>3. CASE AddTarget(t, g)
  <2>1. CASE loop # "unstarted" /\ ~ cancelled
    <3> DEFINE r == [target |-> t, origin |-> "add", state |-> "spawning"]
    <3>1. /\ r \in Job /\ ~ Counts(r) /\ r.state # "scanning"
          /\ r.origin # "sweep" /\ r.origin = "add"
      BY DEF Job, Origins, States, Counts
    <3>2. /\ job[g] = None /\ job' = [job EXCEPT ![g] = r]
          /\ targets' \subseteq Targets
          /\ UNCHANGED <<cancelled, stop, loop, todo, sleep, failures, gate,
                         sem, wg>>
      BY <1>3, <2>1 DEF AddTarget, Spawn, Active, IInv, TypeOK
    <3> HIDE DEF r
    <3> QED
      BY <3>1, <3>2, <1>2
  <2>2. CASE ~ (loop # "unstarted" /\ ~ cancelled)
    <3>1. /\ job' = job /\ targets' \subseteq Targets
          /\ UNCHANGED <<cancelled, stop, loop, todo, sleep, failures, gate,
                         sem, wg>>
      BY <1>3, <2>2 DEF AddTarget, IInv, TypeOK
    <3>2. Holders' = Holders /\ Counted' = Counted /\ LoopCount' = LoopCount
      BY <3>1, SlotsKept DEF LoopCount
    <3>3. WorkersBounded' /\ GroupCounts'
      BY <3>1, <3>2, CountsMeaning DEF IInv
    <3>4. TypeOK' /\ StopWaitsForSweeps' /\ SpawningIsAdd' /\ StopFollowsStart'
      BY <3>1 DEF IInv, TypeOK, StopWaitsForSweeps, SpawningIsAdd,
         StopFollowsStart
    <3> QED
      BY <3>3, <3>4 DEF IInv
  <2> QED
    BY <2>1, <2>2
<1>4. CASE ScanNow(t, g)
  <2> DEFINE r == [target |-> t, origin |-> "now", state |-> "waiting"]
  <2>1. /\ r \in Job /\ ~ Counts(r) /\ r.state # "scanning"
        /\ r.origin # "sweep" /\ r.state # "spawning"
    BY DEF Job, Origins, States, Counts
  <2>2. /\ job[g] = None /\ job' = [job EXCEPT ![g] = r]
        /\ targets' \subseteq Targets
        /\ UNCHANGED <<cancelled, stop, loop, todo, sleep, failures, gate,
                       sem, wg>>
    BY <1>4 DEF ScanNow, Spawn, Active, IInv, TypeOK
  <2> HIDE DEF r
  <2> QED
    BY <2>1, <2>2, <1>2
<1> QED
  BY <1>1, <1>3, <1>4

(* A goroutine that AddTarget starts joins s.wg; one that waits takes a      *)
(* worker.                                                                   *)
LEMMA RelabelSteps ==
  ASSUME IInv, NEW g \in Goroutines, AddSpawns(g) \/ Acquire(g)
  PROVE  IInv'
<1>1. job[g] \in Job \cup {None} /\ job \in [Goroutines -> Job \cup {None}]
  BY DEF IInv, TypeOK
<1>2. CASE AddSpawns(g)
  <2>1. job[g].state = "spawning" /\ job[g].origin = "add"
    BY <1>2 DEF AddSpawns, IInv, SpawningIsAdd
  <2>2. job[g] # None
    BY <2>1, SlotFree
  <2>3. PICK r \in Job :
          /\ [job EXCEPT ![g].state = "waiting"] = [job EXCEPT ![g] = r]
                         /\ r.origin = job[g].origin /\ r.state = "waiting"
    BY <1>1, <2>2, Restated DEF States
  <2>4. /\ job' = [job EXCEPT ![g] = r] /\ wg' = wg + 1
        /\ UNCHANGED <<targets, cancelled, stop, loop, todo, sleep, failures,
                       gate, sem>>
    BY <1>2, <2>3 DEF AddSpawns
  <2>5. ~ Tracked(g) /\ Counts(r) /\ job[g].state # "scanning"
          /\ r.state # "scanning"
    BY <2>1, <2>3 DEF Tracked, Counts
  <2>6. /\ job' \in [Goroutines -> Job \cup {None}]
        /\ \A h \in Goroutines : job'[h] = IF h = g THEN r ELSE job[h]
        /\ Cardinality(Holders') = Cardinality(Holders)
        /\ Cardinality(Counted') = Cardinality(Counted) + 1
    BY <2>4, <2>5, SlotCards DEF IInv
  <2>7. LoopCount' = LoopCount /\ LoopCount \in Nat
    BY <2>4 DEF LoopCount
  <2>8. WorkersBounded' /\ GroupCounts'
    BY <2>4, <2>6, <2>7, FiniteSlots, CountsMeaning DEF IInv
  <2>9. TypeOK'
    BY <2>4, <2>6 DEF IInv, TypeOK
  <2>10. SpawningIsAdd' /\ StopFollowsStart' /\ StopWaitsForSweeps'
    BY <2>1, <2>3, <2>4, <2>6 DEF IInv, SpawningIsAdd, StopFollowsStart,
       StopWaitsForSweeps
  <2> QED
    BY <2>8, <2>9, <2>10 DEF IInv
<1>3. CASE Acquire(g)
  <2>1. job[g].state = "waiting" /\ sem < Workers
    BY <1>3 DEF Acquire
  <2>2. job[g] # None
    BY <2>1, SlotFree
  <2>3. PICK r \in Job :
          /\ [job EXCEPT ![g].state = "scanning"] = [job EXCEPT ![g] = r]
                         /\ r.origin = job[g].origin /\ r.state = "scanning"
    BY <1>1, <2>2, Restated DEF States
  <2>4. /\ job' = [job EXCEPT ![g] = r] /\ sem' = sem + 1
        /\ UNCHANGED <<targets, cancelled, stop, loop, todo, sleep, failures,
                       gate, wg>>
    BY <1>3, <2>3 DEF Acquire
  <2>5. (Tracked(g) <=> Counts(r)) /\ job[g].state # "scanning"
          /\ r.state = "scanning"
    BY <2>1, <2>3 DEF Tracked, Counts
  <2>6. /\ job' \in [Goroutines -> Job \cup {None}]
        /\ \A h \in Goroutines : job'[h] = IF h = g THEN r ELSE job[h]
        /\ Cardinality(Holders') = Cardinality(Holders) + 1
        /\ Cardinality(Counted') = Cardinality(Counted)
    BY <2>4, <2>5, SlotCards DEF IInv
  <2>7. LoopCount' = LoopCount
    BY <2>4 DEF LoopCount
  <2>8. GroupCounts'
    BY <2>4, <2>6, <2>7, CountsMeaning DEF IInv
  <2>9. WorkersBounded'
    BY <2>1, <2>4, <2>6, FiniteSlots, CountsMeaning, WorkersIsPositive DEF IInv
  <2>10. TypeOK'
    BY <2>4, <2>6 DEF IInv, TypeOK
  <2>11. SpawningIsAdd' /\ StopFollowsStart' /\ StopWaitsForSweeps'
    BY <2>3, <2>4, <2>6 DEF IInv, SpawningIsAdd, StopFollowsStart,
       StopWaitsForSweeps
  <2> QED
    BY <2>8, <2>9, <2>10, <2>11 DEF IInv
<1> QED
  BY <1>2, <1>3

(* The sweep's books keep their types, by BackoffIsCapped.                   *)
LEMMA BooksTyped ==
  ASSUME TypeOK, NEW g \in Goroutines, job[g] # None, NEW outcome,
    KeepBooks(g, outcome)
  PROVE  /\ failures' \in [Targets -> 0..MaxFailures]
         /\ gate' \in [Targets -> 0..RetryMax]
<1> DEFINE t == job[g].target
           n == IF failures[t] < MaxFailures THEN failures[t] + 1
             ELSE failures[t]
<1>1. t \in Targets
  BY JobFields DEF TypeOK
<1>2. failures[t] \in 0..MaxFailures
  BY <1>1 DEF TypeOK
<1>3. n \in Nat \ {0} /\ n \in 0..MaxFailures
  BY <1>2, DelaysArePositive
<1>4. PICK m \in Nat \ {0} : m = n
  BY <1>3
<1>5. Backoff(n) \in 0..RetryMax
  <2>1. Backoff(m) \in 0..RetryMax
    BY BackoffIsCapped
  <2> QED
    BY <2>1, <1>4
<1>6. /\ failures' = [failures EXCEPT ![t] = IF outcome = "failed"
           THEN n ELSE 0]
      /\ gate' = [gate EXCEPT ![t] = IF outcome = "failed"
           THEN Backoff(n) ELSE 0]
  BY DEF KeepBooks
<1> HIDE DEF n, t
<1>7. 0 \in 0..MaxFailures /\ 0 \in 0..RetryMax
  BY DelaysArePositive
<1> QED
  BY <1>1, <1>3, <1>5, <1>6, <1>7 DEF TypeOK

(* A scan that ends leaves s.wg if it was counted, and frees the worker it   *)
(* held, if it held one.                                                     *)
LEMMA ScanEnds ==
  ASSUME IInv, NEW g \in Goroutines, GiveUp(g) \/ ScanReturns(g)
  PROVE  IInv'
<1>1. PICK outcome : Finish(g, outcome)
  BY DEF GiveUp, ScanReturns
<1>2. /\ job[g].state \in {"waiting", "scanning"}
      /\ UNCHANGED <<targets, cancelled, stop, loop, todo>>
      /\ job[g].state = "waiting" => sem' = sem
      /\ job[g].state = "scanning" => sem' = sem - 1
  BY DEF GiveUp, ScanReturns
<1>3. job[g] # None
  BY <1>2, SlotFree
<1>4. /\ job' = [job EXCEPT ![g] = None]
      /\ wg' = IF Tracked(g) THEN wg - 1 ELSE wg
  BY <1>1 DEF Finish, EndGoroutine
<1>5. ~ Counts(None) /\ None.state # "scanning" /\ None.state # "spawning"
        /\ None.origin # "sweep"
  BY SlotFree DEF Counts
<1>6. /\ job' \in [Goroutines -> Job \cup {None}]
      /\ \A h \in Goroutines : job'[h] = IF h = g THEN None ELSE job[h]
      /\ Cardinality(Holders') \in Nat
      /\ Cardinality(Counted') \in Nat
      /\ job[g].state = "scanning" =>
           Cardinality(Holders') = Cardinality(Holders) - 1
      /\ job[g].state # "scanning" =>
           Cardinality(Holders') = Cardinality(Holders)
      /\ Tracked(g) => Cardinality(Counted') = Cardinality(Counted) - 1
      /\ ~ Tracked(g) => Cardinality(Counted') = Cardinality(Counted)
  BY <1>4, <1>5, SlotCards, SlotFree DEF IInv
<1>7. LoopCount' = LoopCount /\ LoopCount \in Nat
  BY <1>2 DEF LoopCount
<1>8. GroupCounts' /\ wg' \in Nat
  BY <1>4, <1>6, <1>7, FiniteSlots, CountsMeaning DEF IInv
<1>9. WorkersBounded' /\ sem' \in Nat
  BY <1>2, <1>6, FiniteSlots, CountsMeaning, WorkersIsPositive DEF IInv
<1>10. failures' \in [Targets -> 0..MaxFailures]
         /\ gate' \in [Targets -> 0..RetryMax]
  <2>1. CASE job[g].origin = "sweep"
    BY <1>1, <1>3, <2>1, BooksTyped DEF Finish, IInv
  <2>2. CASE job[g].origin # "sweep"
    BY <1>1, <2>2 DEF Finish, IInv, TypeOK
  <2> QED
    BY <2>1, <2>2
<1>11. sleep' = sleep
  BY DEF GiveUp, ScanReturns
<1>12. TypeOK'
  BY <1>2, <1>6, <1>8, <1>9, <1>10, <1>11 DEF IInv, TypeOK
<1>13. SpawningIsAdd' /\ StopFollowsStart' /\ StopWaitsForSweeps'
  BY <1>2, <1>5, <1>6 DEF IInv, SpawningIsAdd, StopFollowsStart,
     StopWaitsForSweeps
<1> QED
  BY <1>8, <1>9, <1>12, <1>13 DEF IInv

(* The invariant of the scheduler.                                          *)
LEMMA Invariance == Spec => []IInv
<1>1. IInv /\ [Next]_vars => IInv'
  <2> SUFFICES ASSUME IInv, [Next]_vars PROVE IInv'
    OBVIOUS
  <2>1. CASE UNCHANGED vars
    <3>1. /\ job' = job
          /\ UNCHANGED <<targets, cancelled, stop, loop, todo, sleep,
                         failures, gate, sem, wg>>
      BY <2>1 DEF vars
    <3>2. Holders' = Holders /\ Counted' = Counted /\ LoopCount' = LoopCount
      BY <3>1, SlotsKept DEF LoopCount
    <3>3. WorkersBounded' /\ GroupCounts'
      BY <3>1, <3>2, CountsMeaning DEF IInv
    <3>4. TypeOK' /\ StopWaitsForSweeps' /\ SpawningIsAdd' /\ StopFollowsStart'
      BY <3>1 DEF IInv, TypeOK, StopWaitsForSweeps, SpawningIsAdd,
         StopFollowsStart
    <3> QED
      BY <3>3, <3>4 DEF IInv
  <2>2. CASE Next
    BY <2>2, LoopSteps, OperatorSteps, StopReturnsStep, SpawnSteps,
       RelabelSteps, ScanEnds
       DEF Next, Sweep
  <2> QED
    BY <2>1, <2>2
<1> QED
  BY InitIInv, <1>1, PTL DEF Spec

(* Every reachable state has its types: in particular no back-off is longer   *)
(* than RetryMax and s.wg never goes below zero.                              *)
THEOREM TypeCorrect == Spec => []TypeOK
<1>1. IInv => TypeOK
  BY DEF IInv
<1> QED
  BY <1>1, Invariance, PTL

(* Whoever asks for scans, at most Config.Workers of them collect at once,    *)
(* and the semaphore counts exactly those: no worker is lost or freed twice.  *)
THEOREM WorkersAlwaysBounded == Spec => []WorkersBounded
<1>1. IInv => WorkersBounded
  BY DEF IInv
<1> QED
  BY <1>1, Invariance, PTL

(* s.wg is, at every moment, the loop plus the scans that sweeps and          *)
(* AddTarget have started and that have not returned.                         *)
THEOREM GroupAlwaysCounts == Spec => []GroupCounts
<1>1. IInv => GroupCounts
  BY DEF IInv
<1> QED
  BY <1>1, Invariance, PTL

(* Once Stop has returned neither the loop nor a scan of a sweep is left, and *)
(* none starts again.                                                         *)
THEOREM StopAlwaysWaits == Spec => []StopWaitsForSweeps
<1>1. IInv => StopWaitsForSweeps
  BY DEF IInv
<1> QED
  BY <1>1, Invariance, PTL
=============================================================================
