------------------------------ MODULE Scheduler ------------------------------
(***************************************************************************)
(* sched.Scheduler with its one registered module: the module loop sweeps  *)
(* the targets once per interval, AddTarget and ScanNow start scans of     *)
(* their own, every scan takes one of the shared workers, failed targets   *)
(* back off, and Stop cancels and waits.  A scan (Collect, Reconcile and   *)
(* OnResult) is one step here; Reconcile.tla looks inside.                 *)
(***************************************************************************)
EXTENDS Naturals, FiniteSets

CONSTANTS
  Targets,
  Goroutines,    \* bound: scans that can be under way at once
  Workers,       \* Config.Workers
  Interval,      \* ModuleInfo.DefaultInterval or Config.IntervalOverride
  RetryBase,     \* Config.RetryBase
  RetryMax,      \* Config.RetryMax
  MaxFailures,   \* bound: past it the count of consecutive failures stays
  Adds,          \* TRUE: the operator may add targets while scans run
  ScanNows       \* TRUE: the operator may ask for scans (paid tiers)

ASSUME WorkersIsPositive == Workers \in Nat \ {0}
ASSUME DelaysArePositive ==
  /\ Interval \in Nat \ {0}
  /\ RetryBase \in Nat \ {0}
  /\ RetryMax \in Nat \ {0}
  /\ MaxFailures \in Nat \ {0}
ASSUME SwitchesAreBoolean == Adds \in BOOLEAN /\ ScanNows \in BOOLEAN
ASSUME GoroutinesAreFinite == IsFiniteSet(Goroutines)

VARIABLES
  targets,    \* reg.targets
  cancelled,  \* the scheduler's context is cancelled
  stop,       \* Stop: uncalled, waiting for s.wg, returned
  loop,       \* moduleLoop: unstarted, sweeping, sleeping, exited
  todo,       \* the targets of the sweep's snapshot not reached yet
  sleep,      \* time until the next sweep
  failures,   \* consecutive failures of each target, in the loop's map
  gate,       \* time until the loop may scan each target again (nextOK)
  job,        \* what each goroutine does
  sem,        \* the workers taken
  wg          \* the counter of s.wg

vars == <<targets, cancelled, stop, loop, todo, sleep, failures, gate, job, sem, wg>>

Origins == {"sweep", "add", "now"}
States  == {"spawning", "waiting", "scanning"}

\* spawning: AddTarget found the scheduler running and has not called wg.Add.
Job  == [target : Targets, origin : Origins, state : States]
None == [target |-> "none", origin |-> "none", state |-> "none"]

Active(g)  == job[g] # None
In(state)  == {g \in Goroutines : job[g].state = state}
Tracked(g) == job[g].origin \in {"sweep", "add"} /\ job[g].state # "spawning"

\* backoffFor: doubled for every failure after the first, up to RetryMax.
Backoff(n) ==
  LET d[i \in 1..n] == IF i = 1 THEN RetryBase
                       ELSE IF 2 * d[i - 1] >= RetryMax THEN RetryMax
                       ELSE 2 * d[i - 1]
  IN  IF d[n] > RetryMax THEN RetryMax ELSE d[n]

\* main restores the saved targets before it starts the scheduler.
Init ==
  /\ targets \in SUBSET Targets
  /\ cancelled = FALSE
  /\ stop = "uncalled"
  /\ loop = "unstarted"
  /\ todo = {}
  /\ sleep = 0
  /\ failures = [t \in Targets |-> 0]
  /\ gate = [t \in Targets |-> 0]
  /\ job = [g \in Goroutines |-> None]
  /\ sem = 0
  /\ wg = 0

Spawn(g, t, origin, state) ==
  /\ ~ Active(g)
  /\ job' = [job EXCEPT ![g] = [target |-> t, origin |-> origin, state |-> state]]

-----------------------------------------------------------------------------
(***************************************************************************)
(* The module loop.                                                        *)
(***************************************************************************)

\* Start launches the loop, which takes its first snapshot.
Start ==
  /\ loop = "unstarted"
  /\ loop' = "sweeping"
  /\ todo' = targets
  /\ wg' = wg + 1
  /\ UNCHANGED <<targets, cancelled, stop, sleep, failures, gate, job, sem>>

\* Mutation of SweepScans: no s.wg.Add(1) for the scan.
SweepScansUncounted(t, g) ==
  /\ loop = "sweeping"
  /\ t \in todo
  /\ gate[t] = 0
  /\ todo' = todo \ {t}
  /\ Spawn(g, t, "sweep", "waiting")
  /\ UNCHANGED <<targets, cancelled, stop, loop, sleep, failures, gate, sem, wg>>

\* The sweep starts the scan of a target of its snapshot, removed since or not.
SweepScans(t, g) ==
  /\ loop = "sweeping"
  /\ t \in todo
  /\ gate[t] = 0
  /\ todo' = todo \ {t}
  /\ Spawn(g, t, "sweep", "waiting")
  /\ wg' = wg + 1
  /\ UNCHANGED <<targets, cancelled, stop, loop, sleep, failures, gate, sem>>

\* The sweep passes over a target that is backing off.
SweepSkips(t) ==
  /\ loop = "sweeping"
  /\ t \in todo
  /\ gate[t] > 0
  /\ todo' = todo \ {t}
  /\ UNCHANGED <<targets, cancelled, stop, loop, sleep, failures, gate, job, sem,
                 wg>>

SweepEnds ==
  /\ loop = "sweeping"
  /\ todo = {}
  /\ loop' = "sleeping"
  /\ sleep' = Interval
  /\ UNCHANGED <<targets, cancelled, stop, todo, failures, gate, job, sem, wg>>

\* Mutation of Wake: the sweep also takes the targets the loop knows as failing.
WakeForFailing ==
  /\ loop = "sleeping"
  /\ sleep = 0
  /\ loop' = "sweeping"
  /\ todo' = targets \cup {t \in Targets : failures[t] > 0}
  /\ UNCHANGED <<targets, cancelled, stop, sleep, failures, gate, job, sem, wg>>

\* time.After wins the select, which it may even when the context is cancelled.
Wake ==
  /\ loop = "sleeping"
  /\ sleep = 0
  /\ loop' = "sweeping"
  /\ todo' = targets
  /\ UNCHANGED <<targets, cancelled, stop, sleep, failures, gate, job, sem, wg>>

LoopExits ==
  /\ loop = "sleeping"
  /\ cancelled
  /\ loop' = "exited"
  /\ wg' = wg - 1
  /\ UNCHANGED <<targets, cancelled, stop, todo, sleep, failures, gate, job, sem>>

Tick ==
  /\ sleep > 0 \/ \E t \in Targets : gate[t] > 0
  /\ sleep' = IF sleep > 0 THEN sleep - 1 ELSE 0
  /\ gate' = [t \in Targets |-> IF gate[t] > 0 THEN gate[t] - 1 ELSE 0]
  /\ UNCHANGED <<targets, cancelled, stop, loop, todo, failures, job, sem, wg>>

-----------------------------------------------------------------------------
(***************************************************************************)
(* The operator.                                                           *)
(***************************************************************************)

\* AddTarget registers the target and, when the scheduler runs, is about to
\* start a scan outside the lock.
AddTarget(t, g) ==
  /\ Adds
  /\ targets' = targets \cup {t}
  /\ IF loop # "unstarted" /\ ~ cancelled
     THEN Spawn(g, t, "add", "spawning")
     ELSE UNCHANGED job
  /\ UNCHANGED <<cancelled, stop, loop, todo, sleep, failures, gate, sem, wg>>

AddSpawns(g) ==
  /\ job[g].state = "spawning"
  /\ job' = [job EXCEPT ![g].state = "waiting"]
  /\ wg' = wg + 1
  /\ UNCHANGED <<targets, cancelled, stop, loop, todo, sleep, failures, gate, sem>>

RemoveTarget(t) ==
  /\ t \in targets
  /\ targets' = targets \ {t}
  /\ UNCHANGED <<cancelled, stop, loop, todo, sleep, failures, gate, job, sem, wg>>

\* ScanNow's goroutines, one per target, on the request's context and a
\* WaitGroup of its own.
ScanNow(t, g) ==
  /\ ScanNows
  /\ t \in targets
  /\ Spawn(g, t, "now", "waiting")
  /\ UNCHANGED <<targets, cancelled, stop, loop, todo, sleep, failures, gate, sem,
                 wg>>

\* SIGINT or SIGTERM cancels the context Start was given.
Signal ==
  /\ loop # "unstarted"
  /\ ~ cancelled
  /\ cancelled' = TRUE
  /\ UNCHANGED <<targets, stop, loop, todo, sleep, failures, gate, job, sem, wg>>

Stop ==
  /\ loop # "unstarted"
  /\ stop = "uncalled"
  /\ stop' = "waiting"
  /\ cancelled' = TRUE
  /\ UNCHANGED <<targets, loop, todo, sleep, failures, gate, job, sem, wg>>

StopReturns ==
  /\ stop = "waiting"
  /\ wg = 0
  /\ stop' = "returned"
  /\ UNCHANGED <<targets, cancelled, loop, todo, sleep, failures, gate, job, sem, wg>>

-----------------------------------------------------------------------------
(***************************************************************************)
(* scanOne and the goroutine around it.                                    *)
(***************************************************************************)

\* The scan's context may be cancelled: the scheduler's, or the request's,
\* whose client may leave at any time.
MayBeCancelled(g) == cancelled \/ job[g].origin = "now"

\* Mutation of EndGoroutine: ScanNow's goroutines call s.wg.Done too.
EndGoroutineOfAny(g) ==
  /\ job' = [job EXCEPT ![g] = None]
  /\ wg' = wg - 1

\* The goroutine ends; those that s.wg counts leave it.
EndGoroutine(g) ==
  /\ job' = [job EXCEPT ![g] = None]
  /\ wg' = IF Tracked(g) THEN wg - 1 ELSE wg

\* The sweep's goroutine counts a failure and backs off; success and
\* context.Canceled both start over.
KeepBooks(g, outcome) ==
  LET t == job[g].target
      n == IF failures[t] < MaxFailures THEN failures[t] + 1 ELSE failures[t]
  IN
  /\ failures' = [failures EXCEPT ![t] = IF outcome = "failed" THEN n ELSE 0]
  /\ gate' = [gate EXCEPT ![t] = IF outcome = "failed" THEN Backoff(n) ELSE 0]

\* Mutation of Finish: a failed sweep scan returns without s.wg.Done.
FinishWithoutDone(g, outcome) ==
  /\ job' = [job EXCEPT ![g] = None]
  /\ wg' = IF Tracked(g) /\ outcome # "failed" THEN wg - 1 ELSE wg
  /\ IF job[g].origin = "sweep" THEN KeepBooks(g, outcome)
     ELSE UNCHANGED <<failures, gate>>

\* Only the sweep keeps books on failures.
Finish(g, outcome) ==
  /\ EndGoroutine(g)
  /\ IF job[g].origin = "sweep" THEN KeepBooks(g, outcome)
     ELSE UNCHANGED <<failures, gate>>

Acquire(g) ==
  /\ job[g].state = "waiting"
  /\ sem < Workers
  /\ sem' = sem + 1
  /\ job' = [job EXCEPT ![g].state = "scanning"]
  /\ UNCHANGED <<targets, cancelled, stop, loop, todo, sleep, failures, gate, wg>>

\* Mutation of GiveUp: the deferred release is set up before the select.
GiveUpReleasing(g) ==
  /\ job[g].state = "waiting"
  /\ MayBeCancelled(g)
  /\ sem' = sem - 1
  /\ Finish(g, "cancelled")
  /\ UNCHANGED <<targets, cancelled, stop, loop, todo, sleep>>

\* ctx.Done wins while the scan waits for a worker.
GiveUp(g) ==
  /\ job[g].state = "waiting"
  /\ MayBeCancelled(g)
  /\ Finish(g, "cancelled")
  /\ UNCHANGED <<targets, cancelled, stop, loop, todo, sleep, sem>>

\* Mutation of ScanReturns: a failed scan does not free its worker.
ScanReturnsHolding(g) ==
  /\ job[g].state = "scanning"
  /\ \/ Finish(g, "done") /\ sem' = sem - 1
     \/ Finish(g, "failed") /\ UNCHANGED sem
     \/ MayBeCancelled(g) /\ Finish(g, "cancelled") /\ sem' = sem - 1
  /\ UNCHANGED <<targets, cancelled, stop, loop, todo, sleep>>

\* The scan returns, after ScanTimeout at the latest, and frees its worker.
ScanReturns(g) ==
  /\ job[g].state = "scanning"
  /\ sem' = sem - 1
  /\ \/ Finish(g, "done")
     \/ Finish(g, "failed")
     \/ MayBeCancelled(g) /\ Finish(g, "cancelled")
  /\ UNCHANGED <<targets, cancelled, stop, loop, todo, sleep>>

Sweep == \/ \E t \in Targets, g \in Goroutines : SweepScans(t, g)
         \/ \E t \in Targets : SweepSkips(t)
         \/ SweepEnds

Next ==
  \/ Start
  \/ Sweep
  \/ Wake
  \/ LoopExits
  \/ Tick
  \/ \E t \in Targets, g \in Goroutines : AddTarget(t, g) \/ ScanNow(t, g)
  \/ \E t \in Targets : RemoveTarget(t)
  \/ Signal
  \/ Stop
  \/ StopReturns
  \/ \E g \in Goroutines :
       AddSpawns(g) \/ Acquire(g) \/ GiveUp(g) \/ ScanReturns(g)

\* Time passes, the runtime runs every goroutine, Collect returns by
\* ScanTimeout, and goroutines blocked on the semaphore are served in turn.
\* Sweep is strong only because the bound on Goroutines may hold it up.
Fairness ==
  /\ SF_vars(Sweep)
  /\ WF_vars(Wake)
  /\ SF_vars(LoopExits)
  /\ WF_vars(Tick)
  /\ WF_vars(StopReturns)
  /\ \A g \in Goroutines :
       /\ WF_vars(AddSpawns(g))
       /\ SF_vars(Acquire(g))
       /\ WF_vars(GiveUp(g))
       /\ WF_vars(ScanReturns(g))

Spec == Init /\ [][Next]_vars
FairSpec == Spec /\ Fairness

-----------------------------------------------------------------------------

TypeOK ==
  /\ targets \subseteq Targets
  /\ cancelled \in BOOLEAN
  /\ stop \in {"uncalled", "waiting", "returned"}
  /\ loop \in {"unstarted", "sweeping", "sleeping", "exited"}
  /\ todo \subseteq Targets
  /\ sleep \in 0..Interval
  /\ failures \in [Targets -> 0..MaxFailures]
  /\ gate \in [Targets -> 0..RetryMax]
  /\ job \in [Goroutines -> Job \cup {None}]
  /\ sem \in Nat
  /\ wg \in Nat

(* "Workers bounds how many Collect() calls may run at once": never more    *)
(* scans than workers, and no worker is lost with the scan that held it.    *)
WorkersBounded ==
  /\ sem = Cardinality(In("scanning"))
  /\ sem <= Workers

(* What Stop waits for: the loop and the scans that sweeps and AddTarget    *)
(* started are counted in s.wg, each once.                                  *)
GroupCounts ==
  wg = Cardinality({g \in Goroutines : Tracked(g)})
       + IF loop \in {"sweeping", "sleeping"} THEN 1 ELSE 0

(* When Stop has returned, the loop is gone and none of its scans runs,     *)
(* also when a last sweep began after the cancellation.                     *)
StopWaitsForSweeps ==
  stop = "returned" =>
    /\ loop = "exited"
    /\ \A g \in Goroutines : job[g].origin # "sweep"

(* "Stop cancels all loops and waits for in-flight scans to finish": no     *)
(* scan goroutine is left when it has returned.  The code does not keep it: *)
(* the scans of ScanNow are neither cancelled nor waited for.               *)
StopWaitsForAll ==
  stop = "returned" => \A g \in Goroutines : ~ Active(g)

Scanned(t) == \E g \in Goroutines : job[g].target = t /\ job[g].state = "scanning"

(* "One dead host slows only itself, never the sweep": a target that stays  *)
(* registered is scanned again and again while the scheduler runs, whatever *)
(* the others do, and so is a failing one.                                  *)
RegisteredIsScanned ==
  \A t \in Targets :
    <>[](t \in targets /\ ~ cancelled /\ loop # "unstarted") => []<>Scanned(t)

(* "RemoveTarget stops scanning a target": a target that stays removed is   *)
(* not scanned for ever.                                                    *)
RemovedGoesQuiet ==
  \A t \in Targets :
    <>[](t \notin targets) => <>[](\A g \in Goroutines : job[g].target # t)

(* Stop returns.                                                            *)
StopTerminates == stop = "waiting" ~> stop = "returned"
=============================================================================
