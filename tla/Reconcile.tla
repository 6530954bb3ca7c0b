------------------------------ MODULE Reconcile ------------------------------
(***************************************************************************)
(* store.Engine.Reconcile run by the scheduler's goroutines for one module *)
(* and one target, against the findings table the dashboard's status       *)
(* handler writes too.  The engine takes no lock: every call on the store  *)
(* is a step of its own, and what a scan or the handler read earlier may   *)
(* be out of date when it writes.                                          *)
(***************************************************************************)
EXTENDS Naturals, Sequences

CONSTANTS
  Fingerprints,   \* fingerprints the collector can report for the target
  Malformed,      \* a finding ValidateForIngest rejects
  NoRecord,       \* no row
  Scanners,       \* goroutines that run scanOne for the target
  Operators,      \* requests that change a finding's status
  ResolveAfter,   \* ModuleInfo.ResolveAfter
  Isolated,       \* TRUE: scans and status requests never overlap
  MaxScans,       \* bound: scans started
  MaxReport,      \* bound: findings in one report
  MaxFailures,    \* bound: store errors and crashes
  Crashes         \* TRUE: the process may die, FALSE: only store errors

ASSUME ResolveAfterIsPositive == ResolveAfter \in Nat \ {0}
ASSUME BoundsAreNat ==
  /\ MaxScans \in Nat
  /\ MaxReport \in Nat
  /\ MaxFailures \in Nat
ASSUME SwitchesAreBoolean == Isolated \in BOOLEAN /\ Crashes \in BOOLEAN
ASSUME MalformedIsNoFingerprint == Malformed \notin Fingerprints

Statuses  == {"open", "acknowledged", "suppressed", "resolved"}
Decisions == Statuses \ {"resolved"}
News      == {"none", "opened", "resolved", "lost"}

\* Times are counts of scans started; 0 is ResolvedAt = nil.
Never == 0

\* born stands for ID and FirstSeen, seenAt for LastSeen and the title,
\* severity, remediation and evidence refreshed with it.
Record == [status     : Statuses,
           streak     : Nat,
           born       : Nat,
           seenAt     : Nat,
           resolvedAt : Nat]

MaybeRecord == Record \cup {NoRecord}

ASSUME NoRecordIsNoRecord == NoRecord \notin Record

Reports == UNION {[1..n -> Fingerprints \cup {Malformed}] : n \in 0..MaxReport}

VARIABLES
  store,      \* the rows of findings, by fingerprint
  scans,      \* scans started: the clock
  pc,         \* where each scanner is
  now,        \* each scanner's time, read at the top of Reconcile
  fresh,      \* the collector's findings the scanner has not processed yet
  existing,   \* the rows ListByTarget returned to the scanner
  passed,     \* seen, and the absent fingerprints the second loop is past
  opened,     \* ReconcileResult.NewlyOpen
  resolved,   \* ReconcileResult.Resolved
  change,     \* the row a status request read, with its new status
  told,       \* what became of the last change of each finding: the news given
              \* to the notifier, or lost with the scan that made it
  failures    \* store errors and crashes so far

scanVars == <<pc, now, fresh, existing, passed, opened, resolved>>
vars == <<store, scans, scanVars, change, told, failures>>

NoChange == [fp |-> Malformed, rec |-> NoRecord]
NoRows   == [fp \in Fingerprints |-> NoRecord]

Init ==
  /\ store = NoRows
  /\ scans = 0
  /\ pc = [s \in Scanners |-> "idle"]
  /\ now = [s \in Scanners |-> 0]
  /\ fresh = [s \in Scanners |-> <<>>]
  /\ existing = [s \in Scanners |-> NoRows]
  /\ passed = [s \in Scanners |-> {}]
  /\ opened = [s \in Scanners |-> {}]
  /\ resolved = [s \in Scanners |-> {}]
  /\ change = [o \in Operators |-> NoChange]
  /\ told = [fp \in Fingerprints |-> "none"]
  /\ failures = 0

Quiet ==
  /\ \A s \in Scanners : pc[s] = "idle"
  /\ \A o \in Operators : change[o] = NoChange

-----------------------------------------------------------------------------

\* Mutation of Upserted: INSERT OR REPLACE writes id and first_seen too.
UpsertedWhole(rows, fp, rec) == [rows EXCEPT ![fp] = rec]

\* SQLiteStore.Upsert: ON CONFLICT leaves id and first_seen as they are.
Upserted(rows, fp, rec) ==
  [rows EXCEPT ![fp] =
     IF rows[fp] = NoRecord THEN rec ELSE [rec EXCEPT !.born = rows[fp].born]]

\* Mutation of NewRecord: the collector's empty Status is stored.
NewRecordWithoutStatus(t) ==
  [status |-> "", streak |-> 0, born |-> t, seenAt |-> t, resolvedAt |-> Never]

\* A record for a fingerprint ListByTarget did not return.
NewRecord(t) ==
  [status |-> "open", streak |-> 0, born |-> t, seenAt |-> t,
   resolvedAt |-> Never]

\* Mutation of Merged: a reopened finding keeps its ResolvedAt.
MergedKeepingTime(prev, t) ==
  [prev EXCEPT !.status = IF @ = "resolved" THEN "open" ELSE @,
               !.streak = 0, !.seenAt = t]

\* Mutation of Merged: the streak is reset by a reopening only.
MergedKeepingStreak(prev, t) ==
  IF prev.status = "resolved"
  THEN [prev EXCEPT !.status = "open", !.streak = 0, !.seenAt = t,
                    !.resolvedAt = Never]
  ELSE [prev EXCEPT !.seenAt = t]

\* What a report makes of the row the scanner read.
Merged(prev, t) ==
  IF prev.status = "resolved"
  THEN [prev EXCEPT !.status = "open", !.streak = 0, !.seenAt = t,
                    !.resolvedAt = Never]
  ELSE [prev EXCEPT !.streak = 0, !.seenAt = t]

\* Mutation of Missed: > for >=.
MissedOnceMore(prev, t) ==
  IF prev.streak + 1 > ResolveAfter
  THEN [prev EXCEPT !.streak = @ + 1, !.status = "resolved", !.resolvedAt = t]
  ELSE [prev EXCEPT !.streak = @ + 1]

\* Mutation of Missed: ResolvedAt is not set.
MissedWithoutTime(prev, t) ==
  IF prev.streak + 1 >= ResolveAfter
  THEN [prev EXCEPT !.streak = @ + 1, !.status = "resolved"]
  ELSE [prev EXCEPT !.streak = @ + 1]

\* What a missing report makes of the row the scanner read.
Missed(prev, t) ==
  IF prev.streak + 1 >= ResolveAfter
  THEN [prev EXCEPT !.streak = @ + 1, !.status = "resolved", !.resolvedAt = t]
  ELSE [prev EXCEPT !.streak = @ + 1]

\* Mutation of Due: suppressed findings are counted like open ones.
DueUnlessResolved(s) ==
  {fp \in Fingerprints \ passed[s] :
     /\ existing[s][fp] # NoRecord
     /\ existing[s][fp].status # "resolved"}

\* Existing rows the second loop still has to count as absent.
Due(s) ==
  {fp \in Fingerprints \ passed[s] :
     /\ existing[s][fp] # NoRecord
     /\ existing[s][fp].status \notin {"resolved", "suppressed"}}

\* The scanner's goroutine leaves Reconcile and scanOne.
Leave(s) ==
  /\ pc' = [pc EXCEPT ![s] = "idle"]
  /\ now' = [now EXCEPT ![s] = 0]
  /\ fresh' = [fresh EXCEPT ![s] = <<>>]
  /\ existing' = [existing EXCEPT ![s] = NoRows]
  /\ passed' = [passed EXCEPT ![s] = {}]
  /\ opened' = [opened EXCEPT ![s] = {}]
  /\ resolved' = [resolved EXCEPT ![s] = {}]

-----------------------------------------------------------------------------
(***************************************************************************)
(* One scan: Collect has returned and Reconcile runs.                      *)
(***************************************************************************)

Begin(s) ==
  /\ pc[s] = "idle"
  /\ scans < MaxScans
  /\ Isolated => Quiet
  /\ scans' = scans + 1
  /\ pc' = [pc EXCEPT ![s] = "list"]
  /\ now' = [now EXCEPT ![s] = scans + 1]
  /\ \E report \in Reports : fresh' = [fresh EXCEPT ![s] = report]
  /\ UNCHANGED <<store, existing, passed, opened, resolved, change, told,
                 failures>>

ListByTarget(s) ==
  /\ pc[s] = "list"
  /\ pc' = [pc EXCEPT ![s] = "apply"]
  /\ existing' = [existing EXCEPT ![s] = store]
  /\ UNCHANGED <<store, scans, now, fresh, passed, opened, resolved, change,
                 told, failures>>

\* A malformed finding is rejected and not marked seen.
Reject(s) ==
  /\ pc[s] = "apply"
  /\ fresh[s] # <<>>
  /\ Head(fresh[s]) = Malformed
  /\ fresh' = [fresh EXCEPT ![s] = Tail(@)]
  /\ UNCHANGED <<store, scans, pc, now, existing, passed, opened, resolved,
                 change, told, failures>>

\* Mutation of Insert: the new finding is not listed in NewlyOpen.
InsertSilently(s) ==
  LET fp == Head(fresh[s]) IN
  /\ pc[s] = "apply"
  /\ fresh[s] # <<>>
  /\ fp # Malformed
  /\ existing[s][fp] = NoRecord
  /\ store' = Upserted(store, fp, NewRecord(now[s]))
  /\ passed' = [passed EXCEPT ![s] = @ \cup {fp}]
  /\ fresh' = [fresh EXCEPT ![s] = Tail(@)]
  /\ UNCHANGED <<scans, pc, now, existing, opened, resolved, change, told,
                 failures>>

\* A fingerprint the scan's listing does not hold: insert and announce.
Insert(s) ==
  LET fp == Head(fresh[s]) IN
  /\ pc[s] = "apply"
  /\ fresh[s] # <<>>
  /\ fp # Malformed
  /\ existing[s][fp] = NoRecord
  /\ store' = Upserted(store, fp, NewRecord(now[s]))
  /\ passed' = [passed EXCEPT ![s] = @ \cup {fp}]
  /\ opened' = [opened EXCEPT ![s] = @ \cup {fp}]
  /\ fresh' = [fresh EXCEPT ![s] = Tail(@)]
  /\ UNCHANGED <<scans, pc, now, existing, resolved, change, told, failures>>

\* A fingerprint the listing holds: refresh, and announce it if it was resolved.
Refresh(s) ==
  LET fp == Head(fresh[s])
      prev == existing[s][fp]
  IN
  /\ pc[s] = "apply"
  /\ fresh[s] # <<>>
  /\ fp # Malformed
  /\ prev # NoRecord
  /\ store' = Upserted(store, fp, Merged(prev, now[s]))
  /\ passed' = [passed EXCEPT ![s] = @ \cup {fp}]
  /\ opened' = IF prev.status = "resolved"
               THEN [opened EXCEPT ![s] = @ \cup {fp}] ELSE opened
  /\ fresh' = [fresh EXCEPT ![s] = Tail(@)]
  /\ UNCHANGED <<scans, pc, now, existing, resolved, change, told, failures>>

\* Mutation of CountAbsent: the loop goes on to the next row once it has listed
\* one in Resolved, without the Upsert.
CountAbsentUnsaved(s, fp) ==
  LET rec == Missed(existing[s][fp], now[s]) IN
  /\ pc[s] = "apply"
  /\ fresh[s] = <<>>
  /\ fp \in Due(s)
  /\ passed' = [passed EXCEPT ![s] = @ \cup {fp}]
  /\ IF rec.status = "resolved"
     THEN /\ resolved' = [resolved EXCEPT ![s] = @ \cup {fp}]
          /\ UNCHANGED store
     ELSE /\ store' = Upserted(store, fp, rec)
          /\ UNCHANGED resolved
  /\ UNCHANGED <<scans, pc, now, fresh, existing, opened, change, told,
                 failures>>

\* An existing fingerprint the report left out.
CountAbsent(s, fp) ==
  LET rec == Missed(existing[s][fp], now[s]) IN
  /\ pc[s] = "apply"
  /\ fresh[s] = <<>>
  /\ fp \in Due(s)
  /\ store' = Upserted(store, fp, rec)
  /\ passed' = [passed EXCEPT ![s] = @ \cup {fp}]
  /\ resolved' = IF rec.status = "resolved"
                 THEN [resolved EXCEPT ![s] = @ \cup {fp}] ELSE resolved
  /\ UNCHANGED <<scans, pc, now, fresh, existing, opened, change, told,
                 failures>>

\* Reconcile returns and scanOne hands the result to OnResult, which enqueues
\* what was opened and then what was resolved.
Return(s) ==
  /\ pc[s] = "apply"
  /\ fresh[s] = <<>>
  /\ Due(s) = {}
  /\ told' = [fp \in Fingerprints |->
                IF fp \in resolved[s] THEN "resolved"
                ELSE IF fp \in opened[s] THEN "opened" ELSE told[fp]]
  /\ Leave(s)
  /\ UNCHANGED <<store, scans, change, failures>>

\* The scanner's next step calls the store (or makes an id).
CallsStore(s) ==
  \/ pc[s] = "list"
  \/ pc[s] = "apply" /\ fresh[s] # <<>> /\ Head(fresh[s]) # Malformed
  \/ pc[s] = "apply" /\ fresh[s] = <<>> /\ Due(s) # {}

\* What the scanner opened and resolved is never announced.
LoseNews(s) ==
  [fp \in Fingerprints |->
     IF fp \in opened[s] \cup resolved[s] THEN "lost" ELSE told[fp]]

\* That call fails: Reconcile returns the error and scanOne drops the result.
Fail(s) ==
  /\ failures < MaxFailures
  /\ CallsStore(s)
  /\ failures' = failures + 1
  /\ told' = LoseNews(s)
  /\ Leave(s)
  /\ UNCHANGED <<store, scans, change>>

-----------------------------------------------------------------------------
(***************************************************************************)
(* handleFindingStatus reads the row and writes it back whole.             *)
(***************************************************************************)

GetFinding(o, fp, next) ==
  /\ change[o] = NoChange
  /\ Isolated => Quiet
  /\ store[fp] # NoRecord
  /\ change' = [change EXCEPT ![o] =
                  [fp |-> fp, rec |-> [store[fp] EXCEPT !.status = next]]]
  /\ UNCHANGED <<store, scans, scanVars, told, failures>>

PutFinding(o) ==
  /\ change[o] # NoChange
  /\ store' = Upserted(store, change[o].fp, change[o].rec)
  /\ change' = [change EXCEPT ![o] = NoChange]
  /\ UNCHANGED <<scans, scanVars, told, failures>>

\* The write fails: the request answers 500 and the row stays.
PutFails(o) ==
  /\ change[o] # NoChange
  /\ failures < MaxFailures
  /\ failures' = failures + 1
  /\ change' = [change EXCEPT ![o] = NoChange]
  /\ UNCHANGED <<store, scans, scanVars, told>>

\* The process dies and starts again: the rows stay, what was running is lost.
\* A signal ends it so as well: main returns with ListenAndServe, whatever scans
\* and requests are at work.
Crash ==
  /\ Crashes
  /\ failures < MaxFailures
  /\ ~ Quiet
  /\ failures' = failures + 1
  /\ pc' = [s \in Scanners |-> "idle"]
  /\ now' = [s \in Scanners |-> 0]
  /\ fresh' = [s \in Scanners |-> <<>>]
  /\ existing' = [s \in Scanners |-> NoRows]
  /\ passed' = [s \in Scanners |-> {}]
  /\ opened' = [s \in Scanners |-> {}]
  /\ resolved' = [s \in Scanners |-> {}]
  /\ change' = [o \in Operators |-> NoChange]
  /\ told' = [fp \in Fingerprints |->
               IF \E s \in Scanners : fp \in opened[s] \cup resolved[s]
               THEN "lost" ELSE told[fp]]
  /\ UNCHANGED <<store, scans>>

-----------------------------------------------------------------------------

ScannerStep(s) ==
  \/ Begin(s)
  \/ ListByTarget(s)
  \/ Reject(s)
  \/ Insert(s)
  \/ Refresh(s)
  \/ \E fp \in Fingerprints : CountAbsent(s, fp)
  \/ Return(s)
  \/ Fail(s)

OperatorStep(o) ==
  \/ \E fp \in Fingerprints, next \in Decisions : GetFinding(o, fp, next)
  \/ PutFinding(o)
  \/ PutFails(o)

Next ==
  \/ \E s \in Scanners : ScannerStep(s)
  \/ \E o \in Operators : OperatorStep(o)
  \/ Crash

Spec == Init /\ [][Next]_vars

-----------------------------------------------------------------------------

TypeOK ==
  /\ store \in [Fingerprints -> MaybeRecord]
  /\ scans \in Nat
  /\ pc \in [Scanners -> {"idle", "list", "apply"}]
  /\ now \in [Scanners -> Nat]
  /\ fresh \in [Scanners -> Seq(Fingerprints \cup {Malformed})]
  /\ existing \in [Scanners -> [Fingerprints -> MaybeRecord]]
  /\ passed \in [Scanners -> SUBSET Fingerprints]
  /\ opened \in [Scanners -> SUBSET Fingerprints]
  /\ resolved \in [Scanners -> SUBSET Fingerprints]
  /\ change \in [Operators -> [fp : Fingerprints, rec : Record] \cup {NoChange}]
  /\ told \in [Fingerprints -> News]
  /\ failures \in Nat

(* Whatever overlaps, fails or crashes: a resolved finding carries its      *)
(* resolution time and the full count of misses, and a finding with the     *)
(* full count carries a resolution time (reconcile.go sets the three        *)
(* together; the status handler writes one of them back alone).             *)
Earned(rec) ==
  /\ rec.status = "resolved" => rec.streak >= ResolveAfter
  /\ rec.streak >= ResolveAfter => rec.resolvedAt # Never

ResolvedIsEarned ==
  \A fp \in Fingerprints : store[fp] # NoRecord => Earned(store[fp])

(* Its strengthening: the rows that scans and requests hold, however stale, *)
(* were stored once, and a running scan has its time.                       *)
EarnedInv ==
  /\ ResolvedIsEarned
  /\ \A s \in Scanners, fp \in Fingerprints :
       existing[s][fp] # NoRecord => Earned(existing[s][fp])
  /\ \A o \in Operators : change[o] # NoChange => Earned(change[o].rec)
  /\ \A s \in Scanners : pc[s] # "idle" => now[s] # Never

(* Whatever overlaps, fails or crashes: a stored finding stays stored and   *)
(* keeps its ID and FirstSeen, also when two scans insert it.               *)
IdentityIsStable ==
  [][\A fp \in Fingerprints :
       store[fp] # NoRecord =>
         /\ store'[fp] # NoRecord
         /\ store'[fp].born = store[fp].born]_store

(* Whatever overlaps, fails or crashes: once nothing runs, there was news   *)
(* of exactly the findings that are stored, if only news that got lost.     *)
StoredIsTold ==
  Quiet =>
    \A fp \in Fingerprints : store[fp] = NoRecord <=> told[fp] = "none"

(* A scan opens what is new or resolved and resolves what is open or        *)
(* acknowledged; every other change of status is the operator's.            *)
ScanMoves ==
  {<<"open", "resolved">>, <<"acknowledged", "resolved">>, <<"resolved", "open">>}

StatusIsOperators ==
  [][\A fp \in Fingerprints :
       /\ store[fp] # NoRecord
       /\ store'[fp].status # store[fp].status
       => \/ <<store[fp].status, store'[fp].status>> \in ScanMoves
          \/ \E o \in Operators : PutFinding(o)]_store

(* "suppressed is the user's call": no scan takes a finding out of it.      *)
SuppressedIsOperators ==
  [][\A fp \in Fingerprints :
       /\ store[fp] # NoRecord
       /\ store[fp].status = "suppressed"
       /\ store'[fp].status # "suppressed"
       => \E o \in Operators : PutFinding(o)]_store

(* A finding is resolved only when the last ResolveAfter scans, or more,    *)
(* did not report it, aborted scans included.                               *)
ResolvedIsLongUnseen ==
  \A fp \in Fingerprints :
    store[fp] # NoRecord /\ store[fp].status = "resolved" =>
      store[fp].resolvedAt >= store[fp].seenAt + ResolveAfter

(* What the notifier is given is so in the store when it is given: a scan   *)
(* that fails half way announces nothing it did not write.                  *)
NewsIsStored ==
  [][\A fp \in Fingerprints :
       told'[fp] \notin {told[fp], "lost"} =>
         /\ store[fp] # NoRecord
         /\ store[fp].status = IF told'[fp] = "opened" THEN "open"
                               ELSE "resolved"]_told

(* Once nothing runs, the last news of every finding matches the store,     *)
(* unless a failure swallowed it: "resolved" for those that carry a         *)
(* resolution time, "opened" for the others, none for those that are not    *)
(* stored.                                                                  *)
NewsMatchesStore ==
  Quiet => \A fp \in Fingerprints :
    told[fp] # "lost" =>
      told[fp] = IF store[fp] = NoRecord THEN "none"
                 ELSE IF store[fp].resolvedAt # Never THEN "resolved"
                 ELSE "opened"

(* "previously resolved -> reopen (notify)": a scan that takes a finding    *)
(* from resolved to open lists it in NewlyOpen.  Overlapping scans do not   *)
(* keep it: the row may be resolved after the scan has listed it as open.   *)
ReopenIsAnnounced ==
  [][\A fp \in Fingerprints :
       /\ store[fp] # NoRecord
       /\ store[fp].status = "resolved"
       /\ store'[fp].status = "open"
       => \/ \E s \in Scanners : fp \in opened'[s]
          \/ \E o \in Operators : PutFinding(o)]_store

(***************************************************************************)
(* The lifecycle a sequence of scans that do not overlap implements: every *)
(* write to the store is one of its steps.                                 *)
(***************************************************************************)

LifecycleOf(rec) ==
  IF rec = NoRecord
  THEN [status |-> "none", misses |-> 0, closed |-> FALSE]
  ELSE [status |-> rec.status,
        misses |-> IF rec.streak < ResolveAfter THEN rec.streak ELSE ResolveAfter,
        closed |-> rec.resolvedAt # Never]

Owed(fp) ==
  IF \E s \in Scanners : fp \in resolved[s] THEN "resolved"
  ELSE IF \E s \in Scanners : fp \in opened[s] THEN "opened"
  ELSE "none"

Lifecycle == INSTANCE FindingLifecycle WITH
  finding <- [fp \in Fingerprints |-> LifecycleOf(store[fp])],
  owed <- [fp \in Fingerprints |-> Owed(fp)],
  told <- told

(* Scans and status requests that do not overlap do to each finding, and    *)
(* tell about it, what FindingLifecycle allows, errors and crashes included.*)
ImplementsLifecycle == Lifecycle!Spec
=============================================================================
