# TenantWatch in TLA+

TenantWatch scans Microsoft 365 and Google Workspace tenants for security
posture, keeps the findings of every scan in a SQLite table that resolves them
by itself once they are gone, and tells the operator what opened and what was
resolved.  This directory holds TLA+ modules of that program, the TLC
configurations that check them on small instances, and proofs checked by TLAPS.
Paths below are relative to the repository's `src/`.

## 1. The system

One binary (`cmd/tenantwatch/main.go`) wires these parts together:

```
            AddTarget, RemoveTarget, ScanNow, Stop
  web.Server ---------------------------------> sched.Scheduler
      |                                            |  scanOne, on a worker
      | Get, Upsert (a finding's status),          v
      | SaveTarget, DeleteTarget          tenant.Collector.Collect
      |                                      | MultiSource.Snapshot: graph / gws / dnsauth,
      |                                      |   with a token of MultiSource's cache
      |                                      | Evaluate: the checks
      v                                      v
  store (SQLite) <------------------- store.Engine.Reconcile
                                             | ReconcileResult, by OnResult
                                             v
                                      notify.Dispatcher ----> Channels
```

| Component | State it keeps | Operations | What makes it correct |
|---|---|---|---|
| Reconcile engine (`store/reconcile.go`) | none of its own: the `findings` rows (status, streak of misses, first and last seen, resolved at) | `Reconcile` | a finding resolves after `ResolveAfter` misses and not before; what changed is announced; the operator's decisions stand |
| SQLite store (`store/sqlite.go`) | tables of findings, targets, challenges | `Upsert`, `Get`, `ListByTarget`, target rows | identity and first-seen time never change |
| Scheduler (`sched/scheduler.go`) | targets, per-loop backoff maps, worker semaphore, wait group, context | `Start`, module loop, `AddTarget`, `RemoveTarget`, `ScanNow`, `scanOne`, `Stop` | bounded workers that come back; every registered target is scanned for ever; `Stop` waits |
| Dispatcher (`notify/notify.go`) | pending events, seen keys, window timer, closed flag, sends in flight | `Enqueue`, `Flush`, `Close`, `sendWithRetry` | every accepted event leaves once, batches are bounded, nothing is stranded, `Close` is final |
| Collector and checks (`tenant/`) | none | `Collect`, `Evaluate` | findings are what is wrong with the tenant as far as its pages show, blind spots are notes; a sign-in detection finds every hop and every spray in its window |
| Providers (`graph/`, `gws/`, `dnsauth/`) | none | `Snapshot`, one call per area | an area that was not read is not judged; what the pages of an area show is |
| Credentials and tokens (`tenantwatch/source.go`) | token cache | `Snapshot` routing, token requests | no token expires under a scan; a refused one does not stay |
| Dashboard (`web/server.go`) | activation, license file, saved targets | finding status, add and remove target, scan now, license | limits hold; saved targets are the running ones |
| License and tiers (`license/`, `tenantwatch/tiers.go`) | none | `Activate`, limits | a key that is expired or unreadable when it is given or read runs on the free limits; the file gives the edition in force |
| AI Assist (`web/ai.go`, `internal/aiclient/`) | none | summarise with retries and a deadline | narration never states a severity the engine did not give, unless nothing else is left of it |
| Domain verification (`verify/`) | challenges | issue, verify | not wired into this binary |
| Identifiers, HFS export, demo | none | | formatting and seeding |

How they interact: the scheduler's goroutines share one semaphore, one store and
one dispatcher.  Three kinds of goroutine may scan one target at the same time
(a sweep, the scan `AddTarget` starts, a `ScanNow` request), and HTTP handlers
write the same finding rows.  The engine has no lock; `store.go:27` calls
cross-goroutine safety "the engine's concern".

What is hard to test here, and therefore what the properties are about:
overlapping scans and status requests on stale rows; a store error or a crash in
the middle of a scan; snapshots torn by a tenant that changes between two calls,
or with areas missing, or cut off at a page; window timers that fire while a full
batch or `Close` ends their window; worker slots and wait-group counts on every
way out of a scan; `Stop` against scans that still start; loops over sign-ins at
equal times and at the ends of their windows; scans that fill one token cache at
once; dashboard requests whose halves interleave, fail, or are cut off by a
restart.  `PROJECT.json` lists each of these hazards at its line with the
properties that cover it.

## 2. The modules

| Module | Models | Kind |
|---|---|---|
| `FindingLifecycle` | what the engine promises of one finding | abstract specification |
| `Reconcile` | `Engine.Reconcile`, the rows it writes, the status handler, store errors, crashes | detailed; refines `FindingLifecycle` when scans do not overlap |
| `Dispatcher` | `notify.Dispatcher` | component |
| `Scheduler` | `sched.Scheduler` with its one module | component |
| `Posture` | `Collect`: `Snapshot` call by call, `Evaluate`, and what scans make of it | composition of providers, checks and engine |
| `SignIns` | `checkCountryHop` and `checkSprayLanded`, loop by loop | algorithm against a definition over pairs and sets of events |
| `Tokens` | `MultiSource`: routing, token cache, timeouts | component |
| `Dashboard` | the handlers for targets and license, their tables and files, start and exit of the process | composition of `web.Server`, scheduler's registration, store, license and `main` |
| `*_proofs` | theorems about the module of that name | proofs |
| `MC*` | instances for TLC | model checking |

### FindingLifecycle

For each fingerprint: the stored status, the misses in a row, whether it carries
a resolution time (`closed`), the change a running scan owes the notifier
(`owed`) and what became of the last change before (`told`: the news given, or
`lost`).  A scan is one `Report` or `Miss` per finding; `Decide` is the
operator; `Tell` and `Lose` are the ends a scan may come to.  It is the
vocabulary in which the engine's promise is stated; `Reconcile` implements it.

### Reconcile

`Scanners` are goroutines inside `scanOne`, `Operators` are requests inside
`handleFindingStatus`.  Each call on the store is an action: `ListByTarget`,
then one `Insert`, `Refresh` or `Reject` per fresh finding in the report's
order, then one `CountAbsent` per row that is due, then `Return`, which hands
the result to `OnResult`.  `GetFinding` and `PutFinding` are the two halves of a
status request.  `Fail` is an error of the call that is next: `scanOne` drops
the result, so what was written is never announced.  `Crash` ends everything
that runs and keeps the rows.

Data: time is the number of scans started (a later `now` is a larger number);
`born` stands for the identifier and first-seen time, which are set together;
`seenAt` for last-seen time and everything refreshed with it (title, severity,
evidence).  `told` and `failures` are not program state: the first records what
the notifier was given, the second bounds errors and crashes.  `Return` hands
the whole result over in one step; in the code `BindScheduler` enqueues event by
event, which `Dispatcher` models by enqueueing one at a time.

### Dispatcher

An event is a fingerprint, a kind (opened or resolved) and how many of that kind
came before.  They come in any order: overlapping scans may open a finding twice,
and an operator's reopening makes it resolve twice (`MaxChanges` bounds each).
`Enqueue`, `Flush` and `Close` are atomic because they hold `d.mu`; the timer is
not: `TimerFires` starts a goroutine that waits for the mutex (`flushes`), and by
the time it gets it another window may have begun.  `FlushLocked` is the common
tail.  Each digest is sent to each channel by a goroutine (`Send`) that succeeds,
retries, or gives up after `Retries` attempts.  `settled` is history: what every
channel took or gave up on.  Retry delays are left out, since nothing waits for
them but the goroutine itself.  A finding that opens, resolves and opens again
within one window leaves as one "opened" and one "resolved" event: the second
opening is a duplicate to `seen`.  `OnlyExcusedEventsDropped` names that as the
excuse it is.

### Scheduler

`loop` is the module loop's place, `todo` the rest of the snapshot the sweep
ranges over, `gate` and `failures` the loop's `nextOK` and failure counts, `job`
what each goroutine does, `sem` and `wg` the counters behind the semaphore
channel and `s.wg`.  Goroutines begin in `SweepScans`, `AddTarget` (which checks
the context under the lock and calls `wg.Add` after it: `AddSpawns`) and
`ScanNow`; they pass through `Acquire` or `GiveUp`, and end in `ScanReturns`.
Time passes in `Tick`; the jitter on the interval is left out, as no property
depends on it.  A scan is one step here: `Reconcile` and `Posture`
look inside.

### Posture

A posture is a set of facts (the users there are, those enabled, admins, enrolled
in MFA, and so on) and what of them is on the pages a scan reads: one page of the
users, of the MFA report and of the grants, ten of the sign-in log.  Both are
arbitrary, so a page may hold all or nothing, and things move between pages.
`OnPages` is what a scan can see.  Users beyond the page do not exist for it:
their roles and sign-ins with one factor are dropped.  A Microsoft user whose
entry is beyond the MFA report's page is taken to have no MFA.  `ceiling` is the
log being longer than ten pages, which leaves a note; Microsoft's log may also
stop early without one (a next link of an unexpected shape), and a page then just
lacks the rest.

A scan reads call by call, in the provider's order, and the tenant may change
between two calls.  A call answers, or fails: without a token or a user list the
scan ends in an error; the other failures leave an area unassessed, with a note,
except the MFA report, which leaves none, and DNS, where a failed lookup is a
missing record.  `Evaluate` is translated check by check with its guards on
`Assessed`.  `Reconcile` then opens and resolves rows.

`Problems` is the reference: what is wrong with given facts, in terms of users,
apps and settings rather than of what was read when.  `steady` and `past` are
history: the problems the pages showed all the time since the scan began, and, of
the last `ResolveAfter` scans, which problems were there throughout, which of those
lay in areas the scan assessed, and which notes were due.

So the properties are about the part of the tenant the pages show.  About the
rest there is `AssessedIsComplete`, which fails (section 3).

Left out: severities, titles and evidence; which events make an incident
(`SignIns`); the mail-forwarding check, which never runs because no provider
assesses its area.  An app is what its finding is filed under: the app's id, or
the client's when the app's entry is beyond the page of service principals; an app
whose entry moves there is another member of `Apps`.

### SignIns

The log is fetched before and does not change.  Each detection ranges over the
groups of its map (`Take`, in any order), sorts a group (`Place`, event by event:
`sort.Slice` leaves events of the same time in any order) and runs its loop, one
iteration to an action: `HopSkips`, `HopMoves` and `HopReports` are the three ways
through the body of `checkCountryHop`, `HopEnds` is its second loop and the end of
the group; `SprayPasses` and `SprayDecides` are those of `checkSprayLanded`.
`HasHop` and `HasLandedSpray` are the reference definitions: they speak of any two
events, and of any set of failures, and of no order or loop.

The other two detections are not loops over related events: one legacy login, or
one single-factor login of an administrator, opens a finding each, which
`Posture` covers.  Counting them per client only fills evidence.

### Tokens

Each scan runs one at a time through the steps of `m365Token` and `gwsToken`
(which differ in how the request is signed): the lookup, the request, the answer,
`store`, and the reading with the token.  The lookup and the store hold the lock;
the request between them does not.  The token's life begins when the cloud issues
it, and the expiry the program computes when the answer has been read; `Tick`
counts both down, and with them what is left of the scan's context.
A token that is revoked is refused from then on; the program does not notice.
The program's margin of two minutes is more than two scan timeouts of thirty
seconds (`MarginCoversTwoScans`): what the answer may be late and what the scan
may take.

### Dashboard

`Requests` are handlers at work, each in its own goroutine of the HTTP server.
An add counts, checks, adds and saves, in four steps; a remove deregisters and
deletes; a license is activated, its file truncated and written, and the
activation swapped.  Every write to the disk may fail where the code handles it.
`Crash` ends the process at any step, which is also what a signal does: `main`
returns with `ListenAndServe` and does not wait for handlers.  `Boot` reads the
table and the file again and refuses to start when a chat channel is asked for
that the edition does not include.

A target is its canonical name (what `ValidateTarget` makes of the operator's
spelling); the expired keys are a set that grows; a signature is membership in
the set `Keys`.  Only an activation and a boot look at a key's expiry: a key that
expires while it is in force stays in force, and in the file, until the next
activation or restart.  `muddled` and `keyMuddled` are history: the targets, and whether
it is the license, whose last request failed at the disk or overlapped another.
They name the excuse of the properties, and shrink again: the next request that
neither fails nor overlaps, or a restart, puts the target right.

## 3. What the runs check

| Run | Question | Properties |
|---|---|---|
| `lifecycle` | Is the promise itself coherent, and does a finding nobody reports end? | `NewsMatchesFinding`, `UnreportedSettles` (liveness) |
| `reconcile_sequential` | Do scans and requests that do not overlap keep the promise, with an error or a crash at any call? | `ImplementsLifecycle` (refinement), `NewsMatchesStore`, `NewsIsStored`, `ResolvedIsLongUnseen`, `StatusIsOperators` |
| `reconcile_overlap` | What still holds when everything interleaves? | `ResolvedIsEarned`, `StoredIsTold`, `IdentityIsStable` |
| `dispatcher` | Does every accepted event leave once, in bounded batches, before `Close` returns? | `NothingStranded`, `BatchesAreBounded`, `EventsLeaveOnce`, `CloseIsFinal`, `OnlyExcusedEventsDropped`, `PendingIsSettled` (liveness) |
| `scheduler` | Are workers and wait group kept right on every path? | `WorkersBounded`, `GroupCounts`, `StopWaitsForSweeps` |
| `scheduler_live` | Is every target scanned for ever, whatever the others do, and does `Stop` return? | `RegisteredIsScanned`, `RemovedGoesQuiet`, `StopTerminates` (liveness) |
| `posture` | Do the findings follow the tenant through torn and partial snapshots? | `ReadProblemsStayOpen`, `SettlesOnTenant` |
| `signins` | Does one pass over the sorted log find every hop and every landed spray, and nothing else? | `HopsAreExact`, `SpraysAreExact` |
| `tokens` | Can scans that fill the cache together be left with a token that runs out, or that is revoked for good? | `TokenOutlivesScan`, `EventuallyClean` (liveness) |
| `dashboard` | Is what runs, and the edition in force, what a restart brings back, and how far may the limit be overrun? | `SavedIsRunning`, `KeyInForceIsStored`, `LimitOverrunIsBounded`, `RestartKeepsChoices` |

Each of these runs also checks its module's `TypeOK`, except `reconcile_overlap`
and `scheduler_live`.  Two runs end in a counterexample, each against a
sentence of the repository:

| Run | What the code does | What the repository says |
|---|---|---|
| `reconcile_suppressed` | a scan that listed its rows before the operator suppressed a finding writes the old status back | `store/reconcile.go:95` "suppressed is the user's call"; `store/reconcile_test.go:182` |
| `posture_resolved` | two scans that cannot read an area resolve its findings | `docs/CONCEPTS.md:47` "nothing can be marked resolved while remaining true" |

More of what the code does differs from what the repository says of it.  The
properties with a configuration are defined in their modules; TLC finds each
violated when it is checked under that configuration:

| Property and configuration | What the code does | What the repository says |
|---|---|---|
| `ReopenIsAnnounced`, `MCReconcileOverlap.cfg` | of two overlapping scans one resolves a finding and the other takes it back to open without listing it in `NewlyOpen` | `store/reconcile.go:15` "previously resolved → reopen (notify)" |
| `StopWaitsForAll`, `MCScheduler.cfg` | `Stop` returns while a scan of `ScanNow`, on the request's context and wait group, still runs | `sched/scheduler.go:196` "waits for in-flight scans to finish" |
| `BlindSpotsAreNoted`, `MCPosture.cfg` with `"mfa"` in `Fallible` | when the MFA report cannot be read, no note says so | `graph/graph.go:52` "becomes an honest Note" |
| `AssessedIsComplete`, `MCPosture.cfg` | users, grants and log entries beyond the pages a scan reads are not judged, in areas marked as assessed; only for the sign-in log a note says so | `graph/graph.go:52` "never a false \"all clear\""; `gws/gws.go:70` "The Directory API returns these fields for every user in one call" |
| (`OnPages` of `Posture`) | a Microsoft user beyond the MFA report's page is reported without MFA | `tenant/state.go:48` "instead of firing a false \"all clear\" or a false alarm" |
| `BlockedDNSIsSkipped`, `MCPosture.cfg` | failed lookups are records that are not there: the area is assessed and a finding opens | `docs/INSTALL.md:84` "If DNS is blocked, the email-authentication check is skipped (no false findings)" |
| `ExpiredFallsBack`, `MCDashboard.cfg` | a key that expires while it is in force keeps its edition until the process restarts | `license/license.go:11` "enforcement falls back to the free tier's limits"; `license/license.go:38` "any invalid/expired key" |
| (`Starts` of `Dashboard`) | a restart after the license expired, or was cut off while its file was written, ends at once when a Slack or Telegram channel is asked for | `license/license.go:11` "An EXPIRED key never bricks the product ... scanning never stops" |
| (`EffLimit` of `Dashboard`) | a tier the product's table lacks has the ten targets of the generic free tier, not the one of the product's | `tenantwatch/tiers.go:52` "An unknown tier in a signed key falls back to the free edition ... the same rule limitsFor applies to capacity" |

### Bounds

- `lifecycle`: two findings, because `Tell` and `Lose` are the only steps that
  touch two; `ResolveAfter` 2, the value `tenant/collector.go` sets.
- `reconcile_sequential`: two findings, reports of up to two entries (so a
  fingerprint may be reported twice, and a malformed one may come between), four
  scans: two to resolve, one to reopen, one more; one error or crash.
- `reconcile_overlap`: one finding, two scanners and one request.  The engine
  treats findings independently of one another, so the interleavings that matter
  are those on one row; with two scanners the first to list may be the last to
  write.  Four scans, one error or crash.  Scanners are interchangeable
  (symmetry), and every property of the run treats them so.
- `dispatcher`: two findings and batches of three, so that a window may be closed
  by size, timer or `Close`, and may hold the opening and the resolution of one
  finding when its opening comes again; one finding is below the minimum
  severity, so that only its resolution goes; the other opens twice.  Events come
  in any order.  Two channels with two attempts each.
- `scheduler`: two targets, three goroutines for two workers, so that one waits;
  failures are counted to 2 and delays are 1 and 2, so that backoff reaches its
  maximum; interval 1.  Targets and goroutines are interchangeable.
- `scheduler_live`: one worker and two goroutines, where starvation would show;
  the operator adds no target while it runs, since `AddTarget` only starts an
  earlier scan.  No symmetry, as liveness is checked.
- `posture`: three users, two apps, two incidents; two postures that share no
  problem, so a change between any two calls tears the snapshot, and whose pages
  leave out something of each kind: a user (an admin without MFA who signs in with
  one factor), another's entry in the MFA report, an app's grants, an incident;
  in one the log is longer than its pages.  In each scan one change or one failure
  (of an essential call, a noted one, or DNS).  The admin limit is 1 instead of 5.
  History is `ResolveAfter` scans long, and scans go on without bound.
- `signins`: every log of up to four events out of fourteen kinds of each
  detection: one user with two countries or none at four times, and events that
  must not count (a failure, another user, another address, none); two accounts,
  one address.  The windows are 2, so that gaps below, at and above them occur;
  a spray is three failures on two accounts instead of ten on five, so that a
  fourth event may be the success, or one failure too early.  The order of a log
  is of no account: the detections sort it.
- `tokens`: two scans, because stores race in pairs; two domains of one tenant
  that share a key, and a domain without credentials; a scan timeout of 2 and a
  margin of 5, the least that `MarginCoversTwoScans` allows; tokens that live
  longer than stated, as stated, too short for a scan, and without a statement;
  one revocation.
- `dashboard`: two targets and two requests, so that an add meets an add or a
  remove of the same target or of another, and two license requests overlap; an
  edition without a limit, one of a tier the table lacks (limit 2) and the free
  one (limit 1), so that each limit is met and a restart may find more targets
  than it allows; one disk error and one exit.  Targets and requests are
  interchangeable.

`CHECK_DEADLOCK FALSE` is set where a bound ends the behaviour (scans, changes),
where the detections are done, and for the scheduler, which stops for good.

### Fairness

- `FindingLifecycle`: the module loop scans for ever, and a scan that does not
  report an open or acknowledged finding counts the miss, so misses are fair.
  Reports are not: a finding that was fixed need never come back, which is the
  case `UnreportedSettles` is about.  A scan that owes news hands it over or fails.
- `Dispatcher`: a timer fires, a goroutine that waits for the mutex gets it, and
  `Channel.Send` returns because `sendWithRetry` gives it 15 seconds.
- `Scheduler`: weak fairness of timers and goroutines.  `Acquire` is strong:
  senders blocked on a Go channel are served in order.  `LoopExits` is strong:
  the loop sleeps again and again with its cancelled context ready, and Go's
  `select` picks among ready cases at random, so it cannot pick the timer for
  ever.  `Sweep` is strong only because the model bounds the goroutines: with
  all of them busy a sweep must wait in the model, as it never does in the code.
  `ScanReturns` is weak because `ScanTimeout` bounds `Collect`.
- `Tokens`: time passes, and a scan whose context is over ends, because every
  request carries it.  Nothing is assumed of the cloud's answers.

## 4. What is proved

TLAPS proves these for every value of the constants that meets the assumptions
the modules name: thresholds, sizes and delays are positive numbers, special
values are distinct, users, targets, requests and goroutines are finite sets
(`UsersAreCounted`, `SetsAreFinite`, `GoroutinesAreFinite`).  Every safety
invariant and every safety action property of the passing runs is a theorem.

### The abstract lifecycle

`FindingLifecycle_proofs`: `TypeCorrect`, and `NewsAlwaysMatch`.  News alone is
not inductive: whether a resolved finding carries its resolution time depends on
how it got there, so the invariant is `NewsMatchesFinding /\ ResolvedIsEarned`.

### Reconcile, whatever overlaps

- `TypeCorrect`; `ResolvedAlwaysEarned`, for any number of scanners and requests,
  overlapping in any way, with errors and crashes.  The strengthening `EarnedInv`
  says of every row a scan or request holds what the property says of the stored
  ones: a stale row was once a stored row, and writing it back whole keeps status,
  streak and time together.  It also says that a running scan has its time, so
  that "resolved at" is never the empty time.
- `IdentityAlwaysStable` is an action property and follows from the type
  invariant, because `Upsert` keeps the identity of a row that is there.
- `StoredAlwaysTold`: `ToldInv` accounts for every stored finding while scans
  run: it was told of, or lost, or some running scan has it among what it will
  hand over.  Two scans may insert the same finding, so "some scan" is all that
  can be said, and each way a scan may end must be shown to discharge it.

### Reconcile, when nothing overlaps

The following theorems have the hypothesis `Isolated`.  The program does not
ensure it: three kinds of goroutine scan a target, and the run
`reconcile_suppressed` shows what an overlap does to an operator's decision.  So
they say what the engine keeps of its promise as long as scans and requests about
a target do not overlap, and errors and crashes are still included.

The invariant of all of them is `SequentialInv`: one scanner or request is at work
(`OneAtATime`), and what it holds is up to date (`UpToDate`): each fingerprint of
the scan is as it was listed, or as the report left it, or as the count of misses
left it; a request holds the stored row.  From it follow `NewsAlwaysStored` and
`StatusAlwaysOperators`.  `NewsAlwaysMatches` adds `HeardInv` (until a scan
returns, the last news of each finding matches the row the scan read), and
`ResolvedAlwaysLongUnseen` adds `CountedInv` (the misses of a row are no more than
the scans since it was last seen, and the scan at work is later than all of them).

`LifecycleImplemented` is the refinement: under the mapping of `Reconcile.tla`
the initial states map to initial states, and each step maps to a step or a
stutter.  The cases that are not stutters have a lemma each: `ReportRefines`
(an insert or refresh is a `Report`), `AbsentRefines` (a counted absence is a
`Miss`), `ReturnRefines` (handing over the result is a `Tell` of all that is
owed, or nothing is owed), and `LossRefines` (an error or a crash is a `Lose`).

### Dispatcher

- `TypeCorrect`; `NeverStranded`, strengthened by "a fired timer has its `Flush`
  under way", which is what a stopped timer that fired anyway could break.
- `EventsAlwaysLeaveOnce`, `CloseIsAlwaysFinal` and `DropsAreExcused`, by
  `WindowInv`: `seen` is exactly the keys of the open window, an event is made
  before it is sent, no window opens after `Close`.
- `BatchesAlwaysBounded`, with the finiteness of the pending set.

### Scheduler

`TypeCorrect`, `WorkersAlwaysBounded`, `GroupAlwaysCounts` and `StopAlwaysWaits`,
for any number of targets, goroutines and workers.  The counters behind the
channel and the wait group are compared with cardinalities of sets of goroutines;
each step moves one goroutine between those sets, and the lemmas on relabelled
goroutines say by how much that changes the counts.  `StopAlwaysWaits` follows
from the count: a wait group at zero leaves neither loop nor sweep's scan, and
only the loop, or an add that saw the context alive, adds to it.  That no back-off
exceeds `RetryMax` is a fact about a recursive function (`BackoffIsCapped`); it
is proved from a least counterexample, as induction theorems cannot be used.

### Posture

`TypeCorrect`, `ReadProblemsAlwaysOpen` and `AlwaysSettlesOnTenant`, for any
users, apps and incidents, any set of postures and any pages, any number of
failures and of changes in a scan, and any `ResolveAfter`.  They speak of what the
pages show; that this is all there is cannot be proved, since it is false.

- What the calls of a torn scan saw together may never have been.  `Mix` is the
  facts a scan is left to judge: what its calls told so far, and what the pages
  show now where none told yet.  `Tracked` says that what was wrong since the scan
  began is wrong with `Mix`: each step replaces parts of `Mix` by parts of facts
  that have those problems too, and problems that two sets of facts share are
  shared by every mixture of them (`MixedKeepsProblems`), because a problem about
  one user, app or setting is a conjunction of conditions on single fields.  When
  all calls are done, a problem in areas that were assessed is found
  (`ReadIsFound`).
- `Kept` counts from there: a finding that was read `n` scans ago is open and has
  missed at most `n`.
- `Undisturbed` says that a scan nothing disturbed knows what the pages show, so
  it finds what they show wrong in its areas, the notes due (`NotesDue`, with the
  one on a log longer than its pages), and nothing else (`ExactFinds`, with
  `FoundIsShown` for "nothing else"); `Forgotten` counts the misses of everything
  such scans did not find.

### SignIns, Tokens, Dashboard

- `SignIns_proofs`: `TypeCorrect` and `HopsAreAlwaysExact`, for every log.  The
  invariant says that the events placed and those left are the group's
  (`Members`), that those placed are in order (`Sorted`), and, of a user without
  a finding, that `last` is the last event with a country and that no two events
  before `i` are a hop (`Scanned`).  The step is `NoHopFromLast`: if the next
  event is no hop from the last one, it is none from an earlier one either, for
  either the earlier one and the last would have been a hop, or the gap is at
  least the window.
- `SpraysAreAlwaysExact`: in the group at work no burst so far was a spray, or the
  address is reported, or it has no spray that landed (`SprayScanned`); addresses
  reported have one (`SprayReported`), and those done with that have one are
  reported (`SprayMissed`).  `SprayIsMet` is the step: any set of failures that is
  a spray may be replaced by the burst of its earliest failure, which the loop
  meets, with no later start.  The loop gives an address up at the first spray
  without a success after it: then no spray of the address landed.
- `Tokens_proofs`: `TypeCorrect` and `NoScanOutlivesItsToken`, from
  `MarginCoversTwoScans` and `CloudKeepsItsWord` (a token lives as long as the
  cloud says).  The strengthening bounds how far a cached expiry may be later
  than the token's own: by the time the answer was on its way, which is at most a
  scan timeout.
- `Dashboard_proofs`: `TypeCorrect`, `TargetsAreSaved`, `LicenseIsStored` and
  `RestartsKeepChoices`, for any targets, requests, keys and table of limits.
  The strengthening says where every request that has met no other has left its
  target and the file at each of its steps, and of the process that is down what
  the properties say of one that is up.  `OverrunIsAlwaysBounded` counts the
  requests that will pass the check as if they had, and for every wider limit too,
  since the next license may set one (`LimitInv`).

### Only model-checked

Liveness: `UnreportedSettles`, `PendingIsSettled`, `RegisteredIsScanned`,
`RemovedGoesQuiet`, `StopTerminates` and `EventuallyClean` rest on fairness, and
the prover does not handle `ENABLED`.  The properties of the two runs that end in
a counterexample are false of the code, and so no theorems.  The model itself is
not proved to be the program: that is what the map of definitions to source
lines in `PROJECT.json` is for.

## 5. What is not modelled

Formatting and I/O: the messages of the channels, HTTP and JSON decoding, the
spelling of a target, ULIDs, the HFS field mapping, the demo.  AI Assist: the
client keeps no state, makes one attempt (`web/ai.go` sets `WithMaxRetries(0)`)
and is otherwise prompting, redaction and schema checks.  Domain verification:
shared framework code that this binary never wires in.  The cryptography of
licenses and tokens.  The order of findings in a digest (`sortBySeverity`).
Retention: nothing calls `PruneResolvedBefore`.

Two dashboards in different processes on one database, and several modules in
one scheduler, are possible in the framework and not in this binary.

## 6. Plan

1. *Core* (done): `FindingLifecycle`, `Reconcile`, `Dispatcher`, `Scheduler`,
   `Posture`, with their proofs.
2. *The rest of the system* (done): `SignIns`, `Tokens`, `Dashboard`, the exit of
   the process, with their proofs.
3. *Proofs* (done): every safety property of the passing runs, and the refinement
   of `FindingLifecycle`.
4. What could be proved beyond the runs: under which weaker condition than
   `Isolated` the promises of `Reconcile` hold (no status request between a
   scan's listing and its writes, say); which of them an overlap of two scans
   without a request keeps.

## 7. Running it

`tlc -config MCReconcileOverlap.cfg MCReconcile.tla` checks one run, and
`tlapm Reconcile_proofs.tla` one module of proofs.  `PROJECT.json` names the
module and configuration of every run, the source lines of every definition, and
for every property a mutated definition ("Mutation of ..." in the modules) that
breaks it.
