----------------------------- MODULE Dispatcher -----------------------------
(***************************************************************************)
(* notify.Dispatcher for one module: events from the scheduler's workers   *)
(* gather in a window that a timer or a full batch closes, each digest is  *)
(* sent to every channel by a goroutine of its own that retries, and Close *)
(* flushes and waits.  Enqueue, Flush and Close hold the mutex, so each is *)
(* one step; a timer that fired waits for the mutex like any other.        *)
(***************************************************************************)
EXTENDS Naturals, FiniteSets

CONSTANTS
  Fingerprints,
  Minor,         \* findings below Config.MinSeverity
  Channels,
  MaxBatch,      \* Config.MaxBatch
  Retries,       \* Config.Retries
  MaxChanges     \* bound: how often each key is announced

ASSUME ConfigIsPositive ==
  /\ MaxBatch \in Nat \ {0}
  /\ Retries \in Nat \ {0}

\* What Enqueue calls the key of an event: a finding and what became of it.
Keys == [fp : Fingerprints, kind : {"opened", "resolved"}]

ASSUME MaxChangesIsNat == MaxChanges \in [Keys -> Nat]

\* The n-th event of a key.  Events of one finding come in any order: scans that
\* overlap announce an opening twice, and an operator may reopen in between.
Events == UNION {[key : {k}, n : 1..MaxChanges[k]] : k \in Keys}

\* A goroutine that sends one digest to one channel.
Sends == [digest  : SUBSET Events,
          channel : Channels,
          attempt : 0..(Retries - 1)]

VARIABLES
  changes,   \* how many events of each key were handed to Enqueue
  pending,   \* the events of the open window
  seen,      \* their keys
  timer,     \* d.timer: nil, armed, or fired and not yet reset
  flushes,   \* Flush goroutines of fired timers that wait for the mutex
  close,     \* Close: not called, waiting for the sends (d.closed), returned
  sending,   \* the sends in flight
  settled    \* the events each channel took or exhausted its retries on

vars == <<changes, pending, seen, timer, flushes, close, sending,
          settled>>

Init ==
  /\ changes = [k \in Keys |-> 0]
  /\ pending = {}
  /\ seen = {}
  /\ timer = "nil"
  /\ flushes = 0
  /\ close = "uncalled"
  /\ sending = {}
  /\ settled = [ch \in Channels |-> {}]

-----------------------------------------------------------------------------

\* The sends a digest of these events starts.
NewSends(events) ==
  IF events = {} THEN {}
  ELSE [digest : {events}, channel : Channels, attempt : {0}]

\* Mutation of FlushLocked: the timer is stopped and d.timer not set to nil.
FlushKeepingTimer(events) ==
  /\ timer' = IF timer = "armed" THEN "fired" ELSE timer
  /\ pending' = {}
  /\ seen' = {}
  /\ sending' = sending \cup NewSends(events)

\* Mutation of FlushLocked: d.seen is not made anew.
FlushKeepingSeen(events) ==
  /\ timer' = "nil"
  /\ pending' = {}
  /\ seen' = seen
  /\ sending' = sending \cup NewSends(events)

\* flushLocked on the events gathered so far: the window ends.
FlushLocked(events) ==
  /\ timer' = "nil"
  /\ pending' = {}
  /\ seen' = {}
  /\ sending' = sending \cup NewSends(events)

TooMinor(k) == k.kind = "opened" /\ k.fp \in Minor

\* Mutation of Ignored: d.closed is not looked at.
IgnoredUnlessClosed(k) == TooMinor(k) \/ k \in seen

\* Mutation of Ignored: d.seen is not looked at.
IgnoredUnlessSeen(k) == TooMinor(k) \/ close # "uncalled"

\* Events Enqueue turns away: too minor to announce their opening, too late,
\* or already in the window.
Ignored(k) ==
  \/ TooMinor(k)
  \/ close # "uncalled"
  \/ k \in seen

\* Mutation of Enqueue: > for >=.
EnqueueOneMore(k) ==
  LET events == pending \cup {[key |-> k, n |-> changes[k] + 1]} IN
  /\ changes[k] < MaxChanges[k]
  /\ changes' = [changes EXCEPT ![k] = @ + 1]
  /\ \/ /\ Ignored(k)
        /\ UNCHANGED <<pending, seen, timer, sending>>
     \/ /\ ~ Ignored(k)
        /\ Cardinality(events) > MaxBatch
        /\ FlushLocked(events)
     \/ /\ ~ Ignored(k)
        /\ Cardinality(events) <= MaxBatch
        /\ pending' = events
        /\ seen' = seen \cup {k}
        /\ timer' = IF timer = "nil" THEN "armed" ELSE timer
        /\ UNCHANGED sending
  /\ UNCHANGED <<flushes, close, settled>>

\* One more event of a key is enqueued.
Enqueue(k) ==
  LET events == pending \cup {[key |-> k, n |-> changes[k] + 1]} IN
  /\ changes[k] < MaxChanges[k]
  /\ changes' = [changes EXCEPT ![k] = @ + 1]
  /\ \/ /\ Ignored(k)
        /\ UNCHANGED <<pending, seen, timer, sending>>
     \/ /\ ~ Ignored(k)
        /\ Cardinality(events) >= MaxBatch
        /\ FlushLocked(events)
     \/ /\ ~ Ignored(k)
        /\ Cardinality(events) < MaxBatch
        /\ pending' = events
        /\ seen' = seen \cup {k}
        /\ timer' = IF timer = "nil" THEN "armed" ELSE timer
        /\ UNCHANGED sending
  /\ UNCHANGED <<flushes, close, settled>>

\* time.AfterFunc starts its goroutine; d.timer still holds the timer.
TimerFires ==
  /\ timer = "armed"
  /\ timer' = "fired"
  /\ flushes' = flushes + 1
  /\ UNCHANGED <<changes, pending, seen, close, sending, settled>>

\* That goroutine gets the mutex, perhaps after another window has begun.
Flush ==
  /\ flushes > 0
  /\ flushes' = flushes - 1
  /\ FlushLocked(pending)
  /\ UNCHANGED <<changes, close, settled>>

Close ==
  /\ close = "uncalled"
  /\ close' = "waiting"
  /\ FlushLocked(pending)
  /\ UNCHANGED <<changes, flushes, settled>>

CloseReturns ==
  /\ close = "waiting"
  /\ sending = {}
  /\ close' = "returned"
  /\ UNCHANGED <<changes, pending, seen, timer, flushes, sending,
                 settled>>

-----------------------------------------------------------------------------

\* The goroutine ends, after success or the last failure (OnSendError).
Settle(job) ==
  /\ settled' = [settled EXCEPT ![job.channel] = @ \cup job.digest]
  /\ sending' = sending \ {job}

\* Channel.Send returns nil.
SendSucceeds(job) == Settle(job)

\* Mutation of SendFails: the attempts are counted to Retries inclusive.
SendFailsOnceMore(job) ==
  \/ /\ job.attempt < Retries
     /\ sending' = (sending \ {job}) \cup {[job EXCEPT !.attempt = @ + 1]}
     /\ UNCHANGED settled
  \/ /\ job.attempt >= Retries
     /\ Settle(job)

\* Mutation of SendFails: the goroutine returns on the first error.
SendFailsForGood(job) ==
  /\ sending' = sending \ {job}
  /\ UNCHANGED settled

\* Channel.Send returns an error; the digest may have got through all the same.
SendFails(job) ==
  \/ /\ job.attempt + 1 < Retries
     /\ sending' = (sending \ {job}) \cup {[job EXCEPT !.attempt = @ + 1]}
     /\ UNCHANGED settled
  \/ /\ job.attempt + 1 >= Retries
     /\ Settle(job)

Send(job) ==
  /\ job \in sending
  /\ SendSucceeds(job) \/ SendFails(job)
  /\ UNCHANGED <<changes, pending, seen, timer, flushes, close>>

Next ==
  \/ \E k \in Keys : Enqueue(k)
  \/ TimerFires
  \/ Flush
  \/ Close
  \/ CloseReturns
  \/ \E job \in sending : Send(job)

\* Timers fire, goroutines run, and Send returns: it has a 15 s context.
Fairness ==
  /\ WF_vars(TimerFires)
  /\ WF_vars(Flush)
  /\ WF_vars(CloseReturns)
  /\ WF_vars(\E job \in sending : Send(job))

Spec == Init /\ [][Next]_vars
FairSpec == Spec /\ Fairness

-----------------------------------------------------------------------------

TypeOK ==
  /\ changes \in [Keys -> Nat]
  /\ \A k \in Keys : changes[k] <= MaxChanges[k]
  /\ pending \subseteq Events
  /\ seen \subseteq Keys
  /\ timer \in {"nil", "armed", "fired"}
  /\ flushes \in Nat
  /\ close \in {"uncalled", "waiting", "returned"}
  /\ sending \subseteq Sends
  /\ settled \in [Channels -> SUBSET Events]

(* No window is left open with nobody to close it: while events are pending *)
(* a timer runs or the Flush of a fired one waits for the mutex, also when  *)
(* a full batch or Close stopped a timer that had already fired.            *)
NothingStranded ==
  pending # {} => timer = "armed" \/ (timer = "fired" /\ flushes > 0)

(* No digest, and no open window, exceeds MaxBatch, and a window still open *)
(* is short of it.                                                          *)
BatchesAreBounded ==
  /\ Cardinality(pending) < MaxBatch
  /\ \A job \in sending : Cardinality(job.digest) <= MaxBatch

(* Once Close has returned nothing is left: no event pending, no send in    *)
(* flight, whatever timers still fire and workers still enqueue.            *)
CloseIsFinal ==
  close = "returned" => pending = {} /\ sending = {}

(* No event goes out in two digests, and a digest says one thing of each    *)
(* kind about a finding, however often a window was handed it.              *)
EventsLeaveOnce ==
  /\ \A j, k \in sending :
       j.channel = k.channel /\ j # k => j.digest \cap k.digest = {}
  /\ \A job \in sending : \A d, e \in job.digest : d.key = e.key => d = e
  /\ \A job \in sending : job.digest \cap pending = {}

(* What makes them so: no window opens after Close, seen is the keys of the *)
(* open window, and an event is made before it is sent.                     *)
WindowInv ==
  /\ close # "uncalled" => pending = {}
  /\ close = "returned" => sending = {}
  /\ seen = {e.key : e \in pending}
  /\ \A d, e \in pending : d.key = e.key => d = e
  /\ \A e \in pending : e.n <= changes[e.key]
  /\ \A job \in sending : \A e \in job.digest : e.n <= changes[e.key]

(* Enqueue keeps every event it has no reason to turn away: below the       *)
(* minimum severity and opened, after Close, or a kind of change that the   *)
(* window still holds of that finding.                                      *)
OnlyExcusedEventsDropped ==
  [][\A k \in Keys :
       LET e == [key |-> k, n |-> changes'[k]] IN
       changes'[k] # changes[k] =>
         \/ e \in pending'
         \/ \A ch \in Channels : \E job \in sending' :
              job.channel = ch /\ e \in job.digest
         \/ TooMinor(k)
         \/ close # "uncalled"
         \/ \E d \in pending : d.key = k]_changes

(* Every event a window took in reaches every channel or exhausts its       *)
(* retries there, even if Close comes first.                                *)
PendingIsSettled ==
  \A e \in Events :
    e \in pending ~> \A ch \in Channels : e \in settled[ch]
=============================================================================
