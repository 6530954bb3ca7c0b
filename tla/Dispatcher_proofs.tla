-------------------------- MODULE Dispatcher_proofs --------------------------
(***************************************************************************)
(* Theorems about Dispatcher for any findings, channels, batch size and    *)
(* number of retries.                                                      *)
(***************************************************************************)
EXTENDS Dispatcher, FiniteSetTheorems, TLAPS

(* An event belongs to a key and counts from 1.                             *)
LEMMA EventParts ==
  ASSUME NEW e \in Events
  PROVE  e.key \in Keys /\ e.n \in Nat /\ e = [key |-> e.key, n |-> e.n]
<1>1. PICK k \in Keys : e \in [key : {k}, n : 1..MaxChanges[k]]
  BY DEF Events
<1> QED
  BY <1>1

(* The event Enqueue makes is one.                                          *)
LEMMA NextEvent ==
  ASSUME TypeOK, NEW k \in Keys, changes[k] < MaxChanges[k]
  PROVE  [key |-> k, n |-> changes[k] + 1] \in Events
<1>1. changes[k] + 1 \in 1..MaxChanges[k]
  BY MaxChangesIsNat DEF TypeOK
<1>2. [key |-> k, n |-> changes[k] + 1] \in [key : {k}, n : 1..MaxChanges[k]]
  BY <1>1
<1> QED
  BY <1>2 DEF Events

(* Every send in flight has the shape sendWithRetry gives it.               *)
LEMMA FlushType ==
  ASSUME TypeOK, NEW events \in SUBSET Events, FlushLocked(events)
  PROVE  /\ timer' \in {"nil", "armed", "fired"}
         /\ pending' \subseteq Events
         /\ seen' \subseteq Keys
         /\ sending' \subseteq Sends
<1>1. [digest : {events}, channel : Channels, attempt : {0}] \subseteq Sends
  BY ConfigIsPositive DEF Sends
<1> QED
  BY <1>1 DEF TypeOK, FlushLocked, NewSends

LEMMA DispatcherTyped == TypeOK /\ [Next]_vars => TypeOK'
<1> SUFFICES ASSUME TypeOK, [Next]_vars PROVE TypeOK'
  OBVIOUS
<1>1. ASSUME NEW k \in Keys, Enqueue(k) PROVE TypeOK'
  <2> DEFINE e == [key |-> k, n |-> changes[k] + 1]
             events == pending \cup {e}
  <2>1. e \in Events /\ events \in SUBSET Events
    BY <1>1, NextEvent DEF Enqueue, TypeOK
  <2>2. /\ changes' \in [Keys -> Nat]
        /\ \A l \in Keys : changes'[l] <= MaxChanges[l]
    <3>1. changes[k] + 1 \in Nat /\ changes[k] + 1 <= MaxChanges[k]
      <4>1. changes[k] \in Nat /\ MaxChanges[k] \in Nat
        BY MaxChangesIsNat DEF TypeOK
      <4>2. changes[k] < MaxChanges[k]
        BY <1>1 DEF Enqueue
      <4> QED
        BY <4>1, <4>2
    <3>2. \A l \in Keys : changes'[l] = IF l = k THEN changes[k] + 1 ELSE changes[l]
      BY <1>1 DEF Enqueue, TypeOK
    <3> QED
      BY <1>1, <3>1, <3>2 DEF Enqueue, TypeOK
  <2>3. CASE Ignored(k) /\ UNCHANGED <<pending, seen, timer, sending>>
    BY <1>1, <2>2, <2>3 DEF Enqueue, TypeOK
  <2>4. CASE FlushLocked(events)
    BY <1>1, <2>1, <2>2, <2>4, FlushType DEF Enqueue, TypeOK
  <2>5. CASE /\ pending' = events
             /\ seen' = seen \cup {k}
             /\ timer' = IF timer = "nil" THEN "armed" ELSE timer
             /\ UNCHANGED sending
    BY <1>1, <2>1, <2>2, <2>5 DEF Enqueue, TypeOK
  <2> QED
    BY <1>1, <2>3, <2>4, <2>5 DEF Enqueue
<1>2. CASE TimerFires
  BY <1>2 DEF TypeOK, TimerFires
<1>3. CASE Flush
  <2>1. pending \in SUBSET Events /\ FlushLocked(pending) /\ flushes' \in Nat
    BY <1>3 DEF TypeOK, Flush
  <2> QED
    BY <1>3, <2>1, FlushType DEF TypeOK, Flush
<1>4. CASE Close
  <2>1. pending \in SUBSET Events /\ FlushLocked(pending)
    BY <1>4 DEF TypeOK, Close
  <2> QED
    BY <1>4, <2>1, FlushType DEF TypeOK, Close
<1>5. CASE CloseReturns
  BY <1>5 DEF TypeOK, CloseReturns
<1>6. ASSUME NEW job \in sending, Send(job) PROVE TypeOK'
  <2>1. job \in Sends
    BY DEF TypeOK
  <2>2. CASE Settle(job)
    BY <1>6, <2>1, <2>2 DEF TypeOK, Send, Settle, Sends
  <2>3. CASE /\ job.attempt + 1 < Retries
             /\ sending' = (sending \ {job}) \cup {[job EXCEPT !.attempt = @ + 1]}
             /\ UNCHANGED settled
    <3>1. [job EXCEPT !.attempt = job.attempt + 1] \in Sends
      BY <2>1, <2>3, ConfigIsPositive DEF Sends
    <3> QED
      BY <1>6, <2>3, <3>1 DEF TypeOK, Send
  <2> QED
    BY <1>6, <2>2, <2>3 DEF Send, SendSucceeds, SendFails
<1>7. CASE UNCHANGED vars
  BY <1>7 DEF TypeOK, vars
<1> QED
  BY <1>1, <1>2, <1>3, <1>4, <1>5, <1>6, <1>7 DEF Next

(* Types are correct.                                                       *)
THEOREM TypeCorrect == Spec => []TypeOK
<1>1. Init => TypeOK
  BY MaxChangesIsNat DEF Init, TypeOK
<1> QED
  BY <1>1, DispatcherTyped, PTL DEF Spec

-----------------------------------------------------------------------------

(* The window is closed by a timer or by a Flush that is on its way, for    *)
(* any number of timers that fired while another flush held the mutex.      *)
THEOREM NeverStranded == Spec => []NothingStranded
<1> DEFINE Inv == NothingStranded /\ (timer = "fired" => flushes > 0)
<1>1. Init => Inv
  BY DEF Init, NothingStranded
<1>2. TypeOK /\ Inv /\ [Next]_vars => Inv'
  <2> SUFFICES ASSUME TypeOK, Inv, [Next]_vars PROVE Inv'
    OBVIOUS
  <2>1. ASSUME NEW k \in Keys, Enqueue(k) PROVE Inv'
    BY <2>1 DEF Enqueue, FlushLocked, NothingStranded, TypeOK
  <2>2. CASE TimerFires
    BY <2>2 DEF TimerFires, NothingStranded, TypeOK
  <2>3. CASE Flush
    BY <2>3 DEF Flush, FlushLocked, NothingStranded, TypeOK
  <2>4. CASE Close
    BY <2>4 DEF Close, FlushLocked, NothingStranded
  <2>5. CASE CloseReturns
    BY <2>5 DEF CloseReturns, NothingStranded
  <2>6. ASSUME NEW job \in sending, Send(job) PROVE Inv'
    BY <2>6 DEF Send, NothingStranded
  <2>7. CASE UNCHANGED vars
    BY <2>7 DEF vars, NothingStranded
  <2> QED
    BY <2>1, <2>2, <2>3, <2>4, <2>5, <2>6, <2>7 DEF Next
<1> QED
  BY <1>1, <1>2, TypeCorrect, PTL DEF Spec

-----------------------------------------------------------------------------

(* Ending a window of events that are in no send yet, one of each key,      *)
(* keeps the sends disjoint and their digests unambiguous.                  *)
LEMMA FlushLeavesOnce ==
  ASSUME EventsLeaveOnce, NEW events, FlushLocked(events),
         \A job \in sending : job.digest \cap events = {},
         \A d, e \in events : d.key = e.key => d = e
  PROVE  EventsLeaveOnce'
<1> DEFINE added == [digest : {events}, channel : Channels, attempt : {0}]
<1>1. \A job \in sending' : job \in sending \/ job \in added
  BY DEF FlushLocked, NewSends
<1>2. \A job \in added : job.digest = events
  OBVIOUS
<1>3. \A j, k \in added : j.channel = k.channel => j = k
  OBVIOUS
<1>4. pending' = {}
  BY DEF FlushLocked
<1>5. \A j, k \in sending' :
        j.channel = k.channel /\ j # k => j.digest \cap k.digest = {}
  BY <1>1, <1>2, <1>3 DEF EventsLeaveOnce
<1>6. \A job \in sending' : \A d, e \in job.digest : d.key = e.key => d = e
  BY <1>1, <1>2 DEF EventsLeaveOnce
<1> QED
  BY <1>4, <1>5, <1>6 DEF EventsLeaveOnce

(* It also keeps WindowInv, if the events were made.                        *)
LEMMA FlushKeepsWindow ==
  ASSUME WindowInv, NEW events, FlushLocked(events),
         \A e \in events : e.n <= changes'[e.key],
         \A job \in sending : \A e \in job.digest : e.n <= changes'[e.key],
         close' # "returned"
  PROVE  WindowInv'
<1> DEFINE added == [digest : {events}, channel : Channels, attempt : {0}]
<1>1. \A job \in sending' : job \in sending \/ job.digest = events
  BY DEF FlushLocked, NewSends
<1>2. pending' = {} /\ seen' = {}
  BY DEF FlushLocked
<1> QED
  BY <1>1, <1>2 DEF WindowInv

LEMMA WindowStep ==
  TypeOK /\ WindowInv /\ EventsLeaveOnce /\ [Next]_vars
    => WindowInv' /\ EventsLeaveOnce'
<1> SUFFICES ASSUME TypeOK, WindowInv, EventsLeaveOnce, [Next]_vars
             PROVE  WindowInv' /\ EventsLeaveOnce'
  OBVIOUS
<1>1. ASSUME NEW k \in Keys, Enqueue(k)
      PROVE  WindowInv' /\ EventsLeaveOnce'
  <2> DEFINE e == [key |-> k, n |-> changes[k] + 1]
             events == pending \cup {e}
  <2>1. \A l \in Keys :
          changes[l] \in Nat /\ changes'[l] \in Nat /\ changes[l] <= changes'[l]
    BY <1>1 DEF Enqueue, TypeOK
  <2>2. changes'[k] = e.n /\ ~ (e.n <= changes[k])
    BY <1>1 DEF Enqueue, TypeOK
  <2>3. \A d \in pending : d \in Events /\ d # e /\ d.n <= changes'[d.key]
    <3> SUFFICES ASSUME NEW d \in pending
                 PROVE  d \in Events /\ d # e /\ d.n <= changes'[d.key]
      OBVIOUS
    <3>1. d \in Events /\ d.key \in Keys /\ d.n \in Nat
      BY EventParts DEF TypeOK
    <3>2. d.n <= changes[d.key]
      BY DEF WindowInv
    <3> QED
      BY <2>1, <2>2, <3>1, <3>2
  <2>4. \A job \in sending : \A d \in job.digest :
          d # e /\ d.n <= changes'[d.key]
    <3> SUFFICES ASSUME NEW job \in sending, NEW d \in job.digest
                 PROVE  d # e /\ d.n <= changes'[d.key]
      OBVIOUS
    <3>1. d.key \in Keys /\ d.n \in Nat
      BY EventParts DEF TypeOK, Sends
    <3>2. d.n <= changes[d.key]
      BY DEF WindowInv
    <3> QED
      BY <2>1, <2>2, <3>1, <3>2
  <2>5. \A job \in sending : job.digest \cap events = {}
    BY <2>4 DEF EventsLeaveOnce
  <2>6. CASE UNCHANGED <<pending, seen, timer, sending>>
    <3>1. WindowInv'
      BY <1>1, <2>3, <2>4, <2>6 DEF Enqueue, WindowInv
    <3> QED
      BY <2>6, <3>1 DEF EventsLeaveOnce
  <2>7. ASSUME ~ Ignored(k)
        PROVE  \A c, d \in events : c.key = d.key => c = d
    BY <2>7 DEF Ignored, WindowInv
  <2>8. CASE ~ Ignored(k) /\ FlushLocked(events)
    <3>1. \A d \in events : d.n <= changes'[d.key]
      BY <2>1, <2>2, <2>3
    <3>2. close' # "returned"
      BY <1>1, <2>8 DEF Enqueue, Ignored
    <3>3. WindowInv'
      BY <2>4, <2>8, <3>1, <3>2, FlushKeepsWindow
    <3>4. EventsLeaveOnce'
      BY <2>5, <2>7, <2>8, FlushLeavesOnce
    <3> QED
      BY <3>3, <3>4
  <2>9. CASE /\ ~ Ignored(k)
             /\ pending' = events
             /\ seen' = seen \cup {k}
             /\ UNCHANGED sending
    <3>1. close' = "uncalled"
      BY <1>1, <2>9 DEF Enqueue, Ignored
    <3>2. seen' = {d.key : d \in pending'}
      <4>1. e.key = k
        OBVIOUS
      <4>2. seen = {d.key : d \in pending}
        BY DEF WindowInv
      <4> QED
        BY <2>9, <4>1, <4>2
    <3>3. \A d \in pending' : d.n <= changes'[d.key]
      BY <2>1, <2>2, <2>3, <2>9
    <3>4. WindowInv'
      BY <2>4, <2>7, <2>9, <3>1, <3>2, <3>3 DEF WindowInv
    <3>5. EventsLeaveOnce'
      BY <2>5, <2>9 DEF EventsLeaveOnce
    <3> QED
      BY <3>4, <3>5
  <2> QED
    BY <1>1, <2>6, <2>8, <2>9 DEF Enqueue
<1>2. CASE TimerFires
  BY <1>2 DEF TimerFires, WindowInv, EventsLeaveOnce
<1>3. ASSUME FlushLocked(pending), UNCHANGED changes, close' # "returned"
      PROVE  WindowInv' /\ EventsLeaveOnce'
  <2>1. \A job \in sending : job.digest \cap pending = {}
    BY DEF EventsLeaveOnce
  <2>2. \A d, e \in pending : d.key = e.key => d = e
    BY DEF WindowInv
  <2>3. EventsLeaveOnce'
    BY <1>3, <2>1, <2>2, FlushLeavesOnce
  <2>4. /\ \A e \in pending : e.n <= changes'[e.key]
        /\ \A job \in sending : \A e \in job.digest : e.n <= changes'[e.key]
    BY <1>3 DEF WindowInv
  <2> QED
    BY <1>3, <2>3, <2>4, FlushKeepsWindow
<1>4. CASE Flush
  <2>1. CASE close = "returned"
    BY <1>4, <2>1 DEF Flush, FlushLocked, NewSends, WindowInv, EventsLeaveOnce
  <2>2. CASE close # "returned"
    BY <1>3, <1>4, <2>2 DEF Flush
  <2> QED
    BY <2>1, <2>2
<1>5. CASE Close
  BY <1>3, <1>5 DEF Close
<1>6. CASE CloseReturns
  BY <1>6 DEF CloseReturns, WindowInv, EventsLeaveOnce
<1>7. ASSUME NEW job \in sending, Send(job) PROVE WindowInv' /\ EventsLeaveOnce'
  <2>1. CASE Settle(job)
    BY <1>7, <2>1 DEF Send, Settle, WindowInv, EventsLeaveOnce
  <2>2. CASE sending' = (sending \ {job}) \cup {[job EXCEPT !.attempt = @ + 1]}
    <3> DEFINE again == [job EXCEPT !.attempt = job.attempt + 1]
    <3>1. again.digest = job.digest /\ again.channel = job.channel
      BY DEF TypeOK, Sends
    <3>2. \A j \in sending' : j = again \/ (j \in sending /\ j # job)
      BY <2>2
    <3>3. WindowInv'
      BY <1>7, <3>1, <3>2 DEF Send, WindowInv
    <3>4. EventsLeaveOnce'
      BY <1>7, <3>1, <3>2 DEF Send, EventsLeaveOnce
    <3> QED
      BY <3>3, <3>4
  <2> QED
    BY <1>7, <2>1, <2>2 DEF Send, SendSucceeds, SendFails
<1>8. CASE UNCHANGED vars
  BY <1>8 DEF vars, WindowInv, EventsLeaveOnce
<1> QED
  BY <1>1, <1>2, <1>4, <1>5, <1>6, <1>7, <1>8 DEF Next

LEMMA WindowCorrect == Spec => [](WindowInv /\ EventsLeaveOnce)
<1>1. Init => WindowInv /\ EventsLeaveOnce
  BY DEF Init, WindowInv, EventsLeaveOnce
<1> QED
  BY <1>1, WindowStep, TypeCorrect, PTL DEF Spec

(* No event leaves in two digests, whoever flushes: the timer, a full batch *)
(* or Close.                                                                *)
THEOREM EventsAlwaysLeaveOnce == Spec => []EventsLeaveOnce
BY WindowCorrect, PTL

(* After Close has returned nothing is pending or in flight, and stale      *)
(* timers and late workers change nothing about it.                         *)
THEOREM CloseIsAlwaysFinal == Spec => []CloseIsFinal
<1>1. WindowInv => CloseIsFinal
  BY DEF WindowInv, CloseIsFinal
<1> QED
  BY <1>1, WindowCorrect, PTL

-----------------------------------------------------------------------------

(* A window takes one event at a time and ends with the one that fills it:   *)
(* the window it was in was short of a batch.                                *)
LEMMA OneMoreEvent ==
  ASSUME NEW S, NEW e, IsFiniteSet(S), Cardinality(S) < MaxBatch
  PROVE  /\ IsFiniteSet(S \cup {e})
         /\ Cardinality(S \cup {e}) \in Nat
         /\ Cardinality(S \cup {e}) <= MaxBatch
<1>1. /\ IsFiniteSet(S \cup {e})
      /\ Cardinality(S \cup {e}) =
           IF e \in S THEN Cardinality(S) ELSE Cardinality(S) + 1
  BY FS_AddElement
<1>2. Cardinality(S) \in Nat /\ Cardinality(S \cup {e}) \in Nat
  BY <1>1, FS_CardinalityType
<1> QED
  BY <1>1, <1>2, ConfigIsPositive

(* Ending a window of no more than a batch.                                  *)
LEMMA FlushBounded ==
  ASSUME BatchesAreBounded, NEW events, FlushLocked(events),
         Cardinality(events) <= MaxBatch
  PROVE  BatchesAreBounded' /\ IsFiniteSet(pending')
<1>1. pending' = {}
  BY DEF FlushLocked
<1>2. Cardinality(pending') < MaxBatch /\ IsFiniteSet(pending')
  BY <1>1, FS_EmptySet, ConfigIsPositive
<1>3. \A job \in sending' : job \in sending \/ job.digest = events
  BY DEF FlushLocked, NewSends
<1> QED
  BY <1>2, <1>3 DEF BatchesAreBounded

(* No digest is larger than MaxBatch, and no window waits that has reached   *)
(* it, whichever of a full batch, a timer and Close ends the windows.        *)
THEOREM BatchesAlwaysBounded == Spec => []BatchesAreBounded
<1> DEFINE Inv == BatchesAreBounded /\ IsFiniteSet(pending)
<1>1. Init => Inv
  BY FS_EmptySet, ConfigIsPositive DEF Init, BatchesAreBounded
<1>2. TypeOK /\ Inv /\ [Next]_vars => Inv'
  <2> SUFFICES ASSUME TypeOK, Inv, [Next]_vars PROVE Inv'
    OBVIOUS
  <2>1. ASSUME NEW k \in Keys, Enqueue(k) PROVE Inv'
    <3> DEFINE e == [key |-> k, n |-> changes[k] + 1]
               events == pending \cup {e}
    <3>1. /\ IsFiniteSet(events)
          /\ Cardinality(events) \in Nat
          /\ Cardinality(events) <= MaxBatch
      BY OneMoreEvent DEF BatchesAreBounded
    <3>2. CASE UNCHANGED <<pending, sending>>
      BY <3>2 DEF BatchesAreBounded
    <3>3. CASE FlushLocked(events)
      BY <3>1, <3>3, FlushBounded
    <3>4. CASE Cardinality(events) < MaxBatch /\ pending' = events
            /\ UNCHANGED sending
      BY <3>1, <3>4 DEF BatchesAreBounded
    <3> QED
      BY <2>1, <3>2, <3>3, <3>4 DEF Enqueue
  <2>2. ASSUME FlushLocked(pending) PROVE Inv'
    <3>1. Cardinality(pending) <= MaxBatch
      BY FS_CardinalityType, ConfigIsPositive DEF BatchesAreBounded
    <3> QED
      BY <2>2, <3>1, FlushBounded
  <2>3. CASE Flush \/ Close
    BY <2>2, <2>3 DEF Flush, Close
  <2>4. CASE TimerFires \/ CloseReturns
    BY <2>4 DEF TimerFires, CloseReturns, BatchesAreBounded
  <2>5. ASSUME NEW job \in sending, Send(job) PROVE Inv'
    <3>1. UNCHANGED pending
      BY <2>5 DEF Send
    <3>2. CASE Settle(job)
      BY <3>1, <3>2 DEF Settle, BatchesAreBounded
    <3>3. CASE sending' = (sending \ {job}) \cup {[job EXCEPT !.attempt = @ + 1]}
      <4> DEFINE again == [job EXCEPT !.attempt = job.attempt + 1]
      <4>1. again.digest = job.digest
        BY DEF TypeOK, Sends
      <4>2. \A j \in sending' : j = again \/ j \in sending
        BY <3>3
      <4> QED
        BY <3>1, <4>1, <4>2 DEF BatchesAreBounded
    <3> QED
      BY <2>5, <3>2, <3>3 DEF Send, SendSucceeds, SendFails
  <2>6. CASE UNCHANGED vars
    BY <2>6 DEF vars, BatchesAreBounded
  <2> QED
    BY <2>1, <2>3, <2>4, <2>5, <2>6 DEF Next
<1> QED
  BY <1>1, <1>2, TypeCorrect, PTL DEF Spec

(* What Enqueue drops it has a reason to drop: seen never outlives the       *)
(* window whose keys it holds.                                               *)
THEOREM DropsAreExcused == Spec => OnlyExcusedEventsDropped
<1> DEFINE Excused(k) ==
      LET e == [key |-> k, n |-> changes'[k]] IN
      changes'[k] # changes[k] =>
        \/ e \in pending'
        \/ \A ch \in Channels : \E job \in sending' :
             job.channel = ch /\ e \in job.digest
        \/ TooMinor(k)
        \/ close # "uncalled"
        \/ \E d \in pending : d.key = k
<1>1. ASSUME TypeOK, WindowInv, NEW k \in Keys, Enqueue(k)
      PROVE  Excused(k)
  <2> DEFINE e == [key |-> k, n |-> changes[k] + 1]
             events == pending \cup {e}
  <2>1. e = [key |-> k, n |-> changes'[k]]
    BY <1>1 DEF Enqueue, TypeOK
  <2>2. CASE Ignored(k)
    <3>1. k \in seen => \E d \in pending : d.key = k
      BY <1>1 DEF WindowInv
    <3> QED
      BY <2>2, <3>1 DEF Ignored
  <2>3. CASE FlushLocked(events)
    <3>1. \A ch \in Channels :
            [digest |-> events, channel |-> ch, attempt |-> 0] \in sending'
      BY <2>3 DEF FlushLocked, NewSends
    <3>2. ASSUME NEW ch \in Channels
          PROVE  \E job \in sending' : job.channel = ch /\ e \in job.digest
      BY <3>1
    <3> QED
      BY <2>1, <3>2
  <2>4. CASE pending' = events
    BY <2>1, <2>4
  <2> QED
    BY <1>1, <2>2, <2>3, <2>4 DEF Enqueue
<1>2. ASSUME TypeOK, WindowInv, [Next]_vars, NEW k \in Keys
      PROVE  Excused(k)
  <2>1. CASE Enqueue(k)
    BY <1>1, <1>2, <2>1
  <2>2. ASSUME NEW l \in Keys, Enqueue(l),
          l # k PROVE changes'[k] = changes[k]
    BY <1>2, <2>2 DEF Enqueue, TypeOK
  <2>3. CASE UNCHANGED changes
    BY <2>3
  <2> QED
    BY <1>2, <2>1, <2>2, <2>3
       DEF Next, TimerFires, Flush, Close, CloseReturns, Send, vars
<1>3. TypeOK /\ WindowInv /\ [Next]_vars =>
        [\A k \in Keys : Excused(k)]_changes
  BY <1>2
<1> QED
  BY <1>3, TypeCorrect, WindowCorrect, PTL DEF Spec, OnlyExcusedEventsDropped
=============================================================================
