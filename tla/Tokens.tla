-------------------------------- MODULE Tokens --------------------------------
(***************************************************************************)
(* MultiSource: scans of targets routed to the credentials of their tenant *)
(* and the cache of bearer tokens they share.  There is no clock: what is  *)
(* left of every deadline, every token and every cached expiry is counted  *)
(* down by Tick.  The token endpoint is the cloud's: it starts the life of *)
(* a token before the answer that states it arrives.                       *)
(***************************************************************************)
EXTENDS Naturals

CONSTANTS
  Targets,
  Scans,           \* scans at work, sweeps and ScanNow alike
  Keys,            \* cache keys, one for each set of credentials
  NoKey,           \* no credentials are configured
  CredsOf,         \* the credentials file: the key of each target
  ScanTimeout,     \* the context of a scan (sched.Config.ScanTimeout)
  Margin,          \* a cached token this close to its expiry is not used
  DefaultLife,     \* what is assumed of a token without expires_in
  Grants,          \* lives a token may be issued with, and expires_in stated
  MaxRevocations   \* bound: how often the tenant revokes its tokens

ASSUME CredsRoute == NoKey \notin Keys /\ CredsOf \in [Targets -> Keys \cup {NoKey}]
ASSUME TimesAreTimes ==
  /\ ScanTimeout \in Nat
  /\ Margin \in Nat
  /\ DefaultLife \in Nat
  /\ MaxRevocations \in Nat

\* 30 seconds and 2 minutes.
ASSUME MarginCoversTwoScans == Margin > 2 * ScanTimeout

\* postToken: ttl, with an hour when the answer states none.
Ttl(g) == IF g.stated = 0 THEN DefaultLife ELSE g.stated

\* The cloud keeps a token alive as long as it says, or as it is known to.
ASSUME CloudKeepsItsWord ==
  /\ Grants \subseteq [life : Nat, stated : Nat]
  /\ \A g \in Grants : Ttl(g) <= g.life

VARIABLES
  cache,        \* toks: an expiry left = 0 is as good as no entry
  scan,         \* the scans, at their step
  revocations

vars == <<cache, scan, revocations>>

Token == [life : Nat, state : {"good", "revoked"}]
Fresh(n) == [life |-> n, state |-> "good"]
NoToken == Fresh(0)

\* asking:   the request for a token is on its way
\* issued:   the cloud has issued it, the answer is on its way; left is its ttl
\* answered: postToken is back; left is what is left of its expiry
\* reading:  Snapshot fetches with the token as bearer
Steps == {"idle", "asking", "issued", "answered", "reading"}
Idle == [step |-> "idle", key |-> NoKey, time |-> 0, token |-> NoToken,
         left |-> 0, granted |-> 0, from |-> "none"]

Init ==
  /\ cache = [k \in Keys |-> [token |-> NoToken, left |-> 0]]
  /\ scan = [s \in Scans |-> Idle]
  /\ revocations = 0

-----------------------------------------------------------------------------

\* cached: now is not after the expiry less two minutes.
Usable(k) == cache[k].left >= Margin

\* The scan at its next step; a finished one leaves nothing behind.
Moves(s, step, key, time, token, left, granted, from) ==
  scan' = [scan EXCEPT ![s] =
    [step |-> step, key |-> key, time |-> time, token |-> token,
     left |-> left, granted |-> granted, from |-> from]]

\* Snapshot finds the credentials of the target's provider and domain; without
\* them it fails before anything is asked, as does a scan whose service-account
\* file cannot be read: it stays idle.
Routed(t) == CredsOf[t] # NoKey

\* Mutation of CacheHit: a token that is used is kept for another hour.
CacheHitRenewing(s, t) ==
  /\ scan[s].step = "idle"
  /\ Routed(t)
  /\ Usable(CredsOf[t])
  /\ Moves(s, "reading", CredsOf[t], ScanTimeout, cache[CredsOf[t]].token,
           0, 0, "cache")
  /\ cache' = [cache EXCEPT ![CredsOf[t]].left = DefaultLife]
  /\ UNCHANGED revocations

\* m365Token and gwsToken find a cached token.
CacheHit(s, t) ==
  /\ scan[s].step = "idle"
  /\ Routed(t)
  /\ Usable(CredsOf[t])
  /\ Moves(s, "reading", CredsOf[t], ScanTimeout, cache[CredsOf[t]].token,
           0, 0, "cache")
  /\ UNCHANGED <<cache, revocations>>

\* They find none and ask the cloud, without the lock.
CacheMiss(s, t) ==
  /\ scan[s].step = "idle"
  /\ Routed(t)
  /\ ~ Usable(CredsOf[t])
  /\ Moves(s, "asking", CredsOf[t], ScanTimeout, NoToken, 0, 0, "none")
  /\ UNCHANGED <<cache, revocations>>

\* The cloud issues a token; its answer is on its way.
Issue(s, g) ==
  /\ scan[s].step = "asking"
  /\ Moves(s, "issued", scan[s].key, scan[s].time, Fresh(g.life),
           Ttl(g), g.life, "cloud")
  /\ UNCHANGED <<cache, revocations>>

\* postToken returns: the expiry counts from now.
Answer(s) ==
  /\ scan[s].step = "issued"
  /\ Moves(s, "answered", scan[s].key, scan[s].time, scan[s].token,
           scan[s].left, scan[s].granted, "cloud")
  /\ UNCHANGED <<cache, revocations>>

\* Mutation of Store: an expiry in the cache that is later is kept.
StoreLaterExpiry(s) ==
  LET old == cache[scan[s].key].left IN
  /\ scan[s].step = "answered"
  /\ cache' = [cache EXCEPT ![scan[s].key] =
       [token |-> scan[s].token,
        left  |-> IF old > scan[s].left THEN old ELSE scan[s].left]]
  /\ Moves(s, "reading", scan[s].key, scan[s].time, scan[s].token,
           0, scan[s].granted, "cloud")
  /\ UNCHANGED revocations

\* store, over whatever another scan stored meanwhile.
Store(s) ==
  /\ scan[s].step = "answered"
  /\ cache' = [cache EXCEPT ![scan[s].key] =
       [token |-> scan[s].token, left |-> scan[s].left]]
  /\ Moves(s, "reading", scan[s].key, scan[s].time, scan[s].token,
           0, scan[s].granted, "cloud")
  /\ UNCHANGED revocations

\* Snapshot returns, early with an error (a refused or lost request, a token
\* the cloud no longer takes, the end of the context) or with the state.  What
\* was cached stays, also when the cloud has just refused it.
ScanEnds(s) ==
  /\ scan[s].step # "idle"
  /\ scan' = [scan EXCEPT ![s] = Idle]
  /\ UNCHANGED <<cache, revocations>>

Revoked(token) == [life |-> token.life, state |-> "revoked"]

\* The tenant revokes the tokens issued for a key.
Revoke(k) ==
  /\ revocations < MaxRevocations
  /\ revocations' = revocations + 1
  /\ cache' = [cache EXCEPT ![k] =
       [token |-> Revoked(cache[k].token), left |-> cache[k].left]]
  /\ scan' = [s \in Scans |->
       IF scan[s].key # k THEN scan[s]
       ELSE [step |-> scan[s].step, key |-> k, time |-> scan[s].time,
             token |-> Revoked(scan[s].token), left |-> scan[s].left,
             granted |-> scan[s].granted, from |-> scan[s].from]]

Less(n) == IF n = 0 THEN 0 ELSE n - 1
Older(token) == [life |-> Less(token.life), state |-> token.state]

\* Mutation of AtDeadline: requests are made without the context of the scan.
NeverAtDeadline(s) == FALSE

\* Every request carries the context of its scan, and fails when that is over.
AtDeadline(s) == scan[s].step # "idle" /\ scan[s].time = 0

\* Time passes, for as long as no scan is past its timeout; the expiry of a
\* token on its way is not known to the program before the answer.
Tick ==
  /\ \A s \in Scans : ~ AtDeadline(s)
  /\ cache' = [k \in Keys |->
       [token |-> Older(cache[k].token), left |-> Less(cache[k].left)]]
  /\ scan' = [s \in Scans |->
       IF scan[s].step = "idle" THEN scan[s]
       ELSE [step |-> scan[s].step, key |-> scan[s].key,
             time |-> scan[s].time - 1,
             token |-> Older(scan[s].token),
             left |-> IF scan[s].step = "issued" THEN scan[s].left
                      ELSE Less(scan[s].left),
             granted |-> scan[s].granted, from |-> scan[s].from]]
  /\ UNCHANGED revocations

Next ==
  \/ \E s \in Scans :
       \/ \E t \in Targets : CacheHit(s, t) \/ CacheMiss(s, t)
       \/ \E g \in Grants : Issue(s, g)
       \/ Answer(s)
       \/ Store(s)
       \/ ScanEnds(s)
  \/ \E k \in Keys : Revoke(k)
  \/ Tick

Spec == Init /\ [][Next]_vars

\* Time passes, and the runtime cancels a context when its time is over.
FairSpec ==
  /\ Spec
  /\ WF_vars(Tick)
  /\ \A s \in Scans : WF_vars(AtDeadline(s) /\ ScanEnds(s))

-----------------------------------------------------------------------------

(* The variables have their types: a scan is never past its timeout, because *)
(* its requests carry its context.                                           *)
TypeOK ==
  /\ cache \in [Keys -> [token : Token, left : Nat]]
  /\ scan \in [Scans -> [step : Steps, key : Keys \cup {NoKey},
                         time : 0..ScanTimeout, token : Token, left : Nat,
                         granted : Nat, from : {"none", "cache", "cloud"}]]
  /\ revocations \in 0..MaxRevocations

(* A token does not run out under a scan: one from the cache, or a new one   *)
(* that was issued for longer than a scan takes, lives (unless revoked) for  *)
(* what is left of the scan, although scans of the same tenant store over    *)
(* one another and an expiry counts from the answer, after the cloud's own.  *)
TokenOutlivesScan ==
  \A s \in Scans :
    scan[s].step = "reading" /\ (scan[s].from = "cache" \/ scan[s].granted > ScanTimeout)
      => scan[s].token.life > scan[s].time

(* Nothing takes a refused token out of the cache (a failed scan leaves it   *)
(* there), and yet when the tenant has stopped revoking tokens the scans are *)
(* in the end done with the revoked ones: the entry expires.                 *)
EventuallyClean ==
  <>[](\A s \in Scans :
         scan[s].step = "reading" => scan[s].token.state = "good")
=============================================================================
