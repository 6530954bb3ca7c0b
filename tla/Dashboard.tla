------------------------------- MODULE Dashboard -------------------------------
(***************************************************************************)
(* What the operator chooses in the dashboard and a restart must bring     *)
(* back: the tenants to scan and the license.  Each is kept twice, in      *)
(* memory and on disk, and changed by HTTP requests that run at once, in   *)
(* several steps, under no common lock.  Targets live in the scheduler     *)
(* (running) and in the table of SQLiteStore (saved); the license is the   *)
(* activation of web.Server (inForce) and a file.                          *)
(***************************************************************************)
EXTENDS Naturals, FiniteSets

CONSTANTS
  Targets,
  NoTarget,
  Requests,
  Keys,             \* keys the issuer signed; none count in a build without
                    \* the issuer's public key
  NoKey,            \* no file, or an empty one
  Junk,             \* a key nobody signed, or the remains of two
  TierOf,           \* the tier a key says, signed or not
  Free,
  TierLimits,       \* the product's table: MaxTargets, 0 for unlimited
  GenericFree,      \* license.TierLimits: the floor of a tier it lacks
  Channels,         \* the chat channels the editions in the table include
  ChatChannels,
  MaxCrashes,       \* bounds: how often the process ends
  MaxFailures       \* and how often the disk fails

ASSUME KeysAreKeys == NoKey \notin Keys /\ Junk \notin Keys /\ NoKey # Junk
ASSUME SetsAreFinite == IsFiniteSet(Targets) /\ IsFiniteSet(Requests)
ASSUME BoundsAreNumbers == MaxCrashes \in Nat /\ MaxFailures \in Nat
ASSUME LimitsAreNumbers ==
  /\ Free \in DOMAIN TierLimits
  /\ \A t \in DOMAIN TierLimits : TierLimits[t] \in Nat
  /\ GenericFree \in Nat
  /\ DOMAIN Channels = DOMAIN TierLimits

VARIABLES
  process,      \* up or down
  running,      \* registration.targets; the last ones while it is down
  saved,        \* the targets table
  file,         \* the license file
  inForce,      \* the key of the activation; the last one while it is down
  expired,      \* the keys past ExpiresAt
  req,          \* the requests at work
  crashes,
  failures,
  \* History, for the properties:
  muddled,      \* targets whose last request failed or overlapped another
  keyMuddled,   \* the same of the license
  allowed       \* the most targets a limit, or the restart, has allowed

vars == <<process, running, saved, file, inForce, expired, req, crashes, failures,
          muddled, keyMuddled, allowed>>

\* Steps of handleAddTarget (counted, checked, added), handleRemoveTarget
\* (removed) and handleSetLicense (accepted, truncated, written).  met: another
\* request has worked on the same target, or on the license, meanwhile.
Steps == {"idle", "counted", "checked", "added", "removed",
          "accepted", "truncated", "written"}
Request(step, target, key, count, met) ==
  [step |-> step, target |-> target, key |-> key, count |-> count, met |-> met]
Idle == Request("idle", NoTarget, NoKey, 0, "none")
Goes(r, step) == Request(step, req[r].target, req[r].key, req[r].count, req[r].met)
At(r, step) == req[r].step = step
Working(steps) == {r \in Requests : req[r].step \in steps}
Adding(t)   == {r \in Working({"added"}) : req[r].target = t}
Removing(t) == {r \in Working({"removed"}) : req[r].target = t}
Licensing == Working({"accepted", "truncated", "written"})

\* The step of a request that meets the others at work on the same.
Meets(r, step, target, key, others) ==
  req' = [q \in Requests |->
    IF q = r
    THEN Request(step, target, key, 0, IF others = {} THEN "none" ELSE "other")
    ELSE IF q \in others
    THEN Request(req[q].step, req[q].target, req[q].key, req[q].count, "other")
    ELSE req[q]]

-----------------------------------------------------------------------------
(***************************************************************************)
(* license.Activate, effLimits, canAdd and AllowsChannel.                  *)
(***************************************************************************)

\* Signed by the issuer for this product, and not past its date.
Verify(k) == k \in Keys /\ k \notin expired

\* Mutation of Activate: the signature is not verified.
ActivateUnsigned(k) == k

\* A key that is not valid is the free tier, never an error.
Activate(k) == IF Verify(k) THEN k ELSE NoKey

Tier(k) == IF k = NoKey THEN Free ELSE TierOf[k]

\* A tier the product's table lacks has the limits limitsFor gave it.
EffLimit(k) ==
  IF Tier(k) \in DOMAIN TierLimits THEN TierLimits[Tier(k)] ELSE GenericFree

\* There the fallback is the product's own free tier.
AllowsChannel(k, c) ==
  c \in Channels[IF Tier(k) \in DOMAIN Channels THEN Tier(k) ELSE Free]

\* Mutation of CanAdd: off by one.
CanAddOneMore(limit, current) == limit = 0 \/ current <= limit

CanAdd(limit, current) == limit = 0 \/ current < limit

Most(a, b)  == IF a > b THEN a ELSE b
Wider(a, b) == IF a = 0 \/ b = 0 THEN 0 ELSE Most(a, b)

Init ==
  /\ process = "down"
  /\ running = {}
  /\ saved = {}
  /\ file \in Keys \cup {NoKey, Junk}
  /\ inForce = NoKey
  /\ expired = {}
  /\ req = [r \in Requests |-> Idle]
  /\ crashes = 0
  /\ failures = 0
  /\ muddled = {}
  /\ keyMuddled = "yes"
  /\ allowed = 0

-----------------------------------------------------------------------------
(***************************************************************************)
(* Targets.                                                                *)
(***************************************************************************)
OnlyTargets == UNCHANGED <<process, file, inForce, expired, crashes, keyMuddled, allowed>>

\* handleAddTarget counts the targets ...
AddCounts(r, t) ==
  /\ process = "up"
  /\ At(r, "idle")
  /\ req' = [req EXCEPT ![r] =
               Request("counted", t, NoKey, Cardinality(running), "none")]
  /\ UNCHANGED <<running, saved, failures, muddled>>
  /\ OnlyTargets

\* ... compares the number with the limit in force by now ...
AddChecks(r) ==
  /\ At(r, "counted")
  /\ req' = [req EXCEPT ![r] =
       IF CanAdd(EffLimit(inForce), req[r].count)
       THEN Goes(r, "checked") ELSE Idle]
  /\ UNCHANGED <<running, saved, failures, muddled>>
  /\ OnlyTargets

\* A request that met no other leaves its target as asked.
Done(r) ==
  /\ req' = [req EXCEPT ![r] = Idle]
  /\ muddled' = IF req[r].met = "none" THEN muddled \ {req[r].target}
                ELSE muddled \cup {req[r].target}
  /\ UNCHANGED failures

Failed(r) ==
  /\ req' = [req EXCEPT ![r] = Idle]
  /\ muddled' = muddled \cup {req[r].target}
  /\ failures < MaxFailures
  /\ failures' = failures + 1

\* ... and adds: the scans of the target begin.
AddTarget(r) ==
  /\ At(r, "checked")
  /\ running' = running \cup {req[r].target}
  /\ Meets(r, "added", req[r].target, NoKey, Removing(req[r].target))
  /\ UNCHANGED <<saved, failures, muddled>>
  /\ OnlyTargets

\* The module refuses the name.
AddRefused(r) ==
  /\ At(r, "checked")
  /\ req' = [req EXCEPT ![r] = Idle]
  /\ UNCHANGED <<running, saved, failures, muddled>>
  /\ OnlyTargets

SaveTarget(r) ==
  /\ At(r, "added")
  /\ saved' = saved \cup {req[r].target}
  /\ Done(r)
  /\ UNCHANGED running
  /\ OnlyTargets

\* The answer is an error, but the target stays.
SaveFails(r) ==
  /\ At(r, "added")
  /\ Failed(r)
  /\ UNCHANGED <<running, saved>>
  /\ OnlyTargets

\* handleRemoveTarget.
RemoveTarget(r, t) ==
  /\ process = "up"
  /\ At(r, "idle")
  /\ running' = running \ {t}
  /\ Meets(r, "removed", t, NoKey, Adding(t))
  /\ UNCHANGED <<saved, failures, muddled>>
  /\ OnlyTargets

\* Mutation of DeleteTarget: by a name the table does not hold.
DeleteTargetByRaw(r) ==
  /\ At(r, "removed")
  /\ Done(r)
  /\ UNCHANGED <<running, saved>>
  /\ OnlyTargets

DeleteTarget(r) ==
  /\ At(r, "removed")
  /\ saved' = saved \ {req[r].target}
  /\ Done(r)
  /\ UNCHANGED running
  /\ OnlyTargets

\* The error is ignored.
DeleteFails(r) ==
  /\ At(r, "removed")
  /\ Failed(r)
  /\ UNCHANGED <<running, saved>>
  /\ OnlyTargets

-----------------------------------------------------------------------------
(***************************************************************************)
(* handleSetLicense.                                                       *)
(***************************************************************************)
OnlyLicense == UNCHANGED <<process, running, saved, expired, crashes, muddled>>

\* The key is activated now; a key that is not valid is refused, the empty
\* one is accepted.
Accept(r, k) ==
  /\ process = "up"
  /\ At(r, "idle")
  /\ Tier(Activate(k)) # Free \/ k = NoKey
  /\ Meets(r, "accepted", NoTarget, Activate(k), Licensing)
  /\ UNCHANGED <<file, inForce, failures, keyMuddled, allowed>>
  /\ OnlyLicense

\* os.WriteFile opens the file and empties it ...
Truncate(r) ==
  /\ At(r, "accepted")
  /\ file' = NoKey
  /\ req' = [req EXCEPT ![r] = Goes(r, "truncated")]
  /\ UNCHANGED <<inForce, failures, keyMuddled, allowed>>
  /\ OnlyLicense

\* ... and writes over what another request wrote since, or over less of it
\* than there is.
WriteKey(r) ==
  /\ At(r, "truncated")
  /\ file' \in IF file \in {NoKey, req[r].key} THEN {req[r].key} ELSE {req[r].key, Junk}
  /\ req' = [req EXCEPT ![r] = Goes(r, "written")]
  /\ UNCHANGED <<inForce, failures, keyMuddled, allowed>>
  /\ OnlyLicense

\* Either half of the write may fail: the activation stays as it is.
WriteFails(r) ==
  /\ At(r, "accepted") \/ At(r, "truncated")
  /\ failures < MaxFailures
  /\ failures' = failures + 1
  /\ req' = [req EXCEPT ![r] = Idle]
  /\ keyMuddled' = "yes"
  /\ file' \in IF At(r, "accepted") THEN {file} ELSE {file, Junk}
  /\ UNCHANGED <<inForce, allowed>>
  /\ OnlyLicense

\* Mutation of Swap: a license that is taken away stays in force.
SwapUnlessEmpty(r) ==
  /\ At(r, "written")
  /\ inForce' = IF req[r].key = NoKey THEN inForce ELSE req[r].key
  /\ allowed' = Wider(allowed, EffLimit(inForce'))
  /\ keyMuddled' = IF req[r].met = "none" THEN "no" ELSE "yes"
  /\ req' = [req EXCEPT ![r] = Idle]
  /\ UNCHANGED <<file, failures>>
  /\ OnlyLicense

\* The activation made before the write is put in force.
Swap(r) ==
  /\ At(r, "written")
  /\ inForce' = req[r].key
  /\ allowed' = Wider(allowed, EffLimit(req[r].key))
  /\ keyMuddled' = IF req[r].met = "none" THEN "no" ELSE "yes"
  /\ req' = [req EXCEPT ![r] = Idle]
  /\ UNCHANGED <<file, failures>>
  /\ OnlyLicense

-----------------------------------------------------------------------------
(***************************************************************************)
(* The process.                                                            *)
(***************************************************************************)

\* Activated once, a key stays in force after it has expired.
Expire(k) ==
  /\ k \notin expired
  /\ expired' = expired \cup {k}
  /\ UNCHANGED <<process, running, saved, file, inForce, req, crashes, failures,
                 muddled, keyMuddled, allowed>>

\* The process ends wherever its requests are; a signal ends it so as well, as
\* ListenAndServe returns, and main with it, before the handlers do.
Crash ==
  /\ process = "up"
  /\ crashes < MaxCrashes
  /\ crashes' = crashes + 1
  /\ process' = "down"
  /\ req' = [r \in Requests |-> Idle]
  /\ muddled' = muddled \cup {req[r].target : r \in Working({"added", "removed"})}
  /\ keyMuddled' = IF Licensing = {} THEN keyMuddled ELSE "yes"
  /\ UNCHANGED <<running, saved, file, inForce, expired, failures, allowed>>

\* A chat channel asked for that the edition lacks ends the process at once.
Starts(chat) ==
  /\ process = "down"
  /\ \A c \in chat : AllowsChannel(Activate(file), c)
  /\ process' = "up"
  /\ UNCHANGED <<saved, file, expired, req, crashes>>

\* NewServer activates what is in the file, and the targets are restored.
Restored(targets) ==
  /\ running' = targets
  /\ inForce' = Activate(file)
  /\ allowed' = IF EffLimit(Activate(file)) = 0 THEN 0
                ELSE Most(EffLimit(Activate(file)), Cardinality(targets))
  /\ keyMuddled' = "no"

\* Mutation of Boot: what is saved has to fit the limit.
BootWithinLimit(chat) ==
  /\ Starts(chat)
  /\ Restored(IF \/ EffLimit(Activate(file)) = 0
                 \/ Cardinality(saved) <= EffLimit(Activate(file))
              THEN saved ELSE {})
  /\ muddled' = {}
  /\ UNCHANGED failures

\* Every saved target is restored, whatever the limit.
Boot(chat) ==
  /\ Starts(chat)
  /\ Restored(saved)
  /\ muddled' = {}
  /\ UNCHANGED failures

\* When they cannot be listed the product starts with none, and says nothing.
BootForgets(chat) ==
  /\ Starts(chat)
  /\ Restored({})
  /\ muddled' = saved
  /\ failures < MaxFailures
  /\ failures' = failures + 1

Next ==
  \/ \E r \in Requests :
       \/ \E t \in Targets : AddCounts(r, t) \/ RemoveTarget(r, t)
       \/ AddChecks(r)
       \/ AddTarget(r)
       \/ AddRefused(r)
       \/ SaveTarget(r)
       \/ SaveFails(r)
       \/ DeleteTarget(r)
       \/ DeleteFails(r)
       \/ \E k \in Keys \cup {NoKey, Junk} : Accept(r, k)
       \/ Truncate(r)
       \/ WriteKey(r)
       \/ WriteFails(r)
       \/ Swap(r)
  \/ \E k \in Keys : Expire(k)
  \/ Crash
  \/ \E chat \in SUBSET ChatChannels : Boot(chat) \/ BootForgets(chat)

Spec == Init /\ [][Next]_vars

-----------------------------------------------------------------------------

(* The variables have their types; only a key that is signed (and was not    *)
(* expired when it was activated) is ever in force.                          *)
TypeOK ==
  /\ process \in {"up", "down"}
  /\ running \subseteq Targets
  /\ saved \subseteq Targets
  /\ file \in Keys \cup {NoKey, Junk}
  /\ inForce \in Keys \cup {NoKey}
  /\ expired \subseteq Keys
  /\ req \in [Requests -> [step : Steps, target : Targets \cup {NoTarget},
                           key : Keys \cup {NoKey}, count : Nat,
                           met : {"none", "other"}]]
  /\ process = "down" => \A r \in Requests : req[r] = Idle
  /\ crashes \in 0..MaxCrashes
  /\ failures \in 0..MaxFailures
  /\ muddled \subseteq Targets
  /\ keyMuddled \in {"no", "yes"}
  /\ allowed \in Nat

(* What is scanned is what a restart would scan: a target no request is      *)
(* about is saved when it runs and only then, unless the last request about  *)
(* it failed at the disk or overlapped one of the other kind; the next that  *)
(* does neither puts it right.                                               *)
SavedIsRunning ==
  process = "up" =>
    \A t \in Targets \ muddled :
      Adding(t) \cup Removing(t) = {} => (t \in saved <=> t \in running)

(* The edition in force is the one the license file would give now, and      *)
(* only expiry sets them apart: a key that expired in force stays in force,  *)
(* and in the file, and the next restart falls back to the free tier.  Of    *)
(* writes that failed or overlapped, and of requests at work, nothing is     *)
(* claimed.                                                                  *)
KeyInForceIsStored ==
  process = "up" /\ Licensing = {} /\ keyMuddled = "no" =>
    IF inForce \in expired THEN file = inForce ELSE Activate(file) = inForce

(* "An EXPIRED key never bricks the product: enforcement falls back to the   *)
(* free tier's limits": false of a process that is up, which looks at the    *)
(* date only when it is given the key or starts.                             *)
ExpiredFallsBack == process = "up" => inForce \notin expired

(* Count, check and add are three steps, so requests at the limit pass       *)
(* together: there are never more targets than the widest limit (or the      *)
(* targets restored) and one for each other request.                         *)
LimitOverrunIsBounded ==
  process = "up" /\ allowed # 0 =>
    Cardinality(running) + Cardinality(Working({"checked"}))
      <= allowed + Cardinality(Requests) - 1

(* "An expired key never bricks the product ... scanning never stops": a     *)
(* start that can read its table scans every target that was scanned before, *)
(* whatever the edition allows by now, and the license that was in force is  *)
(* in force unless it has expired (what was muddled when it ended excepted). *)
RestartKeepsChoices ==
  [][\A chat \in SUBSET ChatChannels : Boot(chat) =>
       /\ running \ muddled \subseteq running'
       /\ running' \ muddled \subseteq running
       /\ keyMuddled = "no" /\ inForce \notin expired => inForce' = inForce]_vars
=============================================================================
