--------------------------- MODULE Dashboard_proofs ---------------------------
(***************************************************************************)
(* The theorems of Dashboard, for every set of targets, requests and keys: *)
(* memory and disk agree except where a request failed or met another, a   *)
(* restart brings back what was chosen, and requests that overlap exceed   *)
(* the limit on targets by no more than their number.                      *)
(***************************************************************************)
EXTENDS Dashboard, FiniteSetTheorems, TLAPS

RequestType == [step : Steps, target : Targets \cup {NoTarget},
                key : Keys \cup {NoKey}, count : Nat, met : {"none", "other"}]

(* A request about a target has one.                                         *)
AboutTargets ==
  \A r \in Requests :
    req[r].step \in {"counted", "checked", "added", "removed"} =>
      req[r].target \in Targets

(* SavedIsRunning without regard to the process: what it ran is kept.        *)
SavedAsRun ==
  \A t \in Targets \ muddled :
    (\A r \in Requests :
       req[r].step \in {"added", "removed"} => req[r].target # t)
      => (t \in saved <=> t \in running)

(* Between the halves of a request that has met no other, its target is      *)
(* where the first half left it.                                             *)
HalfDone ==
  \A r \in Requests : req[r].met = "none" =>
    /\ req[r].step = "added" => req[r].target \in running
    /\ req[r].step = "removed" => req[r].target \notin running

TargetsInv == AboutTargets /\ SavedAsRun /\ HalfDone

AtLicense(r) == req[r].step \in {"accepted", "truncated", "written"}

(* A request for a license that has met no other is alone, and the file is   *)
(* as it left it.                                                            *)
LicenseAlone ==
  \A r \in Requests : AtLicense(r) /\ req[r].met = "none" =>
    /\ \A q \in Requests : AtLicense(q) => q = r
    /\ req[r].step = "truncated" => file = NoKey
    /\ req[r].step = "written" => file = req[r].key

(* What lies behind KeyInForceIsStored, without regard to the process.       *)
KeyStored ==
  (\A r \in Requests : ~ AtLicense(r)) /\ keyMuddled = "no" =>
    file = inForce \/ (inForce = NoKey /\ file \in expired \cup {Junk})

LicenseInv == LicenseAlone /\ KeyStored

IInv == TypeOK /\ TargetsInv /\ LicenseInv

-----------------------------------------------------------------------------

LEMMA IdleIsRequest == Idle \in RequestType /\ Idle.step = "idle" /\ Idle.met = "none"
BY DEF Idle, Request, RequestType, Steps

LEMMA ActivateIsKey ==
  ASSUME NEW k PROVE Activate(k) \in Keys \cup {NoKey}
BY DEF Activate, Verify

LEMMA LimitIsNumber ==
  ASSUME NEW k PROVE EffLimit(k) \in Nat
BY LimitsAreNumbers DEF EffLimit

LEMMA WiderIsNumber ==
  ASSUME NEW a \in Nat, NEW b \in Nat PROVE Wider(a, b) \in Nat /\ Most(a, b) \in Nat
BY DEF Wider, Most

LEMMA TargetsCount ==
  ASSUME NEW S \in SUBSET Targets PROVE Cardinality(S) \in Nat
BY SetsAreFinite, FS_Subset, FS_CardinalityType

-----------------------------------------------------------------------------
(***************************************************************************)
(* What does not concern the targets, or the license, keeps their half of  *)
(* the invariant.                                                          *)
(***************************************************************************)

LEMMA TargetsUntouched ==
  ASSUME TargetsInv,
         UNCHANGED <<running, saved, muddled>>,
         \A q \in Requests : \/ req'[q] = req[q]
                             \/ /\ req[q].step \notin {"added", "removed"}
                                /\ req'[q].step \notin {"added", "removed"}
                                /\ req'[q].step \in {"counted", "checked"} =>
                                     req'[q].target \in Targets
  PROVE  TargetsInv'
<1>1. AboutTargets'
  BY DEF TargetsInv, AboutTargets
<1>2. SavedAsRun'
  BY DEF TargetsInv, SavedAsRun
<1>3. HalfDone'
  BY DEF TargetsInv, HalfDone
<1> QED
  BY <1>1, <1>2, <1>3 DEF TargetsInv

LEMMA LicenseUntouched ==
  ASSUME LicenseInv,
         UNCHANGED <<file, inForce, keyMuddled>>,
         expired \subseteq expired',
         \A q \in Requests : \/ req'[q] = req[q]
                             \/ ~ AtLicense(q) /\ ~ AtLicense(q)'
  PROVE  LicenseInv'
<1>1. LicenseAlone'
  BY DEF LicenseInv, LicenseAlone, AtLicense
<1>2. KeyStored'
  BY DEF LicenseInv, KeyStored, AtLicense
<1> QED
  BY <1>1, <1>2 DEF LicenseInv

(* A target that a request is done with: as asked if it met no other, and    *)
(* muddled if it did.                                                        *)
LEMMA DoneKeepsTargets ==
  ASSUME TypeOK, TargetsInv, NEW r \in Requests,
         req[r].step \in {"added", "removed"},
         Done(r), UNCHANGED running,
         req[r].step = "added" => saved' = saved \cup {req[r].target},
         req[r].step = "removed" => saved' = saved \ {req[r].target}
  PROVE  TargetsInv' /\ muddled' \subseteq Targets
<1> DEFINE t == req[r].target
<1>1. /\ req' = [req EXCEPT ![r] = Idle]
      /\ muddled' = IF req[r].met = "none" THEN muddled \ {t} ELSE muddled \cup {t}
  BY DEF Done
<1>2. req \in [Requests -> RequestType]
  BY DEF TypeOK, RequestType
<1>3. req'[r] = Idle /\ \A q \in Requests : q # r => req'[q] = req[q]
  BY <1>1, <1>2
<1>4. t \in Targets
  BY DEF TargetsInv, AboutTargets
<1>5. AboutTargets' /\ HalfDone'
  BY <1>3, IdleIsRequest DEF TargetsInv, AboutTargets, HalfDone
<1>6. SavedAsRun'
  <2>1. SUFFICES ASSUME NEW u \in Targets, u \notin muddled',
                        \A q \in Requests : req'[q].step \in {"added", "removed"} =>
                                              req'[q].target # u
                 PROVE  u \in saved' <=> u \in running'
    BY DEF SavedAsRun
  <2>2. CASE u = t
    <3>1. req[r].met = "none"
      BY <2>1, <2>2, <1>1
    <3>2. (req[r].step = "added" => t \in running)
          /\ (req[r].step = "removed" => t \notin running)
      BY <3>1 DEF TargetsInv, HalfDone
    <3> QED
      BY <2>2, <3>2
  <2>3. CASE u # t
    <3>1. u \notin muddled
      BY <2>1, <2>3, <1>1
    <3>2. \A q \in Requests : req[q].step \in {"added", "removed"} => req[q].target # u
      BY <2>1, <2>3, <1>3
    <3>3. u \in saved <=> u \in running
      BY <3>1, <3>2 DEF TargetsInv, SavedAsRun
    <3> QED
      BY <2>3, <3>3
  <2> QED
    BY <2>2, <2>3
<1>7. muddled' \subseteq Targets
  BY <1>1, <1>4 DEF TypeOK
<1> QED
  BY <1>5, <1>6, <1>7 DEF TargetsInv

(* A target whose request failed is muddled.                                 *)
LEMMA FailedKeepsTargets ==
  ASSUME TypeOK, TargetsInv, NEW r \in Requests,
         req[r].step \in {"added", "removed"},
         Failed(r), UNCHANGED <<running, saved>>
  PROVE  TargetsInv' /\ muddled' \subseteq Targets
<1>1. /\ req' = [req EXCEPT ![r] = Idle]
      /\ muddled' = muddled \cup {req[r].target}
  BY DEF Failed
<1>2. req \in [Requests -> RequestType]
  BY DEF TypeOK, RequestType
<1>3. req'[r] = Idle /\ \A q \in Requests : q # r => req'[q] = req[q]
  BY <1>1, <1>2
<1>4. req[r].target \in Targets
  BY DEF TargetsInv, AboutTargets
<1>5. AboutTargets' /\ HalfDone'
  BY <1>3, IdleIsRequest DEF TargetsInv, AboutTargets, HalfDone
<1>6. SavedAsRun'
  BY <1>1, <1>3 DEF TargetsInv, SavedAsRun
<1>7. muddled' \subseteq Targets
  BY <1>1, <1>4 DEF TypeOK
<1> QED
  BY <1>5, <1>6, <1>7 DEF TargetsInv
-----------------------------------------------------------------------------

LEMMA InitIInv == Init => IInv
<1> SUFFICES ASSUME Init PROVE IInv
  OBVIOUS
<1> USE DEF Init
<1>1. \A r \in Requests : req[r] = Idle
  OBVIOUS
<1>2. TypeOK
  BY IdleIsRequest, BoundsAreNumbers DEF TypeOK, RequestType
<1>3. TargetsInv
  BY <1>1, IdleIsRequest DEF TargetsInv, AboutTargets, SavedAsRun, HalfDone
<1>4. LicenseInv
  BY <1>1, IdleIsRequest DEF LicenseInv, LicenseAlone, KeyStored, AtLicense
<1> QED
  BY <1>2, <1>3, <1>4 DEF IInv

(* What every step of a request does to the requests: it moves, and those it *)
(* meets are told.                                                           *)
LEMMA OneMoves ==
  ASSUME TypeOK, NEW r \in Requests, NEW new \in RequestType,
         req' = [req EXCEPT ![r] = new]
  PROVE  /\ req' \in [Requests -> RequestType]
         /\ req'[r] = new
         /\ \A q \in Requests : q # r => req'[q] = req[q]
BY DEF TypeOK, RequestType

LEMMA MeetsMoves ==
  ASSUME TypeOK, NEW r \in Requests, NEW step \in Steps,
         NEW target \in Targets \cup {NoTarget}, NEW key \in Keys \cup {NoKey},
         NEW others \in SUBSET Requests,
         Meets(r, step, target, key, others)
  PROVE  /\ req' \in [Requests -> RequestType]
         /\ req'[r].step = step /\ req'[r].target = target /\ req'[r].key = key
         /\ req'[r].met = "none" => others = {}
         /\ \A q \in Requests : q # r =>
              /\ req'[q].step = req[q].step
              /\ req'[q].target = req[q].target
              /\ req'[q].key = req[q].key
              /\ q \in others => req'[q].met = "other"
              /\ q \notin others => req'[q] = req[q]
<1>1. req \in [Requests -> RequestType]
  BY DEF TypeOK, RequestType
<1>2. \A q \in Requests :
        /\ req[q].step \in Steps /\ req[q].target \in Targets \cup {NoTarget}
        /\ req[q].key \in Keys \cup {NoKey} /\ req[q].count \in Nat
  BY <1>1 DEF RequestType
<1> DEFINE mine == Request(step, target, key, 0, IF others = {} THEN "none" ELSE "other")
           told(q) == Request(req[q].step, req[q].target, req[q].key, req[q].count, "other")
<1>3. req' = [q \in Requests |->
                IF q = r THEN mine ELSE IF q \in others THEN told(q) ELSE req[q]]
  BY DEF Meets
<1>4. CASE others = {}
  <2>1. mine = Request(step, target, key, 0, "none")
    BY <1>4
  <2>2. /\ mine \in RequestType /\ mine.step = step
        /\ mine.target = target /\ mine.key = key
    BY <2>1 DEF Request, RequestType
  <2> QED
    BY <1>1, <1>3, <1>4, <2>2
<1>5. CASE others # {}
  <2>1. mine = Request(step, target, key, 0, "other")
    BY <1>5
  <2>2. /\ mine \in RequestType /\ mine.step = step
        /\ mine.target = target /\ mine.key = key /\ mine.met = "other"
    BY <2>1 DEF Request, RequestType
  <2>3. \A q \in Requests :
          /\ told(q) \in RequestType /\ told(q).step = req[q].step
          /\ told(q).target = req[q].target /\ told(q).key = req[q].key
          /\ told(q).met = "other"
    BY <1>2 DEF Request, RequestType
  <2> QED
    BY <1>1, <1>3, <2>2, <2>3
<1> QED
  BY <1>4, <1>5

LEMMA GoesIs ==
  ASSUME TypeOK, NEW r \in Requests, NEW step \in Steps
  PROVE  /\ Goes(r, step) \in RequestType
         /\ Goes(r, step).step = step
         /\ Goes(r, step).target = req[r].target
         /\ Goes(r, step).key = req[r].key
         /\ Goes(r, step).met = req[r].met
<1>1. req[r] \in RequestType
  BY DEF TypeOK, RequestType
<1>2. /\ req[r].target \in Targets \cup {NoTarget} /\ req[r].key \in Keys \cup {NoKey}
      /\ req[r].count \in Nat /\ req[r].met \in {"none", "other"}
  BY <1>1 DEF RequestType
<1> QED
  BY <1>2 DEF Goes, Request, RequestType

(* The steps of a request for a target.                                      *)
LEMMA TargetStepsIInv ==
  ASSUME IInv, NEW r \in Requests, NEW t \in Targets,
         \/ AddCounts(r, t) \/ RemoveTarget(r, t) \/ AddChecks(r)
         \/ AddTarget(r) \/ AddRefused(r) \/ SaveTarget(r) \/ SaveFails(r)
         \/ DeleteTarget(r) \/ DeleteFails(r)
  PROVE  IInv'
<1>i. TypeOK /\ TargetsInv /\ LicenseInv
  BY DEF IInv
<1>r. req \in [Requests -> RequestType]
  BY <1>i DEF TypeOK, RequestType
\* The process runs: a request is at work, or begins.
<1>u. ASSUME NEW q \in Requests, req[q].step # "idle" PROVE process = "up"
  BY <1>u, <1>i, IdleIsRequest DEF TypeOK
<1>T. ASSUME process = "up", UNCHANGED <<process, file, inForce, expired, crashes,
                                         keyMuddled, allowed>>,
             running' \subseteq Targets, saved' \subseteq Targets,
             muddled' \subseteq Targets, failures' \in 0..MaxFailures,
             req' \in [Requests -> RequestType]
      PROVE  TypeOK'
  BY <1>T, <1>i DEF TypeOK, RequestType
<1>L. ASSUME UNCHANGED <<file, inForce, expired, keyMuddled>>,
             \A q \in Requests : \/ req'[q] = req[q]
                                 \/ ~ AtLicense(q) /\ ~ AtLicense(q)'
      PROVE  LicenseInv'
  BY <1>L, <1>i, LicenseUntouched
<1>f. ASSUME failures < MaxFailures, failures' = failures + 1
      PROVE  failures' \in 0..MaxFailures
  BY <1>f, <1>i, BoundsAreNumbers DEF TypeOK
<1> USE DEF OnlyTargets, At
<1>1. CASE AddCounts(r, t)
  <2> DEFINE new == Request("counted", t, NoKey, Cardinality(running), "none")
  <2>1. Cardinality(running) \in Nat
    BY <1>i, TargetsCount DEF TypeOK
  <2>2. new \in RequestType /\ new.step = "counted" /\ new.target = t
    BY <2>1 DEF Request, RequestType, Steps
  <2>3. req' = [req EXCEPT ![r] = new] /\ req[r].step = "idle"
    BY <1>1 DEF AddCounts
  <2>4. /\ req' \in [Requests -> RequestType] /\ req'[r] = new
        /\ \A q \in Requests : q # r => req'[q] = req[q]
    BY <2>2, <2>3, <1>i, OneMoves
  <2>5. TypeOK'
    BY <1>1, <1>T, <1>i, <2>4 DEF AddCounts, TypeOK
  <2>6. TargetsInv'
    BY <1>1, <1>i, <2>2, <2>3, <2>4, TargetsUntouched DEF AddCounts
  <2>7. LicenseInv'
    BY <1>1, <1>L, <2>2, <2>3, <2>4 DEF AddCounts, AtLicense
  <2> QED
    BY <2>5, <2>6, <2>7 DEF IInv
<1>2. CASE RemoveTarget(r, t)
  <2>1. Meets(r, "removed", t, NoKey, Adding(t)) /\ req[r].step = "idle"
    BY <1>2 DEF RemoveTarget
  <2>2. Adding(t) \in SUBSET Requests
    BY DEF Adding, Working
  <2>3. /\ req' \in [Requests -> RequestType]
        /\ req'[r].step = "removed" /\ req'[r].target = t
        /\ \A q \in Requests : q # r =>
             /\ req'[q].step = req[q].step
             /\ req'[q].target = req[q].target
             /\ q \in Adding(t) => req'[q].met = "other"
             /\ q \notin Adding(t) => req'[q] = req[q]
    BY <2>1, <2>2, <1>i, MeetsMoves DEF Steps
  <2>4. \A q \in Requests : q \in Adding(t) <=> req[q].step = "added" /\ req[q].target = t
    BY DEF Adding, Working
  <2>5. /\ running' = running \ {t}
        /\ UNCHANGED <<saved, muddled, failures>>
    BY <1>2 DEF RemoveTarget
  <2>6. TypeOK'
    BY <1>2, <1>T, <1>i, <2>3, <2>5 DEF RemoveTarget, TypeOK
  <2>7. AboutTargets'
    BY <2>3, <1>i DEF TargetsInv, AboutTargets
  <2>8. SavedAsRun'
    BY <2>3, <2>5, <2>1, <1>i DEF TargetsInv, SavedAsRun
  <2>9. HalfDone'
    BY <2>3, <2>4, <2>5, <1>i DEF TargetsInv, HalfDone
  <2>10. LicenseInv'
    BY <1>2, <1>L, <2>1, <2>3, <2>4 DEF RemoveTarget, AtLicense
  <2> QED
    BY <2>6, <2>7, <2>8, <2>9, <2>10 DEF IInv, TargetsInv
<1>3. CASE AddChecks(r)
  <2>1. /\ req[r].step = "counted"
        /\ \/ req' = [req EXCEPT ![r] = Goes(r, "checked")]
           \/ req' = [req EXCEPT ![r] = Idle]
    BY <1>3 DEF AddChecks
  <2>2. PICK new \in RequestType :
          /\ req' = [req EXCEPT ![r] = new]
          /\ new.step \in {"idle", "checked"}
          /\ new.step = "checked" => new.target = req[r].target
    BY <2>1, <1>i, GoesIs, IdleIsRequest DEF Steps
  <2>3. /\ req' \in [Requests -> RequestType] /\ req'[r] = new
        /\ \A q \in Requests : q # r => req'[q] = req[q]
    BY <2>2, <1>i, OneMoves
  <2>4. TypeOK'
    BY <1>3, <1>T, <1>u, <1>i, <2>1, <2>3 DEF AddChecks, TypeOK
  <2>5. req[r].target \in Targets
    BY <1>i, <2>1 DEF TargetsInv, AboutTargets
  <2>6. TargetsInv'
    BY <1>3, <1>i, <2>1, <2>2, <2>3, <2>5, TargetsUntouched DEF AddChecks
  <2>7. LicenseInv'
    BY <1>3, <1>L, <2>1, <2>2, <2>3 DEF AddChecks, AtLicense
  <2> QED
    BY <2>4, <2>6, <2>7 DEF IInv
<1>4. CASE AddTarget(r)
  <2>0. PICK u \in Targets : u = req[r].target
    BY <1>4, <1>i DEF AddTarget, At, TargetsInv, AboutTargets
  <2>1. Meets(r, "added", u, NoKey, Removing(u)) /\ req[r].step = "checked"
    BY <1>4, <2>0 DEF AddTarget
  <2>2. Removing(u) \in SUBSET Requests
    BY DEF Removing, Working
  <2>3. /\ req' \in [Requests -> RequestType]
        /\ req'[r].step = "added" /\ req'[r].target = u
        /\ \A q \in Requests : q # r =>
             /\ req'[q].step = req[q].step
             /\ req'[q].target = req[q].target
             /\ q \in Removing(u) => req'[q].met = "other"
             /\ q \notin Removing(u) => req'[q] = req[q]
    BY <2>1, <2>2, <1>i, MeetsMoves DEF Steps
  <2>4. \A q \in Requests : q \in Removing(u) <=> req[q].step = "removed" /\ req[q].target = u
    BY DEF Removing, Working
  <2>5. /\ running' = running \cup {u}
        /\ UNCHANGED <<saved, muddled, failures>>
    BY <1>4, <2>0 DEF AddTarget
  <2>6. TypeOK'
    BY <1>4, <1>T, <1>u, <1>i, <2>1, <2>2, <2>3, <2>5 DEF AddTarget, TypeOK
  <2>7. AboutTargets'
    BY <2>0, <2>3, <1>i DEF TargetsInv, AboutTargets
  <2>8. SavedAsRun'
    BY <2>0, <2>3, <2>5, <2>1, <1>i DEF TargetsInv, SavedAsRun
  <2>9. HalfDone'
    BY <2>0, <2>3, <2>4, <2>5, <1>i DEF TargetsInv, HalfDone
  <2>10. LicenseInv'
    BY <1>4, <1>L, <2>1, <2>3, <2>4 DEF AddTarget, AtLicense
  <2> QED
    BY <2>6, <2>7, <2>8, <2>9, <2>10 DEF IInv, TargetsInv
<1>5. CASE AddRefused(r)
  <2>1. req[r].step = "checked" /\ req' = [req EXCEPT ![r] = Idle]
    BY <1>5 DEF AddRefused
  <2>2. /\ req' \in [Requests -> RequestType] /\ req'[r] = Idle
        /\ \A q \in Requests : q # r => req'[q] = req[q]
    BY <2>1, <1>i, OneMoves, IdleIsRequest
  <2>3. TypeOK'
    BY <1>5, <1>T, <1>u, <1>i, <2>1, <2>2 DEF AddRefused, TypeOK
  <2>4. TargetsInv'
    BY <1>5, <1>i, <2>1, <2>2, TargetsUntouched, IdleIsRequest DEF AddRefused
  <2>5. LicenseInv'
    BY <1>5, <1>L, <2>1, <2>2, IdleIsRequest DEF AddRefused, AtLicense
  <2> QED
    BY <2>3, <2>4, <2>5 DEF IInv
<1>6. CASE SaveTarget(r) \/ DeleteTarget(r)
  <2>1. /\ req[r].step \in {"added", "removed"} /\ Done(r) /\ UNCHANGED running
        /\ req[r].step = "added" => saved' = saved \cup {req[r].target}
        /\ req[r].step = "removed" => saved' = saved \ {req[r].target}
    BY <1>6 DEF SaveTarget, DeleteTarget
  <2>2. TargetsInv' /\ muddled' \subseteq Targets
    BY <2>1, <1>i, DoneKeepsTargets
  <2>3. /\ req' \in [Requests -> RequestType] /\ req'[r] = Idle
        /\ \A q \in Requests : q # r => req'[q] = req[q]
    BY <2>1, <1>i, OneMoves, IdleIsRequest DEF Done
  <2>4. saved' \subseteq Targets
    BY <2>1, <1>i DEF TypeOK, TargetsInv, AboutTargets
  <2>5. TypeOK'
    BY <1>6, <1>T, <1>u, <1>i, <2>1, <2>2, <2>3, <2>4
       DEF SaveTarget, DeleteTarget, Done, TypeOK
  <2>6. LicenseInv'
    BY <1>6, <1>L, <2>1, <2>3, IdleIsRequest DEF SaveTarget, DeleteTarget, AtLicense
  <2> QED
    BY <2>2, <2>5, <2>6 DEF IInv
<1>7. CASE SaveFails(r) \/ DeleteFails(r)
  <2>1. /\ req[r].step \in {"added", "removed"}
        /\ Failed(r) /\ UNCHANGED <<running, saved>>
    BY <1>7 DEF SaveFails, DeleteFails
  <2>2. TargetsInv' /\ muddled' \subseteq Targets
    BY <2>1, <1>i, FailedKeepsTargets
  <2>3. /\ req' \in [Requests -> RequestType] /\ req'[r] = Idle
        /\ \A q \in Requests : q # r => req'[q] = req[q]
    BY <2>1, <1>i, OneMoves, IdleIsRequest DEF Failed
  <2>4. failures' \in 0..MaxFailures
    BY <2>1, <1>f DEF Failed
  <2>5. TypeOK'
    BY <1>7, <1>T, <1>u, <1>i, <2>1, <2>2, <2>3, <2>4 DEF SaveFails, DeleteFails, TypeOK
  <2>6. LicenseInv'
    BY <1>7, <1>L, <2>1, <2>3, IdleIsRequest DEF SaveFails, DeleteFails, AtLicense
  <2> QED
    BY <2>2, <2>5, <2>6 DEF IInv
<1> QED
  BY <1>1, <1>2, <1>3, <1>4, <1>5, <1>6, <1>7

(* The steps of a request for a license.                                     *)
LEMMA LicenseStepsIInv ==
  ASSUME IInv, NEW r \in Requests, NEW k \in Keys \cup {NoKey, Junk},
         \/ Accept(r, k) \/ Truncate(r) \/ WriteKey(r) \/ WriteFails(r) \/ Swap(r)
  PROVE  IInv'
<1>i. TypeOK /\ TargetsInv /\ LicenseInv
  BY DEF IInv
<1>r. req \in [Requests -> RequestType]
  BY <1>i DEF TypeOK, RequestType
<1>k. req[r].key \in Keys \cup {NoKey}
  BY <1>r DEF RequestType
<1>u. ASSUME NEW q \in Requests, req[q].step # "idle" PROVE process = "up"
  BY <1>u, <1>i, IdleIsRequest DEF TypeOK
<1>T. ASSUME process = "up", UNCHANGED <<process, running, saved, expired, crashes, muddled>>,
             file' \in Keys \cup {NoKey, Junk}, inForce' \in Keys \cup {NoKey},
             keyMuddled' \in {"no", "yes"}, allowed' \in Nat,
             failures' \in 0..MaxFailures, req' \in [Requests -> RequestType]
      PROVE  TypeOK'
  BY <1>T, <1>i DEF TypeOK, RequestType
<1> USE DEF OnlyLicense, At
<1>1. CASE Accept(r, k)
  <2>1. /\ Meets(r, "accepted", NoTarget, Activate(k), Licensing)
        /\ req[r].step = "idle"
    BY <1>1 DEF Accept
  <2> DEFINE key == Activate(k)
  <2>2. /\ Licensing \in SUBSET Requests /\ Activate(k) \in Keys \cup {NoKey}
    BY ActivateIsKey DEF Licensing, Working
  <2>3. /\ req' \in [Requests -> RequestType]
        /\ req'[r].step = "accepted"
        /\ req'[r].met = "none" => Licensing = {}
        /\ \A q \in Requests : q # r =>
             /\ req'[q].step = req[q].step
             /\ q \in Licensing => req'[q].met = "other"
             /\ q \notin Licensing => req'[q] = req[q]
    <3> DEFINE others == Licensing
    <3>1. /\ key \in Keys \cup {NoKey} /\ others \in SUBSET Requests
          /\ NoTarget \in Targets \cup {NoTarget}
          /\ Meets(r, "accepted", NoTarget, key, others)
      BY <2>1, <2>2
    <3> HIDE DEF key, others
    <3>2. /\ req' \in [Requests -> RequestType]
          /\ req'[r].step = "accepted"
          /\ req'[r].met = "none" => others = {}
          /\ \A q \in Requests : q # r =>
               /\ req'[q].step = req[q].step
               /\ q \in others => req'[q].met = "other"
               /\ q \notin others => req'[q] = req[q]
      BY <3>1, <1>i, MeetsMoves DEF Steps
    <3> QED
      BY <3>2 DEF others
  <2>4. \A q \in Requests : q \in Licensing <=> AtLicense(q)
    BY DEF Licensing, Working, AtLicense
  <2>5. TypeOK'
    BY <1>1, <1>T, <1>i, <2>3 DEF Accept, TypeOK
  <2>6. TargetsInv'
    BY <1>1, <1>i, <2>1, <2>3, <2>4, TargetsUntouched DEF Accept, AtLicense
  <2>7. LicenseAlone'
    <3>1. SUFFICES ASSUME NEW q \in Requests, AtLicense(q)', req'[q].met = "none"
                   PROVE  /\ \A p \in Requests : AtLicense(p)' => p = q
                          /\ req'[q].step # "truncated"
                          /\ req'[q].step # "written"
      BY DEF LicenseAlone
    <3>2. q = r
      BY <3>1, <2>3, <2>4 DEF AtLicense
    <3>3. Licensing = {}
      BY <3>1, <3>2, <2>3
    <3>4. \A p \in Requests : p # r => ~ AtLicense(p)'
      BY <3>3, <2>3, <2>4 DEF AtLicense
    <3> QED
      BY <3>2, <3>4, <2>3
  <2>8. KeyStored'
    BY <2>3 DEF KeyStored, AtLicense
  <2> QED
    BY <2>5, <2>6, <2>7, <2>8 DEF IInv, LicenseInv
<1>2. CASE Truncate(r)
  <2>1. req[r].step = "accepted" /\ req' = [req EXCEPT ![r] = Goes(r, "truncated")]
    BY <1>2 DEF Truncate
  <2>2. /\ Goes(r, "truncated") \in RequestType
        /\ Goes(r, "truncated").step = "truncated"
        /\ Goes(r, "truncated").met = req[r].met
    BY <1>i, GoesIs DEF Steps
  <2>3. /\ req' \in [Requests -> RequestType] /\ req'[r] = Goes(r, "truncated")
        /\ \A q \in Requests : q # r => req'[q] = req[q]
    BY <2>1, <2>2, <1>i, OneMoves
  <2>4. TypeOK'
    BY <1>2, <1>T, <1>u, <1>i, <2>1, <2>3 DEF Truncate, TypeOK
  <2>5. TargetsInv'
    BY <1>2, <1>i, <2>1, <2>2, <2>3, TargetsUntouched DEF Truncate
  <2>6. LicenseAlone'
    BY <1>2, <1>i, <2>1, <2>2, <2>3 DEF Truncate, LicenseInv, LicenseAlone, AtLicense
  <2>7. KeyStored'
    BY <2>2, <2>3 DEF KeyStored, AtLicense
  <2> QED
    BY <2>4, <2>5, <2>6, <2>7 DEF IInv, LicenseInv
<1>3. CASE WriteKey(r)
  <2>1. req[r].step = "truncated" /\ req' = [req EXCEPT ![r] = Goes(r, "written")]
    BY <1>3 DEF WriteKey
  <2>2. /\ Goes(r, "written") \in RequestType
        /\ Goes(r, "written").step = "written"
        /\ Goes(r, "written").key = req[r].key
        /\ Goes(r, "written").met = req[r].met
    BY <1>i, GoesIs DEF Steps
  <2>3. /\ req' \in [Requests -> RequestType] /\ req'[r] = Goes(r, "written")
        /\ \A q \in Requests : q # r => req'[q] = req[q]
    BY <2>1, <2>2, <1>i, OneMoves
  <2>f. /\ file' \in Keys \cup {NoKey, Junk}
        /\ file = NoKey => file' = req[r].key
    BY <1>3, <1>k DEF WriteKey
  <2>4. TypeOK'
    BY <1>3, <1>T, <1>u, <1>i, <2>1, <2>3, <2>f DEF WriteKey, TypeOK
  <2>5. TargetsInv'
    BY <1>3, <1>i, <2>1, <2>2, <2>3, TargetsUntouched DEF WriteKey
  <2>6. LicenseAlone'
    <3>1. SUFFICES ASSUME NEW q \in Requests, AtLicense(q)', req'[q].met = "none"
                   PROVE  /\ \A p \in Requests : AtLicense(p)' => p = q
                          /\ req'[q].step = "truncated" => file' = NoKey
                          /\ req'[q].step = "written" => file' = req'[q].key
      BY DEF LicenseAlone
    <3>2. \A p \in Requests : AtLicense(p)' <=> AtLicense(p)
      BY <2>1, <2>2, <2>3 DEF AtLicense
    <3>3. AtLicense(q) /\ req[q].met = "none"
      BY <3>1, <3>2, <2>2, <2>3
    <3>4. AtLicense(r)
      BY <2>1 DEF AtLicense
    <3>5. q = r /\ file = NoKey
      BY <3>3, <3>4, <2>1, <1>i DEF LicenseInv, LicenseAlone
    <3>6. \A p \in Requests : AtLicense(p)' => p = r
      BY <3>2, <3>3, <3>5, <1>i DEF LicenseInv, LicenseAlone
    <3> QED
      BY <3>5, <3>6, <2>2, <2>3, <2>f
  <2>7. KeyStored'
    BY <2>2, <2>3 DEF KeyStored, AtLicense
  <2> QED
    BY <2>4, <2>5, <2>6, <2>7 DEF IInv, LicenseInv
<1>4. CASE WriteFails(r) \/ Swap(r)
  <2>1. AtLicense(r) /\ req' = [req EXCEPT ![r] = Idle]
    BY <1>4 DEF WriteFails, Swap, AtLicense
  <2>2. /\ req' \in [Requests -> RequestType] /\ req'[r] = Idle
        /\ \A q \in Requests : q # r => req'[q] = req[q]
    BY <2>1, <1>i, OneMoves, IdleIsRequest
  <2>3. TargetsInv'
    BY <1>4, <1>i, <2>1, <2>2, TargetsUntouched, IdleIsRequest DEF WriteFails, Swap, AtLicense
  <2>4. LicenseAlone'
    <3>1. \A q \in Requests : AtLicense(q)' => q # r /\ AtLicense(q)
      BY <2>2, IdleIsRequest DEF AtLicense
    <3>2. \A q \in Requests : AtLicense(q)' => req[q].met # "none"
      BY <3>1, <2>1, <1>i DEF LicenseInv, LicenseAlone
    <3> QED
      BY <3>1, <3>2, <2>2 DEF LicenseAlone
  <2>5. TypeOK' /\ KeyStored'
    <3>1. CASE WriteFails(r)
      <4>1. /\ file' \in Keys \cup {NoKey, Junk} /\ keyMuddled' = "yes"
            /\ failures < MaxFailures /\ failures' = failures + 1
            /\ UNCHANGED <<inForce, allowed>>
        BY <3>1, <1>i DEF WriteFails, TypeOK
      <4>2. failures' \in 0..MaxFailures
        BY <4>1, <1>i, BoundsAreNumbers DEF TypeOK
      <4> QED
        BY <3>1, <4>1, <4>2, <2>1, <2>2, <1>T, <1>u, <1>i
           DEF WriteFails, TypeOK, KeyStored, AtLicense
    <3>2. CASE Swap(r)
      <4>1. /\ inForce' = req[r].key /\ UNCHANGED <<file, failures>>
            /\ keyMuddled' = IF req[r].met = "none" THEN "no" ELSE "yes"
            /\ allowed' = Wider(allowed, EffLimit(req[r].key))
            /\ req[r].step = "written"
        BY <3>2 DEF Swap
      <4>2. allowed' \in Nat
        BY <4>1, <1>i, LimitIsNumber, WiderIsNumber DEF TypeOK
      <4>3. TypeOK'
        BY <3>2, <4>1, <4>2, <2>1, <2>2, <1>k, <1>T, <1>u, <1>i
           DEF Swap, TypeOK, AtLicense
      <4>4. KeyStored'
        BY <4>1, <2>1, <1>i DEF KeyStored, LicenseInv, LicenseAlone
      <4> QED
        BY <4>3, <4>4
    <3> QED
      BY <1>4, <3>1, <3>2
  <2> QED
    BY <2>3, <2>4, <2>5 DEF IInv, LicenseInv
<1> QED
  BY <1>1, <1>2, <1>3, <1>4

(* The steps of the process, and of the clock.                               *)
LEMMA ProcessStepsIInv ==
  ASSUME IInv,
         \/ \E k \in Keys : Expire(k)
         \/ Crash
         \/ \E chat \in SUBSET ChatChannels : Boot(chat) \/ BootForgets(chat)
  PROVE  IInv'
<1>i. TypeOK /\ TargetsInv /\ LicenseInv
  BY DEF IInv
<1>r. req \in [Requests -> RequestType]
  BY <1>i DEF TypeOK, RequestType
<1>1. ASSUME NEW k \in Keys, Expire(k) PROVE IInv'
  <2>1. TypeOK'
    BY <1>1, <1>i DEF Expire, TypeOK
  <2>2. TargetsInv'
    BY <1>1, <1>i, TargetsUntouched DEF Expire
  <2>3. LicenseInv'
    BY <1>1, <1>i, LicenseUntouched DEF Expire
  <2> QED
    BY <2>1, <2>2, <2>3 DEF IInv
<1>2. CASE Crash
  <2> DEFINE busy == {r \in Requests : req[r].step \in {"added", "removed"}}
  <2>1. /\ req' = [r \in Requests |-> Idle] /\ process' = "down"
        /\ crashes < MaxCrashes /\ crashes' = crashes + 1
        /\ muddled' = muddled \cup {req[r].target : r \in busy}
        /\ keyMuddled' = IF Licensing = {} THEN keyMuddled ELSE "yes"
        /\ UNCHANGED <<running, saved, file, inForce, expired, failures, allowed>>
    BY <1>2 DEF Crash, Working
  <2>2. req' \in [Requests -> RequestType] /\ \A r \in Requests : req'[r] = Idle
    BY <2>1, IdleIsRequest
  <2>3. \A r \in busy : req[r].target \in Targets
    BY <1>i DEF TargetsInv, AboutTargets
  <2>4. muddled' \subseteq Targets
    BY <2>1, <2>3, <1>i DEF TypeOK
  <2>5. crashes' \in 0..MaxCrashes
    BY <2>1, <1>i, BoundsAreNumbers DEF TypeOK
  <2>6. keyMuddled' \in {"no", "yes"}
    BY <2>1, <1>i DEF TypeOK
  <2>7. TypeOK'
    BY <2>1, <2>2, <2>4, <2>5, <2>6, <1>i DEF TypeOK, RequestType
  <2>8. AboutTargets' /\ HalfDone' /\ LicenseAlone'
    BY <2>2, IdleIsRequest DEF AboutTargets, HalfDone, LicenseAlone, AtLicense
  <2>9. SavedAsRun'
    BY <2>1, <1>i DEF TargetsInv, SavedAsRun
  <2>10. KeyStored'
    <3>1. (\A r \in Requests : ~ AtLicense(r)) <=> Licensing = {}
      BY DEF Licensing, Working, AtLicense
    <3> QED
      BY <2>1, <3>1, <1>i DEF LicenseInv, KeyStored
  <2> QED
    BY <2>7, <2>8, <2>9, <2>10 DEF IInv, TargetsInv, LicenseInv
<1>3. ASSUME NEW chat \in SUBSET ChatChannels, Boot(chat) \/ BootForgets(chat)
      PROVE  IInv'
  <2>1. /\ process = "down" /\ process' = "up"
        /\ UNCHANGED <<saved, file, expired, req, crashes>>
        /\ inForce' = Activate(file) /\ keyMuddled' = "no"
        /\ allowed' = IF EffLimit(Activate(file)) = 0 THEN 0
                      ELSE Most(EffLimit(Activate(file)), Cardinality(running'))
        /\ \/ running' = saved /\ muddled' = {} /\ UNCHANGED failures
           \/ /\ running' = {} /\ muddled' = saved
              /\ failures < MaxFailures /\ failures' = failures + 1
    BY <1>3 DEF Boot, BootForgets, Starts, Restored
  <2>2. \A r \in Requests : req'[r] = Idle
    BY <2>1, <1>i DEF TypeOK
  <2>3. running' \subseteq Targets /\ muddled' \subseteq Targets
    BY <2>1, <1>i DEF TypeOK
  <2>4. failures' \in 0..MaxFailures
    BY <2>1, <1>i, BoundsAreNumbers DEF TypeOK
  <2>5. allowed' \in Nat
    <3>1. Cardinality(running') \in Nat
      BY <2>3, TargetsCount
    <3>2. EffLimit(Activate(file)) \in Nat
      BY LimitIsNumber
    <3>3. Most(EffLimit(Activate(file)), Cardinality(running')) \in Nat
      BY <3>1, <3>2, WiderIsNumber
    <3> QED
      BY <2>1, <3>3
  <2>6. inForce' \in Keys \cup {NoKey}
    BY <2>1, ActivateIsKey
  <2>7. TypeOK'
    BY <2>1, <2>3, <2>4, <2>5, <2>6, <1>i DEF TypeOK
  <2>8. AboutTargets' /\ HalfDone' /\ LicenseAlone'
    BY <2>2, IdleIsRequest DEF AboutTargets, HalfDone, LicenseAlone, AtLicense
  <2>9. SavedAsRun'
    BY <2>1 DEF SavedAsRun
  <2>10. KeyStored'
    BY <2>1, <1>i, KeysAreKeys DEF KeyStored, Activate, Verify, TypeOK
  <2> QED
    BY <2>7, <2>8, <2>9, <2>10 DEF IInv, TargetsInv, LicenseInv
<1> QED
  BY <1>1, <1>2, <1>3

LEMMA NextIInv == IInv /\ [Next]_vars => IInv'
<1> SUFFICES ASSUME IInv, [Next]_vars PROVE IInv'
  OBVIOUS
<1>1. ASSUME NEW r \in Requests, NEW t \in Targets, AddCounts(r, t) \/ RemoveTarget(r, t)
      PROVE  IInv'
  BY <1>1, TargetStepsIInv
<1>2. ASSUME NEW r \in Requests,
             \/ AddChecks(r) \/ AddTarget(r) \/ AddRefused(r) \/ SaveTarget(r)
             \/ SaveFails(r) \/ DeleteTarget(r) \/ DeleteFails(r)
      PROVE  IInv'
  <2>1. req[r].step \in {"counted", "checked", "added", "removed"}
    BY <1>2 DEF AddChecks, AddTarget, AddRefused, SaveTarget, SaveFails,
       DeleteTarget, DeleteFails, At
  <2>2. req[r].target \in Targets
    BY <2>1 DEF IInv, TargetsInv, AboutTargets
  <2> QED
    BY <1>2, <2>2, TargetStepsIInv
<1>3. ASSUME NEW r \in Requests, NEW k \in Keys \cup {NoKey, Junk}, Accept(r, k)
      PROVE  IInv'
  BY <1>3, LicenseStepsIInv
<1>4. ASSUME NEW r \in Requests, Truncate(r) \/ WriteKey(r) \/ WriteFails(r) \/ Swap(r)
      PROVE  IInv'
  <2>1. NoKey \in Keys \cup {NoKey, Junk}
    OBVIOUS
  <2> QED
    BY <1>4, <2>1, LicenseStepsIInv
<1>5. ASSUME \/ \E k \in Keys : Expire(k)
             \/ Crash
             \/ \E chat \in SUBSET ChatChannels : Boot(chat) \/ BootForgets(chat)
      PROVE  IInv'
  BY <1>5, ProcessStepsIInv
<1>6. CASE UNCHANGED vars
  BY <1>6 DEF vars, IInv, TypeOK, TargetsInv, AboutTargets, SavedAsRun, HalfDone,
     LicenseInv, LicenseAlone, KeyStored, AtLicense
<1> QED
  BY <1>1, <1>2, <1>3, <1>4, <1>5, <1>6 DEF Next

-----------------------------------------------------------------------------

LEMMA Invariance == Spec => []IInv
BY InitIInv, NextIInv, PTL DEF Spec

(* Every reachable state has its types; no key is ever in force that the     *)
(* issuer has not signed.                                                    *)
THEOREM TypeCorrect == Spec => []TypeOK
<1>1. IInv => TypeOK
  BY DEF IInv
<1> QED
  BY <1>1, Invariance, PTL

(* However requests overlap, fail or are cut off, the targets in memory and  *)
(* in the table agree where the last request about them met no other kind.   *)
THEOREM TargetsAreSaved == Spec => []SavedIsRunning
<1>1. ASSUME IInv, NEW t \in Targets \ muddled, Adding(t) \cup Removing(t) = {}
      PROVE  t \in saved <=> t \in running
  <2>1. \A r \in Requests : req[r].step \in {"added", "removed"} => req[r].target # t
    BY <1>1 DEF Adding, Removing, Working
  <2> QED
    BY <1>1, <2>1 DEF IInv, TargetsInv, SavedAsRun
<1>2. IInv => SavedIsRunning
  BY <1>1 DEF SavedIsRunning
<1> QED
  BY <1>2, Invariance, PTL

(* The license file gives the edition in force, however requests for a       *)
(* license overlap, fail or are cut off, unless the last one did; a key that *)
(* expired in force is still the one in the file.                            *)
THEOREM LicenseIsStored == Spec => []KeyInForceIsStored
<1>1. ASSUME IInv, Licensing = {}, keyMuddled = "no"
      PROVE  file = inForce \/ (inForce = NoKey /\ file \in expired \cup {Junk})
  <2>1. \A r \in Requests : ~ AtLicense(r)
    BY <1>1 DEF Licensing, Working, AtLicense
  <2> QED
    BY <1>1, <2>1 DEF IInv, LicenseInv, KeyStored
<1>2. ASSUME IInv, Licensing = {}, keyMuddled = "no"
      PROVE  IF inForce \in expired THEN file = inForce
             ELSE Activate(file) = inForce
  <2>1. inForce \in Keys \cup {NoKey} /\ expired \subseteq Keys
    BY <1>2 DEF IInv, TypeOK
  <2> QED
    BY <1>1, <1>2, <2>1, KeysAreKeys DEF Activate, Verify
<1>3. IInv => KeyInForceIsStored
  BY <1>2 DEF KeyInForceIsStored
<1> QED
  BY <1>3, Invariance, PTL

(* A restart scans what was scanned, whatever edition it comes up with, and  *)
(* comes up with the edition that was in force unless the key has expired.   *)
THEOREM RestartsKeepChoices == Spec => RestartKeepsChoices
<1>1. ASSUME IInv, NEW chat \in SUBSET ChatChannels, Boot(chat)
      PROVE  /\ running \ muddled \subseteq running'
             /\ running' \ muddled \subseteq running
             /\ keyMuddled = "no" /\ inForce \notin expired => inForce' = inForce
  <2>1. process = "down" /\ running' = saved /\ inForce' = Activate(file)
    BY <1>1 DEF Boot, Starts, Restored
  <2>2. \A r \in Requests : req[r].step = "idle"
    BY <1>1, <2>1, IdleIsRequest DEF IInv, TypeOK
  <2>3. \A t \in Targets \ muddled : t \in saved <=> t \in running
    BY <1>1, <2>2 DEF IInv, TargetsInv, SavedAsRun
  <2>4. running \subseteq Targets /\ saved \subseteq Targets
    BY <1>1 DEF IInv, TypeOK
  <2>5. ASSUME keyMuddled = "no", inForce \notin expired PROVE inForce' = inForce
    <3>1. file = inForce \/ (inForce = NoKey /\ file \in expired \cup {Junk})
      BY <1>1, <2>2, <2>5 DEF IInv, LicenseInv, KeyStored, AtLicense
    <3> QED
      BY <1>1, <2>1, <2>5, <3>1, KeysAreKeys DEF Activate, Verify, IInv, TypeOK
  <2> QED
    BY <2>1, <2>3, <2>4, <2>5
<1>2. IInv /\ [Next]_vars =>
        [\A chat \in SUBSET ChatChannels : Boot(chat) =>
           /\ running \ muddled \subseteq running'
           /\ running' \ muddled \subseteq running
           /\ keyMuddled = "no" /\ inForce \notin expired => inForce' = inForce]_vars
  BY <1>1
<1> QED
  BY <1>2, Invariance, PTL DEF Spec, RestartKeepsChoices

-----------------------------------------------------------------------------
(***************************************************************************)
(* The limit on targets.                                                   *)
(***************************************************************************)

(* The requests that may still add a target under a limit of m: they have    *)
(* passed the check, or counted less than m.                                 *)
Below(m) == {r \in Requests : \/ req[r].step = "checked"
                              \/ req[r].step = "counted" /\ req[r].count < m}

Fits(m) ==
  Cardinality(running) + Cardinality(Below(m)) <= m + Cardinality(Requests) - 1

(* The overrun counts those that will pass the check as if they had.  It has *)
(* to hold for every wider limit, for the next license may give one.         *)
LimitInv ==
  /\ Requests = {} => saved = {}
  /\ process = "up" /\ allowed # 0 =>
       /\ EffLimit(inForce) # 0 /\ EffLimit(inForce) <= allowed
       /\ \A m \in Nat : m >= allowed => Fits(m)

LEMMA BelowCounts ==
  ASSUME NEW m \in Nat
  PROVE  /\ Below(m) \in SUBSET Requests
         /\ IsFiniteSet(Below(m))
         /\ Cardinality(Below(m)) \in Nat
         /\ Cardinality(Requests) \in Nat
         /\ Cardinality(Below(m)) <= Cardinality(Requests)
<1>1. Below(m) \in SUBSET Requests
  BY DEF Below
<1> QED
  BY <1>1, SetsAreFinite, FS_Subset, FS_CardinalityType

LEMMA BelowCountsNext ==
  ASSUME NEW m \in Nat
  PROVE  /\ Below(m)' \in SUBSET Requests
         /\ IsFiniteSet(Below(m)')
         /\ Cardinality(Below(m)') \in Nat
         /\ Cardinality(Below(m)') <= Cardinality(Requests)
<1>1. Below(m)' \in SUBSET Requests
  BY DEF Below
<1> QED
  BY <1>1, SetsAreFinite, FS_Subset, FS_CardinalityType

(* A step that adds no target and after which no other request has counted   *)
(* or passed the check keeps within the limit.                               *)
LEMMA FewerFit ==
  ASSUME TypeOK, NEW m \in Nat, Fits(m),
         running' \subseteq running, Below(m)' \subseteq Below(m)
  PROVE  Fits(m)'
<1>1. IsFiniteSet(running) /\ Cardinality(running) \in Nat
  BY SetsAreFinite, FS_Subset, FS_CardinalityType DEF TypeOK
<1>2. Cardinality(running') \in Nat
        /\ Cardinality(running') <= Cardinality(running)
  <2>1. running' \in SUBSET running
    OBVIOUS
  <2>2. IsFiniteSet(running') /\ Cardinality(running') <= Cardinality(running)
    BY <2>1, <1>1, FS_Subset
  <2> QED
    BY <2>2, FS_CardinalityType
<1>3. Cardinality(Below(m)') <= Cardinality(Below(m))
  <2>1. Below(m)' \in SUBSET Below(m)
    OBVIOUS
  <2> QED
    BY <2>1, BelowCounts, FS_Subset
<1>4. Cardinality(Below(m)) \in Nat /\ Cardinality(Requests) \in Nat
  BY BelowCounts
<1>5. Cardinality(Below(m)') \in Nat
  BY BelowCountsNext
<1> QED
  BY <1>1, <1>2, <1>3, <1>4, <1>5 DEF Fits

LEMMA OthersFit ==
  ASSUME TypeOK, LimitInv, process = "up", process' = "up",
         UNCHANGED <<inForce, allowed>>,
         Requests = {} => saved' = saved,
         running' \subseteq running,
         \A q \in Requests : \/ req'[q] = req[q]
                             \/ req'[q].step \notin {"counted", "checked"}
  PROVE  LimitInv'
<1>1. ASSUME NEW m \in Nat PROVE Below(m)' \subseteq Below(m)
  BY DEF Below
<1>2. EffLimit(inForce') = EffLimit(inForce)
  OBVIOUS
<1>3. ASSUME NEW m \in Nat, m >= allowed', allowed' # 0 PROVE Fits(m)'
  BY <1>1, <1>3, FewerFit DEF LimitInv
<1> QED
  BY <1>2, <1>3 DEF LimitInv

(* A request counts the targets: under a wider limit than that there is room *)
(* for every request, and under others it is not one that may add.           *)
LEMMA CountingFits ==
  ASSUME TypeOK, TypeOK', LimitInv, NEW r \in Requests, NEW t \in Targets,
         AddCounts(r, t)
  PROVE  LimitInv'
<1>1. /\ req[r].step = "idle" /\ process = "up"
      /\ req' = [req EXCEPT ![r] =
                   Request("counted", t, NoKey, Cardinality(running), "none")]
      /\ UNCHANGED <<process, running, saved, inForce, allowed>>
  BY DEF AddCounts, OnlyTargets, At
<1>2. Cardinality(running) \in Nat
  BY TargetsCount DEF TypeOK
<1>3. PICK new \in RequestType :
        /\ req' = [req EXCEPT ![r] = new]
        /\ new.step = "counted" /\ new.count = Cardinality(running)
  <2> DEFINE new == Request("counted", t, NoKey, Cardinality(running), "none")
  <2>1. new \in RequestType /\ new.step = "counted"
          /\ new.count = Cardinality(running)
    BY <1>2 DEF Request, RequestType, Steps
  <2> QED
    BY <1>1, <2>1
<1>4. req'[r] = new /\ \A q \in Requests : q # r => req'[q] = req[q]
  BY <1>3, OneMoves
<1>5. ASSUME NEW m \in Nat, m >= allowed, allowed # 0 PROVE Fits(m)'
  <2>1. CASE Cardinality(running) < m
    <3>1. Cardinality(Below(m)') \in Nat
            /\ Cardinality(Below(m)') <= Cardinality(Requests)
      BY BelowCountsNext
    <3> QED
      BY <3>1, <2>1, <1>1, <1>2, BelowCounts DEF Fits
  <2>2. CASE ~ (Cardinality(running) < m)
    <3>1. r \notin Below(m)'
      BY <2>2, <1>3, <1>4 DEF Below
    <3>2. Below(m)' \subseteq Below(m)
      BY <3>1, <1>4 DEF Below
    <3>3. Fits(m)
      BY <1>1, <1>5 DEF LimitInv
    <3> QED
      BY <3>2, <3>3, <1>1, FewerFit
  <2> QED
    BY <2>1, <2>2
<1> QED
  BY <1>1, <1>5 DEF LimitInv

(* A request that passes the check had counted less than the limit.          *)
LEMMA CheckingFits ==
  ASSUME TypeOK, LimitInv, NEW r \in Requests, AddChecks(r), process = "up"
  PROVE  LimitInv'
<1>1. /\ req[r].step = "counted"
      /\ req' = [req EXCEPT ![r] =
           IF CanAdd(EffLimit(inForce), req[r].count)
           THEN Goes(r, "checked") ELSE Idle]
      /\ UNCHANGED <<process, running, saved, inForce, allowed>>
  BY DEF AddChecks, OnlyTargets, At
<1>2. CASE CanAdd(EffLimit(inForce), req[r].count)
  <2>1. PICK new \in RequestType : req' = [req EXCEPT ![r] = new]
    BY <1>1, <1>2, GoesIs DEF Steps
  <2>2. \A q \in Requests : q # r => req'[q] = req[q]
    BY <2>1, OneMoves
  <2>3. req[r].count \in Nat /\ EffLimit(inForce) \in Nat /\ allowed \in Nat
    BY LimitIsNumber DEF TypeOK, RequestType
  <2>4. ASSUME NEW m \in Nat, m >= allowed, allowed # 0 PROVE Fits(m)'
    <3>1. EffLimit(inForce) # 0 /\ EffLimit(inForce) <= m
      BY <1>1, <2>3, <2>4 DEF LimitInv
    <3>2. req[r].count < m
      BY <1>2, <2>3, <3>1 DEF CanAdd
    <3>3. r \in Below(m)
      BY <1>1, <3>2 DEF Below
    <3>4. Below(m)' \subseteq Below(m)
      BY <2>2, <3>3 DEF Below
    <3>5. Fits(m)
      BY <2>4 DEF LimitInv
    <3> QED
      BY <3>4, <3>5, <1>1, FewerFit
  <2> QED
    BY <1>1, <2>4 DEF LimitInv
<1>3. CASE ~ CanAdd(EffLimit(inForce), req[r].count)
  <2>1. req' = [req EXCEPT ![r] = Idle]
    BY <1>1, <1>3
  <2>2. req'[r] = Idle /\ \A q \in Requests : q # r => req'[q] = req[q]
    BY <2>1, OneMoves, IdleIsRequest
  <2>3. \A q \in Requests : \/ req'[q] = req[q]
                            \/ req'[q].step \notin {"counted", "checked"}
    BY <2>2, IdleIsRequest
  <2> QED
    BY <1>1, <2>3, OthersFit
<1> QED
  BY <1>2, <1>3

(* The request that adds a target is no longer one that may.                 *)
LEMMA AddingFits ==
  ASSUME TypeOK, LimitInv, NEW r \in Requests, AddTarget(r), process = "up",
         req[r].target \in Targets
  PROVE  LimitInv'
<1>1. PICK u \in Targets : u = req[r].target
  OBVIOUS
<1>2. /\ Meets(r, "added", u, NoKey, Removing(u)) /\ req[r].step = "checked"
      /\ running' = running \cup {u}
      /\ UNCHANGED <<process, saved, inForce, allowed>>
  BY <1>1 DEF AddTarget, OnlyTargets, At
<1>3. Removing(u) \in SUBSET Requests
  BY DEF Removing, Working
<1>4. /\ req'[r].step = "added"
      /\ \A q \in Requests : q # r =>
           /\ req'[q].step = req[q].step
           /\ q \notin Removing(u) => req'[q] = req[q]
  BY <1>2, <1>3, MeetsMoves DEF Steps
<1>5. \A q \in Removing(u) : req[q].step = "removed"
  BY DEF Removing, Working
<1>6. IsFiniteSet(running) /\ Cardinality(running) \in Nat
  BY SetsAreFinite, FS_Subset, FS_CardinalityType DEF TypeOK
<1>7. /\ Cardinality(running') \in Nat
      /\ Cardinality(running') <= Cardinality(running) + 1
  <2>1. /\ IsFiniteSet(running \cup {u})
        /\ Cardinality(running \cup {u}) =
             IF u \in running THEN Cardinality(running)
               ELSE Cardinality(running) + 1
    BY <1>6, FS_AddElement
  <2>2. Cardinality(running \cup {u}) <= Cardinality(running) + 1
    BY <2>1, <1>6
  <2> QED
    BY <1>2, <2>1, <2>2, FS_CardinalityType
<1>8. ASSUME NEW m \in Nat, Fits(m) PROVE Fits(m)'
  <2>1. r \in Below(m)
    BY <1>2 DEF Below
  <2>2. Below(m)' \subseteq Below(m) \ {r}
    BY <1>4, <1>5 DEF Below
  <2>3. /\ IsFiniteSet(Below(m) \ {r})
        /\ Cardinality(Below(m) \ {r}) = Cardinality(Below(m)) - 1
    BY <2>1, BelowCounts, FS_RemoveElement
  <2>4. Cardinality(Below(m)') <= Cardinality(Below(m)) - 1
    <3>1. Below(m)' \in SUBSET (Below(m) \ {r})
      BY <2>2
    <3> QED
      BY <3>1, <2>3, FS_Subset
  <2>5. /\ Cardinality(Below(m)) \in Nat /\ Cardinality(Requests) \in Nat
        /\ Cardinality(Below(m)') \in Nat
    BY BelowCounts, BelowCountsNext
  <2> QED
    BY <1>6, <1>7, <1>8, <2>4, <2>5 DEF Fits
<1> QED
  BY <1>2, <1>8 DEF LimitInv

LEMMA WidestBounds ==
  ASSUME NEW a \in Nat, NEW b \in Nat, Wider(a, b) # 0
  PROVE  a # 0 /\ b # 0 /\ a <= Wider(a, b) /\ b <= Wider(a, b)
BY DEF Wider, Most

(* A license may widen the limit, never narrow what was allowed.             *)
LEMMA SwappingFits ==
  ASSUME TypeOK, LimitInv, NEW r \in Requests, Swap(r), process = "up"
  PROVE  LimitInv'
<1>1. /\ inForce' = req[r].key /\ allowed' = Wider(allowed,
           EffLimit(req[r].key))
      /\ req' = [req EXCEPT ![r] = Idle]
      /\ UNCHANGED <<process, running, saved>>
  BY DEF Swap, OnlyLicense
<1>2. allowed \in Nat /\ EffLimit(req[r].key) \in Nat
  BY LimitIsNumber DEF TypeOK
<1>3. req'[r] = Idle /\ \A q \in Requests : q # r => req'[q] = req[q]
  BY <1>1, OneMoves, IdleIsRequest
<1>4. ASSUME allowed' # 0
      PROVE  /\ allowed # 0 /\ allowed <= allowed'
             /\ EffLimit(inForce') # 0 /\ EffLimit(inForce') <= allowed'
  BY <1>1, <1>2, <1>4, WidestBounds
<1>5. allowed' \in Nat
  BY <1>1, <1>2, WiderIsNumber
<1>6. ASSUME NEW m \in Nat, m >= allowed', allowed' # 0 PROVE Fits(m)'
  <2>1. Fits(m)
    BY <1>2, <1>4, <1>5, <1>6 DEF LimitInv
  <2>2. Below(m)' \subseteq Below(m)
    BY <1>3, IdleIsRequest DEF Below
  <2> QED
    BY <1>1, <2>1, <2>2, FewerFit
<1> QED
  BY <1>1, <1>4, <1>6 DEF LimitInv

(* At a start no request is at work, and the targets restored are allowed.   *)
LEMMA StartingFits ==
  ASSUME TypeOK, LimitInv, NEW chat, Boot(chat) \/ BootForgets(chat)
  PROVE  LimitInv'
<1>1. process = "down" /\ UNCHANGED <<saved, req>>
  BY DEF Boot, BootForgets, Starts
<1>2. PICK restored \in SUBSET saved : Restored(restored)
  BY DEF Boot, BootForgets
<1> DEFINE limit == EffLimit(inForce')
<1>3. /\ running' = restored
      /\ allowed' = IF limit = 0 THEN 0 ELSE Most(limit, Cardinality(restored))
  BY <1>2 DEF Restored
<1>4. limit \in Nat
  BY LimitIsNumber
<1>5. Cardinality(restored) \in Nat
  <2>1. restored \in SUBSET Targets
    BY DEF TypeOK
  <2> QED
    BY <2>1, TargetsCount
<1> HIDE DEF limit
<1>6. ASSUME allowed' # 0
      PROVE  limit # 0 /\ limit <= allowed'
        /\ Cardinality(restored) <= allowed'
  BY <1>3, <1>4, <1>5, <1>6 DEF Most
<1>7. allowed' \in Nat
  BY <1>3, <1>4, <1>5, WiderIsNumber
<1>8. ASSUME NEW m \in Nat PROVE Below(m)' = {}
  BY <1>1, IdleIsRequest DEF Below, TypeOK
<1>9. ASSUME NEW m \in Nat, m >= allowed', allowed' # 0 PROVE Fits(m)'
  <2>1. Cardinality(Below(m)') = 0
    BY <1>8, FS_EmptySet
  <2>2. Cardinality(Requests) \in Nat
    BY SetsAreFinite, FS_CardinalityType
  <2>3. CASE Requests = {}
    <3>1. Cardinality(restored) = 0
      BY <2>3, FS_EmptySet DEF LimitInv
    <3>2. m >= 1 
      BY <1>7, <1>9
    <3> QED
      BY <2>1, <2>2, <3>1, <3>2, <1>3 DEF Fits
  <2>4. CASE Requests # {}
    <3>1. Cardinality(Requests) # 0
      BY <2>4, SetsAreFinite, FS_EmptySet
    <3> QED
      BY <2>1, <2>2, <3>1, <1>3, <1>5, <1>6, <1>7, <1>9 DEF Fits
  <2> QED
    BY <2>3, <2>4
<1> QED
  BY <1>1, <1>6, <1>9 DEF LimitInv, limit

LEMMA LimitStep == TypeOK /\ TypeOK' /\ TargetsInv /\ LimitInv
  /\ [Next]_vars => LimitInv'
<1> SUFFICES ASSUME TypeOK, TypeOK', TargetsInv, LimitInv,
      [Next]_vars PROVE LimitInv'
  OBVIOUS
<1>u. ASSUME NEW q \in Requests, req[q].step # "idle" PROVE process = "up"
  BY <1>u, IdleIsRequest DEF TypeOK
<1>1. ASSUME NEW r \in Requests, NEW t \in Targets, AddCounts(r,
        t) PROVE LimitInv'
  BY <1>1, CountingFits
<1>2. ASSUME NEW r \in Requests, AddChecks(r) PROVE LimitInv'
  BY <1>2, <1>u, CheckingFits DEF AddChecks, At
<1>3. ASSUME NEW r \in Requests, AddTarget(r) PROVE LimitInv'
  <2>1. req[r].step = "checked"
    BY <1>3 DEF AddTarget, At
  <2>2. req[r].target \in Targets /\ process = "up"
    BY <2>1, <1>u DEF TargetsInv, AboutTargets
  <2> QED
    BY <1>3, <2>2, AddingFits
<1>4. ASSUME NEW r \in Requests, Swap(r) PROVE LimitInv'
  BY <1>4, <1>u, SwappingFits DEF Swap, At
\* The other steps of a request that ends or goes on alone.
<1>5. ASSUME NEW r \in Requests,
             \/ AddRefused(r) \/ SaveTarget(r) \/ SaveFails(r)
                  \/ DeleteTarget(r)
             \/ DeleteFails(r) \/ Truncate(r) \/ WriteKey(r) \/ WriteFails(r)
      PROVE  LimitInv'
  <2>1. /\ req[r].step # "idle"
        /\ UNCHANGED <<process, running, inForce, allowed>>
    BY <1>5 DEF AddRefused, SaveTarget, SaveFails, DeleteTarget, DeleteFails,
                Truncate, WriteKey, WriteFails, OnlyTargets, OnlyLicense, At
  <2>2. \/ req' = [req EXCEPT ![r] = Idle]
        \/ req' = [req EXCEPT ![r] = Goes(r, "truncated")]
        \/ req' = [req EXCEPT ![r] = Goes(r, "written")]
    BY <1>5 DEF AddRefused, SaveTarget, SaveFails, DeleteTarget, DeleteFails,
                Truncate, WriteKey, WriteFails, Done, Failed
  <2>3. PICK new \in RequestType : /\ req' = [req EXCEPT ![r] = new]
                                   /\ new.step \notin {"counted", "checked"}
    BY <2>2, IdleIsRequest, GoesIs DEF Steps
  <2>4. \A q \in Requests : \/ req'[q] = req[q]
                            \/ req'[q].step \notin {"counted", "checked"}
    BY <2>3, OneMoves
  <2> QED
    BY <2>1, <2>4, <1>u, OthersFit
<1>6. ASSUME NEW r \in Requests, NEW t \in Targets, RemoveTarget(r,
        t) PROVE LimitInv'
  <2>1. /\ Meets(r, "removed", t, NoKey, Adding(t)) /\ process = "up"
        /\ running' = running \ {t}
        /\ UNCHANGED <<process, saved, inForce, allowed>>
    BY <1>6 DEF RemoveTarget, OnlyTargets
  <2>2. Adding(t) \in SUBSET Requests
          /\ \A q \in Adding(t) : req[q].step = "added"
    BY DEF Adding, Working
  <2>3. /\ req'[r].step = "removed"
        /\ \A q \in Requests : q # r =>
             /\ req'[q].step = req[q].step
             /\ q \notin Adding(t) => req'[q] = req[q]
    BY <2>1, <2>2, MeetsMoves DEF Steps
  <2>4. \A q \in Requests : \/ req'[q] = req[q]
                            \/ req'[q].step \notin {"counted", "checked"}
    BY <2>2, <2>3
  <2> QED
    BY <2>1, <2>4, OthersFit
<1>7. ASSUME NEW r \in Requests, NEW k \in Keys \cup {NoKey, Junk}, Accept(r,
        k)
      PROVE  LimitInv'
  <2>1. /\ Meets(r, "accepted", NoTarget, Activate(k),
             Licensing) /\ process = "up"
        /\ UNCHANGED <<process, running, saved, inForce, allowed>>
    BY <1>7 DEF Accept, OnlyLicense
  <2>2. /\ Licensing \in SUBSET Requests
        /\ \A q \in Licensing : req[q].step \in {"accepted", "truncated",
             "written"}
    BY DEF Licensing, Working
  <2>3. PICK key \in Keys \cup {NoKey} : key = Activate(k)
    BY ActivateIsKey
  <2>4. Meets(r, "accepted", NoTarget, key, Licensing)
    BY <2>1, <2>3
  <2>5. /\ req'[r].step = "accepted"
        /\ \A q \in Requests : q # r =>
             /\ req'[q].step = req[q].step
             /\ q \notin Licensing => req'[q] = req[q]
    <3>1. NoTarget \in Targets \cup {NoTarget} /\ "accepted" \in Steps
      BY DEF Steps
    <3> QED
      BY <3>1, <2>4, <2>2, MeetsMoves
  <2>6. \A q \in Requests : \/ req'[q] = req[q]
                            \/ req'[q].step \notin {"counted", "checked"}
    BY <2>2, <2>5
  <2> QED
    BY <2>1, <2>6, OthersFit
<1>8. ASSUME NEW k \in Keys, Expire(k) PROVE LimitInv'
  BY <1>8 DEF Expire, LimitInv, Fits, Below
<1>9. CASE Crash
  BY <1>9 DEF Crash, LimitInv
<1>10. ASSUME NEW chat \in SUBSET ChatChannels, Boot(chat) \/ BootForgets(chat)
       PROVE  LimitInv'
  BY <1>10, StartingFits
<1>11. CASE UNCHANGED vars
  BY <1>11 DEF vars, LimitInv, Fits, Below
<1> QED
  BY <1>1, <1>2, <1>3, <1>4, <1>5, <1>6, <1>7, <1>8, <1>9, <1>10,
     <1>11 DEF Next

(* However many requests pass the check together, there are never more       *)
(* targets than the widest limit (or the restart) has allowed and one for    *)
(* each other request.                                                       *)
THEOREM OverrunIsAlwaysBounded == Spec => []LimitOverrunIsBounded
<1>1. Init => LimitInv
  BY DEF Init, LimitInv
<1>2. IInv => TypeOK /\ TargetsInv
  BY DEF IInv
<1>3. TypeOK /\ LimitInv => LimitOverrunIsBounded
  <2> SUFFICES ASSUME TypeOK, LimitInv, process = "up", allowed # 0
               PROVE  Cardinality(running) + Cardinality(Working({"checked"}))
                        <= allowed + Cardinality(Requests) - 1
    BY DEF LimitOverrunIsBounded
  <2>1. allowed \in Nat
    BY DEF TypeOK
  <2>2. Fits(allowed)
    BY <2>1 DEF LimitInv
  <2>3. Working({"checked"}) \in SUBSET Below(allowed)
    BY DEF Working, Below
  <2>4. /\ Cardinality(Below(allowed)) \in Nat /\ Cardinality(Requests) \in Nat
        /\ IsFiniteSet(Below(allowed))
    BY <2>1, BelowCounts
  <2>5. /\ Cardinality(Working({"checked"})) \in Nat
        /\ Cardinality(Working({"checked"})) <= Cardinality(Below(allowed))
    BY <2>3, <2>4, FS_Subset, FS_CardinalityType
  <2>6. Cardinality(running) \in Nat
    BY TargetsCount DEF TypeOK
  <2> QED
    BY <2>1, <2>2, <2>4, <2>5, <2>6 DEF Fits
<1> QED
  BY <1>1, <1>2, <1>3, LimitStep, Invariance, PTL DEF Spec
=============================================================================
