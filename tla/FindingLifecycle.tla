-------------------------- MODULE FindingLifecycle --------------------------
(***************************************************************************)
(* What the reconcile engine promises about one finding, seen from outside *)
(* the engine: each scan either reports a finding or misses it, the        *)
(* operator decides about the ones that exist, and every change a scan     *)
(* makes to what is open is told to the operator, unless that scan fails.  *)
(* A scan is one step per finding here; Reconcile.tla splits it into its   *)
(* calls on the store.                                                     *)
(***************************************************************************)
EXTENDS Naturals

CONSTANTS
  Fingerprints,   \* identities of findings of one module and target
  ResolveAfter    \* consecutive missing scans after which one is resolved

ASSUME ResolveAfterIsPositive == ResolveAfter \in Nat \ {0}

VARIABLES
  finding,   \* what is stored of each finding
  owed,      \* the change of each finding not yet handed to the notifier
  told       \* what became of the last change before that: the news given to
             \* the notifier, or lost

vars == <<finding, owed, told>>

Statuses  == {"open", "acknowledged", "suppressed", "resolved"}
Decisions == Statuses \ {"resolved"}
Changes   == {"none", "opened", "resolved"}
News      == Changes \cup {"lost"}

\* closed: ResolvedAt is set.  misses counts no further than ResolveAfter:
\* past it the code only compares.
Findings == [status : Statuses \cup {"none"},
             misses : 0..ResolveAfter,
             closed : BOOLEAN]

Absent == [status |-> "none", misses |-> 0, closed |-> FALSE]

Opened == [status |-> "open", misses |-> 0, closed |-> FALSE]

Live(f) == f.status \in {"open", "acknowledged"}
LastNews(fp) == IF owed[fp] # "none" THEN owed[fp] ELSE told[fp]

Init ==
  /\ finding = [fp \in Fingerprints |-> Absent]
  /\ owed = [fp \in Fingerprints |-> "none"]
  /\ told = [fp \in Fingerprints |-> "none"]

(***************************************************************************)
(* A scan.                                                                 *)
(***************************************************************************)

\* Mutation of ReportOpens: a reopened finding is not listed in NewlyOpen.
ReportReopensSilently(fp) ==
  /\ finding[fp].status \in {"none", "resolved"}
  /\ finding' = [finding EXCEPT ![fp] = Opened]
  /\ owed' = IF finding[fp].status = "none"
             THEN [owed EXCEPT ![fp] = "opened"] ELSE owed
  /\ UNCHANGED told

\* The scan reports a finding that is new or was resolved: it opens.
ReportOpens(fp) ==
  /\ finding[fp].status \in {"none", "resolved"}
  /\ finding' = [finding EXCEPT ![fp] = Opened]
  /\ owed' = [owed EXCEPT ![fp] = "opened"]
  /\ UNCHANGED told

\* The scan reports a finding the store holds unresolved: the misses start
\* over, the operator's status stays.
ReportRefreshes(fp) ==
  /\ finding[fp].status \in Decisions
  /\ finding' = [finding EXCEPT ![fp].misses = 0]
  /\ UNCHANGED <<owed, told>>

Report(fp) == ReportOpens(fp) \/ ReportRefreshes(fp)

\* Mutation of MissCounts: the threshold is not looked at.
MissCountsOn(fp) ==
  /\ Live(finding[fp])
  /\ finding' = [finding EXCEPT ![fp].misses = @ + 1]
  /\ UNCHANGED <<owed, told>>

\* Mutation of MissCounts: the incremented streak is not saved.
MissCountsUnsaved(fp) ==
  /\ Live(finding[fp])
  /\ finding[fp].misses + 1 < ResolveAfter
  /\ UNCHANGED <<finding, owed, told>>

\* The scan does not report an open or acknowledged finding, yet.
MissCounts(fp) ==
  /\ Live(finding[fp])
  /\ finding[fp].misses + 1 < ResolveAfter
  /\ finding' = [finding EXCEPT ![fp].misses = @ + 1]
  /\ UNCHANGED <<owed, told>>

\* One miss too many: the finding is resolved.
MissResolves(fp) ==
  /\ Live(finding[fp])
  /\ finding[fp].misses + 1 >= ResolveAfter
  /\ finding' = [finding EXCEPT ![fp] =
       [status |-> "resolved", misses |-> ResolveAfter, closed |-> TRUE]]
  /\ owed' = [owed EXCEPT ![fp] = "resolved"]
  /\ UNCHANGED told

Miss(fp) == MissCounts(fp) \/ MissResolves(fp)

(***************************************************************************)
(* The operator and the notifier.                                          *)
(***************************************************************************)

Decide(fp, status) ==
  /\ finding[fp].status # "none"
  /\ finding' = [finding EXCEPT ![fp].status = status]
  /\ UNCHANGED <<owed, told>>

Tell ==
  /\ \E fp \in Fingerprints : owed[fp] # "none"
  /\ told' = [fp \in Fingerprints |-> LastNews(fp)]
  /\ owed' = [fp \in Fingerprints |-> "none"]
  /\ UNCHANGED finding

\* The scan that owes the news fails on a later finding, or the process dies.
Lose ==
  /\ \E fp \in Fingerprints : owed[fp] # "none"
  /\ told' = [fp \in Fingerprints |->
               IF owed[fp] # "none" THEN "lost" ELSE told[fp]]
  /\ owed' = [fp \in Fingerprints |-> "none"]
  /\ UNCHANGED finding

Next ==
  \/ \E fp \in Fingerprints : Report(fp) \/ Miss(fp)
  \/ \E fp \in Fingerprints, status \in Decisions : Decide(fp, status)
  \/ Tell
  \/ Lose

\* Scans go on for ever (the scheduler's module loop) and a scan that does not
\* report an open or acknowledged finding counts the miss, so misses are fair.
\* Nothing is assumed of reports and decisions: a finding that is gone need
\* never come back.  A scan that opened or resolved something hands it over
\* before it ends, or fails.
Fairness ==
  /\ \A fp \in Fingerprints : WF_vars(Miss(fp))
  /\ WF_vars(Tell \/ Lose)

Spec == Init /\ [][Next]_vars
FairSpec == Spec /\ Fairness

-----------------------------------------------------------------------------

TypeOK ==
  /\ finding \in [Fingerprints -> Findings]
  /\ owed \in [Fingerprints -> Changes]
  /\ told \in [Fingerprints -> News]

(* What the operator was told, together with what is about to be told,      *)
(* matches what is stored, unless a failure swallowed the last change: never*)
(* told of a finding the store does not hold, told "resolved" last exactly  *)
(* of the findings that carry a resolution time, whatever status the        *)
(* operator gave them since.                                                *)
NewsMatchesFinding ==
  \A fp \in Fingerprints :
    LastNews(fp) # "lost" =>
      LastNews(fp) = IF finding[fp].status = "none" THEN "none"
                     ELSE IF finding[fp].closed THEN "resolved" ELSE "opened"

(* A resolved finding was missed ResolveAfter times in a row, and a finding *)
(* that was is one the engine closed.                                       *)
ResolvedIsEarned ==
  \A fp \in Fingerprints :
    /\ finding[fp].status = "resolved" => finding[fp].misses = ResolveAfter
    /\ finding[fp].misses = ResolveAfter => finding[fp].closed

(* Self-resolving: a finding that is live, is not reported any more and is  *)
(* left alone by the operator does not stay open, and the operator hears so,*)
(* from whatever streak and resolution time the operator's decisions and    *)
(* earlier scans left it with.                                              *)
UnreportedSettles ==
  \A fp \in Fingerprints :
    <>[][~ Report(fp) /\ \A status \in Decisions : ~ Decide(fp, status)]_vars
      => <>[](~ Live(finding[fp]) /\ owed[fp] = "none")
=============================================================================
