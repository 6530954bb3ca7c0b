----------------------- MODULE FindingLifecycle_proofs -----------------------
(***************************************************************************)
(* Theorems about FindingLifecycle for any set of fingerprints and any     *)
(* ResolveAfter.                                                           *)
(***************************************************************************)
EXTENDS FindingLifecycle, TLAPS

LEMMA LifecycleTyped == TypeOK /\ [Next]_vars => TypeOK'
<1> SUFFICES ASSUME TypeOK, [Next]_vars PROVE TypeOK'
  OBVIOUS
<1> USE ResolveAfterIsPositive DEF TypeOK, Findings, Changes, News
<1>1. ASSUME NEW fp \in Fingerprints, ReportOpens(fp) PROVE TypeOK'
  <2>1. Opened \in Findings
    BY DEF Opened, Statuses
  <2> QED
    BY <1>1, <2>1 DEF ReportOpens
<1>2. ASSUME NEW fp \in Fingerprints, ReportRefreshes(fp) PROVE TypeOK'
  BY <1>2 DEF ReportRefreshes
<1>3. ASSUME NEW fp \in Fingerprints, MissCounts(fp) PROVE TypeOK'
  <2>1. finding[fp].misses + 1 \in 0..ResolveAfter
    BY <1>3 DEF MissCounts
  <2> QED
    BY <1>3, <2>1 DEF MissCounts
<1>4. ASSUME NEW fp \in Fingerprints, MissResolves(fp) PROVE TypeOK'
  BY <1>4 DEF MissResolves, Statuses
<1>5. ASSUME NEW fp \in Fingerprints, NEW status \in Decisions,
             Decide(fp, status)
      PROVE  TypeOK'
  BY <1>5 DEF Decide, Decisions
<1>6. CASE Tell
  BY <1>6 DEF Tell, LastNews
<1>7. CASE Lose
  BY <1>7 DEF Lose
<1>8. CASE UNCHANGED vars
  BY <1>8 DEF vars
<1> QED
  BY <1>1, <1>2, <1>3, <1>4, <1>5, <1>6, <1>7, <1>8 DEF Next, Report, Miss

(* Types are correct.                                                       *)
THEOREM TypeCorrect == Spec => []TypeOK
<1>1. Init => TypeOK
  BY ResolveAfterIsPositive DEF Init, TypeOK, Absent, Findings, Changes, News
<1> QED
  BY <1>1, LifecycleTyped, PTL DEF Spec

(* The news agree with what is stored after every scan and decision.        *)
THEOREM NewsAlwaysMatch == Spec => []NewsMatchesFinding
<1> DEFINE Inv == NewsMatchesFinding /\ ResolvedIsEarned
<1>1. Init => Inv
  BY ResolveAfterIsPositive
     DEF Init, NewsMatchesFinding, ResolvedIsEarned, LastNews, Absent
<1>2. TypeOK /\ Inv /\ [Next]_vars => Inv'
  <2> SUFFICES ASSUME TypeOK, Inv, [Next]_vars PROVE Inv'
    OBVIOUS
  <2> USE ResolveAfterIsPositive
      DEF TypeOK, Findings, Changes, News, NewsMatchesFinding, ResolvedIsEarned, LastNews
  <2>1. ASSUME NEW fp \in Fingerprints, ReportOpens(fp) PROVE Inv'
    BY <2>1 DEF ReportOpens, Opened
  <2>2. ASSUME NEW fp \in Fingerprints, ReportRefreshes(fp) PROVE Inv'
    BY <2>2 DEF ReportRefreshes, Decisions, Statuses
  <2>3. ASSUME NEW fp \in Fingerprints, MissCounts(fp) PROVE Inv'
    BY <2>3 DEF MissCounts, Live
  <2>4. ASSUME NEW fp \in Fingerprints, MissResolves(fp) PROVE Inv'
    BY <2>4 DEF MissResolves
  <2>5. ASSUME NEW fp \in Fingerprints, NEW status \in Decisions,
               Decide(fp, status)
        PROVE  Inv'
    BY <2>5 DEF Decide, Decisions, Statuses
  <2>6. CASE Tell
    BY <2>6 DEF Tell
  <2>7. CASE Lose
    BY <2>7 DEF Lose
  <2>8. CASE UNCHANGED vars
    BY <2>8 DEF vars
  <2> QED
    BY <2>1, <2>2, <2>3, <2>4, <2>5, <2>6, <2>7, <2>8 DEF Next, Report, Miss
<1> QED
  BY <1>1, <1>2, TypeCorrect, PTL DEF Spec
=============================================================================
