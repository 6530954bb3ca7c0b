-------------------------- MODULE Reconcile_proofs --------------------------
(***************************************************************************)
(* Theorems about Reconcile for any number of fingerprints, scanners and   *)
(* operators, with every overlap, error and crash.                         *)
(***************************************************************************)
EXTENDS Reconcile, TLAPS

(* Upserted keeps the rows typed, changes the row of its fingerprint only,  *)
(* and leaves that row with the written record up to its identity.          *)
LEMMA UpsertedType ==
  ASSUME NEW rows \in [Fingerprints -> MaybeRecord], NEW fp \in Fingerprints,
         NEW rec \in Record
  PROVE  Upserted(rows, fp, rec) \in [Fingerprints -> MaybeRecord]
BY DEF Upserted, MaybeRecord, Record

(* The records Reconcile writes are records.                                *)
LEMMA WrittenType ==
  ASSUME NEW prev \in Record, NEW t \in Nat
  PROVE  /\ NewRecord(t) \in Record
         /\ Merged(prev, t) \in Record
         /\ Missed(prev, t) \in Record
<1> USE DEF Record, Statuses, Never
<1>1. NewRecord(t) \in Record
  BY DEF NewRecord
<1>2. Merged(prev, t) \in Record
  <2>1. CASE prev.status = "resolved"
    BY <2>1 DEF Merged
  <2>2. CASE prev.status # "resolved"
    BY <2>2 DEF Merged
  <2> QED
    BY <2>1, <2>2
<1>3. Missed(prev, t) \in Record
  <2>0. prev.streak + 1 \in Nat
    OBVIOUS
  <2>1. CASE prev.streak + 1 >= ResolveAfter
    <3>1. Missed(prev, t) =
            [prev EXCEPT !.streak = prev.streak + 1, !.status = "resolved",
                         !.resolvedAt = t]
      BY <2>1 DEF Missed
    <3> QED
      BY <2>0, <3>1
  <2>2. CASE ~ (prev.streak + 1 >= ResolveAfter)
    BY <2>0, <2>2 DEF Missed
  <2> QED
    BY <2>1, <2>2
<1> QED
  BY <1>1, <1>2, <1>3

LEMMA NoChangeIsNoChange == NoChange \notin [fp : Fingerprints, rec : Record]
BY MalformedIsNoFingerprint, NoRecordIsNoRecord DEF NoChange

LEMMA NoRowsType == NoRows \in [Fingerprints -> MaybeRecord]
BY DEF NoRows, MaybeRecord

LEMMA ReportsAreSequences ==
  ASSUME NEW report \in Reports
  PROVE  report \in Seq(Fingerprints \cup {Malformed})
<1>1. PICK n \in 0..MaxReport : report \in [1..n -> Fingerprints \cup {Malformed}]
  BY DEF Reports
<1>2. n \in Nat
  BY <1>1, BoundsAreNat
<1> QED
  BY <1>1, <1>2

(* Leaving Reconcile puts a scanner's locals back to well-typed values.     *)
LEMMA LeaveType ==
  ASSUME TypeOK, NEW s \in Scanners, Leave(s)
  PROVE  /\ pc' \in [Scanners -> {"idle", "list", "apply"}]
         /\ now' \in [Scanners -> Nat]
         /\ fresh' \in [Scanners -> Seq(Fingerprints \cup {Malformed})]
         /\ existing' \in [Scanners -> [Fingerprints -> MaybeRecord]]
         /\ passed' \in [Scanners -> SUBSET Fingerprints]
         /\ opened' \in [Scanners -> SUBSET Fingerprints]
         /\ resolved' \in [Scanners -> SUBSET Fingerprints]
BY NoRowsType DEF TypeOK, Leave

(* Every variable keeps its type (the Go types of findings, of Reconcile's  *)
(* locals and of ReconcileResult).                                          *)
THEOREM TypeCorrect == Spec => []TypeOK
<1>1. Init => TypeOK
  BY NoRowsType DEF Init, TypeOK, News
<1>2. TypeOK /\ [Next]_vars => TypeOK'
  <2> SUFFICES ASSUME TypeOK, [Next]_vars PROVE TypeOK'
    OBVIOUS
  <2>1. ASSUME NEW s \in Scanners, Begin(s) PROVE TypeOK'
    BY <2>1, ReportsAreSequences DEF TypeOK, Begin
  <2>2. ASSUME NEW s \in Scanners, ListByTarget(s) PROVE TypeOK'
    BY <2>2 DEF TypeOK, ListByTarget
  <2>3. ASSUME NEW s \in Scanners, Reject(s) PROVE TypeOK'
    BY <2>3 DEF TypeOK, Reject
  <2>4. ASSUME NEW s \in Scanners, Insert(s) PROVE TypeOK'
    <3> DEFINE fp == Head(fresh[s])
    <3>1. fp \in Fingerprints
      BY <2>4 DEF TypeOK, Insert
    <3>2. store' \in [Fingerprints -> MaybeRecord]
      <4>1. NewRecord(now[s]) \in Record
        BY DEF TypeOK, NewRecord, Record, Statuses, Never
      <4> QED
        BY <2>4, <3>1, <4>1, UpsertedType DEF TypeOK, Insert
    <3> QED
      BY <2>4, <3>1, <3>2 DEF TypeOK, Insert
  <2>5. ASSUME NEW s \in Scanners, Refresh(s) PROVE TypeOK'
    <3> DEFINE fp == Head(fresh[s])
    <3>1. fp \in Fingerprints
      BY <2>5 DEF TypeOK, Refresh
    <3>2. existing[s][fp] \in Record /\ now[s] \in Nat
      BY <2>5, <3>1 DEF TypeOK, Refresh, MaybeRecord
    <3>3. store' \in [Fingerprints -> MaybeRecord]
      BY <2>5, <3>1, <3>2, UpsertedType, WrittenType DEF TypeOK, Refresh
    <3> QED
      BY <2>5, <3>1, <3>3 DEF TypeOK, Refresh
  <2>6. ASSUME NEW s \in Scanners, NEW fp \in Fingerprints, CountAbsent(s, fp)
        PROVE  TypeOK'
    <3>1. existing[s][fp] \in Record /\ now[s] \in Nat
      BY <2>6 DEF TypeOK, CountAbsent, Due, MaybeRecord
    <3>2. store' \in [Fingerprints -> MaybeRecord]
      BY <2>6, <3>1, UpsertedType, WrittenType DEF TypeOK, CountAbsent
    <3> QED
      BY <2>6, <3>2 DEF TypeOK, CountAbsent
  <2>7. ASSUME NEW s \in Scanners, Return(s) PROVE TypeOK'
    <3>1. told' \in [Fingerprints -> News]
      BY <2>7 DEF TypeOK, Return, News
    <3> QED
      BY <2>7, <3>1, LeaveType DEF TypeOK, Return
  <2>8. ASSUME NEW s \in Scanners, Fail(s) PROVE TypeOK'
    <3>1. told' \in [Fingerprints -> News]
      BY <2>8 DEF TypeOK, Fail, LoseNews, News
    <3> QED
      BY <2>8, <3>1, LeaveType DEF TypeOK, Fail
  <2>9. ASSUME NEW o \in Operators, NEW fp \in Fingerprints,
               NEW next \in Decisions, GetFinding(o, fp, next)
        PROVE  TypeOK'
    <3>1. store[fp] \in Record
      BY <2>9 DEF TypeOK, GetFinding, MaybeRecord
    <3>2. [store[fp] EXCEPT !.status = next] \in Record
      BY <3>1 DEF Record, Decisions
    <3> QED
      BY <2>9, <3>2 DEF TypeOK, GetFinding, scanVars
  <2>10. ASSUME NEW o \in Operators, PutFinding(o) PROVE TypeOK'
    <3>1. change[o].fp \in Fingerprints /\ change[o].rec \in Record
      BY <2>10 DEF TypeOK, PutFinding
    <3>2. store' \in [Fingerprints -> MaybeRecord]
      BY <2>10, <3>1, UpsertedType DEF TypeOK, PutFinding
    <3> QED
      BY <2>10, <3>2 DEF TypeOK, PutFinding, scanVars
  <2>11. ASSUME NEW o \in Operators, PutFails(o) PROVE TypeOK'
    BY <2>11 DEF TypeOK, PutFails, scanVars
  <2>12. CASE Crash
    BY <2>12, NoRowsType DEF TypeOK, Crash, News
  <2>13. CASE UNCHANGED vars
    BY <2>13 DEF TypeOK, vars, scanVars
  <2> QED
    BY <2>1, <2>2, <2>3, <2>4, <2>5, <2>6, <2>7, <2>8, <2>9, <2>10, <2>11,
       <2>12, <2>13 DEF Next, ScannerStep, OperatorStep
<1> QED
  BY <1>1, <1>2, PTL DEF Spec

-----------------------------------------------------------------------------

(* Reconcile writes only records that earned their resolution, given that   *)
(* the row it read had.                                                     *)
LEMMA WrittenIsEarned ==
  ASSUME NEW prev \in Record, Earned(prev), NEW t \in Nat, t # Never
  PROVE  /\ Earned(NewRecord(t))
         /\ Earned(Merged(prev, t))
         /\ Earned(Missed(prev, t))
<1> USE ResolveAfterIsPositive DEF Record, Never, Earned
<1>1. Earned(NewRecord(t))
  BY DEF NewRecord
<1>2. Earned(Merged(prev, t))
  <2>1. CASE prev.status = "resolved"
    BY <2>1 DEF Merged
  <2>2. CASE prev.status # "resolved"
    BY <2>2 DEF Merged
  <2> QED
    BY <2>1, <2>2
<1>3. Earned(Missed(prev, t))
  <2>1. CASE prev.streak + 1 >= ResolveAfter
    <3>1. Missed(prev, t) =
            [prev EXCEPT !.streak = prev.streak + 1, !.status = "resolved",
                         !.resolvedAt = t]
      BY <2>1 DEF Missed
    <3> QED
      BY <2>1, <3>1
  <2>2. CASE ~ (prev.streak + 1 >= ResolveAfter)
    <3>1. Missed(prev, t) = [prev EXCEPT !.streak = prev.streak + 1]
      BY <2>2 DEF Missed
    <3>2. prev.streak < ResolveAfter
      BY <2>2
    <3>3. Missed(prev, t).status # "resolved"
      BY <3>1, <3>2
    <3> QED
      BY <2>2, <3>1, <3>3
  <2> QED
    BY <2>1, <2>2
<1> QED
  BY <1>1, <1>2, <1>3

(* An upsert of a record that earned its resolution stores such a record,   *)
(* whoever else wrote the row meanwhile.                                    *)
LEMMA UpsertedIsEarned ==
  ASSUME NEW fp \in Fingerprints, NEW rec \in Record, Earned(rec),
         store \in [Fingerprints -> MaybeRecord], ResolvedIsEarned,
         store' = Upserted(store, fp, rec)
  PROVE  ResolvedIsEarned'
<1> SUFFICES ASSUME NEW g \in Fingerprints, store'[g] # NoRecord
             PROVE  Earned(store'[g])
  BY DEF ResolvedIsEarned, Earned
<1>1. CASE g # fp
  BY <1>1 DEF Upserted, ResolvedIsEarned
<1>2. CASE g = fp
  <2>1. store'[g] = rec \/ store'[g] = [rec EXCEPT !.born = store[fp].born]
    BY <1>2 DEF Upserted
  <2> QED
    BY <2>1 DEF Earned, Record
<1> QED
  BY <1>1, <1>2

(* EarnedInv is preserved by every step.                                    *)
LEMMA EarnedStep == TypeOK /\ EarnedInv /\ [Next]_vars => EarnedInv'
<1> SUFFICES ASSUME TypeOK, EarnedInv, [Next]_vars PROVE EarnedInv'
  OBVIOUS
<1>1. ASSUME NEW s \in Scanners, Begin(s) PROVE EarnedInv'
  BY <1>1 DEF EarnedInv, ResolvedIsEarned, Earned, TypeOK, Begin, Never
<1>2. ASSUME NEW s \in Scanners, ListByTarget(s) PROVE EarnedInv'
  BY <1>2 DEF EarnedInv, ResolvedIsEarned, Earned, TypeOK, ListByTarget
<1>3. ASSUME NEW s \in Scanners, Reject(s) PROVE EarnedInv'
  BY <1>3 DEF EarnedInv, ResolvedIsEarned, Earned, TypeOK, Reject
<1>4. ASSUME NEW s \in Scanners, Insert(s) PROVE EarnedInv'
  <2> DEFINE fp == Head(fresh[s])
  <2>1. fp \in Fingerprints /\ now[s] \in Nat /\ now[s] # Never
    BY <1>4 DEF TypeOK, Insert, EarnedInv
  <2>2. NewRecord(now[s]) \in Record /\ Earned(NewRecord(now[s]))
    BY <2>1, ResolveAfterIsPositive
       DEF NewRecord, Record, Statuses, Never, Earned
  <2>3. ResolvedIsEarned'
    BY <1>4, <2>1, <2>2, UpsertedIsEarned DEF TypeOK, Insert, EarnedInv
  <2> QED
    BY <1>4, <2>3 DEF EarnedInv, Earned, Insert
<1>5. ASSUME NEW s \in Scanners, Refresh(s) PROVE EarnedInv'
  <2> DEFINE fp == Head(fresh[s])
             rec == Merged(existing[s][fp], now[s])
  <2>1. fp \in Fingerprints /\ now[s] \in Nat /\ now[s] # Never
    BY <1>5 DEF TypeOK, Refresh, EarnedInv
  <2>2. existing[s][fp] \in Record /\ Earned(existing[s][fp])
    BY <1>5, <2>1 DEF TypeOK, Refresh, MaybeRecord, EarnedInv
  <2>3. rec \in Record /\ Earned(rec)
    BY <2>1, <2>2, WrittenType, WrittenIsEarned
  <2>4. ResolvedIsEarned'
    BY <1>5, <2>1, <2>3, UpsertedIsEarned DEF TypeOK, Refresh, EarnedInv
  <2> QED
    BY <1>5, <2>4 DEF EarnedInv, Earned, Refresh
<1>6. ASSUME NEW s \in Scanners, NEW fp \in Fingerprints, CountAbsent(s, fp)
      PROVE  EarnedInv'
  <2> DEFINE rec == Missed(existing[s][fp], now[s])
  <2>1. now[s] \in Nat /\ now[s] # Never
    BY <1>6 DEF TypeOK, CountAbsent, EarnedInv
  <2>2. existing[s][fp] \in Record /\ Earned(existing[s][fp])
    BY <1>6 DEF TypeOK, CountAbsent, Due, MaybeRecord, EarnedInv
  <2>3. rec \in Record /\ Earned(rec)
    BY <2>1, <2>2, WrittenType, WrittenIsEarned
  <2>4. ResolvedIsEarned'
    BY <1>6, <2>3, UpsertedIsEarned DEF TypeOK, CountAbsent, EarnedInv
  <2> QED
    BY <1>6, <2>4 DEF EarnedInv, Earned, CountAbsent
<1>7. ASSUME NEW s \in Scanners, Leave(s), UNCHANGED <<store, change>>
      PROVE  EarnedInv'
  BY <1>7 DEF EarnedInv, ResolvedIsEarned, Earned, TypeOK, Leave, NoRows
<1>8. ASSUME NEW o \in Operators, NEW fp \in Fingerprints,
             NEW next \in Decisions, GetFinding(o, fp, next)
      PROVE  EarnedInv'
  <2> DEFINE rec == [store[fp] EXCEPT !.status = next]
  <2>1. store[fp] \in Record /\ Earned(store[fp])
    BY <1>8 DEF TypeOK, GetFinding, MaybeRecord, EarnedInv, ResolvedIsEarned
  <2>2. Earned(rec)
    BY <2>1 DEF Earned, Record, Decisions
  <2> QED
    BY <1>8, <2>2 DEF EarnedInv, ResolvedIsEarned, Earned, TypeOK, GetFinding,
                      scanVars
<1>9. ASSUME NEW o \in Operators, PutFinding(o) PROVE EarnedInv'
  <2>1. change[o].fp \in Fingerprints /\ change[o].rec \in Record
    BY <1>9 DEF TypeOK, PutFinding
  <2>2. ResolvedIsEarned'
    BY <1>9, <2>1, UpsertedIsEarned DEF TypeOK, PutFinding, EarnedInv
  <2> QED
    BY <1>9, <2>2 DEF EarnedInv, Earned, TypeOK, PutFinding, scanVars
<1>10. ASSUME NEW o \in Operators, PutFails(o) PROVE EarnedInv'
  BY <1>10 DEF EarnedInv, ResolvedIsEarned, Earned, TypeOK, PutFails, scanVars
<1>11. CASE Crash
  BY <1>11 DEF EarnedInv, ResolvedIsEarned, Earned, Crash, NoRows
<1>12. CASE UNCHANGED vars
  BY <1>12 DEF EarnedInv, ResolvedIsEarned, Earned, vars, scanVars
<1> QED
  BY <1>1, <1>2, <1>3, <1>4, <1>5, <1>6, <1>7, <1>8, <1>9, <1>10, <1>11,
     <1>12 DEF Next, ScannerStep, OperatorStep, Return, Fail

(* A resolved finding always carries its resolution time and the full count *)
(* of misses, whatever overlaps, fails or crashes.                          *)
THEOREM ResolvedAlwaysEarned == Spec => []ResolvedIsEarned
<1>1. Init => EarnedInv
  BY DEF Init, EarnedInv, ResolvedIsEarned, NoRows
<1>2. EarnedInv => ResolvedIsEarned
  BY DEF EarnedInv
<1> QED
  BY <1>1, <1>2, EarnedStep, TypeCorrect, PTL DEF Spec

(* A stored finding stays stored with its ID and FirstSeen.                 *)
THEOREM IdentityAlwaysStable == Spec => IdentityIsStable
<1> DEFINE Stable == \A fp \in Fingerprints :
                       store[fp] # NoRecord =>
                         /\ store'[fp] # NoRecord
                         /\ store'[fp].born = store[fp].born
<1>1. ASSUME NEW fp \in Fingerprints, NEW rec \in Record,
             store \in [Fingerprints -> MaybeRecord],
             store' = Upserted(store, fp, rec)
      PROVE  Stable
  <2>1. ASSUME NEW g \in Fingerprints, store[g] # NoRecord
        PROVE  store'[g] # NoRecord /\ store'[g].born = store[g].born
    <3>1. CASE g # fp
      BY <1>1, <2>1, <3>1 DEF Upserted
    <3>2. CASE g = fp
      <4>1. store'[g] = [rec EXCEPT !.born = store[g].born]
        BY <1>1, <2>1, <3>2 DEF Upserted
      <4>2. store'[g] \in Record
        BY <1>1, <2>1, <4>1 DEF Record, MaybeRecord
      <4> QED
        BY <1>1, <4>1, <4>2, NoRecordIsNoRecord DEF Record
    <3> QED
      BY <3>1, <3>2
  <2> QED
    BY <2>1
<1>2. TypeOK /\ [Next]_vars => [Stable]_store
  <2> SUFFICES ASSUME TypeOK, Next, store' # store PROVE Stable
    BY DEF vars
  <2>1. ASSUME NEW s \in Scanners, Insert(s) PROVE Stable
    <3>1. Head(fresh[s]) \in Fingerprints /\ NewRecord(now[s]) \in Record
      BY <2>1 DEF TypeOK, Insert, NewRecord, Record, Statuses, Never
    <3> QED
      BY <2>1, <3>1, <1>1 DEF TypeOK, Insert
  <2>2. ASSUME NEW s \in Scanners, Refresh(s) PROVE Stable
    <3> DEFINE fp == Head(fresh[s])
    <3>1. fp \in Fingerprints
      BY <2>2 DEF TypeOK, Refresh
    <3>2. Merged(existing[s][fp], now[s]) \in Record
      BY <2>2, <3>1, WrittenType DEF TypeOK, Refresh, MaybeRecord
    <3> QED
      BY <2>2, <3>1, <3>2, <1>1 DEF TypeOK, Refresh
  <2>3. ASSUME NEW s \in Scanners, NEW fp \in Fingerprints, CountAbsent(s, fp)
        PROVE  Stable
    <3>1. Missed(existing[s][fp], now[s]) \in Record
      BY <2>3, WrittenType DEF TypeOK, CountAbsent, Due, MaybeRecord
    <3> QED
      BY <2>3, <3>1, <1>1 DEF TypeOK, CountAbsent
  <2>4. ASSUME NEW o \in Operators, PutFinding(o) PROVE Stable
    <3>1. change[o].fp \in Fingerprints /\ change[o].rec \in Record
      BY <2>4 DEF TypeOK, PutFinding
    <3> QED
      BY <2>4, <3>1, <1>1 DEF TypeOK, PutFinding
  <2> QED
    BY <2>1, <2>2, <2>3, <2>4
       DEF Next, ScannerStep, OperatorStep, Begin, ListByTarget, Reject, Return,
           Fail, GetFinding, PutFails, Crash
<1> QED
  BY <1>2, TypeCorrect, PTL DEF Spec, IdentityIsStable

-----------------------------------------------------------------------------

(* An upsert stores the fingerprint it is given and no other.               *)
LEMMA UpsertedStores ==
  ASSUME NEW rows \in [Fingerprints -> MaybeRecord], NEW fp \in Fingerprints,
         NEW rec \in Record, NEW g \in Fingerprints
  PROVE  Upserted(rows, fp, rec)[g] # NoRecord <=> g = fp \/ rows[g] # NoRecord
<1>1. CASE g # fp
  BY <1>1 DEF Upserted
<1>2. CASE g = fp
  <2>1. \/ Upserted(rows, fp, rec)[g] = rec
        \/ Upserted(rows, fp, rec)[g] = [rec EXCEPT !.born = rows[fp].born]
    BY <1>2 DEF Upserted
  <2>2. CASE Upserted(rows, fp, rec)[g] = rec
    BY <1>2, <2>2, NoRecordIsNoRecord
  <2>3. CASE rows[fp] # NoRecord
    <3>1. Upserted(rows, fp, rec)[g] = [rec EXCEPT !.born = rows[fp].born]
      BY <1>2, <2>3 DEF Upserted
    <3>2. [rec EXCEPT !.born = rows[fp].born] \in Record
      BY <2>3 DEF Record, MaybeRecord
    <3> QED
      BY <1>2, <3>1, <3>2, NoRecordIsNoRecord
  <2>4. CASE rows[fp] = NoRecord
    <3>1. Upserted(rows, fp, rec)[g] = rec
      BY <1>2, <2>4 DEF Upserted
    <3> QED
      BY <1>2, <3>1, NoRecordIsNoRecord
  <2> QED
    BY <2>3, <2>4
<1> QED
  BY <1>1, <1>2

(* What scanner s has to announce of what it wrote.                         *)
Unsaid(s) == opened[s] \cup resolved[s]

(* StoredIsTold with what is under way: a row some scan or request holds,   *)
(* or means to announce, is stored, and a stored row was announced or is in *)
(* a running scan's result.                                                 *)
ToldInv ==
  /\ \A fp \in Fingerprints :
       told[fp] # "none" => store[fp] # NoRecord
  /\ \A fp \in Fingerprints :
       store[fp] # NoRecord =>
         told[fp] # "none" \/ \E s \in Scanners : fp \in Unsaid(s)
  /\ \A s \in Scanners, fp \in Fingerprints :
       fp \in Unsaid(s) \/ existing[s][fp] # NoRecord => store[fp] # NoRecord
  /\ \A o \in Operators :
       change[o] # NoChange => store[change[o].fp] # NoRecord
  /\ \A s \in Scanners : pc[s] = "idle" => Unsaid(s) = {}

(* A scan's write keeps it, given that what the scan wrote is stored already*)
(* or in the scan's result.                                                 *)
LEMMA ToldWrite ==
  ASSUME TypeOK, ToldInv, NEW s \in Scanners, NEW fp \in Fingerprints,
         NEW rec \in Record, store' = Upserted(store, fp, rec),
         pc[s] # "idle", UNCHANGED <<pc, existing, change, told>>,
         Unsaid(s)' = Unsaid(s) \/ Unsaid(s)' = Unsaid(s) \cup {fp},
         \A t \in Scanners : t # s => Unsaid(t)' = Unsaid(t),
         store[fp] # NoRecord \/ fp \in Unsaid(s)'
  PROVE  ToldInv'
<1>1. \A g \in Fingerprints :
        store'[g] # NoRecord <=> g = fp \/ store[g] # NoRecord
  BY UpsertedStores DEF TypeOK
<1>2. \A t \in Scanners, g \in Fingerprints :
        g \in Unsaid(t) => g \in Unsaid(t)'
  OBVIOUS
<1>3. \A t \in Scanners, g \in Fingerprints :
        g \in Unsaid(t)' => g = fp \/ g \in Unsaid(t)
  OBVIOUS
<1>4. \A o \in Operators : change[o] # NoChange =>
        change[o].fp \in Fingerprints
  BY DEF TypeOK
<1>5. \A t \in Scanners : pc[t] = "idle" => Unsaid(t)' = {}
  BY DEF ToldInv
<1> HIDE DEF Unsaid
<1> QED
  BY <1>1, <1>2, <1>3, <1>4, <1>5 DEF ToldInv

(* ToldInv is preserved by every step.                                      *)
LEMMA ToldStep == TypeOK /\ ToldInv /\ [Next]_vars => ToldInv'
<1> SUFFICES ASSUME TypeOK, ToldInv, [Next]_vars PROVE ToldInv'
  OBVIOUS
<1>1. ASSUME NEW s \in Scanners, Begin(s) PROVE ToldInv'
  BY <1>1 DEF ToldInv, Unsaid, TypeOK, Begin
<1>2. ASSUME NEW s \in Scanners, ListByTarget(s) PROVE ToldInv'
  BY <1>2 DEF ToldInv, Unsaid, TypeOK, ListByTarget
<1>3. ASSUME NEW s \in Scanners, Reject(s) PROVE ToldInv'
  BY <1>3 DEF ToldInv, Unsaid, TypeOK, Reject
<1>4. ASSUME NEW s \in Scanners, Insert(s) PROVE ToldInv'
  <2> DEFINE fp == Head(fresh[s])
  <2>1. fp \in Fingerprints /\ NewRecord(now[s]) \in Record
    BY <1>4 DEF TypeOK, Insert, NewRecord, Record, Statuses, Never
  <2>2. Unsaid(s)' = Unsaid(s) \cup {fp}
    BY <1>4 DEF TypeOK, Insert, Unsaid
  <2>3. \A t \in Scanners : t # s => Unsaid(t)' = Unsaid(t)
    BY <1>4 DEF TypeOK, Insert, Unsaid
  <2>4. /\ store' = Upserted(store, fp, NewRecord(now[s]))
        /\ pc[s] # "idle"
        /\ UNCHANGED <<pc, existing, change, told>>
    BY <1>4 DEF Insert
  <2> QED
    BY <2>1, <2>2, <2>3, <2>4, ToldWrite
<1>5. ASSUME NEW s \in Scanners, Refresh(s) PROVE ToldInv'
  <2> DEFINE fp == Head(fresh[s])
             rec == Merged(existing[s][fp], now[s])
  <2>1. fp \in Fingerprints
    BY <1>5 DEF TypeOK, Refresh
  <2>2. rec \in Record
    BY <1>5, <2>1, WrittenType DEF TypeOK, Refresh, MaybeRecord
  <2>3. store[fp] # NoRecord
    BY <1>5, <2>1 DEF Refresh, ToldInv
  <2>4. Unsaid(s)' = Unsaid(s) \/ Unsaid(s)' = Unsaid(s) \cup {fp}
    BY <1>5 DEF TypeOK, Refresh, Unsaid
  <2>5. \A t \in Scanners : t # s => Unsaid(t)' = Unsaid(t)
    BY <1>5 DEF TypeOK, Refresh, Unsaid
  <2>6. /\ store' = Upserted(store, fp, rec)
        /\ pc[s] # "idle"
        /\ UNCHANGED <<pc, existing, change, told>>
    BY <1>5 DEF Refresh
  <2> HIDE DEF fp, rec
  <2> QED
    BY <2>1, <2>2, <2>3, <2>4, <2>5, <2>6, ToldWrite
<1>6. ASSUME NEW s \in Scanners, NEW fp \in Fingerprints, CountAbsent(s, fp)
      PROVE  ToldInv'
  <2> DEFINE rec == Missed(existing[s][fp], now[s])
  <2>1. rec \in Record
    BY <1>6, WrittenType DEF TypeOK, CountAbsent, Due, MaybeRecord
  <2>2. store[fp] # NoRecord
    BY <1>6 DEF CountAbsent, Due, ToldInv
  <2>3. Unsaid(s)' = Unsaid(s) \/ Unsaid(s)' = Unsaid(s) \cup {fp}
    BY <1>6 DEF TypeOK, CountAbsent, Unsaid
  <2>4. \A t \in Scanners : t # s => Unsaid(t)' = Unsaid(t)
    BY <1>6 DEF TypeOK, CountAbsent, Unsaid
  <2>5. /\ store' = Upserted(store, fp, rec)
        /\ pc[s] # "idle"
        /\ UNCHANGED <<pc, existing, change, told>>
    BY <1>6 DEF CountAbsent
  <2> HIDE DEF rec
  <2> QED
    BY <2>1, <2>2, <2>3, <2>4, <2>5, ToldWrite
<1>7. ASSUME NEW s \in Scanners, Leave(s), UNCHANGED <<store, change>>,
             \A fp \in Fingerprints :
               told'[fp] # "none" <=> fp \in Unsaid(s) \/ told[fp] # "none"
      PROVE  ToldInv'
  <2>1. Unsaid(s)' = {}
    BY <1>7 DEF Leave, Unsaid, TypeOK
  <2>2. \A t \in Scanners : t # s => Unsaid(t)' = Unsaid(t)
    BY <1>7 DEF Leave, Unsaid, TypeOK
  <2>3. \A t \in Scanners, fp \in Fingerprints :
          existing'[t][fp] # NoRecord => existing[t][fp] # NoRecord
    BY <1>7 DEF Leave, TypeOK, NoRows
  <2>4. \A t \in Scanners : t # s => pc'[t] = pc[t]
    BY <1>7 DEF Leave, TypeOK
  <2> HIDE DEF Unsaid
  <2>5. \A t \in Scanners, fp \in Fingerprints :
          fp \in Unsaid(t)' => fp \in Unsaid(t)
    BY <2>1, <2>2
  <2>6. \A fp \in Fingerprints, t \in Scanners :
          fp \in Unsaid(t) => told'[fp] # "none" \/ fp \in Unsaid(t)'
    BY <1>7, <2>2
  <2>7. \A t \in Scanners : pc'[t] = "idle" => Unsaid(t)' = {}
    BY <2>1, <2>2, <2>4 DEF ToldInv
  <2> QED
    BY <1>7, <2>3, <2>5, <2>6, <2>7 DEF ToldInv
<1>8. ASSUME NEW s \in Scanners, Return(s) PROVE ToldInv'
  <2>1. \A fp \in Fingerprints :
          told'[fp] # "none" <=> fp \in Unsaid(s) \/ told[fp] # "none"
    BY <1>8 DEF Return, Unsaid, TypeOK
  <2> QED
    BY <1>7, <1>8, <2>1 DEF Return
<1>9. ASSUME NEW s \in Scanners, Fail(s) PROVE ToldInv'
  <2>1. \A fp \in Fingerprints :
          told'[fp] # "none" <=> fp \in Unsaid(s) \/ told[fp] # "none"
    BY <1>9 DEF Fail, LoseNews, Unsaid, TypeOK
  <2> QED
    BY <1>7, <1>9, <2>1 DEF Fail
<1>10. ASSUME NEW o \in Operators, NEW fp \in Fingerprints,
              NEW next \in Decisions, GetFinding(o, fp, next)
       PROVE  ToldInv'
  BY <1>10 DEF ToldInv, Unsaid, TypeOK, GetFinding, scanVars
<1>11. ASSUME NEW o \in Operators, PutFinding(o) PROVE ToldInv'
  <2>1. change[o].fp \in Fingerprints /\ change[o].rec \in Record
    BY <1>11 DEF TypeOK, PutFinding
  <2>2. \A g \in Fingerprints : store'[g] # NoRecord <=> store[g] # NoRecord
    <3>1. store[change[o].fp] # NoRecord
      BY <1>11 DEF PutFinding, ToldInv
    <3>2. /\ store \in [Fingerprints -> MaybeRecord]
          /\ store' = Upserted(store, change[o].fp, change[o].rec)
      BY <1>11 DEF TypeOK, PutFinding
    <3> QED
      BY <2>1, <3>1, <3>2, UpsertedStores
  <2>3. \A p \in Operators : change'[p] # NoChange => change'[p] = change[p]
    BY <1>11 DEF TypeOK, PutFinding
  <2>4. \A p \in Operators :
          change[p] # NoChange => change[p].fp \in Fingerprints
    BY DEF TypeOK
  <2>5. UNCHANGED <<scanVars, told>>
    BY <1>11 DEF PutFinding
  <2> QED
    BY <2>2, <2>3, <2>4, <2>5 DEF ToldInv, Unsaid, scanVars
<1>12. ASSUME NEW o \in Operators, PutFails(o) PROVE ToldInv'
  BY <1>12 DEF ToldInv, Unsaid, TypeOK, PutFails, scanVars
<1>13. CASE Crash
  <2>1. \A s \in Scanners : Unsaid(s)' = {}
    BY <1>13 DEF Crash, Unsaid
  <2>2. \A fp \in Fingerprints :
          told'[fp] # "none" <=>
            told[fp] # "none" \/ \E s \in Scanners : fp \in Unsaid(s)
    BY <1>13 DEF Crash, Unsaid, TypeOK
  <2>3. /\ \A s \in Scanners, fp \in Fingerprints : existing'[s][fp] = NoRecord
        /\ \A o \in Operators : change'[o] = NoChange
        /\ UNCHANGED store
    BY <1>13 DEF Crash, NoRows
  <2> HIDE DEF Unsaid
  <2> QED
    BY <2>1, <2>2, <2>3 DEF ToldInv
<1>14. CASE UNCHANGED vars
  BY <1>14 DEF ToldInv, Unsaid, vars, scanVars
<1> QED
  BY <1>1, <1>2, <1>3, <1>4, <1>5, <1>6, <1>8, <1>9, <1>10, <1>11, <1>12,
     <1>13, <1>14 DEF Next, ScannerStep, OperatorStep

(* Once nothing runs, there was news of exactly the findings that are       *)
(* stored, whatever overlapped, failed or crashed.                          *)
THEOREM StoredAlwaysTold == Spec => []StoredIsTold
<1>1. Init => ToldInv
  BY DEF Init, ToldInv, Unsaid, NoRows
<1>2. ToldInv => StoredIsTold
  BY DEF ToldInv, StoredIsTold, Quiet
<1> QED
  BY <1>1, <1>2, ToldStep, TypeCorrect, PTL DEF Spec

-----------------------------------------------------------------------------
(***************************************************************************)
(* Scans and status requests that do not overlap (Isolated).               *)
(***************************************************************************)

(* One scan or one request is at work at a time, a scan that has listed     *)
(* nothing has done nothing, and the clock is that of the scan at work.     *)
OneAtATime ==
  /\ \A s, t \in Scanners : pc[s] # "idle" /\ pc[t] # "idle" => s = t
  /\ \A o, p \in Operators :
       change[o] # NoChange /\ change[p] # NoChange => o = p
  /\ \A s \in Scanners, o \in Operators :
       pc[s] = "idle" \/ change[o] = NoChange
  /\ \A s \in Scanners :
       pc[s] # "apply" => passed[s] = {} /\ opened[s] = {} /\ resolved[s] = {}
  /\ \A s \in Scanners : pc[s] # "idle" => now[s] = scans /\ now[s] # Never

(* OneAtATime is preserved by every step.                                   *)
LEMMA OneAtATimeStep ==
  ASSUME Isolated PROVE TypeOK /\ OneAtATime /\ [Next]_vars => OneAtATime'
<1> SUFFICES ASSUME Isolated, TypeOK, OneAtATime, [Next]_vars
             PROVE  OneAtATime'
  OBVIOUS
<1> USE DEF OneAtATime
<1>1. ASSUME NEW s \in Scanners, Begin(s) PROVE OneAtATime'
  <2>1. /\ \A t \in Scanners : pc[t] = "idle" /\ (t # s => pc'[t] = "idle")
        /\ \A o \in Operators : change'[o] = NoChange
        /\ UNCHANGED <<passed, opened, resolved>>
    BY <1>1 DEF Begin, Quiet, TypeOK
  <2>2. now'[s] = scans' /\ now'[s] # Never
    BY <1>1 DEF Begin, TypeOK, Never
  <2> QED
    BY <2>1, <2>2
<1>2. ASSUME NEW s \in Scanners, ListByTarget(s) PROVE OneAtATime'
  BY <1>2 DEF TypeOK, ListByTarget
<1>3. ASSUME NEW s \in Scanners, Reject(s) PROVE OneAtATime'
  BY <1>3 DEF TypeOK, Reject
<1>4. ASSUME NEW s \in Scanners, Insert(s) PROVE OneAtATime'
  BY <1>4 DEF TypeOK, Insert
<1>5. ASSUME NEW s \in Scanners, Refresh(s) PROVE OneAtATime'
  BY <1>5 DEF TypeOK, Refresh
<1>6. ASSUME NEW s \in Scanners, NEW fp \in Fingerprints, CountAbsent(s, fp)
      PROVE  OneAtATime'
  BY <1>6 DEF TypeOK, CountAbsent
<1>7. ASSUME NEW s \in Scanners, Leave(s), UNCHANGED <<scans, change>>
      PROVE  OneAtATime'
  BY <1>7 DEF TypeOK, Leave
<1>8. ASSUME NEW o \in Operators, NEW fp \in Fingerprints,
             NEW next \in Decisions, GetFinding(o, fp, next)
      PROVE  OneAtATime'
  <2>1. /\ \A t \in Scanners : pc'[t] = "idle"
        /\ \A p \in Operators : p # o => change'[p] = NoChange
        /\ UNCHANGED <<passed, opened, resolved, pc>>
    BY <1>8 DEF GetFinding, Quiet, TypeOK, scanVars
  <2> QED
    BY <2>1
<1>9. ASSUME NEW o \in Operators, PutFinding(o) \/ PutFails(o)
      PROVE  OneAtATime'
  <2>1. /\ \A p \in Operators : change'[p] \in {change[p], NoChange}
        /\ UNCHANGED <<scans, scanVars>>
    BY <1>9 DEF TypeOK, PutFinding, PutFails
  <2> QED
    BY <2>1 DEF scanVars
<1>10. CASE Crash
  BY <1>10 DEF Crash
<1>11. CASE UNCHANGED vars
  BY <1>11 DEF vars, scanVars
<1> QED
  BY <1>1, <1>2, <1>3, <1>4, <1>5, <1>6, <1>7, <1>8, <1>9, <1>10, <1>11
     DEF Next, ScannerStep, OperatorStep, Return, Fail

(* What Merged and Missed change and keep.                                  *)
LEMMA MergedFields ==
  ASSUME NEW prev \in Record, NEW t \in Nat
  PROVE  /\ Merged(prev, t).status =
              IF prev.status = "resolved" THEN "open" ELSE prev.status
         /\ Merged(prev, t).streak = 0
         /\ Merged(prev, t).born = prev.born
         /\ Merged(prev, t).seenAt = t
         /\ Merged(prev, t).resolvedAt =
              IF prev.status = "resolved" THEN Never ELSE prev.resolvedAt
<1>1. CASE prev.status = "resolved"
  BY <1>1 DEF Merged, Record
<1>2. CASE prev.status # "resolved"
  BY <1>2 DEF Merged, Record
<1> QED
  BY <1>1, <1>2

LEMMA MissedFields ==
  ASSUME NEW prev \in Record, NEW t \in Nat
  PROVE  /\ Missed(prev, t).status =
              IF prev.streak + 1 >= ResolveAfter
              THEN "resolved" ELSE prev.status
         /\ Missed(prev, t).streak = prev.streak + 1
         /\ Missed(prev, t).born = prev.born
         /\ Missed(prev, t).seenAt = prev.seenAt
         /\ Missed(prev, t).resolvedAt =
              IF prev.streak + 1 >= ResolveAfter THEN t ELSE prev.resolvedAt
<1>1. CASE prev.streak + 1 >= ResolveAfter
  <2>1. Missed(prev, t) =
          [prev EXCEPT !.streak = prev.streak + 1, !.status = "resolved",
                       !.resolvedAt = t]
    BY <1>1 DEF Missed
  <2> QED
    BY <1>1, <2>1 DEF Record
<1>2. CASE ~ (prev.streak + 1 >= ResolveAfter)
  <2>1. Missed(prev, t) = [prev EXCEPT !.streak = prev.streak + 1]
    BY <1>2 DEF Missed
  <2> QED
    BY <1>2, <2>1 DEF Record
<1> QED
  BY <1>1, <1>2

LEMMA NewFields ==
  ASSUME NEW t \in Nat
  PROVE  /\ NewRecord(t) \in Record
         /\ NewRecord(t).status = "open"
         /\ NewRecord(t).streak = 0
         /\ NewRecord(t).born = t
         /\ NewRecord(t).seenAt = t
         /\ NewRecord(t).resolvedAt = Never
BY DEF NewRecord, Record, Statuses, Never

(* An upsert of a record that has the identity of the stored row, or of a   *)
(* row that is not stored, writes that record and nothing else.             *)
LEMMA UpsertedIsWritten ==
  ASSUME NEW rows \in [Fingerprints -> MaybeRecord], NEW fp \in Fingerprints,
         NEW rec \in Record, rows[fp] = NoRecord \/ rows[fp].born = rec.born
  PROVE  Upserted(rows, fp, rec) = [rows EXCEPT ![fp] = rec]
<1>1. CASE rows[fp] = NoRecord
  BY <1>1 DEF Upserted
<1>2. CASE rows[fp] # NoRecord
  <2>1. [rec EXCEPT !.born = rows[fp].born] = rec
    BY <1>2 DEF Record
  <2> QED
    BY <1>2, <2>1 DEF Upserted
<1> QED
  BY <1>1, <1>2

(* What scanner s makes of the row it read of a reported fingerprint.       *)
Applied(s, fp) ==
  IF existing[s][fp] = NoRecord
  THEN NewRecord(now[s]) ELSE Merged(existing[s][fp], now[s])

(* It opens fp: the finding is new to it or was resolved.                   *)
Opens(s, fp) ==
  existing[s][fp] = NoRecord \/ existing[s][fp].status = "resolved"

(* How a fingerprint stands in a scan at work: not treated yet, ...         *)
Untreated(s, fp) ==
  /\ store[fp] = existing[s][fp]
  /\ fp \notin opened[s]
  /\ fp \notin resolved[s]

(* ... reported, once or more, ...                                          *)
Reported(s, fp) ==
  /\ store[fp] = Applied(s, fp)
  /\ fp \in opened[s] <=> Opens(s, fp)
  /\ fp \notin resolved[s]

(* ... or counted as absent.                                                *)
Absented(s, fp) ==
  /\ fresh[s] = <<>>
  /\ existing[s][fp] # NoRecord
  /\ existing[s][fp].status \notin {"resolved", "suppressed"}
  /\ store[fp] = Missed(existing[s][fp], now[s])
  /\ fp \notin opened[s]
  /\ fp \in resolved[s] <=> store[fp].status = "resolved"

(* A request at work holds the stored row with another status.              *)
Decided(o) ==
  /\ store[change[o].fp] # NoRecord
  /\ \E next \in Decisions :
       change[o].rec = [store[change[o].fp] EXCEPT !.status = next]

(* What scans and requests hold is not out of date.                         *)
UpToDate ==
  /\ \A s \in Scanners, fp \in Fingerprints :
       pc[s] = "apply" =>
         IF fp \in passed[s] THEN Reported(s, fp) \/ Absented(s, fp)
                             ELSE Untreated(s, fp)
  /\ \A o \in Operators : change[o] # NoChange => Decided(o)

(* What a scan's step on a reported finding does.                           *)
ReportStep(s) == Insert(s) \/ Refresh(s)

LEMMA ReportEffect ==
  ASSUME TypeOK, OneAtATime, UpToDate, NEW s \in Scanners, ReportStep(s)
  PROVE  /\ Head(fresh[s]) \in Fingerprints
         /\ Applied(s, Head(fresh[s])) \in Record
         /\ store' = [store EXCEPT ![Head(fresh[s])] = Applied(s,
              Head(fresh[s]))]
         /\ passed' = [passed EXCEPT ![s] = passed[s] \cup {Head(fresh[s])}]
         /\ opened' = IF Opens(s, Head(fresh[s]))
                      THEN [opened EXCEPT ![s] = opened[s] \cup {Head(fresh[s])}]
                      ELSE opened
         /\ pc[s] = "apply" /\ fresh[s] # <<>>
         /\ UNCHANGED <<scans, pc, now, existing, resolved, change, told,
                        failures>>
<1> DEFINE fp == Head(fresh[s])
<1>1. /\ fp \in Fingerprints
      /\ now[s] \in Nat
      /\ existing[s][fp] \in MaybeRecord
      /\ pc[s] = "apply" /\ fresh[s] # <<>>
  BY DEF ReportStep, Insert, Refresh, TypeOK
<1>2. Applied(s, fp) \in Record
  BY <1>1, NewFields, WrittenType DEF Applied, MaybeRecord
<1>3. store' = Upserted(store, fp, Applied(s, fp))
  BY DEF ReportStep, Insert, Refresh, Applied
<1>4. store[fp] = NoRecord \/ store[fp].born = Applied(s, fp).born
  <2>1. store[fp] = existing[s][fp] \/ store[fp] = Applied(s, fp)
    BY <1>1 DEF UpToDate, Untreated, Reported, Absented
  <2>2. existing[s][fp] # NoRecord =>
          existing[s][fp].born = Applied(s, fp).born
    BY <1>1, MergedFields DEF Applied, MaybeRecord
  <2> QED
    BY <2>1, <2>2
<1>5. store' = [store EXCEPT ![fp] = Applied(s, fp)]
  BY <1>1, <1>2, <1>3, <1>4, UpsertedIsWritten DEF TypeOK
<1>6. /\ passed' = [passed EXCEPT ![s] = passed[s] \cup {fp}]
      /\ opened' = IF Opens(s, fp)
                   THEN [opened EXCEPT ![s] = opened[s] \cup {fp}] ELSE opened
      /\ UNCHANGED <<scans, pc, now, existing, resolved, change, told,
                     failures>>
  BY DEF ReportStep, Insert, Refresh, Opens
<1> QED
  BY <1>1, <1>2, <1>5, <1>6

(* What its step on an absent finding does.                                 *)
LEMMA AbsentEffect ==
  ASSUME TypeOK, OneAtATime, UpToDate, NEW s \in Scanners,
         NEW fp \in Fingerprints, CountAbsent(s, fp)
  PROVE  /\ store[fp] = existing[s][fp] /\ existing[s][fp] \in Record
         /\ existing[s][fp].status \notin {"resolved", "suppressed"}
         /\ now[s] \in Nat
         /\ Missed(existing[s][fp], now[s]) \in Record
         /\ store' = [store EXCEPT ![fp] = Missed(existing[s][fp], now[s])]
         /\ fp \notin passed[s]
         /\ passed' = [passed EXCEPT ![s] = passed[s] \cup {fp}]
         /\ resolved' = IF Missed(existing[s][fp], now[s]).status = "resolved"
                        THEN [resolved EXCEPT ![s] = resolved[s] \cup {fp}]
                        ELSE resolved
         /\ pc[s] = "apply" /\ fresh[s] = <<>>
         /\ UNCHANGED <<scans, pc, now, fresh, existing, opened, change, told,
                        failures>>
<1> DEFINE rec == Missed(existing[s][fp], now[s])
<1>1. /\ now[s] \in Nat
      /\ existing[s][fp] \in Record
      /\ existing[s][fp].status \notin {"resolved", "suppressed"}
      /\ fp \notin passed[s]
      /\ pc[s] = "apply" /\ fresh[s] = <<>>
  BY DEF CountAbsent, Due, TypeOK, MaybeRecord
<1>2. store[fp] = existing[s][fp]
  BY <1>1 DEF UpToDate, Untreated
<1>3. rec \in Record /\ rec.born = store[fp].born
  <2>1. rec \in Record
    BY <1>1, WrittenType
  <2>2. rec.born = existing[s][fp].born
    BY <1>1, MissedFields
  <2> QED
    BY <1>2, <2>1, <2>2
<1>4. store' = [store EXCEPT ![fp] = rec]
  BY <1>3, UpsertedIsWritten DEF CountAbsent, TypeOK
<1> QED
  BY <1>1, <1>2, <1>3, <1>4 DEF CountAbsent

(* What a request's write does.                                             *)
LEMMA PutEffect ==
  ASSUME TypeOK, OneAtATime, UpToDate, NEW o \in Operators, PutFinding(o)
  PROVE  \E fp \in Fingerprints, next \in Decisions :
           /\ store[fp] \in Record
           /\ store' = [store EXCEPT ![fp] = [store[fp] EXCEPT !.status = next]]
           /\ \A s \in Scanners : pc[s] = "idle"
           /\ \A p \in Operators : change'[p] = NoChange
           /\ UNCHANGED <<scans, scanVars, told, failures>>
<1>1. /\ change[o].fp \in Fingerprints /\ change[o].rec \in Record
      /\ change[o] # NoChange
      /\ store[change[o].fp] # NoRecord
      /\ store' = Upserted(store, change[o].fp, change[o].rec)
  BY DEF PutFinding, TypeOK, UpToDate, Decided
<1>2. PICK next \in Decisions :
        change[o].rec = [store[change[o].fp] EXCEPT !.status = next]
  BY <1>1 DEF UpToDate, Decided
<1>3. store[change[o].fp] \in Record
  BY <1>1 DEF TypeOK, MaybeRecord
<1>4. change[o].rec.born = store[change[o].fp].born
  BY <1>2, <1>3 DEF Record
<1>5. store' = [store EXCEPT ![change[o].fp] = change[o].rec]
  BY <1>1, <1>4, UpsertedIsWritten DEF TypeOK
<1>6. /\ \A s \in Scanners : pc[s] = "idle"
      /\ \A p \in Operators : change'[p] = NoChange
  BY <1>1 DEF PutFinding, OneAtATime, TypeOK
<1>7. UNCHANGED <<scans, scanVars, told, failures>>
  BY DEF PutFinding
<1>8. PICK fp \in Fingerprints : fp = change[o].fp
  BY <1>1
<1>9. /\ store[fp] \in Record
      /\ store' = [store EXCEPT ![fp] = [store[fp] EXCEPT !.status = next]]
  BY <1>2, <1>3, <1>5, <1>8
<1> QED
  BY <1>6, <1>7, <1>9

(* UpToDate is preserved by every step.                                     *)
LEMMA UpToDateStep ==
  ASSUME Isolated
  PROVE  TypeOK /\ OneAtATime /\ UpToDate /\ [Next]_vars => UpToDate'
<1> SUFFICES ASSUME Isolated, TypeOK, OneAtATime, UpToDate, [Next]_vars
             PROVE  UpToDate'
  OBVIOUS
<1> DEFINE Treated(s, fp) ==
      IF fp \in passed[s] THEN Reported(s, fp) \/ Absented(s, fp)
                          ELSE Untreated(s, fp)
<1>0. ASSUME NEW s \in Scanners, pc[s] # "idle",
             \A t \in Scanners : t # s => pc'[t] = pc[t],
             \A o \in Operators : change'[o] = change[o],
             \A fp \in Fingerprints : pc'[s] = "apply" => Treated(s, fp)'
      PROVE  UpToDate'
  <2>1. \A t \in Scanners : t # s => pc'[t] = "idle"
    BY <1>0 DEF OneAtATime
  <2>2. \A o \in Operators : change'[o] = NoChange
    BY <1>0 DEF OneAtATime
  <2> QED
    BY <1>0, <2>1, <2>2 DEF UpToDate
<1>1. ASSUME NEW s \in Scanners, Begin(s) PROVE UpToDate'
  <2>1. /\ \A t \in Scanners : pc'[t] # "apply"
        /\ \A o \in Operators : change'[o] = NoChange
    BY <1>1 DEF Begin, Quiet, TypeOK
  <2> QED
    BY <2>1 DEF UpToDate
<1>2. ASSUME NEW s \in Scanners, ListByTarget(s) PROVE UpToDate'
  <2>1. /\ pc[s] # "idle"
        /\ \A t \in Scanners : t # s => pc'[t] = pc[t]
        /\ \A o \in Operators : change'[o] = change[o]
    BY <1>2 DEF ListByTarget, TypeOK
  <2>2. /\ passed'[s] = {} /\ opened'[s] = {} /\ resolved'[s] = {}
        /\ existing'[s] = store
        /\ store' = store
    BY <1>2 DEF ListByTarget, TypeOK, OneAtATime
  <2>3. \A fp \in Fingerprints : Treated(s, fp)'
    BY <2>2 DEF Untreated
  <2> QED
    BY <1>0, <2>1, <2>3
<1>3. ASSUME NEW s \in Scanners, Reject(s) PROVE UpToDate'
  <2>1. /\ pc[s] = "apply"
        /\ fresh[s] # <<>>
        /\ UNCHANGED <<store, pc, now, existing, passed, opened, resolved,
                       change>>
    BY <1>3 DEF Reject
  <2>2. ASSUME NEW fp \in Fingerprints PROVE Treated(s, fp)'
    BY <2>1 DEF UpToDate, Untreated, Reported, Absented, Applied, Opens
  <2> QED
    BY <1>0, <2>1, <2>2
<1>4. ASSUME NEW s \in Scanners, ReportStep(s) PROVE UpToDate'
  <2>0. PICK fp \in Fingerprints : fp = Head(fresh[s])
    BY <1>4, ReportEffect
  <2>1. /\ store' = [store EXCEPT ![fp] = Applied(s, fp)]
        /\ passed'[s] = passed[s] \cup {fp}
        /\ opened'[s] = IF Opens(s, fp) THEN opened[s] \cup {fp} ELSE opened[s]
        /\ pc[s] = "apply" /\ fresh[s] # <<>>
        /\ UNCHANGED <<pc, now, existing, resolved, change>>
    BY <1>4, <2>0, ReportEffect DEF TypeOK
  <2>2. ASSUME NEW g \in Fingerprints PROVE Treated(s, g)'
    <3>1. /\ Applied(s, g)' = Applied(s, g)
          /\ Opens(s, g)' <=> Opens(s, g)
      BY <2>1 DEF Applied, Opens
    <3>2. IF g \in passed[s] THEN Reported(s, g) ELSE Untreated(s, g)
      BY <2>1 DEF UpToDate, Absented
    <3>3. CASE g = fp
      <4>1. fp \in opened'[s] <=> Opens(s, fp)
        BY <2>1, <3>2, <3>3 DEF Reported, Untreated
      <4>2. fp \notin resolved'[s]
        BY <2>1, <3>2, <3>3 DEF Reported, Untreated
      <4>3. store'[fp] = Applied(s, fp)
        BY <2>1 DEF TypeOK
      <4> QED
        BY <2>1, <3>1, <3>3, <4>1, <4>2, <4>3 DEF Reported
    <3>4. CASE g # fp
      <4>1. store'[g] = store[g] /\ (g \in opened'[s] <=> g \in opened[s])
        BY <2>1, <3>4 DEF TypeOK
      <4> QED
        BY <2>1, <3>1, <3>2, <3>4, <4>1 DEF Reported, Untreated
    <3> QED
      BY <3>3, <3>4
  <2>3. /\ \A t \in Scanners : pc'[t] = pc[t]
        /\ \A o \in Operators : change'[o] = change[o]
    BY <2>1
  <2> QED
    BY <1>0, <2>1, <2>2, <2>3
<1>5. ASSUME NEW s \in Scanners, NEW fp \in Fingerprints, CountAbsent(s, fp)
      PROVE  UpToDate'
  <2> DEFINE rec == Missed(existing[s][fp], now[s])
  <2>1. /\ existing[s][fp] # NoRecord
        /\ existing[s][fp].status \notin {"resolved", "suppressed"}
        /\ store' = [store EXCEPT ![fp] = rec]
        /\ fp \notin passed[s]
        /\ passed'[s] = passed[s] \cup {fp}
        /\ resolved'[s] = IF rec.status = "resolved"
                          THEN resolved[s] \cup {fp} ELSE resolved[s]
        /\ pc[s] = "apply" /\ fresh[s] = <<>>
        /\ UNCHANGED <<pc, now, fresh, existing, opened, change>>
    <3>1. existing[s][fp] \in Record /\ pc[s] = "apply" /\ fresh[s] = <<>>
      BY <1>5, AbsentEffect
    <3>2. /\ existing[s][fp].status \notin {"resolved", "suppressed"}
          /\ store' = [store EXCEPT ![fp] = rec]
          /\ fp \notin passed[s]
          /\ passed' = [passed EXCEPT ![s] = passed[s] \cup {fp}]
          /\ UNCHANGED <<pc, now, fresh, existing, opened, change>>
      BY <1>5, AbsentEffect
    <3>3. resolved' = IF rec.status = "resolved"
                      THEN [resolved EXCEPT ![s] = resolved[s] \cup {fp}]
                      ELSE resolved
      BY <1>5, AbsentEffect
    <3> HIDE DEF rec
    <3> QED
      BY <3>1, <3>2, <3>3, NoRecordIsNoRecord DEF TypeOK
  <2>2. ASSUME NEW g \in Fingerprints PROVE Treated(s, g)'
    <3>1. CASE g = fp
      <4>1. Untreated(s, fp)
        BY <2>1 DEF UpToDate
      <4>2. /\ store'[fp] = rec
            /\ fp \notin opened'[s]
            /\ fp \in resolved'[s] <=> rec.status = "resolved"
        BY <2>1, <4>1 DEF Untreated, TypeOK
      <4>3. Absented(s, fp)'
        BY <2>1, <4>2 DEF Absented
      <4> QED
        BY <2>1, <3>1, <4>3
    <3>2. CASE g # fp
      <4>1. Treated(s, g)
        BY <2>1 DEF UpToDate
      <4>2. /\ store'[g] = store[g]
            /\ g \in resolved'[s] <=> g \in resolved[s]
            /\ g \in passed'[s] <=> g \in passed[s]
        BY <2>1, <3>2 DEF TypeOK
      <4> QED
        BY <2>1, <4>1, <4>2 DEF Untreated, Reported, Absented, Applied, Opens
    <3> QED
      BY <3>1, <3>2
  <2>3. /\ \A t \in Scanners : pc'[t] = pc[t]
        /\ \A o \in Operators : change'[o] = change[o]
    BY <2>1
  <2> QED
    BY <1>0, <2>1, <2>2, <2>3
<1>6. ASSUME NEW s \in Scanners, pc[s] # "idle", Leave(s), UNCHANGED change
      PROVE  UpToDate'
  BY <1>0, <1>6 DEF Leave, TypeOK
<1>7. ASSUME NEW o \in Operators, NEW fp \in Fingerprints,
             NEW next \in Decisions, GetFinding(o, fp, next)
      PROVE  UpToDate'
  <2>1. /\ \A t \in Scanners : pc'[t] = "idle"
        /\ \A p \in Operators : p # o => change'[p] = NoChange
        /\ store' = store /\ store[fp] # NoRecord
        /\ change'[o] =
             [fp |-> fp, rec |-> [store[fp] EXCEPT !.status = next]]
    BY <1>7 DEF GetFinding, Quiet, TypeOK, scanVars
  <2>2. change'[o].fp = fp
    BY <2>1
  <2>3. change'[o].rec = [store[fp] EXCEPT !.status = next]
    BY <2>1
  <2>4. Decided(o)'
    BY <2>1, <2>2, <2>3 DEF Decided
  <2> QED
    BY <2>1, <2>4 DEF UpToDate
<1>8. ASSUME NEW o \in Operators, PutFinding(o) PROVE UpToDate'
  <2>1. /\ \A s \in Scanners : pc'[s] = "idle"
        /\ \A p \in Operators : change'[p] = NoChange
    BY <1>8, PutEffect DEF scanVars
  <2> QED
    BY <2>1 DEF UpToDate
<1>9. ASSUME NEW o \in Operators, PutFails(o) PROVE UpToDate'
  <2>1. /\ \A s \in Scanners : pc'[s] = "idle"
        /\ \A p \in Operators : change'[p] = NoChange
    BY <1>9 DEF PutFails, scanVars, OneAtATime, TypeOK
  <2> QED
    BY <2>1 DEF UpToDate
<1>10. CASE Crash
  BY <1>10 DEF Crash, UpToDate
<1>11. CASE UNCHANGED vars
  BY <1>11 DEF UpToDate, Untreated, Reported, Absented, Applied, Opens,
     Decided,
               vars, scanVars
<1> QED
  BY <1>1, <1>2, <1>3, <1>4, <1>5, <1>6, <1>7, <1>8, <1>9, <1>10, <1>11
     DEF Next, ScannerStep, OperatorStep, Return, Fail, CallsStore, ReportStep

(* What every state of scans and requests that do not overlap satisfies.    *)
SequentialInv == TypeOK /\ OneAtATime /\ UpToDate

LEMMA SequentialAlways == ASSUME Isolated PROVE Spec => []SequentialInv
<1>1. Init => OneAtATime /\ UpToDate
  BY DEF Init, OneAtATime, UpToDate
<1> QED
  BY <1>1, OneAtATimeStep, UpToDateStep, TypeCorrect, PTL
     DEF Spec, SequentialInv

(* A scan that enters a finding in its result has written the status and    *)
(* the resolution time the news stands for; the others keep theirs.         *)
HasTime(rec) == rec # NoRecord /\ rec.resolvedAt # Never

LEMMA ResultIsWritten ==
  ASSUME SequentialInv, NEW s \in Scanners, NEW fp \in Fingerprints,
         pc[s] = "apply"
  PROVE  /\ fp \in resolved[s] =>
              /\ store[fp] # NoRecord
              /\ store[fp].status = "resolved"
              /\ HasTime(store[fp])
         /\ fp \in opened[s] =>
              /\ fp \notin resolved[s]
              /\ store[fp] # NoRecord
              /\ store[fp].status = "open"
              /\ ~ HasTime(store[fp])
         /\ fp \notin opened[s] /\ fp \notin resolved[s] =>
              /\ store[fp] = NoRecord <=> existing[s][fp] = NoRecord
              /\ HasTime(store[fp]) <=> HasTime(existing[s][fp])
<1> DEFINE prev == existing[s][fp]
           t == now[s]
<1>1. /\ prev \in Record \/ prev = NoRecord
      /\ t \in Nat /\ t # Never
  BY DEF SequentialInv, TypeOK, MaybeRecord, OneAtATime
<1>2. CASE Untreated(s, fp)
  BY <1>2 DEF Untreated
<1>3. CASE Reported(s, fp)
  <2>1. CASE prev = NoRecord
    <3>1. store[fp] = NewRecord(t) /\ fp \in opened[s] /\ fp \notin resolved[s]
      BY <1>3, <2>1 DEF Reported, Applied, Opens
    <3> QED
      BY <1>1, <3>1, NewFields, NoRecordIsNoRecord DEF HasTime
  <2>2. CASE prev \in Record
    <3>1. prev # NoRecord
      BY <2>2, NoRecordIsNoRecord
    <3>2. /\ store[fp] = Merged(prev, t)
          /\ fp \in opened[s] <=> prev.status = "resolved"
          /\ fp \notin resolved[s]
      BY <1>3, <3>1 DEF Reported, Applied, Opens
    <3>3. Merged(prev, t) # NoRecord
      BY <1>1, <2>2, WrittenType, NoRecordIsNoRecord
    <3> HIDE DEF prev, t
    <3> QED
      BY <1>1, <2>2, <3>1, <3>2, <3>3, MergedFields DEF HasTime, prev, t
  <2> QED
    BY <1>1, <2>1, <2>2
<1>4. CASE Absented(s, fp)
  <2>1. /\ prev \in Record /\ prev # NoRecord
        /\ prev.status # "resolved"
        /\ store[fp] = Missed(prev, t)
        /\ fp \notin opened[s]
        /\ fp \in resolved[s] <=> Missed(prev, t).status = "resolved"
    BY <1>1, <1>4 DEF Absented
  <2>2. Missed(prev, t) # NoRecord
    BY <1>1, <2>1, WrittenType, NoRecordIsNoRecord
  <2>3. \/ /\ Missed(prev, t).status = "resolved"
           /\ Missed(prev, t).resolvedAt = t
        \/ /\ Missed(prev, t).status = prev.status
           /\ Missed(prev, t).resolvedAt = prev.resolvedAt
    BY <1>1, <2>1, MissedFields
  <2> QED
    BY <1>1, <2>1, <2>2, <2>3 DEF HasTime
<1>5. Untreated(s, fp) \/ Reported(s, fp) \/ Absented(s, fp)
  BY DEF SequentialInv, UpToDate
<1> QED
  BY <1>2, <1>3, <1>4, <1>5

(* What the notifier is given is so in the store when it is given.          *)
THEOREM NewsAlwaysStored == ASSUME Isolated PROVE Spec => NewsIsStored
<1> DEFINE StoredNews ==
      \A fp \in Fingerprints :
        told'[fp] \notin {told[fp], "lost"} =>
          /\ store[fp] # NoRecord
          /\ store[fp].status = IF told'[fp] = "opened" THEN "open"
                                ELSE "resolved"
<1>1. SequentialInv /\ [Next]_vars => [StoredNews]_told
  <2> SUFFICES ASSUME SequentialInv, Next, told' # told PROVE StoredNews
    BY DEF vars
  <2>1. ASSUME NEW s \in Scanners, Return(s) PROVE StoredNews
    <3> SUFFICES ASSUME NEW fp \in Fingerprints,
                        told'[fp] \notin {told[fp], "lost"}
                 PROVE  /\ store[fp] # NoRecord
                        /\ store[fp].status = IF told'[fp] = "opened"
                             THEN "open"
                                              ELSE "resolved"
      OBVIOUS
    <3>1. /\ pc[s] = "apply"
          /\ told'[fp] = IF fp \in resolved[s] THEN "resolved"
                         ELSE IF fp \in opened[s] THEN "opened" ELSE told[fp]
      BY <2>1 DEF Return
    <3> QED
      BY <3>1, ResultIsWritten
  <2>2. ASSUME NEW s \in Scanners, Fail(s) PROVE StoredNews
    BY <2>2 DEF Fail, LoseNews
  <2>3. CASE Crash
    BY <2>3 DEF Crash
  <2> QED
    BY <2>1, <2>2, <2>3
       DEF Next, ScannerStep, OperatorStep, Begin, ListByTarget, Reject,
           Insert, Refresh, CountAbsent, GetFinding, PutFinding, PutFails
<1> QED
  BY <1>1, SequentialAlways, PTL DEF Spec, NewsIsStored

(* A scan opens what is new or resolved and resolves what is open or        *)
(* acknowledged; every other change of status is the operator's.            *)
THEOREM StatusAlwaysOperators == ASSUME Isolated PROVE Spec =>
  StatusIsOperators
<1> DEFINE Moves ==
      \A fp \in Fingerprints :
        /\ store[fp] # NoRecord
        /\ store'[fp].status # store[fp].status
        => \/ <<store[fp].status, store'[fp].status>> \in ScanMoves
           \/ \E o \in Operators : PutFinding(o)
<1>1. SequentialInv /\ [Next]_vars => [Moves]_store
  <2> SUFFICES ASSUME SequentialInv, Next, store' # store PROVE Moves
    BY DEF vars
  <2>1. ASSUME NEW s \in Scanners, ReportStep(s) PROVE Moves
    <3> SUFFICES ASSUME NEW fp \in Fingerprints, store[fp] # NoRecord,
                        store'[fp].status # store[fp].status
                 PROVE  <<store[fp].status, store'[fp].status>> \in ScanMoves
      OBVIOUS
    <3>1. /\ fp = Head(fresh[s])
          /\ store'[fp] = Applied(s, fp)
      BY <2>1, ReportEffect DEF SequentialInv, TypeOK
    <3>2. pc[s] = "apply" /\ fresh[s] # <<>>
      BY <2>1, ReportEffect DEF SequentialInv
    <3>3. store[fp] = existing[s][fp]
      BY <3>1, <3>2 DEF SequentialInv, UpToDate, Untreated, Reported, Absented
    <3>4. /\ existing[s][fp] \in Record
          /\ now[s] \in Nat
          /\ store'[fp] = Merged(existing[s][fp], now[s])
      BY <3>1, <3>3 DEF Applied, SequentialInv, TypeOK, MaybeRecord
    <3>5. store[fp].status = "resolved" /\ store'[fp].status = "open"
      BY <3>3, <3>4, MergedFields
    <3> QED
      BY <3>5 DEF ScanMoves
  <2>2. ASSUME NEW s \in Scanners, NEW g \in Fingerprints, CountAbsent(s, g)
        PROVE  Moves
    <3> SUFFICES ASSUME NEW fp \in Fingerprints, store[fp] # NoRecord,
                        store'[fp].status # store[fp].status
                 PROVE  <<store[fp].status, store'[fp].status>> \in ScanMoves
      OBVIOUS
    <3>1. /\ store[g] = existing[s][g] /\ existing[s][g] \in Record
          /\ existing[s][g].status \notin {"resolved", "suppressed"}
          /\ now[s] \in Nat
          /\ store' = [store EXCEPT ![g] = Missed(existing[s][g], now[s])]
      BY <2>2, AbsentEffect DEF SequentialInv
    <3>2. fp = g /\ store'[fp] = Missed(existing[s][fp], now[s])
      BY <3>1 DEF SequentialInv, TypeOK
    <3>3. store'[fp].status = "resolved"
      BY <3>1, <3>2, MissedFields
    <3>4. store[fp].status \in {"open", "acknowledged"}
      BY <3>1, <3>2 DEF Record, Statuses
    <3> QED
      BY <3>3, <3>4 DEF ScanMoves
  <2> QED
    BY <2>1, <2>2
       DEF Next, ScannerStep, OperatorStep, Begin, ListByTarget, Reject,
           ReportStep, Return, Fail, GetFinding, PutFails, Crash
<1> QED
  BY <1>1, SequentialAlways, PTL DEF Spec, StatusIsOperators

-----------------------------------------------------------------------------

(* What was said last, rec being what is stored of the finding.             *)
NewsFits(news, rec) ==
  news # "lost" =>
    /\ news = "none" <=> rec = NoRecord
    /\ news = "resolved" <=> HasTime(rec)

(* NewsMatchesStore with what is under way: until a scan returns, the news  *)
(* matches the row it read.                                                 *)
HeardInv ==
  \A fp \in Fingerprints :
    IF \E s \in Scanners : pc[s] = "apply"
    THEN \A s \in Scanners :
           pc[s] = "apply" => NewsFits(told[fp], existing[s][fp])
    ELSE NewsFits(told[fp], store[fp])

(* HeardInv is preserved by every step.                                     *)
LEMMA HeardStep ==
  ASSUME Isolated
  PROVE  SequentialInv /\ HeardInv /\ [Next]_vars => HeardInv'
<1> SUFFICES ASSUME Isolated, SequentialInv, HeardInv, [Next]_vars
             PROVE  HeardInv'
  OBVIOUS
<1> USE DEF SequentialInv
<1>1. ASSUME NEW s \in Scanners, Begin(s) PROVE HeardInv'
  <2>1. /\ \A t \in Scanners : pc[t] # "apply" /\ pc'[t] # "apply"
        /\ UNCHANGED <<store, told>>
    BY <1>1 DEF Begin, Quiet, TypeOK
  <2> QED
    BY <2>1 DEF HeardInv
<1>2. ASSUME NEW s \in Scanners, ListByTarget(s) PROVE HeardInv'
  <2>1. /\ pc[s] = "list" /\ \A t \in Scanners : pc[t] # "apply"
        /\ pc'[s] = "apply" /\ \A t \in Scanners : t # s => pc'[t] # "apply"
        /\ existing'[s] = store
        /\ UNCHANGED told
    BY <1>2 DEF ListByTarget, TypeOK, OneAtATime
  <2> QED
    BY <2>1 DEF HeardInv
<1>3. ASSUME NEW s \in Scanners, Reject(s) PROVE HeardInv'
  BY <1>3 DEF Reject, HeardInv
<1>4. ASSUME NEW s \in Scanners, pc[s] = "apply",
             UNCHANGED <<pc, existing, told>>
      PROVE  HeardInv'
  BY <1>4 DEF HeardInv
<1>5. ASSUME NEW s \in Scanners, NEW fp \in Fingerprints, CountAbsent(s, fp)
      PROVE  HeardInv'
  BY <1>4, <1>5 DEF CountAbsent
<1>6. ASSUME NEW s \in Scanners, Return(s) PROVE HeardInv'
  <2>1. /\ pc[s] = "apply"
        /\ \A t \in Scanners : pc'[t] # "apply"
        /\ UNCHANGED store
    BY <1>6 DEF Return, Leave, TypeOK, OneAtATime
  <2>2. ASSUME NEW fp \in Fingerprints PROVE NewsFits(told'[fp], store[fp])
    <3>1. told'[fp] = IF fp \in resolved[s] THEN "resolved"
                      ELSE IF fp \in opened[s] THEN "opened" ELSE told[fp]
      BY <1>6 DEF Return
    <3>2. NewsFits(told[fp], existing[s][fp])
      BY <2>1 DEF HeardInv
    <3>3. CASE fp \in resolved[s]
      BY <2>1, <3>1, <3>3, ResultIsWritten DEF NewsFits
    <3>4. CASE fp \in opened[s]
      BY <2>1, <3>1, <3>4, ResultIsWritten DEF NewsFits
    <3>5. CASE fp \notin opened[s] /\ fp \notin resolved[s]
      BY <2>1, <3>1, <3>2, <3>5, ResultIsWritten DEF NewsFits
    <3> QED
      BY <3>3, <3>4, <3>5
  <2> QED
    BY <2>1, <2>2 DEF HeardInv
<1>7. ASSUME NEW s \in Scanners, Fail(s) PROVE HeardInv'
  <2>1. /\ pc[s] # "idle"
        /\ \A t \in Scanners : pc'[t] # "apply"
        /\ \A t \in Scanners : t # s => pc[t] = "idle"
        /\ UNCHANGED store
    BY <1>7 DEF Fail, CallsStore, Leave, TypeOK, OneAtATime
  <2>2. ASSUME NEW fp \in Fingerprints PROVE NewsFits(told'[fp], store[fp])
    <3>1. told'[fp] = IF fp \in opened[s] \cup resolved[s]
                      THEN "lost" ELSE told[fp]
      BY <1>7 DEF Fail, LoseNews
    <3>2. CASE fp \in opened[s] \cup resolved[s]
      BY <3>1, <3>2 DEF NewsFits
    <3>3. CASE fp \notin opened[s] /\ fp \notin resolved[s] /\ pc[s] = "apply"
      <4>1. NewsFits(told[fp], existing[s][fp])
        BY <3>3 DEF HeardInv
      <4> QED
        BY <3>1, <3>3, <4>1, ResultIsWritten DEF NewsFits
    <3>4. CASE fp \notin opened[s] /\ fp \notin resolved[s] /\ pc[s] # "apply"
      <4>1. \A t \in Scanners : pc[t] # "apply"
        BY <2>1, <3>4
      <4> QED
        BY <3>1, <3>4, <4>1 DEF HeardInv
    <3> QED
      BY <3>2, <3>3, <3>4
  <2> QED
    BY <2>1, <2>2 DEF HeardInv
<1>8. ASSUME NEW o \in Operators, NEW fp \in Fingerprints,
             NEW next \in Decisions, GetFinding(o, fp, next)
      PROVE  HeardInv'
  BY <1>8 DEF GetFinding, HeardInv, scanVars
<1>9. ASSUME NEW o \in Operators, PutFinding(o) PROVE HeardInv'
  <2>1. PICK fp \in Fingerprints, next \in Decisions :
          /\ store[fp] \in Record
          /\ store' = [store EXCEPT ![fp] = [store[fp] EXCEPT !.status = next]]
          /\ \A s \in Scanners : pc[s] = "idle"
          /\ \A p \in Operators : change'[p] = NoChange
          /\ UNCHANGED <<scans, scanVars, told, failures>>
    BY <1>9, PutEffect
  <2>2. [store[fp] EXCEPT !.status = next] \in Record
    BY <2>1 DEF Record, Decisions
  <2>3. [store[fp] EXCEPT !.status = next].resolvedAt = store[fp].resolvedAt
    BY <2>1 DEF Record
  <2>4. store'[fp] = [store[fp] EXCEPT !.status = next]
    BY <2>1 DEF TypeOK
  <2>5. HasTime(store'[fp]) <=> HasTime(store[fp])
    BY <2>1, <2>2, <2>3, <2>4, NoRecordIsNoRecord DEF HasTime
  <2>6. store'[fp] # NoRecord /\ store[fp] # NoRecord
    BY <2>1, <2>2, <2>4, NoRecordIsNoRecord
  <2>7. \A g \in Fingerprints : g # fp => store'[g] = store[g]
    BY <2>1 DEF TypeOK
  <2>8. \A s \in Scanners : pc[s] # "apply"
    BY <2>1
  <2>9. \A g \in Fingerprints : NewsFits(told[g], store'[g])
    BY <2>5, <2>6, <2>7, <2>8 DEF NewsFits, HeardInv
  <2> QED
    BY <2>1, <2>8, <2>9 DEF HeardInv, scanVars
<1>10. ASSUME NEW o \in Operators, PutFails(o) PROVE HeardInv'
  BY <1>10 DEF PutFails, HeardInv, scanVars
<1>11. CASE Crash
  <2>1. /\ \A s \in Scanners : pc'[s] # "apply"
        /\ UNCHANGED store
    BY <1>11 DEF Crash
  <2>2. ASSUME NEW fp \in Fingerprints PROVE NewsFits(told'[fp], store[fp])
    <3>1. CASE \E s \in Scanners : fp \in opened[s] \cup resolved[s]
      BY <1>11, <3>1 DEF Crash, NewsFits
    <3>2. CASE ~ \E s \in Scanners : fp \in opened[s] \cup resolved[s]
      <4>1. told'[fp] = told[fp]
        BY <1>11, <3>2 DEF Crash
      <4>2. CASE \A s \in Scanners : pc[s] # "apply"
        BY <4>1, <4>2 DEF HeardInv
      <4>3. ASSUME NEW s \in Scanners, pc[s] = "apply"
            PROVE  NewsFits(told'[fp], store[fp])
        <5>1. NewsFits(told[fp], existing[s][fp])
          BY <4>3 DEF HeardInv
        <5> QED
          BY <3>2, <4>1, <4>3, <5>1, ResultIsWritten DEF NewsFits
      <4> QED
        BY <4>2, <4>3
    <3> QED
      BY <3>1, <3>2
  <2> QED
    BY <2>1, <2>2 DEF HeardInv
<1>12. CASE UNCHANGED vars
  BY <1>12 DEF HeardInv, vars, scanVars
<1>13. ASSUME NEW s \in Scanners, ReportStep(s) PROVE HeardInv'
  BY <1>4, <1>13 DEF ReportStep, Insert, Refresh
<1> QED
  BY <1>1, <1>2, <1>3, <1>5, <1>6, <1>7, <1>8, <1>9, <1>10, <1>11, <1>12,
     <1>13 DEF Next, ScannerStep, OperatorStep, ReportStep

(* Once nothing runs, the last news of every finding matches the store,     *)
(* unless a failure swallowed it.                                           *)
THEOREM NewsAlwaysMatches == ASSUME Isolated PROVE Spec => []NewsMatchesStore
<1>1. Init => HeardInv
  <2> SUFFICES ASSUME Init, NEW fp \in Fingerprints
               PROVE  /\ \A s \in Scanners : pc[s] # "apply"
                      /\ NewsFits(told[fp], store[fp])
    BY DEF HeardInv
  <2> QED
    BY DEF Init, NewsFits, HasTime, NoRows
<1>2. SequentialInv /\ HeardInv => NewsMatchesStore
  <2> SUFFICES ASSUME SequentialInv, HeardInv, Quiet,
                      NEW fp \in Fingerprints, told[fp] # "lost"
               PROVE  told[fp] = IF store[fp] = NoRecord THEN "none"
                                 ELSE IF store[fp].resolvedAt # Never
                                 THEN "resolved" ELSE "opened"
    BY DEF NewsMatchesStore
  <2>1. NewsFits(told[fp], store[fp])
    BY DEF HeardInv, Quiet
  <2>2. told[fp] \in News
    BY DEF SequentialInv, TypeOK
  <2> QED
    BY <2>1, <2>2 DEF NewsFits, HasTime, News
<1> QED
  BY <1>1, <1>2, HeardStep, SequentialAlways, PTL DEF Spec

-----------------------------------------------------------------------------

(* The misses of a row and the time of its last report fit in time t, and   *)
(* a row with the full count was closed that many scans after the report.   *)
Counted(rec, t) ==
  /\ rec.seenAt + rec.streak <= t
  /\ rec.streak >= ResolveAfter =>
       rec.resolvedAt >= rec.seenAt + ResolveAfter

(* ResolvedIsLongUnseen with what is under way: the scan at work is later   *)
(* than all the misses of the rows it has read.                             *)
CountedInv ==
  /\ \A fp \in Fingerprints :
       store[fp] # NoRecord => Counted(store[fp], scans)
  /\ \A s \in Scanners, fp \in Fingerprints :
       /\ pc[s] = "list" /\ store[fp] # NoRecord =>
            Counted(store[fp], scans - 1)
       /\ pc[s] = "apply" /\ existing[s][fp] # NoRecord =>
            Counted(existing[s][fp], scans - 1)

(* CountedInv is preserved by every step.                                   *)
LEMMA CountedStep ==
  ASSUME Isolated
  PROVE  SequentialInv /\ CountedInv /\ [Next]_vars => CountedInv'
<1> SUFFICES ASSUME Isolated, SequentialInv, CountedInv, [Next]_vars
             PROVE  CountedInv'
  OBVIOUS
<1> USE DEF SequentialInv
<1>0. scans \in Nat /\ ResolveAfter \in Nat /\ ResolveAfter > 0
  BY ResolveAfterIsPositive DEF TypeOK
<1>1. ASSUME NEW s \in Scanners, Begin(s) PROVE CountedInv'
  <2>1. /\ \A t \in Scanners : pc'[t] # "apply"
        /\ scans' - 1 = scans
        /\ UNCHANGED store
    BY <1>0, <1>1 DEF Begin, Quiet, TypeOK
  <2>2. \A fp \in Fingerprints : store[fp] # NoRecord =>
          Counted(store[fp], scans) /\ Counted(store[fp], scans')
    <3> SUFFICES ASSUME NEW fp \in Fingerprints, store[fp] # NoRecord
                 PROVE  Counted(store[fp], scans) /\ Counted(store[fp], scans')
      OBVIOUS
    <3>1. store[fp].seenAt \in Nat /\ store[fp].streak \in Nat
      BY DEF TypeOK, MaybeRecord, Record
    <3>2. Counted(store[fp], scans)
      BY DEF CountedInv
    <3>3. scans' = scans + 1
      BY <1>1 DEF Begin
    <3> QED
      BY <1>0, <3>1, <3>2, <3>3 DEF Counted
  <2> QED
    BY <2>1, <2>2 DEF CountedInv
<1>2. ASSUME NEW s \in Scanners, ListByTarget(s) PROVE CountedInv'
  <2>1. /\ pc[s] = "list"
        /\ \A t \in Scanners : t # s => pc'[t] = "idle"
        /\ pc'[s] = "apply"
        /\ existing'[s] = store
        /\ UNCHANGED <<store, scans>>
    BY <1>2 DEF ListByTarget, TypeOK, OneAtATime
  <2> QED
    BY <2>1 DEF CountedInv
<1>3. ASSUME NEW s \in Scanners, pc[s] = "apply",
             UNCHANGED <<pc, existing, scans>>,
             NEW fp \in Fingerprints, NEW rec,
             store' = [store EXCEPT ![fp] = rec], Counted(rec, scans)
      PROVE  CountedInv'
  <2>1. \A t \in Scanners : pc'[t] # "list"
    BY <1>3 DEF OneAtATime
  <2>2. \A g \in Fingerprints : store'[g] = IF g = fp THEN rec ELSE store[g]
    BY <1>3 DEF TypeOK
  <2> QED
    BY <1>3, <2>1, <2>2 DEF CountedInv
<1>4. ASSUME NEW s \in Scanners, ReportStep(s) PROVE CountedInv'
  <2>1. /\ Head(fresh[s]) \in Fingerprints
        /\ store' = [store EXCEPT ![Head(fresh[s])] = Applied(s,
             Head(fresh[s]))]
        /\ pc[s] = "apply"
        /\ UNCHANGED <<pc, existing, scans>>
    BY <1>4, ReportEffect
  <2>2. PICK fp \in Fingerprints : fp = Head(fresh[s])
    BY <2>1
  <2>3. now[s] = scans
    BY <2>1 DEF OneAtATime
  <2>4. CASE existing[s][fp] = NoRecord
    <3>1. Applied(s, fp) = NewRecord(scans)
      BY <2>3, <2>4 DEF Applied
    <3>2. Counted(NewRecord(scans), scans)
      BY <1>0, NewFields DEF Counted
    <3> QED
      BY <1>3, <2>1, <2>2, <3>1, <3>2
  <2>5. CASE existing[s][fp] \in Record
    <3>1. Applied(s, fp) = Merged(existing[s][fp], scans)
      BY <2>3, <2>5, NoRecordIsNoRecord DEF Applied
    <3>2. /\ Merged(existing[s][fp], scans).seenAt = scans
          /\ Merged(existing[s][fp], scans).streak = 0
      BY <1>0, <2>5, MergedFields
    <3>3. Counted(Merged(existing[s][fp], scans), scans)
      BY <1>0, <3>2 DEF Counted
    <3> QED
      BY <1>3, <2>1, <2>2, <3>1, <3>3
  <2> QED
    BY <2>4, <2>5 DEF TypeOK, MaybeRecord
<1>5. ASSUME NEW s \in Scanners, NEW fp \in Fingerprints, CountAbsent(s, fp)
      PROVE  CountedInv'
  <2>1. /\ existing[s][fp] \in Record
        /\ store' = [store EXCEPT ![fp] = Missed(existing[s][fp], now[s])]
        /\ pc[s] = "apply"
        /\ UNCHANGED <<pc, existing, scans>>
    BY <1>5, AbsentEffect
  <2>2. now[s] = scans
    BY <2>1 DEF OneAtATime
  <2>3. Counted(existing[s][fp], scans - 1)
    BY <2>1, NoRecordIsNoRecord DEF CountedInv
  <2>4. PICK prev \in Record : prev = existing[s][fp]
    BY <2>1
  <2>5. PICK t \in Nat : t = scans
    BY <1>0
  <2>6. Counted(Missed(prev, t), t)
    <3>1. prev.seenAt \in Nat /\ prev.streak \in Nat /\ prev.resolvedAt \in Nat
      BY DEF Record
    <3>2. prev.seenAt + prev.streak <= t - 1
      BY <2>3, <2>4, <2>5 DEF Counted
    <3>3. /\ Missed(prev, t).seenAt = prev.seenAt
          /\ Missed(prev, t).streak = prev.streak + 1
          /\ prev.streak + 1 >= ResolveAfter => Missed(prev, t).resolvedAt = t
      BY MissedFields
    <3> QED
      BY <1>0, <3>1, <3>2, <3>3 DEF Counted
  <2> QED
    BY <1>3, <2>1, <2>2, <2>4, <2>5, <2>6
<1>6. ASSUME UNCHANGED <<store, scans>>,
             \A s \in Scanners : pc'[s] # "idle" =>
               pc'[s] = pc[s] /\ existing'[s] = existing[s]
      PROVE  CountedInv'
  BY <1>6 DEF CountedInv
<1>7. ASSUME NEW s \in Scanners, Leave(s), UNCHANGED <<store, scans>>
      PROVE  CountedInv'
  BY <1>6, <1>7 DEF Leave, TypeOK
<1>8. ASSUME NEW o \in Operators, PutFinding(o) PROVE CountedInv'
  <2>1. PICK fp \in Fingerprints, next \in Decisions :
          /\ store[fp] \in Record
          /\ store' = [store EXCEPT ![fp] = [store[fp] EXCEPT !.status = next]]
          /\ \A s \in Scanners : pc[s] = "idle"
          /\ \A p \in Operators : change'[p] = NoChange
          /\ UNCHANGED <<scans, scanVars, told, failures>>
    BY <1>8, PutEffect
  <2>2. Counted(store[fp], scans)
    BY <2>1, NoRecordIsNoRecord DEF CountedInv
  <2>3. Counted([store[fp] EXCEPT !.status = next], scans)
    BY <2>1, <2>2 DEF Counted, Record
  <2>4. \A g \in Fingerprints :
          store'[g] # NoRecord => Counted(store'[g], scans')
    <3>1. \A g \in Fingerprints :
            store'[g] = IF g = fp THEN [store[fp] EXCEPT !.status = next]
                                  ELSE store[g]
      BY <2>1 DEF TypeOK
    <3> QED
      BY <2>1, <2>3, <3>1 DEF CountedInv
  <2>5. \A s \in Scanners : pc'[s] = "idle"
    BY <2>1 DEF scanVars
  <2> QED
    BY <2>4, <2>5 DEF CountedInv
<1>9. ASSUME NEW s \in Scanners, Reject(s) PROVE CountedInv'
  BY <1>6, <1>9 DEF Reject
<1>10. ASSUME NEW o \in Operators, NEW fp \in Fingerprints,
              NEW next \in Decisions, GetFinding(o, fp, next) \/ PutFails(o)
       PROVE  CountedInv'
  BY <1>6, <1>10 DEF GetFinding, PutFails, scanVars
<1>11. CASE Crash
  BY <1>6, <1>11 DEF Crash
<1>12. CASE UNCHANGED vars
  BY <1>6, <1>12 DEF vars, scanVars
<1>13. ASSUME NEW o \in Operators, PutFails(o) PROVE CountedInv'
  BY <1>6, <1>13 DEF PutFails, scanVars
<1> QED
  BY <1>1, <1>2, <1>4, <1>5, <1>7, <1>8, <1>9, <1>10, <1>11, <1>12, <1>13
     DEF Next, ScannerStep, OperatorStep, ReportStep, Return, Fail

(* A finding is resolved only when the last ResolveAfter scans, or more,    *)
(* did not report it, aborted scans included.                               *)
THEOREM ResolvedAlwaysLongUnseen ==
  ASSUME Isolated PROVE Spec => []ResolvedIsLongUnseen
<1>1. Init => CountedInv
  BY DEF Init, CountedInv, NoRows
<1>2. SequentialInv /\ CountedInv /\ ResolvedIsEarned => ResolvedIsLongUnseen
  BY DEF CountedInv, Counted, ResolvedIsEarned, Earned, ResolvedIsLongUnseen
<1> QED
  BY <1>1, <1>2, CountedStep, SequentialAlways, ResolvedAlwaysEarned, PTL
     DEF Spec

-----------------------------------------------------------------------------
(***************************************************************************)
(* The engine implements FindingLifecycle.                                 *)
(***************************************************************************)

\* The variables of FindingLifecycle in the state of the engine.
FindingNow == [fp \in Fingerprints |-> LifecycleOf(store[fp])]
OwedNow    == [fp \in Fingerprints |-> Owed(fp)]

(* What FindingLifecycle sees of each record the engine writes.             *)
LEMMA LifecycleFields ==
  ASSUME NEW rec \in Record
  PROVE  /\ LifecycleOf(rec) =
              [status |-> rec.status,
               misses |-> IF rec.streak < ResolveAfter
                          THEN rec.streak ELSE ResolveAfter,
               closed |-> rec.resolvedAt # Never]
         /\ LifecycleOf(rec).status = rec.status
BY NoRecordIsNoRecord DEF LifecycleOf

LEMMA NewOpens ==
  ASSUME NEW t \in Nat PROVE LifecycleOf(NewRecord(t)) = Lifecycle!Opened
<1>1. /\ NewRecord(t) \in Record /\ NewRecord(t).status = "open"
      /\ NewRecord(t).streak = 0 /\ NewRecord(t).resolvedAt = Never
  BY NewFields
<1>2. 0 < ResolveAfter
  BY ResolveAfterIsPositive
<1> QED
  BY <1>1, <1>2, LifecycleFields DEF Lifecycle!Opened

LEMMA MergedOpens ==
  ASSUME NEW prev \in Record, prev.status = "resolved", NEW t \in Nat
  PROVE  LifecycleOf(Merged(prev, t)) = Lifecycle!Opened
<1>1. /\ Merged(prev, t) \in Record /\ Merged(prev, t).status = "open"
      /\ Merged(prev, t).streak = 0 /\ Merged(prev, t).resolvedAt = Never
  BY WrittenType, MergedFields
<1>2. 0 < ResolveAfter
  BY ResolveAfterIsPositive
<1> QED
  BY <1>1, <1>2, LifecycleFields DEF Lifecycle!Opened

LEMMA MergedRefreshes ==
  ASSUME NEW prev \in Record, prev.status # "resolved", NEW t \in Nat
  PROVE  LifecycleOf(Merged(prev, t)) = [LifecycleOf(prev) EXCEPT !.misses = 0]
<1>1. /\ Merged(prev, t) \in Record /\ Merged(prev, t).status = prev.status
      /\ Merged(prev, t).streak = 0
      /\ Merged(prev, t).resolvedAt = prev.resolvedAt
  BY WrittenType, MergedFields
<1>2. 0 < ResolveAfter
  BY ResolveAfterIsPositive
<1>3. LifecycleOf(Merged(prev, t)) =
        [status |-> prev.status, misses |-> 0,
         closed |-> prev.resolvedAt # Never]
  BY <1>1, <1>2, LifecycleFields
<1> QED
  BY <1>3, LifecycleFields

LEMMA MissedCounts ==
  ASSUME NEW prev \in Record, NEW t \in Nat, prev.streak + 1 < ResolveAfter
  PROVE  /\ LifecycleOf(prev).misses = prev.streak
         /\ LifecycleOf(Missed(prev, t)) =
              [LifecycleOf(prev) EXCEPT !.misses = prev.streak + 1]
<1>1. prev.streak \in Nat /\ ResolveAfter \in Nat
  BY ResolveAfterIsPositive DEF Record
<1>2. prev.streak < ResolveAfter /\ ~ (prev.streak + 1 >= ResolveAfter)
  BY <1>1
<1>3. /\ Missed(prev, t) \in Record /\ Missed(prev, t).status = prev.status
      /\ Missed(prev, t).streak = prev.streak + 1
      /\ Missed(prev, t).resolvedAt = prev.resolvedAt
  BY <1>2, WrittenType, MissedFields
<1>4. LifecycleOf(Missed(prev, t)) =
        [status |-> prev.status, misses |-> prev.streak + 1,
         closed |-> prev.resolvedAt # Never]
  BY <1>3, LifecycleFields
<1>5. LifecycleOf(prev) =
        [status |-> prev.status, misses |-> prev.streak,
         closed |-> prev.resolvedAt # Never]
  BY <1>2, LifecycleFields
<1> QED
  BY <1>4, <1>5

LEMMA MissedResolves ==
  ASSUME NEW prev \in Record, NEW t \in Nat, t # Never,
         prev.streak + 1 >= ResolveAfter
  PROVE  /\ LifecycleOf(prev).misses + 1 >= ResolveAfter
         /\ LifecycleOf(Missed(prev, t)) =
              [status |-> "resolved", misses |-> ResolveAfter, closed |-> TRUE]
<1>1. prev.streak \in Nat /\ ResolveAfter \in Nat
  BY ResolveAfterIsPositive DEF Record
<1>2. /\ Missed(prev, t) \in Record /\ Missed(prev, t).status = "resolved"
      /\ Missed(prev, t).streak = prev.streak + 1
      /\ Missed(prev, t).resolvedAt = t
  BY WrittenType, MissedFields
<1>3. ~ (Missed(prev, t).streak < ResolveAfter)
  BY <1>1, <1>2
<1>4. LifecycleOf(Missed(prev, t)) =
        [status |-> "resolved", misses |-> ResolveAfter, closed |-> TRUE]
  BY <1>2, <1>3, LifecycleFields
<1>5. LifecycleOf(prev).misses =
        IF prev.streak < ResolveAfter THEN prev.streak ELSE ResolveAfter
  BY LifecycleFields
<1>6. LifecycleOf(prev).misses + 1 >= ResolveAfter
  BY <1>1, <1>5
<1> QED
  BY <1>4, <1>6

LEMMA DecidedStatus ==
  ASSUME NEW rec \in Record, NEW next \in Decisions
  PROVE  LifecycleOf([rec EXCEPT !.status = next]) =
           [LifecycleOf(rec) EXCEPT !.status = next]
<1>1. /\ [rec EXCEPT !.status = next] \in Record
      /\ [rec EXCEPT !.status = next].status = next
      /\ [rec EXCEPT !.status = next].streak = rec.streak
      /\ [rec EXCEPT !.status = next].resolvedAt = rec.resolvedAt
  BY DEF Record, Decisions
<1>2. LifecycleOf([rec EXCEPT !.status = next]) =
        [status |-> next,
         misses |-> IF rec.streak < ResolveAfter
                    THEN rec.streak ELSE ResolveAfter,
         closed |-> rec.resolvedAt # Never]
  BY <1>1, LifecycleFields
<1> QED
  BY <1>2, LifecycleFields

(* Writing one row changes one finding.                                     *)
LEMMA OneFindingWritten ==
  ASSUME TypeOK, NEW fp \in Fingerprints, NEW rec,
         store' = [store EXCEPT ![fp] = rec]
  PROVE  FindingNow' = [FindingNow EXCEPT ![fp] = LifecycleOf(rec)]
<1>1. \A g \in Fingerprints : store'[g] = IF g = fp THEN rec ELSE store[g]
  BY DEF TypeOK
<1>2. FindingNow' = [g \in Fingerprints |->
                       IF g = fp THEN LifecycleOf(rec)
                         ELSE LifecycleOf(store[g])]
  BY <1>1 DEF FindingNow, LifecycleOf
<1> QED
  BY <1>2 DEF FindingNow

(* Every step on a reported finding is a step of the lifecycle; one on a    *)
(* finding the same scan has treated before changes nothing.                *)
LEMMA ReportRefines ==
  ASSUME SequentialInv, NEW s \in Scanners, ReportStep(s)
  PROVE  [Lifecycle!Next]_(Lifecycle!vars)
<1> USE DEF SequentialInv
<1>1. PICK fp \in Fingerprints : fp = Head(fresh[s])
  BY ReportEffect
<1>2. /\ store' = [store EXCEPT ![fp] = Applied(s, fp)]
      /\ opened' = IF Opens(s, fp)
                   THEN [opened EXCEPT ![s] = opened[s] \cup {fp}] ELSE opened
      /\ pc[s] = "apply" /\ fresh[s] # <<>>
      /\ UNCHANGED <<resolved, told>>
  BY <1>1, ReportEffect
<1>3. \A t \in Scanners : t # s => opened[t] = {} /\ resolved[t] = {}
  BY <1>2 DEF OneAtATime
<1>4. CASE fp \in passed[s]
  <2>1. /\ store[fp] = Applied(s, fp)
        /\ fp \in opened[s] <=> Opens(s, fp)
    BY <1>2, <1>4 DEF UpToDate, Reported, Absented
  <2>2. store' = store /\ opened' = opened
    BY <1>2, <2>1 DEF TypeOK
  <2> QED
    BY <1>2, <2>2 DEF Lifecycle!vars, Owed
<1>5. CASE fp \notin passed[s]
  <2>1. /\ store[fp] = existing[s][fp]
        /\ fp \notin opened[s] /\ fp \notin resolved[s]
    BY <1>2, <1>5 DEF UpToDate, Untreated
  <2>2. now[s] \in Nat /\ (store[fp] = NoRecord \/ store[fp] \in Record)
    BY DEF TypeOK, MaybeRecord
  <2>3. FindingNow' = [FindingNow EXCEPT ![fp] = LifecycleOf(Applied(s, fp))]
    BY <1>2, OneFindingWritten
  <2>4. FindingNow[fp] = LifecycleOf(store[fp])
    BY DEF FindingNow
  <2>5. CASE Opens(s, fp)
    <3>1. OwedNow' = [OwedNow EXCEPT ![fp] = "opened"]
      <4>1. \A g \in Fingerprints :
              Owed(g)' = IF g = fp THEN "opened" ELSE Owed(g)
        BY <1>2, <1>3, <2>1, <2>5 DEF Owed, TypeOK
      <4> QED
        BY <4>1 DEF OwedNow
    <3>2. LifecycleOf(Applied(s, fp)) = Lifecycle!Opened
      <4>1. CASE store[fp] = NoRecord
        BY <2>1, <2>2, <4>1, NewOpens DEF Applied
      <4>2. CASE store[fp] # NoRecord
        BY <2>1, <2>2, <2>5, <4>2, MergedOpens DEF Applied, Opens
      <4> QED
        BY <4>1, <4>2
    <3>3. FindingNow[fp].status \in {"none", "resolved"}
      <4>1. CASE store[fp] = NoRecord
        BY <2>4, <4>1 DEF LifecycleOf
      <4>2. CASE store[fp] # NoRecord
        BY <2>1, <2>2, <2>4, <2>5, <4>2, LifecycleFields DEF Opens
      <4> QED
        BY <4>1, <4>2
    <3>4. Lifecycle!ReportOpens(fp)
      BY <1>2, <2>3, <3>1, <3>2, <3>3
         DEF Lifecycle!ReportOpens, FindingNow, OwedNow
    <3> QED
      BY <3>4 DEF Lifecycle!Next, Lifecycle!Report
  <2>6. CASE ~ Opens(s, fp)
    <3>1. store[fp] \in Record /\ store[fp].status # "resolved"
      BY <2>1, <2>2, <2>6 DEF Opens
    <3>2. Applied(s, fp) = Merged(store[fp], now[s])
      BY <2>1, <2>6 DEF Applied, Opens
    <3>3. FindingNow' = [FindingNow EXCEPT ![fp] = [FindingNow[fp] EXCEPT !.misses = 0]]
      BY <2>2, <2>3, <2>4, <3>1, <3>2, MergedRefreshes
    <3>4. FindingNow[fp].status \in Lifecycle!Decisions
      BY <2>4, <3>1, LifecycleFields
         DEF Record, Statuses, Lifecycle!Decisions, Lifecycle!Statuses
    <3>5. OwedNow' = OwedNow
      BY <1>2, <2>6 DEF OwedNow, Owed
    <3>6. Lifecycle!ReportRefreshes(fp)
      BY <1>2, <3>3, <3>4, <3>5
         DEF Lifecycle!ReportRefreshes, FindingNow, OwedNow
    <3> QED
      BY <3>6 DEF Lifecycle!Next, Lifecycle!Report
  <2> QED
    BY <2>5, <2>6
<1> QED
  BY <1>4, <1>5

(* So is every step on an absent one.                                       *)
LEMMA AbsentRefines ==
  ASSUME SequentialInv, NEW s \in Scanners, NEW fp \in Fingerprints,
         CountAbsent(s, fp)
  PROVE  Lifecycle!Next
<1> USE DEF SequentialInv
<1> DEFINE prev == store[fp]
           t == now[s]
<1>1. /\ prev \in Record
      /\ prev.status \notin {"resolved", "suppressed"}
      /\ t \in Nat
      /\ store' = [store EXCEPT ![fp] = Missed(prev, t)]
      /\ pc[s] = "apply"
      /\ fp \notin passed[s]
      /\ UNCHANGED <<opened, told>>
  BY AbsentEffect
<1>2. resolved' = IF Missed(prev, t).status = "resolved"
                  THEN [resolved EXCEPT ![s] = resolved[s] \cup {fp}]
                  ELSE resolved
  BY AbsentEffect
<1>3. \A u \in Scanners : u # s => opened[u] = {} /\ resolved[u] = {}
  BY <1>1 DEF OneAtATime
<1>4. FindingNow' = [FindingNow EXCEPT ![fp] = LifecycleOf(Missed(prev, t))]
  BY <1>1, OneFindingWritten
<1>5. FindingNow[fp] = LifecycleOf(prev)
  BY DEF FindingNow
<1>6. Lifecycle!Live(FindingNow[fp])
  BY <1>1, <1>5, LifecycleFields DEF Lifecycle!Live, Record, Statuses
<1>7. t # Never
  BY <1>1 DEF OneAtATime
<1> HIDE DEF prev, t
<1>8. prev.streak \in Nat /\ ResolveAfter \in Nat
  BY <1>1, ResolveAfterIsPositive DEF Record
<1>9. CASE prev.streak + 1 >= ResolveAfter
  <2>1. Missed(prev, t).status = "resolved"
    BY <1>1, <1>9, MissedFields
  <2>2. OwedNow' = [OwedNow EXCEPT ![fp] = "resolved"]
    <3>1. \A g \in Fingerprints :
            Owed(g)' = IF g = fp THEN "resolved" ELSE Owed(g)
      BY <1>1, <1>2, <1>3, <2>1 DEF Owed, TypeOK
    <3> QED
      BY <3>1 DEF OwedNow
  <2>3. /\ LifecycleOf(prev).misses + 1 >= ResolveAfter
        /\ LifecycleOf(Missed(prev, t)) =
             [status |-> "resolved", misses |-> ResolveAfter, closed |-> TRUE]
    BY <1>1, <1>7, <1>9, MissedResolves
  <2>4. Lifecycle!MissResolves(fp)
    BY <1>1, <1>4, <1>5, <1>6, <2>2, <2>3
       DEF Lifecycle!MissResolves, FindingNow, OwedNow
  <2> QED
    BY <2>4 DEF Lifecycle!Next, Lifecycle!Miss
<1>10. CASE prev.streak + 1 < ResolveAfter
  <2>1. Missed(prev, t).status # "resolved"
    BY <1>1, <1>8, <1>10, MissedFields
  <2>2. OwedNow' = OwedNow
    BY <1>1, <1>2, <2>1 DEF OwedNow, Owed
  <2>3. /\ LifecycleOf(prev).misses = prev.streak
        /\ LifecycleOf(Missed(prev, t)) =
             [LifecycleOf(prev) EXCEPT !.misses = prev.streak + 1]
    BY <1>1, <1>10, MissedCounts
  <2>4. Lifecycle!MissCounts(fp)
    BY <1>1, <1>4, <1>5, <1>6, <1>10, <2>2, <2>3
       DEF Lifecycle!MissCounts, FindingNow, OwedNow
  <2> QED
    BY <2>4 DEF Lifecycle!Next, Lifecycle!Miss
<1> QED
  BY <1>8, <1>9, <1>10

(* A scan that ends tells, or loses, what it owed.                          *)
LEMMA ReturnRefines ==
  ASSUME SequentialInv, NEW s \in Scanners, Return(s)
  PROVE  [Lifecycle!Next]_(Lifecycle!vars)
<1> USE DEF SequentialInv
<1>1. /\ \A t \in Scanners : t # s => opened[t] = {} /\ resolved[t] = {}
      /\ \A t \in Scanners : opened'[t] = {} /\ resolved'[t] = {}
      /\ store' = store
      /\ told' = [fp \in Fingerprints |->
                    IF fp \in resolved[s] THEN "resolved"
                    ELSE IF fp \in opened[s] THEN "opened" ELSE told[fp]]
  BY DEF Return, Leave, TypeOK, OneAtATime
<1>2. FindingNow' = FindingNow
  BY <1>1 DEF FindingNow
<1>3. \A fp \in Fingerprints :
        Owed(fp) = IF fp \in resolved[s] THEN "resolved"
                   ELSE IF fp \in opened[s] THEN "opened" ELSE "none"
  BY <1>1 DEF Owed
<1>4. OwedNow' = [fp \in Fingerprints |-> "none"]
  BY <1>1 DEF OwedNow, Owed
<1>5. told' = [fp \in Fingerprints |->
                 IF OwedNow[fp] # "none" THEN OwedNow[fp] ELSE told[fp]]
  BY <1>1, <1>3 DEF OwedNow
<1>6. CASE \E fp \in Fingerprints : OwedNow[fp] # "none"
  <2>1. Lifecycle!Tell
    BY <1>2, <1>4, <1>5, <1>6
       DEF Lifecycle!Tell, Lifecycle!LastNews, FindingNow, OwedNow
  <2> QED
    BY <2>1 DEF Lifecycle!Next
<1>7. CASE \A fp \in Fingerprints : OwedNow[fp] = "none"
  <2>1. told' = told
    BY <1>5, <1>7 DEF TypeOK
  <2>2. OwedNow' = OwedNow
    BY <1>4, <1>7 DEF OwedNow
  <2> QED
    BY <1>2, <2>1, <2>2 DEF Lifecycle!vars, FindingNow, OwedNow
<1> QED
  BY <1>6, <1>7

(* A failure or a crash loses what was owed.                                *)
LEMMA LossRefines ==
  ASSUME SequentialInv,
         store' = store,
         \A t \in Scanners : opened'[t] = {} /\ resolved'[t] = {},
         told' = [fp \in Fingerprints |->
                    IF \E t \in Scanners : fp \in opened[t] \cup resolved[t]
                    THEN "lost" ELSE told[fp]]
  PROVE  [Lifecycle!Next]_(Lifecycle!vars)
<1> USE DEF SequentialInv
<1>1. FindingNow' = FindingNow
  BY DEF FindingNow
<1>2. \A fp \in Fingerprints :
        OwedNow[fp] # "none" <=>
          \E t \in Scanners : fp \in opened[t] \cup resolved[t]
  BY DEF OwedNow, Owed
<1>3. OwedNow' = [fp \in Fingerprints |-> "none"]
  BY DEF OwedNow, Owed
<1>4. told' = [fp \in Fingerprints |->
                 IF OwedNow[fp] # "none" THEN "lost" ELSE told[fp]]
  BY <1>2
<1>5. CASE \E fp \in Fingerprints : OwedNow[fp] # "none"
  <2>1. Lifecycle!Lose
    BY <1>1, <1>3, <1>4, <1>5 DEF Lifecycle!Lose, FindingNow, OwedNow
  <2> QED
    BY <2>1 DEF Lifecycle!Next
<1>6. CASE \A fp \in Fingerprints : OwedNow[fp] = "none"
  <2>1. told' = told
    BY <1>4, <1>6 DEF TypeOK
  <2>2. OwedNow' = OwedNow
    BY <1>3, <1>6 DEF OwedNow
  <2> QED
    BY <1>1, <2>1, <2>2 DEF Lifecycle!vars, FindingNow, OwedNow
<1> QED
  BY <1>5, <1>6

(* Scans and status requests that do not overlap do to each finding, and    *)
(* tell about it, what FindingLifecycle allows, errors and crashes included.*)
THEOREM LifecycleImplemented == ASSUME Isolated PROVE Spec =>
  ImplementsLifecycle
<1>1. Init => Lifecycle!Init
  <2> SUFFICES ASSUME Init PROVE Lifecycle!Init
    OBVIOUS
  <2>1. \A fp \in Fingerprints : LifecycleOf(store[fp]) = Lifecycle!Absent
    BY DEF Init, NoRows, LifecycleOf, Lifecycle!Absent
  <2>2. \A fp \in Fingerprints : Owed(fp) = "none"
    BY DEF Init, Owed
  <2> QED
    BY <2>1, <2>2 DEF Init, Lifecycle!Init
<1>2. SequentialInv /\ [Next]_vars => [Lifecycle!Next]_(Lifecycle!vars)
  <2> SUFFICES ASSUME SequentialInv, [Next]_vars
               PROVE  [Lifecycle!Next]_(Lifecycle!vars)
    OBVIOUS
  <2>1. ASSUME UNCHANGED <<store, opened, resolved, told>>
        PROVE  UNCHANGED Lifecycle!vars
    BY <2>1 DEF Lifecycle!vars, Owed
  <2>2. ASSUME NEW s \in Scanners,
               Begin(s) \/ ListByTarget(s) \/ Reject(s)
        PROVE  UNCHANGED Lifecycle!vars
    BY <2>1, <2>2 DEF Begin, ListByTarget, Reject
  <2>3. ASSUME NEW s \in Scanners, Fail(s)
        PROVE  [Lifecycle!Next]_(Lifecycle!vars)
    <3>1. /\ pc[s] # "idle"
          /\ store' = store
          /\ told' = [fp \in Fingerprints |->
                        IF fp \in opened[s] \cup resolved[s]
                        THEN "lost" ELSE told[fp]]
      BY <2>3 DEF Fail, LoseNews, CallsStore
    <3>2. \A t \in Scanners : t # s => opened[t] = {} /\ resolved[t] = {}
      BY <3>1 DEF SequentialInv, OneAtATime
    <3>3. \A t \in Scanners : opened'[t] = {} /\ resolved'[t] = {}
      BY <2>3, <3>2 DEF Fail, Leave, SequentialInv, TypeOK
    <3>4. \A fp \in Fingerprints :
            fp \in opened[s] \cup resolved[s] <=>
              \E t \in Scanners : fp \in opened[t] \cup resolved[t]
      BY <3>2
    <3>5. told' = [fp \in Fingerprints |->
                     IF \E t \in Scanners : fp \in opened[t] \cup resolved[t]
                     THEN "lost" ELSE told[fp]]
      BY <3>1, <3>4
    <3> QED
      BY <3>1, <3>3, <3>5, LossRefines
  <2>4. CASE Crash
    BY <2>4, LossRefines DEF Crash
  <2>5. ASSUME NEW o \in Operators, NEW fp \in Fingerprints,
               NEW next \in Decisions, GetFinding(o, fp, next)
        PROVE  UNCHANGED Lifecycle!vars
    BY <2>1, <2>5 DEF GetFinding, scanVars
  <2>6. ASSUME NEW o \in Operators, PutFails(o)
        PROVE  UNCHANGED Lifecycle!vars
    BY <2>1, <2>6 DEF PutFails, scanVars
  <2>7. ASSUME NEW o \in Operators, PutFinding(o) PROVE Lifecycle!Next
    <3>1. PICK fp \in Fingerprints, next \in Decisions :
            /\ store[fp] \in Record
            /\ store' = [store EXCEPT ![fp] = [store[fp] EXCEPT !.status = next]]
            /\ \A s \in Scanners : pc[s] = "idle"
            /\ \A p \in Operators : change'[p] = NoChange
            /\ UNCHANGED <<scans, scanVars, told, failures>>
      BY <2>7, PutEffect DEF SequentialInv
    <3>2. FindingNow' = [FindingNow EXCEPT ![fp] =
                           LifecycleOf([store[fp] EXCEPT !.status = next])]
      BY <3>1, OneFindingWritten DEF SequentialInv
    <3>3. FindingNow[fp] = LifecycleOf(store[fp])
      BY DEF FindingNow
    <3>4. FindingNow' = [FindingNow EXCEPT ![fp] =
                           [FindingNow[fp] EXCEPT !.status = next]]
      <4>1. LifecycleOf([store[fp] EXCEPT !.status = next]) =
              [LifecycleOf(store[fp]) EXCEPT !.status = next]
        BY <3>1, DecidedStatus
      <4> QED
        BY <3>2, <3>3, <4>1
    <3>5. FindingNow[fp].status # "none"
      BY <3>1, <3>3, LifecycleFields DEF Record, Statuses
    <3>6. OwedNow' = OwedNow
      BY <3>1 DEF OwedNow, Owed, scanVars
    <3>7. Lifecycle!Decide(fp, next)
      BY <3>1, <3>4, <3>5, <3>6 DEF Lifecycle!Decide, FindingNow, OwedNow
    <3>8. next \in Lifecycle!Decisions
      BY DEF Decisions, Statuses, Lifecycle!Decisions, Lifecycle!Statuses
    <3> QED
      BY <3>7, <3>8 DEF Lifecycle!Next
  <2>8. CASE UNCHANGED vars
    BY <2>1, <2>8 DEF vars, scanVars
  <2> QED
    BY <2>2, <2>3, <2>4, <2>5, <2>6, <2>7, <2>8, ReportRefines, AbsentRefines,
       ReturnRefines DEF Next, ScannerStep, OperatorStep, ReportStep
<1> QED
  BY <1>1, <1>2, SequentialAlways, PTL
     DEF Spec, ImplementsLifecycle, Lifecycle!Spec
=============================================================================
