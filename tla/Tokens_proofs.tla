----------------------------- MODULE Tokens_proofs -----------------------------
(***************************************************************************)
(* The theorems of Tokens: types, and that no scan outlives its token, for *)
(* every set of scans and tenants and every timeout and margin.            *)
(***************************************************************************)
EXTENDS Tokens, TLAPS

(* What the cache believes exceeds the life of its token by no more than an  *)
(* answer may be on its way, which is no more than a scan may take.          *)
CacheIsNearlyRight ==
  \A k \in Keys : cache[k].left <= cache[k].token.life + ScanTimeout

(* The same of an answer, less what the scan has left to wait.               *)
AnswerIsNearlyRight ==
  \A s \in Scans : scan[s].step \in {"issued", "answered"} =>
    /\ scan[s].from = "cloud"
    /\ scan[s].left + scan[s].time <= scan[s].token.life + ScanTimeout

(* A token from the cloud has aged by no more than its scan has.             *)
NewLivesOn ==
  \A s \in Scans : scan[s].from = "cloud" =>
    scan[s].granted + scan[s].time <= scan[s].token.life + ScanTimeout

(* A token from the cache has more left than its scan.                       *)
CachedLivesOn ==
  \A s \in Scans : scan[s].step = "reading" /\ scan[s].from # "cloud" =>
    scan[s].token.life > scan[s].time

IInv == /\ TypeOK
        /\ CacheIsNearlyRight
        /\ AnswerIsNearlyRight
        /\ NewLivesOn
        /\ CachedLivesOn

-----------------------------------------------------------------------------

(* What is stated of a token is a number the cloud has granted.              *)
LEMMA TtlIsGranted ==
  ASSUME NEW g \in Grants
  PROVE  g.life \in Nat /\ Ttl(g) \in Nat /\ Ttl(g) <= g.life
BY CloudKeepsItsWord, TimesAreTimes DEF Ttl

(* Counting down keeps tokens tokens, and orders.                            *)
LEMMA LessIsLess ==
  ASSUME NEW n \in Nat
  PROVE  Less(n) \in Nat /\ Less(n) <= n /\ n <= Less(n) + 1
BY DEF Less

LEMMA OlderIsToken ==
  ASSUME NEW token \in Token
  PROVE  Older(token) \in Token /\ Older(token).life = Less(token.life)
BY LessIsLess DEF Older, Token

LEMMA FreshIsToken ==
  ASSUME NEW n \in Nat
  PROVE  Fresh(n) \in Token /\ Fresh(n).life = n
BY DEF Fresh, Token

(* The token of a scan that moves, and the scans that do not.                *)
LEMMA InitIInv == Init => IInv
<1> SUFFICES ASSUME Init PROVE IInv
  OBVIOUS
<1>1. NoToken \in Token /\ NoToken.life = 0
  BY FreshIsToken DEF NoToken
<1>2. TypeOK
  BY <1>1, TimesAreTimes DEF Init, TypeOK, Idle, Steps
<1>3. CacheIsNearlyRight
  BY <1>1, TimesAreTimes DEF Init, CacheIsNearlyRight
<1>4. AnswerIsNearlyRight /\ NewLivesOn /\ CachedLivesOn
  BY DEF Init, AnswerIsNearlyRight, NewLivesOn, CachedLivesOn, Idle
<1> QED
  BY <1>2, <1>3, <1>4 DEF IInv

(* A step of one scan, told by its fields, keeps the invariant when the new  *)
(* fields have their types and the bounds, and the cache keeps its own.      *)
LEMMA MoveKeepsScans ==
  ASSUME IInv, NEW s \in Scans, NEW step \in Steps, NEW key \in Keys \cup {NoKey},
         NEW time \in 0..ScanTimeout, NEW token \in Token, NEW left \in Nat,
         NEW granted \in Nat, NEW from \in {"none", "cache", "cloud"},
         Moves(s, step, key, time, token, left, granted, from),
         step \in {"issued", "answered"} =>
           from = "cloud" /\ left + time <= token.life + ScanTimeout,
         from = "cloud" => granted + time <= token.life + ScanTimeout,
         step = "reading" /\ from # "cloud" => token.life > time
  PROVE  /\ scan' \in [Scans -> [step : Steps, key : Keys \cup {NoKey},
                         time : 0..ScanTimeout, token : Token, left : Nat,
                         granted : Nat, from : {"none", "cache", "cloud"}]]
         /\ AnswerIsNearlyRight'
         /\ NewLivesOn'
         /\ CachedLivesOn'
<1> DEFINE new == [step |-> step, key |-> key, time |-> time, token |-> token,
                   left |-> left, granted |-> granted, from |-> from]
<1>1. scan' = [scan EXCEPT ![s] = new]
  BY DEF Moves
<1>2. new \in [step : Steps, key : Keys \cup {NoKey}, time : 0..ScanTimeout,
               token : Token, left : Nat, granted : Nat,
               from : {"none", "cache", "cloud"}]
  OBVIOUS
<1>3. scan \in [Scans -> [step : Steps, key : Keys \cup {NoKey},
                         time : 0..ScanTimeout, token : Token, left : Nat,
                         granted : Nat, from : {"none", "cache", "cloud"}]]
  BY DEF IInv, TypeOK
<1>4. \A q \in Scans : scan'[q] = IF q = s THEN new ELSE scan[q]
  BY <1>1, <1>3
<1>5. scan' \in [Scans -> [step : Steps, key : Keys \cup {NoKey},
                         time : 0..ScanTimeout, token : Token, left : Nat,
                         granted : Nat, from : {"none", "cache", "cloud"}]]
  BY <1>1, <1>2, <1>3
<1>6. AnswerIsNearlyRight'
  BY <1>4 DEF IInv, AnswerIsNearlyRight
<1>7. NewLivesOn'
  BY <1>4 DEF IInv, NewLivesOn
<1>8. CachedLivesOn'
  BY <1>4 DEF IInv, CachedLivesOn
<1> QED
  BY <1>5, <1>6, <1>7, <1>8

(* Every step keeps the invariant: a cached token is close to what it was    *)
(* believed to be, and the margin is wider than two scans.                   *)
LEMMA NextIInv == IInv /\ [Next]_vars => IInv'
<1> SUFFICES ASSUME IInv, [Next]_vars PROVE IInv'
  OBVIOUS
<1> USE TimesAreTimes
<1> DEFINE ScanType == [step : Steps, key : Keys \cup {NoKey},
                        time : 0..ScanTimeout, token : Token, left : Nat,
                        granted : Nat, from : {"none", "cache", "cloud"}]
           CacheType == [token : Token, left : Nat]
<1>t. cache \in [Keys -> CacheType] /\ scan \in [Scans -> ScanType]
  BY DEF IInv, TypeOK
<1>n. NoToken \in Token /\ NoToken.life = 0
  BY FreshIsToken DEF NoToken
<1>z. \A token \in Token : token.life \in Nat
  BY DEF Token
<1>a. ASSUME NEW s \in Scans, NEW t \in Targets, CacheHit(s, t) PROVE IInv'
  <2> DEFINE k == CredsOf[t]
  <2>1. k \in Keys
    BY <1>a, CredsRoute DEF CacheHit, Routed
  <2>2. cache[k].token \in Token /\ cache[k].left \in Nat
    BY <2>1, <1>t
  <2>3. cache[k].left >= Margin /\ cache[k].left <= cache[k].token.life + ScanTimeout
    BY <1>a, <2>1 DEF CacheHit, Usable, IInv, CacheIsNearlyRight
  <2>4. cache[k].token.life > ScanTimeout
    BY <2>2, <2>3, <1>z, MarginCoversTwoScans
  <2>5. Moves(s, "reading", k, ScanTimeout, cache[k].token, 0, 0, "cache")
    BY <1>a DEF CacheHit
  <2>6. /\ scan' \in [Scans -> ScanType]
        /\ AnswerIsNearlyRight' /\ NewLivesOn' /\ CachedLivesOn'
    BY <2>1, <2>2, <2>4, <2>5, MoveKeepsScans DEF Steps
  <2> QED
    BY <1>a, <2>6 DEF CacheHit, IInv, TypeOK, CacheIsNearlyRight
<1>b. ASSUME NEW s \in Scans, NEW t \in Targets, CacheMiss(s, t) PROVE IInv'
  <2>1. CredsOf[t] \in Keys
    BY <1>b, CredsRoute DEF CacheMiss, Routed
  <2>2. Moves(s, "asking", CredsOf[t], ScanTimeout, NoToken, 0, 0, "none")
    BY <1>b DEF CacheMiss
  <2>3. /\ scan' \in [Scans -> ScanType]
        /\ AnswerIsNearlyRight' /\ NewLivesOn' /\ CachedLivesOn'
    BY <2>1, <2>2, <1>n, MoveKeepsScans DEF Steps
  <2> QED
    BY <1>b, <2>3 DEF CacheMiss, IInv, TypeOK, CacheIsNearlyRight
<1>c. ASSUME NEW s \in Scans, NEW g \in Grants, Issue(s, g) PROVE IInv'
  <2>1. g.life \in Nat /\ Ttl(g) \in Nat /\ Ttl(g) <= g.life
    BY TtlIsGranted
  <2>2. Fresh(g.life) \in Token /\ Fresh(g.life).life = g.life
    BY <2>1, FreshIsToken
  <2>3. scan[s].key \in Keys \cup {NoKey} /\ scan[s].time \in 0..ScanTimeout
    BY <1>t
  <2>4. Moves(s, "issued", scan[s].key, scan[s].time, Fresh(g.life), Ttl(g), g.life, "cloud")
    BY <1>c DEF Issue
  <2>5. /\ Ttl(g) + scan[s].time <= Fresh(g.life).life + ScanTimeout
        /\ g.life + scan[s].time <= Fresh(g.life).life + ScanTimeout
    BY <2>1, <2>2, <2>3
  <2>6. /\ scan' \in [Scans -> ScanType]
        /\ AnswerIsNearlyRight' /\ NewLivesOn' /\ CachedLivesOn'
    BY <2>1, <2>2, <2>3, <2>4, <2>5, MoveKeepsScans DEF Steps
  <2> QED
    BY <1>c, <2>6 DEF Issue, IInv, TypeOK, CacheIsNearlyRight
<1>d. ASSUME NEW s \in Scans, Answer(s) PROVE IInv'
  <2>1. /\ scan[s].step = "issued"
        /\ Moves(s, "answered", scan[s].key, scan[s].time, scan[s].token,
                 scan[s].left, scan[s].granted, "cloud")
    BY <1>d DEF Answer
  <2>2. scan[s] \in ScanType
    BY <1>t
  <2>3. /\ scan[s].left + scan[s].time <= scan[s].token.life + ScanTimeout
        /\ scan[s].granted + scan[s].time <= scan[s].token.life + ScanTimeout
    BY <2>1 DEF IInv, AnswerIsNearlyRight, NewLivesOn
  <2>4. /\ scan' \in [Scans -> ScanType]
        /\ AnswerIsNearlyRight' /\ NewLivesOn' /\ CachedLivesOn'
    BY <2>1, <2>2, <2>3, MoveKeepsScans DEF Steps
  <2> QED
    BY <1>d, <2>4 DEF Answer, IInv, TypeOK, CacheIsNearlyRight
<1>e. ASSUME NEW s \in Scans, Store(s) PROVE IInv'
  <2>1. /\ scan[s].step = "answered"
        /\ cache' = [cache EXCEPT ![scan[s].key] =
                       [token |-> scan[s].token, left |-> scan[s].left]]
        /\ Moves(s, "reading", scan[s].key, scan[s].time, scan[s].token,
                 0, scan[s].granted, "cloud")
    BY <1>e DEF Store
  <2>2. scan[s] \in ScanType
    BY <1>t
  <2>3. /\ scan[s].left + scan[s].time <= scan[s].token.life + ScanTimeout
        /\ scan[s].granted + scan[s].time <= scan[s].token.life + ScanTimeout
    BY <2>1 DEF IInv, AnswerIsNearlyRight, NewLivesOn
  <2>4. /\ scan' \in [Scans -> ScanType]
        /\ AnswerIsNearlyRight' /\ NewLivesOn' /\ CachedLivesOn'
    BY <2>1, <2>2, <2>3, MoveKeepsScans DEF Steps
  <2>5. scan[s].left <= scan[s].token.life + ScanTimeout
    BY <2>2, <2>3, <1>z
  <2>6. cache' \in [Keys -> CacheType]
    BY <2>1, <2>2, <1>t
  <2>7. CacheIsNearlyRight'
    <3>1. SUFFICES ASSUME NEW k \in Keys
                   PROVE  cache'[k].left <= cache'[k].token.life + ScanTimeout
      BY DEF CacheIsNearlyRight
    <3>2. CASE k = scan[s].key
      BY <3>2, <2>1, <2>5, <1>t
    <3>3. CASE k # scan[s].key
      BY <3>3, <2>1, <1>t DEF IInv, CacheIsNearlyRight
    <3> QED
      BY <3>2, <3>3
  <2> QED
    BY <1>e, <2>4, <2>6, <2>7 DEF Store, IInv, TypeOK
<1>f. ASSUME NEW s \in Scans, ScanEnds(s) PROVE IInv'
  <2>1. Moves(s, "idle", NoKey, 0, NoToken, 0, 0, "none")
    BY <1>f DEF ScanEnds, Moves, Idle
  <2>2. "idle" \in Steps /\ 0 \in 0..ScanTimeout /\ NoKey \in Keys \cup {NoKey}
    BY DEF Steps
  <2>3. /\ scan' \in [Scans -> ScanType]
        /\ AnswerIsNearlyRight' /\ NewLivesOn' /\ CachedLivesOn'
    BY <2>1, <2>2, <1>n, MoveKeepsScans
  <2> QED
    BY <1>f, <2>3 DEF ScanEnds, IInv, TypeOK, CacheIsNearlyRight
<1>g. ASSUME NEW k \in Keys, Revoke(k) PROVE IInv'
  <2>1. /\ revocations < MaxRevocations
        /\ revocations' = revocations + 1
        /\ cache' = [cache EXCEPT ![k] =
             [token |-> Revoked(cache[k].token), left |-> cache[k].left]]
        /\ scan' = [s \in Scans |->
             IF scan[s].key # k THEN scan[s]
             ELSE [step |-> scan[s].step, key |-> k, time |-> scan[s].time,
                   token |-> Revoked(scan[s].token), left |-> scan[s].left,
                   granted |-> scan[s].granted, from |-> scan[s].from]]
    BY <1>g DEF Revoke
  <2>2. \A token \in Token : /\ Revoked(token) \in Token
                             /\ Revoked(token).life = token.life
    BY DEF Token, Revoked
  <2>3. cache' \in [Keys -> CacheType]
    BY <2>1, <2>2, <1>t
  <2>4. \A j \in Keys : /\ cache'[j].left = cache[j].left
                        /\ cache'[j].token.life = cache[j].token.life
    BY <2>1, <2>2, <1>t
  <2>6. scan' \in [Scans -> ScanType]
    BY <2>1, <2>2, <1>t
  <2>7. \A s \in Scans : /\ scan'[s].step = scan[s].step
                         /\ scan'[s].time = scan[s].time
                         /\ scan'[s].left = scan[s].left
                         /\ scan'[s].granted = scan[s].granted
                         /\ scan'[s].from = scan[s].from
                         /\ scan'[s].token.life = scan[s].token.life
    BY <2>1, <2>2, <1>t
  <2>8. revocations' \in 0..MaxRevocations
    BY <2>1 DEF IInv, TypeOK
  <2> QED
    BY <2>3, <2>4, <2>6, <2>7, <2>8 DEF IInv, TypeOK, CacheIsNearlyRight,
       AnswerIsNearlyRight, NewLivesOn, CachedLivesOn
<1>h. CASE Tick
  <2>1. \A s \in Scans : scan[s].step = "idle" \/ scan[s].time # 0
    BY <1>h DEF Tick, AtDeadline
  <2>2. \A k \in Keys :
          cache'[k] = [token |-> Older(cache[k].token), left |-> Less(cache[k].left)]
    BY <1>h DEF Tick
  <2>3. \A k \in Keys : /\ cache[k].token \in Token /\ cache[k].left \in Nat
                        /\ cache[k].token.life \in Nat
    BY <1>t, <1>z
  <2>4. cache' \in [Keys -> CacheType]
    BY <1>h, <2>3, OlderIsToken, LessIsLess DEF Tick
  <2>5. CacheIsNearlyRight'
    <3>1. SUFFICES ASSUME NEW k \in Keys
                   PROVE  cache'[k].left <= cache'[k].token.life + ScanTimeout
      BY DEF CacheIsNearlyRight
    <3>2. /\ cache'[k].left = Less(cache[k].left)
          /\ cache'[k].token.life = Less(cache[k].token.life)
      <4>1. cache[k].token \in Token
        BY <2>3
      <4>2. Older(cache[k].token).life = Less(cache[k].token.life)
        BY <4>1, OlderIsToken
      <4>3. cache'[k] = [token |-> Older(cache[k].token), left |-> Less(cache[k].left)]
        BY <2>2
      <4>4. cache'[k].left = Less(cache[k].left)
        BY <4>3
      <4>5. cache'[k].token = Older(cache[k].token)
        BY <4>3
      <4> QED
        BY <4>2, <4>4, <4>5
    <3>3. cache[k].left <= cache[k].token.life + ScanTimeout
      BY DEF IInv, CacheIsNearlyRight
    <3> QED
      BY <2>3, <3>2, <3>3 DEF Less
  <2>6. ASSUME NEW s \in Scans, scan[s].step # "idle"
        PROVE  /\ scan'[s] \in ScanType
               /\ scan'[s].step = scan[s].step
               /\ scan'[s].time = scan[s].time - 1
               /\ scan'[s].token.life = Less(scan[s].token.life)
               /\ scan'[s].left <= scan[s].left
               /\ scan'[s].granted = scan[s].granted
               /\ scan'[s].from = scan[s].from
    <3>1. scan[s] \in ScanType /\ scan[s].time # 0 /\ scan[s].token \in Token
      BY <2>1, <2>6, <1>t
    <3>2. scan'[s] =
            [step |-> scan[s].step, key |-> scan[s].key,
             time |-> scan[s].time - 1, token |-> Older(scan[s].token),
             left |-> IF scan[s].step = "issued" THEN scan[s].left
                      ELSE Less(scan[s].left),
             granted |-> scan[s].granted, from |-> scan[s].from]
      BY <1>h, <2>6 DEF Tick
    <3>3. scan[s].time - 1 \in 0..ScanTimeout
      BY <3>1
    <3>4. /\ Older(scan[s].token) \in Token
          /\ Older(scan[s].token).life = Less(scan[s].token.life)
      BY <3>1, OlderIsToken
    <3>5. scan[s].left \in Nat
      BY <3>1
    <3>6. Less(scan[s].left) \in Nat /\ Less(scan[s].left) <= scan[s].left
      BY <3>5, LessIsLess
    <3> QED
      BY <3>1, <3>2, <3>3, <3>4, <3>5, <3>6
  <2>7. ASSUME NEW s \in Scans, scan[s].step = "idle"
        PROVE  scan'[s] = scan[s]
    BY <1>h, <2>7 DEF Tick
  <2>8. scan' \in [Scans -> ScanType]
    <3>1. \A s \in Scans : scan'[s] \in ScanType
      BY <2>6, <2>7, <1>t
    <3>2. scan' = [s \in Scans |-> scan'[s]]
      BY <1>h DEF Tick
    <3> QED
      BY <3>1, <3>2
  <2>9. ASSUME NEW s \in Scans, scan[s].step # "idle"
        PROVE  /\ scan[s].time \in Nat /\ scan[s].time # 0
               /\ scan[s].token.life \in Nat
               /\ scan[s].left \in Nat /\ scan'[s].left \in Nat
               /\ scan[s].granted \in Nat
    BY <2>1, <2>6, <2>9, <1>t, <1>z
  <2>10. AnswerIsNearlyRight'
    <3>1. SUFFICES ASSUME NEW s \in Scans, scan'[s].step \in {"issued", "answered"}
                   PROVE  /\ scan'[s].from = "cloud"
                          /\ scan'[s].left + scan'[s].time
                               <= scan'[s].token.life + ScanTimeout
      BY DEF AnswerIsNearlyRight
    <3>2. scan[s].step \in {"issued", "answered"} /\ scan[s].step # "idle"
      BY <3>1, <2>6, <2>7
    <3>3. /\ scan[s].from = "cloud"
          /\ scan[s].left + scan[s].time <= scan[s].token.life + ScanTimeout
      BY <3>2 DEF IInv, AnswerIsNearlyRight
    <3>4. scan[s].time <= ScanTimeout
      BY <1>t
    <3>5. /\ scan'[s].time = scan[s].time - 1
          /\ scan'[s].token.life = Less(scan[s].token.life)
          /\ scan'[s].left <= scan[s].left
          /\ scan'[s].from = scan[s].from
      BY <2>6, <3>2
    <3>6. /\ scan[s].time \in Nat /\ scan[s].time # 0
          /\ scan[s].token.life \in Nat
          /\ scan[s].left \in Nat /\ scan'[s].left \in Nat
      BY <2>9, <3>2
    <3> QED
      BY <3>3, <3>5, <3>6 DEF Less
  <2>11. NewLivesOn'
    <3>1. SUFFICES ASSUME NEW s \in Scans, scan'[s].from = "cloud"
                   PROVE  scan'[s].granted + scan'[s].time
                            <= scan'[s].token.life + ScanTimeout
      BY DEF NewLivesOn
    <3>2. CASE scan[s].step = "idle"
      BY <3>1, <3>2, <2>7 DEF IInv, NewLivesOn
    <3>3. CASE scan[s].step # "idle"
      <4>1. scan[s].granted + scan[s].time <= scan[s].token.life + ScanTimeout
        BY <3>1, <3>3, <2>6 DEF IInv, NewLivesOn
      <4> QED
        BY <3>3, <4>1, <2>6, <2>9 DEF Less
    <3> QED
      BY <3>2, <3>3
  <2>12. CachedLivesOn'
    <3>1. SUFFICES ASSUME NEW s \in Scans, scan'[s].step = "reading",
                          scan'[s].from # "cloud"
                   PROVE  scan'[s].token.life > scan'[s].time
      BY DEF CachedLivesOn
    <3>2. scan[s].step = "reading" /\ scan[s].step # "idle"
      BY <3>1, <2>6, <2>7
    <3>3. scan[s].token.life > scan[s].time
      BY <3>1, <3>2, <2>6 DEF IInv, CachedLivesOn
    <3> QED
      BY <3>2, <3>3, <2>6, <2>9 DEF Less
  <2> QED
    BY <1>h, <2>4, <2>5, <2>8, <2>10, <2>11, <2>12 DEF Tick, IInv, TypeOK
<1>i. CASE UNCHANGED vars
  BY <1>i DEF vars, IInv, TypeOK, CacheIsNearlyRight, AnswerIsNearlyRight,
     NewLivesOn, CachedLivesOn
<1> QED
  BY <1>a, <1>b, <1>c, <1>d, <1>e, <1>f, <1>g, <1>h, <1>i DEF Next

(* The margin covers two scans, and so covers what the cache may be wrong by *)
(* and the scan itself.                                                      *)
LEMMA IInvOutlives == IInv => TokenOutlivesScan
<1> SUFFICES ASSUME IInv, NEW s \in Scans, scan[s].step = "reading",
                    scan[s].from = "cache" \/ scan[s].granted > ScanTimeout
             PROVE  scan[s].token.life > scan[s].time
  BY DEF TokenOutlivesScan
<1>1. /\ scan[s].time \in Nat /\ scan[s].granted \in Nat
      /\ scan[s].token.life \in Nat
  BY TimesAreTimes DEF IInv, TypeOK, Token
<1>2. CASE scan[s].from # "cloud"
  BY <1>2 DEF IInv, CachedLivesOn
<1>3. CASE scan[s].from = "cloud"
  <2>1. scan[s].granted + scan[s].time <= scan[s].token.life + ScanTimeout
    BY <1>3 DEF IInv, NewLivesOn
  <2>2. scan[s].granted > ScanTimeout
    BY <1>3
  <2> QED
    BY <1>1, <2>1, <2>2, TimesAreTimes
<1> QED
  BY <1>2, <1>3

-----------------------------------------------------------------------------

LEMMA Invariance == Spec => []IInv
<1> QED
  BY InitIInv, NextIInv, PTL DEF Spec

(* Every reachable state has its types: in particular no scan is past its    *)
(* timeout.                                                                  *)
THEOREM TypeCorrect == Spec => []TypeOK
<1>1. IInv => TypeOK
  BY DEF IInv
<1> QED
  BY <1>1, Invariance, PTL

(* The two-minute margin of cached is enough for any scan, whatever order    *)
(* scans of the same tenant store their tokens in, as long as it is wider    *)
(* than two scan timeouts and the cloud keeps its word.                      *)
THEOREM NoScanOutlivesItsToken == Spec => []TokenOutlivesScan
BY IInvOutlives, Invariance, PTL
=============================================================================
