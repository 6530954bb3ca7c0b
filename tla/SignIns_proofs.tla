---------------------------- MODULE SignIns_proofs ----------------------------
(***************************************************************************)
(* The theorems of SignIns: that one pass over neighbours finds every hop  *)
(* there is, and one pass over the failures every spray that landed, in    *)
(* every log, whatever order the sort leaves equal times in.               *)
(***************************************************************************)
EXTENDS SignIns, WellFoundedInduction, FiniteSetTheorems, FunctionTheorems, TLAPS

At(k)      == log[k].at
Country(k) == log[k].country

\* Events j and k, in this order, are a hop.
HopPair(j, k) ==
  /\ Country(j) # NoCountry
  /\ Country(k) # NoCountry
  /\ Country(j) # Country(k)
  /\ At(k) - At(j) < TravelWindow

(* The events of the group are those placed and those not placed yet.        *)
Members ==
  \A g \in group : \A k \in DOMAIN log :
    InGroup(k, g) <=> k \in rest \/ \E p \in DOMAIN events : events[p] = k

(* Those placed are in the order of time, and none later than the rest.      *)
Sorted ==
  /\ \A p, q \in DOMAIN events : p < q => At(events[p]) <= At(events[q])
  /\ \A p \in DOMAIN events : \A k \in rest : At(events[p]) <= At(k)

(* last is the last event before i that has a country.                       *)
LastIsLast ==
  \/ last = 0 /\ \A p \in 1..i - 1 : Country(events[p]) = NoCountry
  \/ \E p \in 1..i - 1 :
       /\ events[p] = last
       /\ Country(last) # NoCountry
       /\ \A q \in p + 1..i - 1 : Country(events[q]) = NoCountry

(* No two events before i are a hop.                                         *)
NoHopYet == \A p, q \in 1..i - 1 : p < q => ~ HopPair(events[p], events[q])

(* Nothing was missed in the group at work: without a finding, there is no   *)
(* hop so far.                                                               *)
Scanned ==
  phase = "hop" =>
    \A u \in group : <<"hop", u>> \notin out => LastIsLast /\ NoHopYet

Reported == \A u \in Users : <<"hop", u>> \in out => HasHop(u)
Missed   == \A u \in Users : Finished("hop", u) /\ HasHop(u) => <<"hop", u>> \in out

IInv == TypeOK /\ Members /\ Sorted /\ Scanned /\ Reported /\ Missed

-----------------------------------------------------------------------------

LEMMA EventTypes ==
  ASSUME TypeOK, NEW k \in DOMAIN log
  PROVE  At(k) \in Nat /\ Country(k) \in Countries \cup {NoCountry}
<1>1. log[k] \in SignIn
  BY DEF TypeOK
<1> QED
  BY <1>1 DEF At, Country, SignIn

LEMMA PositionsAreEvents ==
  ASSUME TypeOK, NEW p \in 1..Len(events)
  PROVE  events[p] \in DOMAIN log
BY DEF TypeOK

LEMMA DomainIs == TypeOK => DOMAIN events = 1..Len(events) /\ Len(events) \in Nat
BY DEF TypeOK

(* The step of the argument: when the next event is no hop from the last one *)
(* with a country, it is none from any event before.                         *)
LEMMA NoHopFromLast ==
  ASSUME TypeOK, Sorted, LastIsLast, NoHopYet,
         i \in 1..Len(events),
         last # 0 => Country(last) = Country(events[i])
                     \/ At(events[i]) - At(last) >= TravelWindow,
         NEW p \in 1..i - 1
  PROVE  ~ HopPair(events[p], events[i])
<1> SUFFICES ASSUME HopPair(events[p], events[i]) PROVE FALSE
  OBVIOUS
<1>d. DOMAIN events = 1..Len(events) /\ Len(events) \in Nat
  BY DomainIs
<1>t. \A q \in 1..Len(events) : At(events[q]) \in Nat
  BY PositionsAreEvents, EventTypes
<1>i. i \in Nat /\ \A q \in 1..i - 1 : q \in 1..Len(events) /\ q < i
  BY <1>d
<1>1. CASE last = 0 /\ \A q \in 1..i - 1 : Country(events[q]) = NoCountry
  BY <1>1 DEF HopPair
<1>2. ASSUME NEW l \in 1..i - 1, events[l] = last, Country(last) # NoCountry,
             \A q \in l + 1..i - 1 : Country(events[q]) = NoCountry,
             last # 0
      PROVE  FALSE
  <2>1. ASSUME p > l PROVE FALSE
    <3>1. p \in l + 1..i - 1
      BY <2>1, <1>i, <1>2
    <3>2. Country(events[p]) = NoCountry
      BY <3>1, <1>2
    <3> QED
      BY <3>2 DEF HopPair
  <2>2. Country(last) = Country(events[i]) \/ At(events[i]) - At(last) >= TravelWindow
    BY <1>2
  <2>3. CASE p = l
    <3>1. /\ events[p] = last /\ At(last) \in Nat /\ At(events[i]) \in Nat
          /\ TravelWindow \in Nat
      BY <2>3, <1>2, <1>t, <1>i, WindowsAreTimes
    <3>2. /\ Country(last) # Country(events[i])
          /\ At(events[i]) - At(last) < TravelWindow
      BY <3>1 DEF HopPair
    <3> QED
      BY <2>2, <3>1, <3>2
  <2>4. CASE p < l
    <3>1. At(events[p]) <= At(events[l]) /\ At(events[l]) <= At(events[i])
      BY <2>4, <1>d, <1>i DEF Sorted
    <3>2. At(events[i]) - At(events[p]) < TravelWindow
      BY DEF HopPair
    <3>3. /\ At(events[p]) \in Nat /\ At(events[l]) \in Nat /\ At(events[i]) \in Nat
          /\ TravelWindow \in Nat
      BY <1>t, <1>i, WindowsAreTimes
    <3>4. At(events[i]) - At(events[l]) < TravelWindow
      BY <3>1, <3>2, <3>3
    <3>5. Country(events[l]) = Country(events[i])
      BY <2>2, <3>3, <3>4, <1>2
    <3>6. At(events[l]) - At(events[p]) < TravelWindow
      BY <3>1, <3>2, <3>3
    <3>7. HopPair(events[p], events[l])
      BY <3>5, <3>6, <1>2 DEF HopPair
    <3> QED
      BY <3>7, <2>4 DEF NoHopYet
  <2> QED
    BY <2>1, <2>3, <2>4, <1>i
<1>3. 0 \notin DOMAIN log
  BY DEF TypeOK
<1>4. \A l \in 1..i - 1 : events[l] # 0
  BY <1>3, <1>i, PositionsAreEvents
<1> QED
  BY <1>1, <1>2, <1>4 DEF LastIsLast

(* When all events of a user are behind, HasHop is what was found.           *)
LEMMA AllPairsAreAll ==
  ASSUME TypeOK, Members, Sorted, phase = "hop", NEW u \in group,
         rest = {}, i > Len(events), NoHopYet
  PROVE  ~ HasHop(u)
<1> SUFFICES ASSUME NEW j \in DOMAIN log, NEW k \in DOMAIN log,
                    log[j].user = u /\ log[j].success /\ log[j].country # NoCountry,
                    log[k].user = u /\ log[k].success /\ log[k].country # NoCountry,
                    log[j].country # log[k].country,
                    log[j].at <= log[k].at,
                    log[k].at - log[j].at < TravelWindow
             PROVE  FALSE
  BY DEF HasHop
<1>d. DOMAIN events = 1..Len(events) /\ Len(events) \in Nat /\ i = Len(events) + 1
  BY DomainIs DEF TypeOK
<1>1. PICK p \in DOMAIN events : events[p] = j
  BY DEF Members, InGroup
<1>2. PICK q \in DOMAIN events : events[q] = k
  BY DEF Members, InGroup
<1>3. At(j) \in Nat /\ At(k) \in Nat /\ TravelWindow \in Nat
  BY EventTypes, WindowsAreTimes
<1>4. p \in 1..i - 1 /\ q \in 1..i - 1 /\ p \in Nat /\ q \in Nat
  BY <1>d
<1>5. p # q
  BY <1>1, <1>2
<1>6. CASE p < q
  <2>1. HopPair(events[p], events[q])
    BY <1>1, <1>2 DEF HopPair, At, Country
  <2> QED
    BY <2>1, <1>4, <1>6 DEF NoHopYet
<1>7. CASE q < p
  <2>1. At(k) <= At(j)
    BY <1>1, <1>2, <1>7 DEF Sorted
  <2>2. At(j) <= At(k) /\ At(k) - At(j) < TravelWindow
    BY DEF At
  <2>3. At(j) - At(k) < TravelWindow
    BY <2>1, <2>2, <1>3
  <2>4. HopPair(events[q], events[p])
    BY <1>1, <1>2, <2>3 DEF HopPair, Country
  <2> QED
    BY <2>4, <1>4, <1>7 DEF NoHopYet
<1> QED
  BY <1>4, <1>5, <1>6, <1>7

-----------------------------------------------------------------------------

LEMMA InitIInv == Init => IInv
<1> SUFFICES ASSUME Init PROVE IInv
  OBVIOUS
<1> USE DEF Init
<1>1. log \in Seq(SignIn)
  BY LogsAreSequences
<1>2. TypeOK
  BY <1>1 DEF TypeOK, Groups, Findings
<1>3. Members /\ Sorted /\ Scanned
  BY DEF Members, Sorted, Scanned
<1>4. Reported /\ Missed
  BY DEF Reported, Missed, Finished
<1> QED
  BY <1>2, <1>3, <1>4 DEF IInv

(* The next group.                                                           *)
LEMMA TakeIInv ==
  ASSUME IInv, NEW g \in todo, Take(g) PROVE IInv'
<1>0. TypeOK /\ Reported /\ Missed
  BY DEF IInv
<1> USE DEF Take
<1>1. TypeOK'
  <2>1. g \in Groups
    BY <1>0 DEF TypeOK
  <2>2. rest' \subseteq DOMAIN log' /\ events' \in Seq(DOMAIN log') /\ Len(events') = 0
    OBVIOUS
  <2> QED
    BY <1>0, <2>1, <2>2 DEF TypeOK, Groups
<1>2. Members'
  BY DEF Members, InGroup
<1>3. Sorted'
  BY DEF Sorted
<1>4. Scanned'
  BY DEF Scanned, LastIsLast, NoHopYet
<1>5. Reported' /\ Missed'
  BY <1>0 DEF Reported, Missed, Finished, HasHop
<1> QED
  BY <1>1, <1>2, <1>3, <1>4, <1>5 DEF IInv

(* The sort places an event behind the others: what is before i stays.       *)
LEMMA PlaceIInv ==
  ASSUME IInv, NEW k \in rest, Place(k) PROVE IInv'
<1>0. TypeOK /\ Members /\ Sorted /\ Scanned /\ Reported /\ Missed
  BY DEF IInv
<1> USE DEF Place
<1>d. /\ events \in Seq(DOMAIN log) /\ Len(events) \in Nat
      /\ DOMAIN events = 1..Len(events) /\ k \in DOMAIN log
      /\ i \in 1..Len(events) + 1
  BY <1>0 DEF TypeOK
<1>e. /\ events' \in Seq(DOMAIN log) /\ Len(events') = Len(events) + 1
      /\ DOMAIN events' = 1..Len(events) + 1
      /\ events'[Len(events) + 1] = k
      /\ \A p \in 1..Len(events) : events'[p] = events[p]
  BY <1>d
<1>1. TypeOK'
  <2>1. i \in 1..Len(events') + 1
    BY <1>d, <1>e
  <2>2. rest' \subseteq DOMAIN log'
    BY <1>0 DEF TypeOK
  <2>3. (phase = "hop" /\ last # 0 => \A g \in group : InGroup(last, g))'
    BY <1>0 DEF TypeOK, InGroup
  <2> QED
    BY <1>0, <1>e, <2>1, <2>2, <2>3 DEF TypeOK, Groups
<1>2. Members'
  <2>1. \A j \in DOMAIN log : (j \in rest \/ \E p \in DOMAIN events : events[p] = j)
                         <=> (j \in rest' \/ \E p \in DOMAIN events' : events'[p] = j)
    <3>1. SUFFICES ASSUME NEW j \in DOMAIN log
                   PROVE  (j \in rest \/ \E p \in DOMAIN events : events[p] = j)
                     <=> (j \in rest' \/ \E p \in DOMAIN events' : events'[p] = j)
      OBVIOUS
    <3>2. CASE j = k
      <4>1. j \in rest /\ Len(events) + 1 \in DOMAIN events'
        BY <3>2, <1>d, <1>e
      <4>2. \E p \in DOMAIN events' : events'[p] = j
        BY <3>2, <4>1, <1>e
      <4> QED
        BY <4>1, <4>2
    <3>3. CASE j # k
      <4>1. j \in rest <=> j \in rest'
        BY <3>3
      <4>2. ASSUME NEW p \in DOMAIN events', events'[p] = j
            PROVE  \E q \in DOMAIN events : events[q] = j
        <5>1. p # Len(events) + 1
          BY <4>2, <3>3, <1>e
        <5>2. p \in DOMAIN events /\ p \in 1..Len(events)
          BY <5>1, <1>d, <1>e
        <5> QED
          BY <5>2, <4>2, <1>e
      <4>3. ASSUME NEW p \in DOMAIN events, events[p] = j
            PROVE  \E q \in DOMAIN events' : events'[q] = j
        <5>1. p \in DOMAIN events' /\ p \in 1..Len(events)
          BY <1>d, <1>e
        <5> QED
          BY <5>1, <4>3, <1>e
      <4> QED
        BY <4>1, <4>2, <4>3
    <3> QED
      BY <3>2, <3>3
  <2> QED
    BY <1>0, <2>1 DEF Members, InGroup
<1>3. Sorted'
  <2>1. \A p \in 1..Len(events) : At(events[p]) <= At(k)
    BY <1>0, <1>d DEF Sorted
  <2>2. \A j \in rest : At(k) <= At(j)
    BY DEF At
  <2>4. ASSUME NEW p \in DOMAIN events', NEW q \in DOMAIN events', p < q
        PROVE  At(events'[p]) <= At(events'[q])
    <3>1. p \in 1..Len(events) /\ p \in DOMAIN events
      BY <2>4, <1>d, <1>e
    <3>2. CASE q = Len(events) + 1
      <4>1. events'[q] = k /\ events'[p] = events[p]
        BY <3>1, <3>2, <1>e
      <4> QED
        BY <4>1, <3>1, <2>1
    <3>3. CASE q \in 1..Len(events)
      <4>1. events'[q] = events[q] /\ events'[p] = events[p] /\ q \in DOMAIN events
        BY <3>1, <3>3, <1>d, <1>e
      <4>2. At(events[p]) <= At(events[q])
        BY <4>1, <3>1, <2>4, <1>0 DEF Sorted
      <4> QED
        BY <4>1, <4>2
    <3> QED
      BY <3>2, <3>3, <1>d, <1>e
  <2>5. ASSUME NEW p \in DOMAIN events', NEW j \in rest'
        PROVE  At(events'[p]) <= At(j)
    <3>1. j \in rest
      OBVIOUS
    <3>2. CASE p = Len(events) + 1
      <4>1. events'[p] = k
        BY <3>2, <1>e
      <4> QED
        BY <3>1, <4>1, <2>2
    <3>3. CASE p \in 1..Len(events)
      <4>1. events'[p] = events[p] /\ p \in DOMAIN events
        BY <3>3, <1>d, <1>e
      <4> QED
        BY <3>1, <4>1, <1>0 DEF Sorted
    <3> QED
      BY <3>2, <3>3, <1>d, <1>e
  <2>6. log' = log
    OBVIOUS
  <2> HIDE DEF Place
  <2> QED
    BY <2>4, <2>5, <2>6 DEF Sorted, At
<1>4. Scanned'
  <2>1. ASSUME NEW u \in group, phase = "hop", <<"hop", u>> \notin out
        PROVE  LastIsLast' /\ NoHopYet'
    <3>1. LastIsLast /\ NoHopYet
      BY <2>1, <1>0 DEF Scanned
    <3>2. \A p \in 1..i - 1 : events'[p] = events[p]
      BY <1>d, <1>e
    <3>3. log' = log /\ i' = i /\ last' = last
      OBVIOUS
    <3> HIDE DEF Place
    <3>4. LastIsLast'
      <4>1. CASE last = 0 /\ \A p \in 1..i - 1 : Country(events[p]) = NoCountry
        BY <4>1, <3>2, <3>3 DEF LastIsLast, Country
      <4>2. ASSUME NEW p \in 1..i - 1, events[p] = last, Country(last) # NoCountry,
                   \A q \in p + 1..i - 1 : Country(events[q]) = NoCountry
            PROVE  LastIsLast'
        <5>1. \A q \in p + 1..i - 1 : q \in 1..i - 1
          BY <1>d
        <5>2. /\ events'[p] = last /\ Country(last) # NoCountry
              /\ \A q \in p + 1..i - 1 : Country(events'[q]) = NoCountry
          BY <4>2, <5>1, <3>2
        <5> QED
          BY <5>2, <3>3 DEF LastIsLast, Country
      <4> QED
        BY <3>1, <4>1, <4>2 DEF LastIsLast
    <3>5. NoHopYet'
      BY <3>1, <3>2, <3>3 DEF NoHopYet, HopPair, Country, At
    <3> QED
      BY <3>4, <3>5
  <2> QED
    BY <2>1 DEF Scanned
<1>5. Reported' /\ Missed'
  BY <1>0 DEF Reported, Missed, Finished, HasHop
<1> QED
  BY <1>1, <1>2, <1>3, <1>4, <1>5 DEF IInv

(* "continue": nothing without a country is part of a hop.                   *)
LEMMA HopSkipsIInv == ASSUME IInv, HopSkips PROVE IInv'
<1>0. TypeOK /\ Members /\ Sorted /\ Scanned /\ Reported /\ Missed
  BY DEF IInv
<1> USE DEF HopSkips
<1>d. /\ DOMAIN events = 1..Len(events) /\ Len(events) \in Nat
      /\ i \in 1..Len(events) /\ i' = i + 1 /\ phase = "hop"
  BY <1>0, DomainIs DEF TypeOK, Looping
<1>c. Country(events[i]) = NoCountry
  BY DEF This, Country
<1>1. TypeOK'
  <2>1. i' \in 1..Len(events') + 1
    BY <1>d
  <2> QED
    BY <1>0, <2>1 DEF TypeOK, Groups, InGroup
<1>2. Members' /\ Sorted'
  BY <1>0 DEF Members, Sorted, InGroup, At
<1>3. Scanned'
  <2>1. ASSUME NEW u \in group, <<"hop", u>> \notin out
        PROVE  LastIsLast' /\ NoHopYet'
    <3>1. LastIsLast /\ NoHopYet
      BY <2>1, <1>0, <1>d DEF Scanned
    <3>2. \A p \in 1..i' - 1 : p = i \/ p \in 1..i - 1
      BY <1>d
    <3>3. log' = log /\ last' = last /\ events' = events
      OBVIOUS
    <3> HIDE DEF HopSkips
    <3>4. LastIsLast'
      <4>1. CASE last = 0 /\ \A p \in 1..i - 1 : Country(events[p]) = NoCountry
        BY <4>1, <3>2, <3>3, <1>c DEF LastIsLast, Country
      <4>2. ASSUME NEW p \in 1..i - 1, events[p] = last, Country(last) # NoCountry,
                   \A q \in p + 1..i - 1 : Country(events[q]) = NoCountry
            PROVE  LastIsLast'
        <5>1. /\ p \in 1..i' - 1
              /\ \A q \in p + 1..i' - 1 : q = i \/ q \in p + 1..i - 1
          BY <1>d
        <5>2. \A q \in p + 1..i' - 1 : Country(events[q]) = NoCountry
          BY <4>2, <5>1, <1>c
        <5> QED
          BY <4>2, <5>1, <5>2, <3>3 DEF LastIsLast, Country
      <4> QED
        BY <3>1, <4>1, <4>2 DEF LastIsLast
    <3>5. ASSUME NEW p \in 1..i' - 1, NEW q \in 1..i' - 1, p < q
          PROVE  ~ HopPair(events[p], events[q])
      <4>1. CASE p = i \/ q = i
        BY <4>1, <1>c DEF HopPair
      <4>2. CASE p \in 1..i - 1 /\ q \in 1..i - 1
        BY <4>2, <3>1, <3>5 DEF NoHopYet
      <4> QED
        BY <3>2, <4>1, <4>2
    <3>6. NoHopYet'
      BY <3>3, <3>5 DEF NoHopYet, HopPair, Country, At
    <3> QED
      BY <3>4, <3>6
  <2> QED
    BY <2>1 DEF Scanned
<1>4. Reported' /\ Missed'
  BY <1>0 DEF Reported, Missed, Finished, HasHop
<1> QED
  BY <1>1, <1>2, <1>3, <1>4 DEF IInv

(* No hop from the last event: this one becomes the last.                    *)
LEMMA HopMovesIInv == ASSUME IInv, HopMoves PROVE IInv'
<1>0. TypeOK /\ Members /\ Sorted /\ Scanned /\ Reported /\ Missed
  BY DEF IInv
<1> USE DEF HopMoves
<1>d. /\ DOMAIN events = 1..Len(events) /\ Len(events) \in Nat
      /\ i \in 1..Len(events) /\ i' = i + 1 /\ phase = "hop"
  BY <1>0, DomainIs DEF TypeOK, Looping
<1>e. events[i] \in DOMAIN log
  BY <1>0, <1>d, PositionsAreEvents
<1>c. Country(events[i]) # NoCountry
  BY DEF This, Country
<1>h. last # 0 => Country(last) = Country(events[i])
                  \/ At(events[i]) - At(last) >= TravelWindow
  <2>1. SUFFICES ASSUME last # 0, Country(last) # Country(events[i])
                 PROVE  At(events[i]) - At(last) >= TravelWindow
    OBVIOUS
  <2>2. ~ (At(events[i]) - At(last) < TravelWindow)
    BY <2>1 DEF Hops, This, At, Country
  <2>3. last \in DOMAIN log
    BY <2>1, <1>0 DEF TypeOK
  <2>4. At(events[i]) \in Nat /\ At(last) \in Nat /\ TravelWindow \in Nat
    BY <1>0, <1>e, <2>3, EventTypes, WindowsAreTimes
  <2> QED
    BY <2>2, <2>4
<1>1. TypeOK'
  <2>1. i' \in 1..Len(events') + 1 /\ last' \in DOMAIN log
    BY <1>d, <1>e
  <2>2. \A g \in group : InGroup(events[i], g)
    BY <1>0, <1>d, <1>e DEF Members
  <2> QED
    BY <1>0, <2>1, <2>2 DEF TypeOK, Groups, InGroup
<1>2. Members' /\ Sorted'
  BY <1>0 DEF Members, Sorted, InGroup, At
<1>3. Scanned'
  <2>1. ASSUME NEW u \in group, <<"hop", u>> \notin out
        PROVE  LastIsLast' /\ NoHopYet'
    <3>1. LastIsLast /\ NoHopYet
      BY <2>1, <1>0, <1>d DEF Scanned
    <3>2. \A p \in 1..i' - 1 : p = i \/ p \in 1..i - 1
      BY <1>d
    <3>3. log' = log /\ last' = events[i] /\ events' = events
      OBVIOUS
    <3> HIDE DEF HopMoves
    <3>4. LastIsLast'
      <4>1. i \in 1..i' - 1 /\ i + 1..i' - 1 = {}
        BY <1>d
      <4> QED
        BY <4>1, <3>3, <1>c DEF LastIsLast, Country
    <3>5. ASSUME NEW p \in 1..i' - 1, NEW q \in 1..i' - 1, p < q
          PROVE  ~ HopPair(events[p], events[q])
      <4>1. p \in 1..i - 1
        BY <3>5, <3>2, <1>d
      <4>2. CASE q = i
        BY <4>1, <4>2, <3>1, <1>0, <1>d, <1>h, NoHopFromLast
      <4>3. CASE q \in 1..i - 1
        BY <4>1, <4>3, <3>1, <3>5 DEF NoHopYet
      <4> QED
        BY <3>2, <4>2, <4>3
    <3>6. NoHopYet'
      BY <3>3, <3>5 DEF NoHopYet, HopPair, Country, At
    <3> QED
      BY <3>4, <3>6
  <2> QED
    BY <2>1 DEF Scanned
<1>4. Reported' /\ Missed'
  BY <1>0 DEF Reported, Missed, Finished, HasHop
<1> QED
  BY <1>1, <1>2, <1>3, <1>4 DEF IInv

(* The finding is about two sign-ins that are a hop.                         *)
LEMMA HopReportsIInv == ASSUME IInv, HopReports PROVE IInv'
<1>0. TypeOK /\ Members /\ Sorted /\ Scanned /\ Reported /\ Missed
  BY DEF IInv
<1> USE DEF HopReports
<1>d. /\ DOMAIN events = 1..Len(events) /\ Len(events) \in Nat
      /\ i \in 1..Len(events) /\ i' = Len(events) + 1 /\ phase = "hop"
  BY <1>0, DomainIs DEF TypeOK, Looping
<1>e. events[i] \in DOMAIN log /\ last \in DOMAIN log
  BY <1>0, <1>d, PositionsAreEvents DEF Hops, TypeOK
<1>1. TypeOK'
  <2>1. i' \in 1..Len(events') + 1
    BY <1>d
  <2>2. {"hop"} \X group \subseteq Findings
    BY <1>0, <1>d DEF TypeOK, Groups, Findings
  <2> QED
    BY <1>0, <2>1, <2>2 DEF TypeOK, Groups, InGroup
<1>2. Members' /\ Sorted'
  BY <1>0 DEF Members, Sorted, InGroup, At
<1>3. Scanned'
  BY DEF Scanned
<1>4. ASSUME NEW u \in group, <<"hop", u>> \notin out PROVE HasHop(u)
  <2>1. LastIsLast
    BY <1>4, <1>0, <1>d DEF Scanned
  <2>2. PICK p \in 1..i - 1 : events[p] = last /\ Country(last) # NoCountry
    BY <2>1 DEF LastIsLast, Hops
  <2>3. At(last) <= At(events[i])
    <3>1. p \in DOMAIN events /\ i \in DOMAIN events /\ p < i
      BY <1>d
    <3> QED
      BY <3>1, <2>2, <1>0 DEF Sorted
  <2>4. InGroup(last, u) /\ InGroup(events[i], u)
    BY <1>0, <1>d, <1>e DEF TypeOK, Members, Hops
  <2>5. /\ Country(events[i]) # NoCountry
        /\ Country(last) # Country(events[i])
        /\ At(events[i]) - At(last) < TravelWindow
    BY DEF Hops, This, Country, At
  <2> HIDE DEF HopReports
  <2> QED
    BY <2>2, <2>3, <2>4, <2>5, <1>d, <1>e DEF HasHop, InGroup, Country, At
<1>5. Reported'
  <2>1. ASSUME NEW u \in Users, <<"hop", u>> \in out' PROVE HasHop(u)
    <3>1. <<"hop", u>> \in out \/ u \in group
      BY <2>1
    <3> QED
      BY <3>1, <1>0, <1>4 DEF Reported
  <2> QED
    BY <2>1 DEF Reported, HasHop
<1>6. Missed'
  BY <1>0 DEF Missed, Finished, HasHop
<1> QED
  BY <1>1, <1>2, <1>3, <1>5, <1>6 DEF IInv

(* The end of a user's loop: without a finding every pair was compared.      *)
LEMMA HopEndsIInv == ASSUME IInv, HopEnds PROVE IInv'
<1>0. TypeOK /\ Members /\ Sorted /\ Scanned /\ Reported /\ Missed
  BY DEF IInv
<1>d. phase = "hop" /\ group # {} /\ rest = {} /\ i > Len(events)
  BY DEF HopEnds, Over
<1>u. /\ todo' = todo \ group /\ group' = {} /\ log' = log /\ phase' = phase
      /\ rest' = rest /\ events' = events /\ i' = i /\ last' = last
  BY DEF HopEnds, LeaveGroup
<1>o. out' = out \/ out' = out \cup ({"suspicious"} \X group)
  BY DEF HopEnds, LeaveGroup
<1>1. TypeOK'
  <2>1. {"suspicious"} \X group \subseteq Findings
    BY <1>0, <1>d DEF TypeOK, Groups, Findings
  <2>2. out' \subseteq Findings
    BY <2>1, <1>o, <1>0 DEF TypeOK
  <2> QED
    BY <1>0, <1>u, <2>2 DEF TypeOK, Groups
<1>2. Members' /\ Sorted' /\ Scanned'
  BY <1>0, <1>u DEF Members, Sorted, Scanned, At
<1>3. \A u \in Users : <<"hop", u>> \in out' <=> <<"hop", u>> \in out
  BY <1>o
<1>4. Reported'
  BY <1>0, <1>3, <1>u DEF Reported, HasHop
<1>5. Missed'
  <2>1. ASSUME NEW u \in Users, u \notin todo', HasHop(u) PROVE <<"hop", u>> \in out
    <3>1. CASE u \in group
      BY <3>1, <2>1, <1>0, <1>d, AllPairsAreAll DEF Scanned
    <3>2. CASE u \notin group
      BY <3>2, <2>1, <1>0, <1>u DEF Missed, Finished
    <3> QED
      BY <3>1, <3>2
  <2> QED
    BY <2>1, <1>3, <1>d, <1>u DEF Missed, Finished, HasHop
<1> QED
  BY <1>1, <1>2, <1>4, <1>5 DEF IInv

LEMMA NextDetectionIInv == ASSUME IInv, NextDetection PROVE IInv'
<1>0. TypeOK /\ Members /\ Sorted /\ Scanned /\ Reported /\ Missed
  BY DEF IInv
<1> USE DEF NextDetection
<1>1. TypeOK'
  BY <1>0 DEF TypeOK, Groups
<1>2. Members' /\ Sorted' /\ Scanned'
  BY <1>0 DEF Members, Sorted, Scanned, At
<1>3. Reported'
  BY <1>0 DEF Reported, HasHop
<1>4. Missed'
  <2>1. \A u \in Users : HasHop(u) => <<"hop", u>> \in out
    BY <1>0 DEF Missed, Finished
  <2> QED
    BY <2>1 DEF Missed, HasHop
<1> QED
  BY <1>1, <1>2, <1>3, <1>4 DEF IInv

(* The second detection leaves what the first one found.                     *)
LEMMA SprayIInv ==
  ASSUME IInv, SprayPasses \/ SprayDecides \/ SprayEnds PROVE IInv'
<1>0. TypeOK /\ Members /\ Sorted /\ Scanned /\ Reported /\ Missed
  BY DEF IInv
<1>d. DOMAIN events = 1..Len(events) /\ Len(events) \in Nat
  BY <1>0, DomainIs
<1>1. /\ phase = "spray" /\ phase' = "spray"
      /\ log' = log /\ rest' = rest /\ events' = events /\ last' = last
  BY DEF SprayPasses, SprayDecides, SprayEnds, LeaveGroup, Looping, Over
<1>2. out' = out \/ out' = out \cup ({"spray"} \X group)
                 \/ out' = out \cup {}
  BY DEF SprayPasses, SprayDecides, SprayEnds, LeaveGroup
<1>3. /\ group' = group \/ group' = {}
      /\ todo' \subseteq todo
  BY DEF SprayPasses, SprayDecides, SprayEnds, LeaveGroup
<1>4. i' \in 1..Len(events) + 1
  <2>1. CASE SprayPasses
    BY <2>1, <1>0, <1>d DEF SprayPasses, Looping, TypeOK
  <2>2. CASE SprayDecides
    BY <2>2, <1>d DEF SprayDecides
  <2>3. CASE SprayEnds
    BY <2>3, <1>0 DEF SprayEnds, LeaveGroup, TypeOK
  <2> QED
    BY <2>1, <2>2, <2>3
<1>5. TypeOK'
  <2>1. {"spray"} \X group \subseteq Findings
    BY <1>0, <1>1 DEF TypeOK, Groups, Findings
  <2>2. out' \subseteq Findings
    BY <2>1, <1>2, <1>0 DEF TypeOK
  <2>3. todo' \subseteq Groups' /\ group' \subseteq Groups' /\ \A g, h \in group' : g = h
    BY <1>0, <1>1, <1>3 DEF TypeOK, Groups
  <2> QED
    BY <1>0, <1>1, <1>4, <2>2, <2>3 DEF TypeOK
<1>6. Members' /\ Sorted' /\ Scanned'
  BY <1>0, <1>1, <1>3 DEF Members, Sorted, Scanned, InGroup, At
<1>7. \A u \in Users : <<"hop", u>> \in out' <=> <<"hop", u>> \in out
  BY <1>2
<1>8. Reported' /\ Missed'
  BY <1>0, <1>1, <1>7 DEF Reported, Missed, Finished, HasHop
<1> QED
  BY <1>5, <1>6, <1>8 DEF IInv

-----------------------------------------------------------------------------

LEMMA NextIInv == IInv /\ [Next]_vars => IInv'
<1> SUFFICES ASSUME IInv, [Next]_vars PROVE IInv'
  OBVIOUS
<1>1. CASE UNCHANGED vars
  <2>1. TypeOK' /\ Members' /\ Sorted'
    BY <1>1 DEF IInv, vars, TypeOK, Groups, InGroup, Members, Sorted, At
  <2>2. Scanned'
    BY <1>1 DEF IInv, vars, Scanned, LastIsLast, NoHopYet, HopPair, Country, At
  <2>3. Reported' /\ Missed'
    BY <1>1 DEF IInv, vars, Reported, Missed, Finished, HasHop
  <2> QED
    BY <2>1, <2>2, <2>3 DEF IInv
<1>2. ASSUME NEW g \in todo, Take(g) PROVE IInv'
  BY <1>2, TakeIInv
<1>3. ASSUME NEW k \in rest, Place(k) PROVE IInv'
  BY <1>3, PlaceIInv
<1> QED
  BY <1>1, <1>2, <1>3, HopSkipsIInv, HopMovesIInv, HopReportsIInv, HopEndsIInv,
     NextDetectionIInv, SprayIInv DEF Next

LEMMA Invariance == Spec => []IInv
BY InitIInv, NextIInv, PTL DEF Spec

(* Type correctness: the last event is always one of the user at work.       *)
THEOREM TypeCorrect == Spec => []TypeOK
<1>1. IInv => TypeOK
  BY DEF IInv
<1> QED
  BY Invariance, <1>1, PTL

(* For every log, every window and every order the sort leaves equal times   *)
(* in, checkCountryHop reports a user exactly when two of the user's sign-ins *)
(* are a hop, although it compares neighbours only.                          *)
THEOREM HopsAreAlwaysExact == Spec => []HopsAreExact
<1>1. IInv => HopsAreExact
  BY DEF IInv, Reported, Missed, HopsAreExact
<1> QED
  BY Invariance, <1>1, PTL

-----------------------------------------------------------------------------
(***************************************************************************)
(* checkSprayLanded.                                                       *)
(***************************************************************************)

\* Burst and IsSpray of any position of the group at work.
BurstAt(p) ==
  {j \in p..Len(events) : /\ ~ log[events[j]].success
                          /\ At(events[j]) <= At(events[p]) + SprayWindow}

UsersOf(B) == {log[events[j]].user : j \in B}

SprayAt(p) ==
  /\ ~ log[events[p]].success
  /\ Cardinality(BurstAt(p)) >= SprayMinFailures
  /\ Cardinality(UsersOf(BurstAt(p))) >= SprayMinAccounts

\* F is a spray from address a, and something succeeded since it began.
SprayOf(F, a) ==
  /\ F \in SUBSET {k \in DOMAIN log : log[k].ip = a /\ ~ log[k].success}
  /\ Cardinality(F) >= SprayMinFailures
  /\ Cardinality({log[k].user : k \in F}) >= SprayMinAccounts
  /\ \A j, k \in F : log[k].at <= log[j].at + SprayWindow
  /\ \E s \in DOMAIN log : /\ log[s].ip = a /\ log[s].success
                           /\ \E j \in F : log[s].at >= log[j].at

(* No event is placed twice, and no loop begins before the sort is over.     *)
Placed ==
  /\ \A p, q \in DOMAIN events : events[p] = events[q] => p = q
  /\ \A p \in DOMAIN events : events[p] \notin rest
  /\ rest # {} => i = 1

(* In the group at work either no burst so far was a spray, or the address   *)
(* is decided.                                                               *)
SprayScanned ==
  phase = "spray" =>
    \A a \in group :
      \/ \A p \in 1..i - 1 : ~ SprayAt(p)
      \/ <<"spray", a>> \in out
      \/ ~ HasLandedSpray(a)

SprayReported ==
  \A a \in Addresses : <<"spray", a>> \in out => HasLandedSpray(a)
SprayMissed ==
  phase = "spray" =>
    \A a \in Addresses :
      Finished("spray", a) /\ HasLandedSpray(a) => <<"spray", a>> \in out

SprayInv == Placed /\ SprayScanned /\ SprayReported /\ SprayMissed

(* Every nonempty set of numbers has a least element.                        *)
LEMMA LeastElement ==
  ASSUME NEW S \in SUBSET Nat, S # {}
  PROVE  \E m \in S : \A k \in S : m <= k
<1> DEFINE R == {p \in Nat \X Nat : p[1] < p[2]}
<1>1. IsWellFoundedOn(R, Nat)
  BY NatLessThanWellFounded DEF OpToRel
<1>2. PICK m \in S : \A k \in S : ~ (<<k, m>> \in R)
  <2> HIDE DEF R
  <2> QED
    BY <1>1, WFMin
<1>3. ASSUME NEW k \in S PROVE m <= k
  <2>1. k \in Nat /\ m \in Nat
    OBVIOUS
  <2>2. ~ (<<k, m>> \in R)
    BY <1>2
  <2>3. ~ (k < m)
    BY <2>1, <2>2
  <2> QED
    BY <2>1, <2>3
<1> QED
  BY <1>3

(* The events of positions B are as many as the positions, and their users   *)
(* are the users of B.                                                       *)
LEMMA BurstEvents ==
  ASSUME TypeOK, Placed, NEW B \in SUBSET DOMAIN events
  PROVE  LET E == {events[j] : j \in B} IN
         /\ IsFiniteSet(B) /\ IsFiniteSet(E) /\ Cardinality(E) = Cardinality(B)
         /\ {log[k].user : k \in E} = UsersOf(B)
         /\ IsFiniteSet(UsersOf(B))
<1> DEFINE E == {events[j] : j \in B}
           f == [j \in B |-> events[j]]
           u == [j \in B |-> log[events[j]].user]
<1>1. IsFiniteSet(B)
  <2>1. DOMAIN events = 1..Len(events) /\ Len(events) \in Nat
    BY DomainIs
  <2>2. IsFiniteSet(1..Len(events))
    BY <2>1, FS_Interval
  <2> QED
    BY <2>1, <2>2, FS_Subset
<1>2. f \in Bijection(B, E)
  <2>1. f \in Injection(B, E)
    BY DEF Placed, Injection, IsInjective
  <2>2. f \in Surjection(B, E)
    BY DEF Surjection
  <2> QED
    BY <2>1, <2>2 DEF Bijection
<1>3. IsFiniteSet(E) /\ Cardinality(E) = Cardinality(B)
  <2>1. ExistsBijection(B, E)
    BY <1>2 DEF ExistsBijection
  <2> HIDE DEF E
  <2> QED
    BY <1>1, <2>1, FS_Bijection
<1>4. u \in Surjection(B, UsersOf(B))
  BY DEF Surjection, UsersOf
<1>5. IsFiniteSet(UsersOf(B))
  <2> HIDE DEF u
  <2> QED
    BY <1>1, <1>4, FS_Surjection
<1>6. {log[k].user : k \in E} = UsersOf(B)
  BY DEF UsersOf
<1> QED
  BY <1>1, <1>3, <1>5, <1>6

(* A spray that the loop meets, with a success since, is one.                *)
LEMMA MetSprayIsSpray ==
  ASSUME IInv, Placed, phase = "spray", NEW a \in group,
         NEW p \in DOMAIN events, SprayAt(p),
         NEW q \in DOMAIN events, log[events[q]].success,
         At(events[q]) >= At(events[p])
  PROVE  HasLandedSpray(a)
<1>0. TypeOK /\ Members /\ Sorted
  BY DEF IInv
<1>d. DOMAIN events = 1..Len(events) /\ Len(events) \in Nat
  BY <1>0, DomainIs
<1>t. \A j \in DOMAIN events : events[j] \in DOMAIN log
        /\ At(events[j]) \in Nat
  BY <1>0, <1>d, PositionsAreEvents, EventTypes
<1>a. \A j \in DOMAIN events : log[events[j]].ip = a
  BY <1>0, <1>t DEF Members, InGroup
<1> DEFINE B == BurstAt(p)
           F == {events[j] : j \in B}
<1>1. B \in SUBSET DOMAIN events
  BY <1>d DEF BurstAt
<1>2. /\ Cardinality(F) = Cardinality(B)
      /\ {log[k].user : k \in F} = UsersOf(B)
  <2> HIDE DEF B
  <2> QED
    BY <1>0, <1>1, BurstEvents
<1>3. F \in SUBSET {k \in DOMAIN log : log[k].ip = a /\ ~ log[k].success}
  BY <1>1, <1>t, <1>a DEF BurstAt
<1>4. ASSUME NEW j \in F,
        NEW k \in F PROVE log[k].at <= log[j].at + SprayWindow
  <2>1. PICK m \in B, n \in B : j = events[m] /\ k = events[n]
    OBVIOUS
  <2>2. At(k) <= At(events[p]) + SprayWindow
    BY <2>1 DEF BurstAt
  <2>3. At(events[p]) <= At(j)
    <3>1. p = m \/ p < m
      BY <1>1, <1>d, <2>1 DEF BurstAt
    <3>2. m \in DOMAIN events
      BY <1>1
    <3> QED
      BY <3>1, <3>2, <2>1, <1>0, <1>t DEF Sorted
  <2>4. At(j) \in Nat /\ At(k) \in Nat /\ At(events[p]) \in Nat
          /\ SprayWindow \in Nat
    BY <2>1, <1>1, <1>t, WindowsAreTimes
  <2>5. At(k) <= At(j) + SprayWindow
    BY <2>2, <2>3, <2>4
  <2> QED
    BY <2>5 DEF At
<1>5. /\ events[q] \in DOMAIN log /\ log[events[q]].ip = a
      /\ log[events[q]].success
      /\ events[p] \in F /\ log[events[q]].at >= log[events[p]].at
  <2>1. p \in B
    <3>1. At(events[p]) <= At(events[p]) + SprayWindow
      BY <1>t, WindowsAreTimes
    <3> QED
      BY <3>1, <1>d DEF SprayAt, BurstAt
  <2> QED
    BY <2>1, <1>t, <1>a DEF At
<1>6. Cardinality(F) >= SprayMinFailures
  BY <1>2 DEF SprayAt
<1>7. Cardinality({log[k].user : k \in F}) >= SprayMinAccounts
  BY <1>2 DEF SprayAt
<1> HIDE DEF F
<1> QED
  BY <1>3, <1>4, <1>5, <1>6, <1>7 DEF HasLandedSpray

(* The step of the argument: a spray, wherever its failures lie, makes the   *)
(* burst of its earliest failure one.                                        *)
LEMMA SprayIsMet ==
  ASSUME IInv, Placed, phase = "spray", rest = {}, NEW a \in group,
         NEW F, SprayOf(F, a)
  PROVE  \E p \in DOMAIN events :
           SprayAt(p) /\ \A k \in F : At(events[p]) <= At(k)
<1>0. TypeOK /\ Members /\ Sorted
  BY DEF IInv
<1>d. DOMAIN events = 1..Len(events) /\ Len(events) \in Nat
  BY <1>0, DomainIs
<1>t. \A j \in DOMAIN events : events[j] \in DOMAIN log
        /\ At(events[j]) \in Nat
  BY <1>0, <1>d, PositionsAreEvents, EventTypes
<1>1. \A k \in F : \E q \in DOMAIN events : events[q] = k
  BY <1>0 DEF SprayOf, Members, InGroup
<1> DEFINE P == {q \in DOMAIN events : events[q] \in F}
<1>2. PICK p \in P : \A q \in P : p <= q
  <2>1. P # {}
    BY <1>1 DEF SprayOf
  <2>2. P \in SUBSET Nat
    BY <1>d
  <2> HIDE DEF P
  <2> QED
    BY <2>1, <2>2, LeastElement
<1>3. \A q \in P : At(events[p]) <= At(events[q])
  <2> SUFFICES ASSUME NEW q \in P PROVE At(events[p]) <= At(events[q])
    OBVIOUS
  <2>1. p = q \/ p < q
    BY <1>2, <1>d
  <2> QED
    BY <2>1, <1>0, <1>t DEF Sorted
<1>4. P \subseteq BurstAt(p)
  <2> SUFFICES ASSUME NEW q \in P PROVE q \in BurstAt(p)
    OBVIOUS
  <2>1. q \in p..Len(events)
    BY <1>2, <1>d
  <2>2. ~ log[events[q]].success
    BY DEF SprayOf
  <2>3. At(events[q]) <= At(events[p]) + SprayWindow
    BY DEF SprayOf, At
  <2> QED
    BY <2>1, <2>2, <2>3 DEF BurstAt
<1> DEFINE B == BurstAt(p)
<1>5. B \in SUBSET DOMAIN events /\ P \in SUBSET DOMAIN events
  BY <1>d DEF BurstAt
<1>6. F = {events[q] : q \in P}
  BY <1>1
<1>7. Cardinality(F) = Cardinality(P) /\ {log[k].user : k \in F} = UsersOf(P)
  <2> HIDE DEF P
  <2> QED
    BY <1>0, <1>5, <1>6, BurstEvents
<1>8. Cardinality(B) >= SprayMinFailures
  <2>1. IsFiniteSet(B)
    <3> HIDE DEF B
    <3> QED
      BY <1>0, <1>5, BurstEvents
  <2>2. Cardinality(P) <= Cardinality(B) /\ Cardinality(P) \in Nat
    <3>1. P \in SUBSET B
      BY <1>4
    <3> HIDE DEF P, B
    <3> QED
      BY <2>1, <3>1, FS_Subset, FS_CardinalityType
  <2>3. Cardinality(B) \in Nat /\ SprayMinFailures \in Nat
    BY <2>1, FS_CardinalityType, WindowsAreTimes
  <2>4. Cardinality(P) >= SprayMinFailures
    BY <1>7 DEF SprayOf
  <2> HIDE DEF P, B
  <2> QED
    BY <2>2, <2>3, <2>4
<1>9. Cardinality(UsersOf(B)) >= SprayMinAccounts
  <2>1. IsFiniteSet(UsersOf(B))
    <3> HIDE DEF B
    <3> QED
      BY <1>0, <1>5, BurstEvents
  <2>2. UsersOf(P) \in SUBSET UsersOf(B)
    BY <1>4 DEF UsersOf
  <2>3. Cardinality(UsersOf(P)) <= Cardinality(UsersOf(B))
        /\ Cardinality(UsersOf(P)) \in Nat
    <3> HIDE DEF P, B
    <3> QED
      BY <2>1, <2>2, FS_Subset, FS_CardinalityType
  <2>4. Cardinality(UsersOf(B)) \in Nat /\ SprayMinAccounts \in Nat
    BY <2>1, FS_CardinalityType, WindowsAreTimes
  <2>5. Cardinality(UsersOf(P)) >= SprayMinAccounts
    BY <1>7 DEF SprayOf
  <2> HIDE DEF P, B
  <2> QED
    BY <2>3, <2>4, <2>5
<1>10. SprayAt(p)
  BY <1>8, <1>9 DEF SprayAt, SprayOf
<1>11. \A k \in F : At(events[p]) <= At(k)
  BY <1>3, <1>6
<1> QED
  BY <1>10, <1>11

(* So a group whose bursts were all passed over holds no spray, ...          *)
LEMMA PassedHasNoSpray ==
  ASSUME IInv, Placed, Over("spray"), \A p \in 1..i - 1 : ~ SprayAt(p),
         NEW a \in group
  PROVE  ~ HasLandedSpray(a)
<1>1. ASSUME NEW F, SprayOf(F, a) PROVE FALSE
  <2>1. PICK p \in DOMAIN events : SprayAt(p)
    BY <1>1, SprayIsMet DEF Over
  <2>2. DOMAIN events = 1..Len(events) /\ Len(events) \in Nat
          /\ i > Len(events)
        /\ i \in Nat
    BY DomainIs DEF IInv, TypeOK, Over
  <2>3. p \in 1..i - 1
    BY <2>2
  <2> QED
    BY <2>1, <2>3
<1> QED
  BY <1>1 DEF HasLandedSpray, SprayOf

(* ... and one whose first spray did not land holds none that did.           *)
LEMMA UnlandedHasNoSpray ==
  ASSUME IInv, Placed, Looping("spray"), ~ Landed,
         \A p \in 1..i - 1 : ~ SprayAt(p),
         NEW a \in group
  PROVE  ~ HasLandedSpray(a)
<1>0. TypeOK /\ Members /\ Sorted
  BY DEF IInv
<1>d. /\ DOMAIN events = 1..Len(events) /\ Len(events) \in Nat
      /\ i \in DOMAIN events
  BY <1>0, DomainIs DEF TypeOK, Looping
<1>t. \A j \in DOMAIN events : events[j] \in DOMAIN log
        /\ At(events[j]) \in Nat
  BY <1>0, <1>d, PositionsAreEvents, EventTypes
<1>1. ASSUME NEW F, SprayOf(F, a) PROVE FALSE
  <2>1. PICK p \in DOMAIN events :
          SprayAt(p) /\ \A k \in F : At(events[p]) <= At(k)
    BY <1>1, SprayIsMet DEF Looping
  <2>2. PICK s \in DOMAIN log, j \in F :
          log[s].ip = a /\ log[s].success /\ log[s].at >= log[j].at
    BY <1>1 DEF SprayOf
  <2>3. PICK q \in DOMAIN events : events[q] = s
    BY <2>2, <1>0 DEF Members, InGroup, Looping
  <2>4. At(events[i]) <= At(events[p])
    <3>1. p \notin 1..i - 1
      BY <2>1
    <3>2. i = p \/ i < p
      BY <3>1, <1>d
    <3> QED
      BY <3>2, <1>d, <1>t, <1>0 DEF Sorted
  <2>5. At(events[p]) <= At(j) /\ At(j) <= At(s)
    <3>1. j \in DOMAIN log
      BY <1>1, <2>2 DEF SprayOf
    <3>2. At(j) \in Nat /\ At(s) \in Nat
      BY <3>1, <1>0, EventTypes
    <3> QED
      BY <2>1, <2>2, <3>2 DEF At
  <2>6. At(s) >= At(events[i])
    <3>1. /\ At(j) \in Nat /\ At(s) \in Nat /\ At(events[p]) \in Nat
          /\ At(events[i]) \in Nat
      BY <1>1, <1>0, <1>d, <1>t, <2>2, EventTypes DEF SprayOf
    <3> QED
      BY <2>4, <2>5, <3>1
  <2>7. Landed
    BY <2>2, <2>3, <2>6 DEF Landed, This, At
  <2> QED
    BY <2>7
<1> QED
  BY <1>1 DEF HasLandedSpray, SprayOf

-----------------------------------------------------------------------------

(* SprayInv is preserved by every step.                                      *)
LEMMA SprayStep == IInv /\ SprayInv /\ [Next]_vars => SprayInv'
<1> SUFFICES ASSUME IInv, SprayInv, [Next]_vars PROVE SprayInv'
  OBVIOUS
<1>0. TypeOK /\ Placed /\ SprayScanned /\ SprayReported /\ SprayMissed
  BY DEF IInv, SprayInv
<1>d. /\ DOMAIN events = 1..Len(events) /\ Len(events) \in Nat
      /\ i \in 1..Len(events) + 1 /\ events \in Seq(DOMAIN log)
  BY <1>0, DomainIs DEF TypeOK
<1>l. log' = log
  BY DEF Next, Take, Place, HopSkips, HopMoves, HopReports, HopEnds,
         NextDetection, SprayPasses, SprayDecides, SprayEnds, LeaveGroup, vars
<1>h. \A a : HasLandedSpray(a)' <=> HasLandedSpray(a)
  BY <1>l DEF HasLandedSpray
<1>1. ASSUME NEW g \in todo, Take(g) PROVE SprayInv'
  <2>1. Placed'
    BY <1>1 DEF Take, Placed
  <2>2. SprayScanned'
    BY <1>1 DEF Take, SprayScanned
  <2>3. SprayReported' /\ SprayMissed'
    BY <1>0, <1>1, <1>h DEF Take, SprayReported, SprayMissed, Finished
  <2> QED
    BY <2>1, <2>2, <2>3 DEF SprayInv
<1>2. ASSUME NEW k \in rest, Place(k) PROVE SprayInv'
  <2>1. i' = 1
    BY <1>0, <1>2 DEF Place, Placed
  <2>2. /\ DOMAIN events' = 1..Len(events) + 1
        /\ events'[Len(events) + 1] = k
        /\ \A p \in 1..Len(events) : events'[p] = events[p]
    BY <1>0, <1>d, <1>2 DEF Place, TypeOK
  <2>3. rest' = rest \ {k}
    BY <1>2 DEF Place
  <2>4. Placed'
    <3>1. \A p \in DOMAIN events' : p = Len(events) + 1 \/ p \in DOMAIN events
      BY <1>d, <2>2
    <3>2. \A p \in DOMAIN events : events'[p] = events[p] /\ events[p] # k
      BY <1>0, <1>d, <2>2 DEF Placed
    <3>3. \A p, q \in DOMAIN events' : events'[p] = events'[q] => p = q
      BY <1>0, <2>2, <3>1, <3>2 DEF Placed
    <3>4. \A p \in DOMAIN events' : events'[p] \notin rest'
      BY <1>0, <2>2, <2>3, <3>1, <3>2 DEF Placed
    <3> QED
      BY <2>1, <3>3, <3>4 DEF Placed
  <2>5. SprayScanned'
    BY <2>1 DEF SprayScanned
  <2>6. SprayReported' /\ SprayMissed'
    BY <1>0, <1>2, <1>h DEF Place, SprayReported, SprayMissed, Finished
  <2> QED
    BY <2>4, <2>5, <2>6 DEF SprayInv
<1>3. CASE HopSkips \/ HopMoves \/ HopReports \/ HopEnds
  <2>1. /\ phase = "hop" /\ phase' = "hop" /\ rest = {}
        /\ UNCHANGED <<log, rest, events>>
        /\ \A a \in Addresses : <<"spray", a>> \in out' =>
             <<"spray", a>> \in out
    BY <1>3 DEF HopSkips, HopMoves, HopReports, HopEnds, LeaveGroup, Looping,
       Over
  <2> QED
    BY <1>0, <1>h, <2>1
       DEF SprayInv, Placed, SprayScanned, SprayReported, SprayMissed
<1>4. CASE NextDetection
  <2>1. /\ group' = {} /\ phase' = "spray" /\ todo' = Addresses
        /\ UNCHANGED <<log, rest, events, out, i>>
    BY <1>4 DEF NextDetection
  <2> QED
    BY <1>0, <1>h, <2>1
       DEF SprayInv, Placed, SprayScanned, SprayReported, SprayMissed, Finished
<1>5. CASE SprayPasses
  <2>1. /\ phase = "spray" /\ rest = {} /\ i' = i + 1 /\ ~ SprayAt(i)
        /\ UNCHANGED <<log, phase, todo, group, rest, events, out>>
    BY <1>5 DEF SprayPasses, Looping, IsSpray, SprayAt, Burst, BurstAt,
       UsersOf,
                This, At
  <2>2. \A p : SprayAt(p)' <=> SprayAt(p)
    BY <2>1 DEF SprayAt, BurstAt, UsersOf, At
  <2>3. \A p \in 1..i' - 1 : p = i \/ p \in 1..i - 1
    BY <1>d, <2>1
  <2>4. SprayScanned'
    BY <1>0, <1>h, <2>1, <2>2, <2>3 DEF SprayScanned
  <2> QED
    BY <1>0, <1>h, <2>1, <2>4
       DEF SprayInv, Placed, SprayReported, SprayMissed, Finished
<1>6. CASE SprayDecides
  <2>1. /\ Looping("spray") /\ phase = "spray" /\ rest = {} /\ SprayAt(i)
        /\ i \in DOMAIN events
        /\ out' = IF Landed THEN out \cup ({"spray"} \X group) ELSE out
        /\ UNCHANGED <<log, phase, todo, group, rest, events>>
    BY <1>6, <1>d DEF SprayDecides, Looping, IsSpray, SprayAt, Burst, BurstAt,
                      UsersOf, This, At
  <2>2. \A a : HasLandedSpray(a)' <=> HasLandedSpray(a)
    BY <1>h
  <2>3. CASE Landed
    <3>1. PICK q \in DOMAIN events :
            log[events[q]].success /\ At(events[q]) >= At(events[i])
      BY <2>3 DEF Landed, This, At
    <3>2. \A a \in group : HasLandedSpray(a)
      BY <1>0, <2>1, <3>1, MetSprayIsSpray
    <3>3. out' = out \cup ({"spray"} \X group)
      BY <2>1, <2>3
    <3>4. \A a \in Addresses :
            <<"spray", a>> \in out' <=> <<"spray", a>> \in out \/ a \in group
      BY <3>3
    <3>5. \A a \in group : <<"spray", a>> \in out'
      BY <3>3
    <3>6. SprayReported'
      BY <1>0, <2>2, <3>2, <3>4 DEF SprayReported
    <3>7. SprayScanned'
      BY <2>1, <3>5 DEF SprayScanned
    <3>8. SprayMissed'
      BY <1>0, <2>1, <2>2, <3>4 DEF SprayMissed, Finished
    <3>9. Placed'
      BY <1>0, <2>1 DEF Placed
    <3> QED
      BY <3>6, <3>7, <3>8, <3>9 DEF SprayInv
  <2>4. CASE ~ Landed
    <3>1. \A a \in group : <<"spray", a>> \in out \/ ~ HasLandedSpray(a)
      BY <1>0, <2>1, <2>4, UnlandedHasNoSpray DEF SprayScanned
    <3>2. out' = out
      BY <2>1, <2>4
    <3>3. SprayScanned'
      BY <2>1, <2>2, <3>1, <3>2 DEF SprayScanned
    <3> QED
      BY <1>0, <2>1, <2>2, <3>2, <3>3
         DEF SprayInv, Placed, SprayReported, SprayMissed, Finished
  <2> QED
    BY <2>3, <2>4
<1>7. CASE SprayEnds
  <2>1. /\ Over("spray") /\ phase = "spray"
        /\ todo' = todo \ group /\ group' = {} /\ out' = out
        /\ UNCHANGED <<log, phase, rest, events, i>>
    BY <1>7 DEF SprayEnds, LeaveGroup, Over
  <2>2. \A a : HasLandedSpray(a)' <=> HasLandedSpray(a)
    BY <1>h
  <2>3. \A a \in group : <<"spray", a>> \in out \/ ~ HasLandedSpray(a)
    BY <1>0, <2>1, PassedHasNoSpray DEF SprayScanned
  <2>4. SprayMissed'
    BY <1>0, <2>1, <2>2, <2>3 DEF SprayMissed, Finished
  <2> QED
    BY <1>0, <2>1, <2>2, <2>4 DEF SprayInv, Placed, SprayScanned, SprayReported
<1>8. CASE UNCHANGED vars
  <2>1. UNCHANGED vars /\ \A p : SprayAt(p)' <=> SprayAt(p)
    BY <1>8 DEF vars, SprayAt, BurstAt, UsersOf, At
  <2> QED
    BY <1>0, <1>h, <2>1
       DEF vars, SprayInv, Placed, SprayScanned, SprayReported, SprayMissed,
           Finished
<1> QED
  BY <1>1, <1>2, <1>3, <1>4, <1>5, <1>6, <1>7, <1>8 DEF Next

(* For every log, window, threshold and order the sort leaves equal times    *)
(* in, checkSprayLanded reports an address exactly when some burst of its    *)
(* failures is a spray that landed, although the loop gives the address up   *)
(* at the first spray that did not.                                          *)
THEOREM SpraysAreAlwaysExact == Spec => []SpraysAreExact
<1>1. Init => SprayInv
  BY DEF Init, SprayInv, Placed, SprayScanned, SprayReported, SprayMissed
<1>2. SprayInv => SpraysAreExact
  BY DEF SprayInv, SprayReported, SprayMissed, SpraysAreExact
<1> QED
  BY <1>1, <1>2, SprayStep, Invariance, PTL DEF Spec
=============================================================================
