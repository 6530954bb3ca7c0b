------------------------------- MODULE SignIns -------------------------------
(***************************************************************************)
(* The two sign-in detections that relate events to one another: two       *)
(* countries within TravelWindow (checkCountryHop) and a password spray    *)
(* that landed (checkSprayLanded).  Each groups the fetched log, sorts     *)
(* every group by time and runs one loop over it; the loops are modelled   *)
(* iteration by iteration, and the sort event by event, because sort.Slice *)
(* leaves events of the same time in any order.                            *)
(***************************************************************************)
EXTENDS Naturals, Sequences, FiniteSets

CONSTANTS
  Users,
  Addresses,
  Countries,
  NoCountry,          \* an event whose cloud reports no country
  NoAddress,          \* ... and no address: in no group of byIP
  Logs,               \* the logs a provider may have fetched
  TravelWindow,
  SprayWindow,
  SprayMinFailures,
  SprayMinAccounts

\* flagged: ProviderFlaggedSuspicious.
SignIn == [user : Users, at : Nat, success : BOOLEAN,
           country : Countries \cup {NoCountry}, ip : Addresses \cup {NoAddress},
           flagged : BOOLEAN]

ASSUME LogsAreSequences == Logs \subseteq Seq(SignIn)
ASSUME WindowsAreTimes ==
  /\ TravelWindow \in Nat
  /\ SprayWindow \in Nat
  /\ SprayMinFailures \in Nat
  /\ SprayMinAccounts \in Nat
ASSUME NonesAreNone ==
  /\ NoCountry \notin Countries
  /\ NoAddress \notin Addresses

VARIABLES
  log,     \* s.SignIns
  phase,   \* the detection at work: hop, then spray
  todo,    \* the groups of its map not ranged over yet
  group,   \* the group ranged over now, {} between two, as a singleton
  rest,    \* the events of the group the sort has not placed yet
  events,  \* the sorted events, as positions in the log
  i,       \* the loop's index
  last,    \* the last event with a country, 0 for nil
  out      \* the findings

vars == <<log, phase, todo, group, rest, events, i, last, out>>

Findings == {"hop", "suspicious"} \X Users \cup {"spray"} \X Addresses

\* byUser and byIP.
InGroup(k, g) ==
  IF phase = "hop" THEN log[k].user = g /\ log[k].success ELSE log[k].ip = g
Groups == IF phase = "hop" THEN Users ELSE Addresses

Init ==
  /\ log \in Logs
  /\ phase = "hop"
  /\ todo = Users
  /\ group = {}
  /\ rest = {}
  /\ events = <<>>
  /\ i = 1
  /\ last = 0
  /\ out = {}

-----------------------------------------------------------------------------
(***************************************************************************)
(* What both detections share: the next group, and its sort.               *)
(***************************************************************************)

\* Mutation of Take: last is declared outside the loop over the users.
TakeKeepingLast(g) ==
  /\ group = {}
  /\ g \in todo
  /\ group' = {g}
  /\ rest' = {k \in DOMAIN log : InGroup(k, g)}
  /\ events' = <<>>
  /\ i' = 1
  /\ UNCHANGED <<log, phase, todo, last, out>>

Take(g) ==
  /\ group = {}
  /\ g \in todo
  /\ group' = {g}
  /\ rest' = {k \in DOMAIN log : InGroup(k, g)}
  /\ events' = <<>>
  /\ i' = 1
  /\ last' = 0
  /\ UNCHANGED <<log, phase, todo, out>>

\* The sort puts one of the earliest events left behind those placed.
Place(k) ==
  /\ k \in rest
  /\ \A j \in rest : log[k].at <= log[j].at
  /\ events' = Append(events, k)
  /\ rest' = rest \ {k}
  /\ UNCHANGED <<log, phase, todo, group, i, last, out>>

Looping(p) == phase = p /\ group # {} /\ rest = {} /\ i <= Len(events)
Over(p)    == phase = p /\ group # {} /\ rest = {} /\ i > Len(events)
This       == log[events[i]]

\* The loop over the map goes on with the findings of the group.
LeaveGroup(found) ==
  /\ out' = out \cup found
  /\ todo' = todo \ group
  /\ group' = {}
  /\ UNCHANGED <<log, phase, rest, events, i, last>>

-----------------------------------------------------------------------------
(***************************************************************************)
(* checkCountryHop.                                                        *)
(***************************************************************************)

\* The gap to the last event with a country is below the window.
Hops ==
  /\ last # 0
  /\ log[last].country # This.country
  /\ This.at - log[last].at < TravelWindow

\* "continue": the event has no country.
HopSkips ==
  /\ Looping("hop")
  /\ This.country = NoCountry
  /\ i' = i + 1
  /\ UNCHANGED <<log, phase, todo, group, rest, events, last, out>>

\* Mutation of HopMoves: every event is compared with the first one.
HopMovesFromFirst ==
  /\ Looping("hop")
  /\ This.country # NoCountry
  /\ ~ Hops
  /\ i' = i + 1
  /\ last' = IF last = 0 THEN events[i] ELSE last
  /\ UNCHANGED <<log, phase, todo, group, rest, events, out>>

HopMoves ==
  /\ Looping("hop")
  /\ This.country # NoCountry
  /\ ~ Hops
  /\ i' = i + 1
  /\ last' = events[i]
  /\ UNCHANGED <<log, phase, todo, group, rest, events, out>>

\* "break": one finding per user is enough.
HopReports ==
  /\ Looping("hop")
  /\ This.country # NoCountry
  /\ Hops
  /\ out' = out \cup ({"hop"} \X group)
  /\ i' = Len(events) + 1
  /\ UNCHANGED <<log, phase, todo, group, rest, events, last>>

\* The second loop looks for what the cloud flagged itself.
HopEnds ==
  /\ Over("hop")
  /\ LeaveGroup(IF \E p \in DOMAIN events :
                     log[events[p]].country = NoCountry /\ log[events[p]].flagged
                THEN {"suspicious"} \X group ELSE {})

-----------------------------------------------------------------------------
(***************************************************************************)
(* checkSprayLanded.                                                       *)
(***************************************************************************)

\* checkSignIns runs the next detection.
NextDetection ==
  /\ phase = "hop"
  /\ group = {}
  /\ todo = {}
  /\ phase' = "spray"
  /\ todo' = Addresses
  /\ UNCHANGED <<log, group, rest, events, i, last, out>>

\* Mutation of Burst: the end of the window is left out.
BurstBeforeEnd ==
  {j \in i..Len(events) : /\ ~ log[events[j]].success
                          /\ log[events[j]].at < This.at + SprayWindow}

\* The failures of the window that begins with this one.
Burst ==
  {j \in i..Len(events) : /\ ~ log[events[j]].success
                          /\ log[events[j]].at <= This.at + SprayWindow}

IsSpray ==
  /\ ~ This.success
  /\ Cardinality(Burst) >= SprayMinFailures
  /\ Cardinality({log[events[j]].user : j \in Burst}) >= SprayMinAccounts

\* Something from this address succeeded during the burst or after it.
Landed ==
  \E j \in DOMAIN events : log[events[j]].success /\ log[events[j]].at >= This.at

\* "continue": a success, or too few failures or accounts.
SprayPasses ==
  /\ Looping("spray")
  /\ ~ IsSpray
  /\ i' = i + 1
  /\ UNCHANGED <<log, phase, todo, group, rest, events, last, out>>

\* "break": with a finding, or because the spray never landed.
SprayDecides ==
  /\ Looping("spray")
  /\ IsSpray
  /\ out' = IF Landed THEN out \cup ({"spray"} \X group) ELSE out
  /\ i' = Len(events) + 1
  /\ UNCHANGED <<log, phase, todo, group, rest, events, last>>

SprayEnds == Over("spray") /\ LeaveGroup({})

Next ==
  \/ \E g \in todo : Take(g)
  \/ \E k \in rest : Place(k)
  \/ HopSkips
  \/ HopMoves
  \/ HopReports
  \/ HopEnds
  \/ NextDetection
  \/ SprayPasses
  \/ SprayDecides
  \/ SprayEnds

Spec == Init /\ [][Next]_vars

-----------------------------------------------------------------------------

(* The variables have their types; between two users nothing is left of the *)
(* one before: the last event is one of this user's (events declared per    *)
(* user in checkCountryHop).                                                *)
TypeOK ==
  /\ log \in Seq(SignIn)
  /\ phase \in {"hop", "spray"}
  /\ todo \subseteq Groups
  /\ group \subseteq Groups
  /\ \A g, h \in group : g = h
  /\ rest \subseteq DOMAIN log
  /\ events \in Seq(DOMAIN log)
  /\ i \in 1..Len(events) + 1
  /\ last \in {0} \cup DOMAIN log
  /\ phase = "hop" /\ last # 0 => \A g \in group : InGroup(last, g)
  /\ out \subseteq Findings

\* Two of the user's successful sign-ins, from different countries, less than
\* TravelWindow apart, whichever came first and whatever lies between them.
HasHop(u) ==
  \E j, k \in DOMAIN log :
    /\ log[j].user = u /\ log[j].success /\ log[j].country # NoCountry
    /\ log[k].user = u /\ log[k].success /\ log[k].country # NoCountry
    /\ log[j].country # log[k].country
    /\ log[j].at <= log[k].at
    /\ log[k].at - log[j].at < TravelWindow

Finished(p, g) == p # phase \/ (g \notin todo /\ g \notin group)

(* "Reports one user signing in successfully from two different countries   *)
(* inside TravelWindow": the loop compares neighbours only, and stops at    *)
(* the first hop, and yet reports a user exactly when any two of the        *)
(* sign-ins are a hop, in whatever order the sort left equal times.         *)
HopsAreExact ==
  \A u \in Users : Finished("hop", u) => (<<"hop", u>> \in out <=> HasHop(u))

\* Failures from the address, no two further apart than SprayWindow, enough of
\* them against enough accounts, and a success no earlier than the first.
HasLandedSpray(a) ==
  \E F \in SUBSET {k \in DOMAIN log : log[k].ip = a /\ ~ log[k].success} :
    /\ Cardinality(F) >= SprayMinFailures
    /\ Cardinality({log[k].user : k \in F}) >= SprayMinAccounts
    /\ \A j, k \in F : log[k].at <= log[j].at + SprayWindow
    /\ \E s \in DOMAIN log : /\ log[s].ip = a /\ log[s].success
                             /\ \E j \in F : log[s].at >= log[j].at

(* "A password spray is only news when it lands": an address is reported    *)
(* exactly when some burst of failures is one and something succeeded since *)
(* it began, although the loop gives an address up at the first burst that  *)
(* did not land.                                                            *)
SpraysAreExact ==
  \A a \in Addresses :
    phase = "spray" /\ Finished("spray", a) =>
      (<<"spray", a>> \in out <=> HasLandedSpray(a))
=============================================================================
