------------------------------ MODULE MCSignIns ------------------------------
(* SignIns on every small log, for TLC. *)
EXTENDS SignIns

CONSTANTS u1, u2, a1, a2, c1, c2

Success(u, t, c, a) == [user |-> u, at |-> t, success |-> TRUE, country |-> c,
                        ip |-> a, flagged |-> c = NoCountry]
Failure(u, t, a)    == [user |-> u, at |-> t, success |-> FALSE,
                        country |-> NoCountry, ip |-> a, flagged |-> FALSE]

\* One user from two countries or none, and events that are not among them.
Travels ==
  [n \in 1..12 |->
     Success(u1, (n - 1) \div 3, <<c1, c2, NoCountry>>[((n - 1) % 3) + 1], a1)]
  \o << Success(u2, 1, c2, a2), Failure(u1, 1, a2) >>

\* Failures on two accounts and successes, all from one address but the last two.
Attempts ==
  [n \in 1..8 |-> Failure(<<u1, u2>>[((n - 1) % 2) + 1], (n - 1) \div 2, a1)]
  \o [n \in 1..4 |-> Success(u1, n - 1, NoCountry, a1)]
  \o << Success(u2, 3, NoCountry, a2), Success(u2, 3, NoCountry, NoAddress) >>

\* The order of a log means nothing to the detections, which sort it: one log
\* for each bag of n kinds of event or fewer.
LogsOf(kinds, n) ==
  {[j \in DOMAIN f |-> kinds[f[j]]] :
     f \in {f \in UNION {[1..m -> DOMAIN kinds] : m \in 0..n} :
              \A j \in 1..Len(f) - 1 : f[j] <= f[j + 1]}}

SmallLogs == LogsOf(Travels, 4) \cup LogsOf(Attempts, 4)
=============================================================================
