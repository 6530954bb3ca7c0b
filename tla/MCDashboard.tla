------------------------------ MODULE MCDashboard ------------------------------
(* Dashboard with an unlimited license, and one of a tier the table lacks. *)
EXTENDS Dashboard, TLC

CONSTANTS t1, t2, r1, r2, team, odd

Tiers     == team :> "team" @@ odd :> "odd" @@ Junk :> "team"
Limits    == [free |-> 1, team |-> 0]
Included  == [free |-> {}, team |-> {"slack"}]
Alike     == Permutations(Targets) \cup Permutations(Requests)
=============================================================================
