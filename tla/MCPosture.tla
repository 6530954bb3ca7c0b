------------------------------ MODULE MCPosture ------------------------------
(* Posture on a tenant of three users, for TLC. *)
EXTENDS Posture

CONSTANTS ana, bo, cy, app, crm, login, hop

\* Two postures that share no problem: what one has wrong the other has right,
\* and ana is an admin without MFA in one, a user without MFA in the other.  In
\* the first cy's MFA is not on the report's page; in the second cy, an admin
\* without MFA who signs in with one factor, is not on the users' page, crm not
\* on the grants', and hop is older than ten pages of the log.
MCPostures ==
  {[facts |->
      [users |-> Users, enabled |-> Users, admins |-> {ana, bo}, mfa |-> {bo, cy},
       stale |-> {}, weak |-> {ana}, grants |-> {}, incidents |-> {login},
       conditional |-> TRUE, legacy |-> TRUE, sharing |-> FALSE,
       spoofable |-> FALSE],
    pages |->
      [users |-> Users, mfa |-> {ana, bo}, grants |-> Apps, weak |-> Users,
       incidents |-> Incidents, ceiling |-> FALSE]],
   [facts |->
      [users |-> Users, enabled |-> Users, admins |-> {bo, cy}, mfa |-> {},
       stale |-> {bo}, weak |-> {ana, cy}, grants |-> {app, crm},
       incidents |-> {hop}, conditional |-> FALSE, legacy |-> FALSE,
       sharing |-> TRUE, spoofable |-> TRUE],
    pages |->
      [users |-> {ana, bo}, mfa |-> Users, grants |-> {app}, weak |-> Users,
       incidents |-> {}, ceiling |-> TRUE]]}
=============================================================================
