------------------------------ MODULE Posture ------------------------------
(***************************************************************************)
(* The scans of one tenant that may change while it is scanned, and whose  *)
(* cloud may refuse or fail any call: Provider.Snapshot reads the tenant   *)
(* call by call, Evaluate judges what was read, and the reconcile engine   *)
(* opens and resolves findings.  Scans do not overlap here, and the        *)
(* operator decides nothing: Reconcile.tla is about that.                  *)
(***************************************************************************)
EXTENDS Naturals, Sequences, FiniteSets, FiniteSetsExt

CONSTANTS
  Providers,      \* the clouds tenants may be in: "m365", "gws"
  Users,
  Apps,           \* third-party apps whose scopes are broad
  Incidents,      \* legacy logins, country hops and sprays in the sign-in log
  Postures,       \* the postures the tenant may take
  Fallible,       \* bound: the calls that may fail
  MaxTroubles,    \* bound: failures and changes of the tenant in one scan
  ResolveAfter,
  AdminSprawlThreshold

ASSUME ResolveAfterIsPositive == ResolveAfter \in Nat \ {0}
ASSUME ProvidersAreKnown == Providers \subseteq {"m365", "gws"}
ASSUME UsersAreCounted == IsFiniteSet(Users) /\ AdminSprawlThreshold \in Nat

VARIABLES
  provider,  \* the tenant's cloud
  posture,   \* how the tenant really is, and what of it its pages hold
  next,      \* the next call of the scan, 0 between scans
  snapshot,  \* TenantState, as far as the scan has read
  row,       \* the findings table
  troubles,  \* failures and changes of the tenant so far in the scan
  steady,    \* history: what was wrong, as far as the pages show, all the time
             \* since the scan began
  past       \* history: of the last ResolveAfter scans that were reconciled,
             \* what was wrong throughout, what of it in areas the scan read,
             \* the notes due, and whether nothing disturbed the scan

vars == <<provider, posture, next, snapshot, row, troubles, steady, past>>

\* users: the accounts there are.
\* weak: users who signed in with a single factor in the log's window.
\* spoofable: no SPF record, no DMARC record, or one with p=none.
Facts == [users : SUBSET Users, enabled : SUBSET Users,
          admins : SUBSET Users, mfa : SUBSET Users, stale : SUBSET Users,
          weak : SUBSET Users, grants : SUBSET Apps,
          incidents : SUBSET Incidents, conditional : BOOLEAN,
          legacy : BOOLEAN, sharing : BOOLEAN, spoofable : BOOLEAN]

\* The answers come in pages: one page is read of the users, the MFA report and
\* the grants, ten of the sign-in log.  What those hold, and whether ten were
\* too few for the log.
Pages == [users : SUBSET Users, mfa : SUBSET Users, grants : SUBSET Apps,
          weak : SUBSET Users, incidents : SUBSET Incidents, ceiling : BOOLEAN]

ASSUME PosturesArePaged == Postures \subseteq [facts : Facts, pages : Pages]

Unread == [users |-> {}, enabled |-> {}, admins |-> {}, mfa |-> {}, stale |-> {},
           weak |-> {}, grants |-> {}, incidents |-> {}, conditional |-> FALSE,
           legacy |-> FALSE, sharing |-> FALSE, spoofable |-> FALSE]

Areas == {"mfa", "legacy_auth", "oauth", "admin_roles", "sharing", "mail_forward",
          "email_auth", "conditional_access", "inactive_user", "signin"}

-----------------------------------------------------------------------------
(***************************************************************************)
(* The calls of a snapshot.                                                *)
(***************************************************************************)

\* What the pages a scan reads show of the tenant.  Google's users come with
\* their second factor, Microsoft's have it in a report of its own.
OnPages(t) ==
  [t.facts EXCEPT
     !.users = @ \cap t.pages.users,
     !.enabled = @ \cap t.pages.users,
     !.mfa = IF provider = "m365" THEN @ \cap t.pages.mfa ELSE @,
     !.grants = @ \cap t.pages.grants,
     !.weak = @ \cap t.pages.weak,
     !.incidents = @ \cap t.pages.incidents]

Calls ==
  IF provider = "m365"
  THEN <<"token", "users", "mfa", "roles", "oauth", "conditional", "legacy",
         "sharing", "dns", "signins">>
  ELSE <<"token", "users", "dns", "signins">>

\* What each call tells of the tenant, and the areas it covers.
Call(fields, areas) == [fields |-> fields, areas |-> areas]

mfaReport         == Call({"mfa"}, {"mfa"})
adminRoles        == Call({"admins"}, {"admin_roles"})
oauthGrants       == Call({"grants"}, {"oauth"})
conditionalAccess == Call({"conditional"}, {"conditional_access"})
legacyAuth        == Call({"legacy"}, {"legacy_auth"})
sharing           == Call({"sharing"}, {"sharing"})
EmailAuth         == Call({"spoofable"}, {"email_auth"})
graphSignIns      == Call({"weak", "incidents"}, {"signin"})
gwsUsers          == Call({"users", "enabled", "admins", "mfa", "stale"},
                          {"mfa", "admin_roles", "inactive_user"})
gwsSignIns        == Call({"incidents"}, {"signin"})

M365 ==
  [token |-> Call({}, {}), users |-> Call({"users", "enabled"}, {}),
   mfa |-> mfaReport, roles |-> adminRoles, oauth |-> oauthGrants,
   conditional |-> conditionalAccess, legacy |-> legacyAuth,
   sharing |-> sharing, dns |-> EmailAuth, signins |-> graphSignIns]

GWS == [token |-> Call({}, {}), users |-> gwsUsers, dns |-> EmailAuth,
        signins |-> gwsSignIns]

Covers(c) == IF provider = "m365" THEN M365[c] ELSE GWS[c]

\* The failures that end the scan, and those that leave a note.
Essential == {"token", "users"}
Noted     == {"roles", "oauth", "conditional", "legacy", "sharing", "signins"}

\* The notes a snapshot carries whatever it read.
StandingNotes ==
  IF provider = "m365" THEN {"mail_forward"} ELSE {"oauth_audit", "drive", "imap"}

\* The notes of a sign-in log that was read: Google's tells of no country and no
\* strength, and a log longer than its pages says so.
SigninNotes(t) ==
  (IF provider = "m365" THEN {} ELSE {"two_checks_unassessed"})
    \cup (IF t.pages.ceiling THEN {"older_unassessed"} ELSE {})

Notes == Noted \cup {"mail_forward", "oauth_audit", "drive", "imap",
                     "two_checks_unassessed", "older_unassessed"}

Begun == [assessed |-> {}, notes |-> StandingNotes, seen |-> Unread]

-----------------------------------------------------------------------------
(***************************************************************************)
(* Evaluate.                                                               *)
(***************************************************************************)

Each(check, xs)  == {<<check, x>> : x \in xs}
One(check, holds) == IF holds THEN {<<check, "tenant">>} ELSE {}
Judged(s, areas, findings) == IF areas \subseteq s.assessed THEN findings ELSE {}

checkAdminMFA(s) ==
  Judged(s, {"mfa", "admin_roles"},
         Each("admin-mfa", (s.seen.enabled \cap s.seen.admins) \ s.seen.mfa))

\* Mutation of checkUserMFA: admins are counted among the standard users.
checkUserMFAOfAll(s) ==
  Judged(s, {"mfa"}, One("user-mfa", ~ (s.seen.enabled \subseteq s.seen.mfa)))

checkUserMFA(s) ==
  Judged(s, {"mfa"},
         One("user-mfa", ~ (s.seen.enabled \subseteq s.seen.admins \cup s.seen.mfa)))

checkAdminSprawl(s) ==
  Judged(s, {"admin_roles"},
         One("admin-sprawl",
             Cardinality(s.seen.enabled \cap s.seen.admins) > AdminSprawlThreshold))

checkConditionalAccess(s) ==
  IF provider = "m365"
  THEN Judged(s, {"conditional_access"},
              One("no-conditional-access", ~ s.seen.conditional))
  ELSE {}

checkInactiveUsers(s) ==
  Judged(s, {"inactive_user"},
         One("inactive-user", s.seen.enabled \cap s.seen.stale # {}))

\* The roles are looked up among the users that were read.
checkAdminSingleFactor(s) ==
  Judged(s, {"admin_roles"},
         Each("signin-admin-1fa", s.seen.users \cap s.seen.admins \cap s.seen.weak))

\* Which logins are legacy, a country hop or a spray is not looked into here.
checkSignIns(s) ==
  Judged(s, {"signin"},
         Each("signin", s.seen.incidents) \cup checkAdminSingleFactor(s))

checkLegacyAuth(s) == Judged(s, {"legacy_auth"}, One("legacy-auth", s.seen.legacy))
checkOAuth(s) == Judged(s, {"oauth"}, Each("risky-oauth", s.seen.grants))
checkSharing(s) == Judged(s, {"sharing"}, One("external-sharing", s.seen.sharing))
checkEmailAuth(s) == Judged(s, {"email_auth"}, One("email-auth", s.seen.spoofable))
notesToFindings(s) == Each("manual-review", s.notes)

\* checkMailForward is left out: no provider assesses its area.
Evaluate(s) ==
  UNION {checkAdminMFA(s), checkUserMFA(s), checkLegacyAuth(s), checkOAuth(s),
         checkAdminSprawl(s), checkSharing(s), checkEmailAuth(s),
         checkConditionalAccess(s), checkInactiveUsers(s), checkSignIns(s),
         notesToFindings(s)}

Fingerprints ==
  Each("admin-mfa", Users) \cup Each("signin-admin-1fa", Users)
  \cup Each("risky-oauth", Apps) \cup Each("signin", Incidents)
  \cup Each("manual-review", Notes)
  \cup {<<check, "tenant">> : check \in
          {"user-mfa", "admin-sprawl", "no-conditional-access", "inactive-user",
           "legacy-auth", "external-sharing", "email-auth"}}

-----------------------------------------------------------------------------
(***************************************************************************)
(* What is wrong with a tenant of certain facts, problem by problem: some  *)
(* are aggregated into one finding, and each shows in certain areas.       *)
(***************************************************************************)

Of(check, xs, areas) ==
  {[finding |-> <<check, x>>, who |-> x, areas |-> areas] : x \in xs}
Part(check, parts, areas) ==
  {[finding |-> <<check, "tenant">>, who |-> x, areas |-> areas] : x \in parts}
If(holds) == IF holds THEN {"tenant"} ELSE {}

Problems(p) ==
  LET admins == p.enabled \cap p.admins IN
  UNION {
    Of("admin-mfa", admins \ p.mfa, {"mfa", "admin_roles"}),
    Part("user-mfa", p.enabled \ (p.admins \cup p.mfa), {"mfa"}),
    Part("admin-sprawl", kSubset(AdminSprawlThreshold + 1, admins), {"admin_roles"}),
    Part("inactive-user", p.enabled \cap p.stale, {"inactive_user"}),
    Of("signin", p.incidents, {"signin"}),
    IF provider = "gws" THEN {}   \* Google does not report the strength
    ELSE Of("signin-admin-1fa", p.users \cap p.admins \cap p.weak,
            {"signin", "admin_roles"}),
    Of("risky-oauth", p.grants, {"oauth"}),
    Of("no-conditional-access", If(~ p.conditional), {"conditional_access"}),
    Of("legacy-auth", If(p.legacy), {"legacy_auth"}),
    Of("external-sharing", If(p.sharing), {"sharing"}),
    Of("email-auth", If(p.spoofable), {"email_auth"})}

FindingsOf(problems) == {problem.finding : problem \in problems}
Within(areas, problems) == {problem \in problems : problem.areas \subseteq areas}

-----------------------------------------------------------------------------
(***************************************************************************)
(* A scan.                                                                 *)
(***************************************************************************)

Rows   == [status : {"none", "open", "resolved"}, misses : 0..ResolveAfter]
Absent == [status |-> "none", misses |-> 0]

Init ==
  /\ provider \in Providers
  /\ posture \in Postures
  /\ next = 0
  /\ snapshot = Begun
  /\ row = [fp \in Fingerprints |-> Absent]
  /\ troubles = 0
  /\ steady = {}
  /\ past = <<>>

Begin ==
  /\ next = 0
  /\ next' = 1
  /\ snapshot' = Begun
  /\ steady' = Problems(OnPages(posture))
  /\ UNCHANGED <<provider, posture, row, troubles, past>>

\* The call answers with how things on its pages are at that moment.
CallAnswers ==
  /\ next \in DOMAIN Calls
  /\ LET c == Calls[next] IN
     snapshot' =
       [assessed |-> snapshot.assessed \cup Covers(c).areas,
        notes |-> snapshot.notes \cup (IF c = "signins" THEN SigninNotes(posture) ELSE {}),
        seen |-> [f \in DOMAIN Unread |->
                    IF f \in Covers(c).fields THEN OnPages(posture)[f]
                    ELSE snapshot.seen[f]]]
  /\ next' = next + 1
  /\ UNCHANGED <<provider, posture, row, troubles, steady, past>>

\* A call that is not essential fails: the area stays unassessed, with a note
\* for most.  Failed DNS lookups are records that are not there.
CallFails ==
  /\ next \in DOMAIN Calls
  /\ Calls[next] \in Fallible \ Essential
  /\ troubles < MaxTroubles
  /\ LET c == Calls[next] IN
     snapshot' =
       IF c = "dns"
       THEN [snapshot EXCEPT !.seen.spoofable = TRUE,
                             !.assessed = @ \cup Covers(c).areas]
       ELSE [snapshot EXCEPT !.notes = @ \cup ({c} \cap Noted)]
  /\ next' = next + 1
  /\ troubles' = troubles + 1
  /\ UNCHANGED <<provider, posture, row, steady, past>>

Reported == [status |-> "open", misses |-> 0]

\* Mutation of Missed: a resolved row is counted on.
MissedOnceResolved(r) ==
  IF r.status = "none" THEN r
  ELSE [status |-> IF r.misses + 1 >= ResolveAfter THEN "resolved" ELSE "open",
        misses |-> r.misses + 1]

Missed(r) ==
  IF r.status # "open" THEN r
  ELSE [status |-> IF r.misses + 1 >= ResolveAfter THEN "resolved" ELSE "open",
        misses |-> r.misses + 1]

\* Mutation of ScanFails: the error is dropped, the scan reported nothing.
ScanFailsEmpty ==
  /\ next \in DOMAIN Calls
  /\ Calls[next] \in Fallible \cap Essential
  /\ next' = 0
  /\ troubles' = 0
  /\ snapshot' = Begun
  /\ row' = [fp \in Fingerprints |-> Missed(row[fp])]
  /\ steady' = {}
  /\ UNCHANGED <<provider, posture, past>>

\* No token or no users: Collect returns an error and scanOne leaves the
\* findings as they are.
ScanFails ==
  /\ next \in DOMAIN Calls
  /\ Calls[next] \in Fallible \cap Essential
  /\ next' = 0
  /\ troubles' = 0
  /\ snapshot' = Begun
  /\ steady' = {}
  /\ UNCHANGED <<provider, posture, row, past>>

\* The scan ends: Evaluate, and Reconcile what it returned.
Reconcile ==
  /\ next = Len(Calls) + 1
  /\ LET findings == Evaluate(snapshot)
          scan == [wrong |-> FindingsOf(steady),
                   read |-> FindingsOf(Within(snapshot.assessed, steady)),
                   due |-> Each("manual-review",
                                StandingNotes \cup SigninNotes(posture)),
                   quiet |-> troubles = 0]
     IN
     /\ row' = [fp \in Fingerprints |->
                  IF fp \in findings THEN Reported ELSE Missed(row[fp])]
     /\ past' = IF Len(past) < ResolveAfter THEN Append(past, scan)
                ELSE Append(Tail(past), scan)
  /\ next' = 0
  /\ troubles' = 0
  /\ snapshot' = Begun
  /\ steady' = {}
  /\ UNCHANGED <<provider, posture>>

(***************************************************************************)
(* The tenant's administrators, and whatever moves things between pages.   *)
(***************************************************************************)

Change ==
  /\ posture' \in Postures \ {posture}
  /\ next > 0 => troubles < MaxTroubles
  /\ troubles' = IF next > 0 THEN troubles + 1 ELSE 0
  /\ steady' = steady \cap Problems(OnPages(posture'))
  /\ UNCHANGED <<provider, next, snapshot, row, past>>

Next ==
  \/ Begin
  \/ CallAnswers
  \/ CallFails
  \/ ScanFails
  \/ Reconcile
  \/ Change

Spec == Init /\ [][Next]_vars

-----------------------------------------------------------------------------

TypeOK ==
  /\ provider \in Providers
  /\ posture \in Postures
  /\ next \in 0..(Len(Calls) + 1)
  /\ snapshot.assessed \subseteq Areas
  /\ snapshot.notes \subseteq Notes
  /\ snapshot.seen \in Facts
  /\ row \in [Fingerprints -> Rows]
  /\ Len(past) <= ResolveAfter

Open == {fp \in Fingerprints : row[fp].status = "open"}

(* "A transient API hiccup shouldn't flap a finding closed", and an outage  *)
(* must not: what the pages showed wrong throughout one of the last         *)
(* ResolveAfter scans, in an area that scan read, is open, however the      *)
(* tenant changed between the calls and whatever failed since.              *)
ReadProblemsStayOpen ==
  \A i \in DOMAIN past : past[i].read \subseteq Open

(* "Nothing can be marked resolved while remaining true": no finding is     *)
(* resolved by scans through all of which the problem was there.            *)
NothingResolvedWhileTrue ==
  Len(past) = ResolveAfter =>
    \A fp \in Fingerprints :
      row[fp].status = "resolved" =>
        \E i \in DOMAIN past : fp \notin past[i].wrong

(* "An area that errors or is unavailable becomes an honest Note": a call   *)
(* that left its areas unassessed is under manual review.  The MFA report   *)
(* is the exception: when it fails no note is written.                      *)
BlindSpotsAreNoted ==
  [][Reconcile =>
       \A i \in DOMAIN Calls :
         Covers(Calls[i]).areas \subseteq snapshot.assessed
           \/ <<"manual-review", Calls[i]>> \in Open']_vars

(* "An area that errors or is unavailable becomes an honest Note, never a   *)
(* false 'all clear'": after an undisturbed scan, what is really wrong in   *)
(* the areas it assessed is open.  Not what lies beyond the pages.          *)
AssessedIsComplete ==
  [][Reconcile /\ troubles = 0 =>
       FindingsOf(Within(snapshot.assessed, Problems(posture.facts)))
         \subseteq Open']_vars

(* "If DNS is blocked, the email-authentication check is skipped": a lookup *)
(* that fails leaves its area unassessed.  It is a record that is not there.*)
BlockedDNSIsSkipped ==
  [][CallFails /\ Calls[next] = "dns" => "email_auth" \notin snapshot'.assessed]_vars

(* A list that maintains itself "is a description of the tenant as it is    *)
(* now", as far as the pages go: ResolveAfter undisturbed scans that find   *)
(* the same are enough for the open findings to be what the pages show      *)
(* wrong and the notes due, nothing else, whatever earlier scans tore,      *)
(* missed or took for missing.  A Microsoft user whose entry is not on the  *)
(* MFA report's page is shown without MFA.                                  *)
SettlesOnTenant ==
  LET last == past[Len(past)] IN
  (/\ Len(past) = ResolveAfter
   /\ \A i \in DOMAIN past :
        past[i].quiet /\ past[i].read = last.read /\ past[i].due = last.due) =>
    Open = last.read \cup last.due
=============================================================================
