---------------------------- MODULE Posture_proofs ----------------------------
(***************************************************************************)
(* Theorems about Posture for any tenant, any postures it takes and any    *)
(* part of it its pages hold, any calls that fail and any number of        *)
(* disturbances of a scan.                                                 *)
(***************************************************************************)
EXTENDS Posture, FiniteSetTheorems, TLAPS

Fields == {"users", "enabled", "admins", "mfa", "stale", "weak", "grants",
           "incidents", "conditional", "legacy", "sharing", "spoofable"}

LEMMA UnreadFields == DOMAIN Unread = Fields /\ Unread \in Facts
BY DEF Unread, Fields, Facts

(* What the calls of the two clouds are, and what each covers.              *)
LEMMA CallTable ==
  ASSUME provider \in Providers
  PROVE  /\ provider = "m365" =>
              /\ Len(Calls) = 10 /\ DOMAIN Calls = 1..10
              /\ Calls[1] = "token" /\ Calls[2] = "users" /\ Calls[3] = "mfa"
              /\ Calls[4] = "roles" /\ Calls[5] = "oauth"
              /\ Calls[6] = "conditional" /\ Calls[7] = "legacy"
              /\ Calls[8] = "sharing" /\ Calls[9] = "dns"
              /\ Calls[10] = "signins"
         /\ provider # "m365" =>
              /\ provider = "gws"
              /\ Len(Calls) = 4 /\ DOMAIN Calls = 1..4
              /\ Calls[1] = "token" /\ Calls[2] = "users" /\ Calls[3] = "dns"
              /\ Calls[4] = "signins"
<1>1. CASE provider = "m365"
  BY <1>1 DEF Calls
<1>2. CASE provider # "m365"
  BY <1>2, ProvidersAreKnown DEF Calls
<1> QED
  BY <1>1, <1>2

LEMMA M365Table ==
  ASSUME provider = "m365"
  PROVE  /\ Covers("token") = Call({}, {})
         /\ Covers("users") = Call({"users", "enabled"}, {})
         /\ Covers("mfa") = Call({"mfa"}, {"mfa"})
         /\ Covers("roles") = Call({"admins"}, {"admin_roles"})
         /\ Covers("oauth") = Call({"grants"}, {"oauth"})
         /\ Covers("conditional") =
              Call({"conditional"}, {"conditional_access"})
         /\ Covers("legacy") = Call({"legacy"}, {"legacy_auth"})
         /\ Covers("sharing") = Call({"sharing"}, {"sharing"})
         /\ Covers("dns") = Call({"spoofable"}, {"email_auth"})
         /\ Covers("signins") = Call({"weak", "incidents"}, {"signin"})
BY DEF Covers, M365, mfaReport, adminRoles, oauthGrants, conditionalAccess,
       legacyAuth, sharing, EmailAuth, graphSignIns

LEMMA GWSTable ==
  ASSUME provider # "m365"
  PROVE  /\ Covers("token") = Call({}, {})
         /\ Covers("users") =
              Call({"users", "enabled", "admins", "mfa", "stale"},
                   {"mfa", "admin_roles", "inactive_user"})
         /\ Covers("dns") = Call({"spoofable"}, {"email_auth"})
         /\ Covers("signins") = Call({"incidents"}, {"signin"})
BY DEF Covers, GWS, gwsUsers, EmailAuth, gwsSignIns

\* The area whose calls tell field f; the users, which no scan goes on without,
\* tell the rest, and Google's sign-ins tell nothing of "weak".
AreaOf ==
  [admins |-> "admin_roles", mfa |-> "mfa", stale |-> "inactive_user",
   weak |-> "signin", grants |-> "oauth", incidents |-> "signin",
   conditional |-> "conditional_access", legacy |-> "legacy_auth",
   sharing |-> "sharing", spoofable |-> "email_auth"]

Told(f) ==
  IF f \in {"users", "enabled"} THEN next > 2
  ELSE /\ AreaOf[f] \in snapshot.assessed
       /\ f = "weak" => provider = "m365"

(* A call that answers tells every field of the areas it covers.            *)
LEMMA CoversTellsFields ==
  ASSUME provider \in Providers, NEW n \in DOMAIN Calls
  PROVE  /\ Covers(Calls[n]).areas \subseteq Areas
         /\ n = 2 => {"users", "enabled"} \subseteq Covers(Calls[n]).fields
         /\ \A f \in Fields \ {"users", "enabled"} :
              AreaOf[f] \in Covers(Calls[n]).areas =>
                \/ f \in Covers(Calls[n]).fields
                \/ f = "weak" /\ provider # "m365"
         /\ "admins" \in Covers(Calls[n]).fields =>
              "admin_roles" \in Covers(Calls[n]).areas
         /\ "conditional_access" \in Covers(Calls[n]).areas =>
              provider = "m365"
<1> USE DEF Call, Areas, Fields, AreaOf
<1>1. CASE provider = "m365"
  <2>1. n \in 1..10
    BY <1>1, CallTable
  <2>2. n \in {1, 2, 3, 4, 5, 6, 7, 8, 9, 10}
    BY <2>1
  <2>3. CASE n = 1
    BY <1>1, <2>3, CallTable, M365Table
  <2>4. CASE n = 2
    BY <1>1, <2>4, CallTable, M365Table
  <2>5. CASE n = 3
    BY <1>1, <2>5, CallTable, M365Table
  <2>6. CASE n = 4
    BY <1>1, <2>6, CallTable, M365Table
  <2>7. CASE n = 5
    BY <1>1, <2>7, CallTable, M365Table
  <2>8. CASE n = 6
    BY <1>1, <2>8, CallTable, M365Table
  <2>9. CASE n = 7
    BY <1>1, <2>9, CallTable, M365Table
  <2>10. CASE n = 8
    BY <1>1, <2>10, CallTable, M365Table
  <2>11. CASE n = 9
    BY <1>1, <2>11, CallTable, M365Table
  <2>12. CASE n = 10
    BY <1>1, <2>12, CallTable, M365Table
  <2> QED
    BY <2>2, <2>3, <2>4, <2>5, <2>6, <2>7, <2>8, <2>9, <2>10, <2>11, <2>12
<1>2. CASE provider # "m365"
  <2>1. n \in 1..4
    BY <1>2, CallTable
  <2>2. n \in {1, 2, 3, 4}
    BY <2>1
  <2>3. CASE n = 1
    BY <1>2, <2>3, CallTable, GWSTable
  <2>4. CASE n = 2
    BY <1>2, <2>4, CallTable, GWSTable
  <2>5. CASE n = 3
    BY <1>2, <2>5, CallTable, GWSTable
  <2>6. CASE n = 4
    BY <1>2, <2>6, CallTable, GWSTable
  <2> QED
    BY <2>2, <2>3, <2>4, <2>5, <2>6
<1> QED
  BY <1>1, <1>2

-----------------------------------------------------------------------------
(***************************************************************************)
(* Problems and findings, kind by kind.                                    *)
(***************************************************************************)

Kinds == {"admin-mfa", "user-mfa", "admin-sprawl", "inactive-user", "signin",
          "signin-admin-1fa", "risky-oauth", "no-conditional-access",
          "legacy-auth", "external-sharing", "email-auth"}

\* What posture p must show for a problem of kind k about x.
Shown(p, k, x) ==
  \/ k = "admin-mfa" /\ x \in p.enabled /\ x \in p.admins /\ x \notin p.mfa
  \/ k = "user-mfa" /\ x \in p.enabled /\ x \notin p.admins /\ x \notin p.mfa
  \/ /\ k = "admin-sprawl"
     /\ x \subseteq p.enabled /\ x \subseteq p.admins
     /\ Cardinality(x) = AdminSprawlThreshold + 1
  \/ k = "inactive-user" /\ x \in p.enabled /\ x \in p.stale
  \/ k = "signin" /\ x \in p.incidents
  \/ /\ k = "signin-admin-1fa" /\ provider # "gws"
     /\ x \in p.users /\ x \in p.admins /\ x \in p.weak
  \/ k = "risky-oauth" /\ x \in p.grants
  \/ k = "no-conditional-access" /\ x = "tenant" /\ ~ p.conditional
  \/ k = "legacy-auth" /\ x = "tenant" /\ p.legacy
  \/ k = "external-sharing" /\ x = "tenant" /\ p.sharing
  \/ k = "email-auth" /\ x = "tenant" /\ p.spoofable

\* The finding is about x itself, or about the tenant.
About(k, x) ==
  IF k \in {"user-mfa", "admin-sprawl", "inactive-user"} THEN "tenant" ELSE x

AreasOf(k) ==
  CASE k = "admin-mfa" -> {"mfa", "admin_roles"}
    [] k = "user-mfa" -> {"mfa"}
    [] k = "admin-sprawl" -> {"admin_roles"}
    [] k = "inactive-user" -> {"inactive_user"}
    [] k = "signin" -> {"signin"}
    [] k = "signin-admin-1fa" -> {"signin", "admin_roles"}
    [] k = "risky-oauth" -> {"oauth"}
    [] k = "no-conditional-access" -> {"conditional_access"}
    [] k = "legacy-auth" -> {"legacy_auth"}
    [] k = "external-sharing" -> {"sharing"}
    [] k = "email-auth" -> {"email_auth"}

ProblemOf(k, x) ==
  [finding |-> <<k, About(k, x)>>, who |-> x, areas |-> AreasOf(k)]

LEMMA ProblemsAreShown ==
  ASSUME NEW p, NEW problem
  PROVE  problem \in Problems(p) <=>
           \E k \in Kinds : \E x : Shown(p, k, x) /\ problem = ProblemOf(k, x)
<1> DEFINE admins == p.enabled \cap p.admins
           Has(k) == \E x : Shown(p, k, x) /\ problem = ProblemOf(k, x)
           S1 == Of("admin-mfa", admins \ p.mfa, {"mfa", "admin_roles"})
           S2 == Part("user-mfa", p.enabled \ (p.admins \cup p.mfa), {"mfa"})
           S3 == Part("admin-sprawl", kSubset(AdminSprawlThreshold + 1,
             admins),
                      {"admin_roles"})
           S4 == Part("inactive-user", p.enabled \cap p.stale,
             {"inactive_user"})
           S5 == Of("signin", p.incidents, {"signin"})
           S6 == IF provider = "gws" THEN {}
                 ELSE Of("signin-admin-1fa",
                         p.users \cap p.admins \cap p.weak,
                         {"signin", "admin_roles"})
           S7 == Of("risky-oauth", p.grants, {"oauth"})
           S8 == Of("no-conditional-access", If(~ p.conditional),
                    {"conditional_access"})
           S9 == Of("legacy-auth", If(p.legacy), {"legacy_auth"})
           S10 == Of("external-sharing", If(p.sharing), {"sharing"})
           S11 == Of("email-auth", If(p.spoofable), {"email_auth"})
<1>0. problem \in Problems(p) <=>
        \/ problem \in S1 \/ problem \in S2 \/ problem \in S3
        \/ problem \in S4 \/ problem \in S5 \/ problem \in S6
        \/ problem \in S7 \/ problem \in S8 \/ problem \in S9
        \/ problem \in S10 \/ problem \in S11
  <2>1. Problems(p) = UNION {S1, S2, S3, S4, S5, S6, S7, S8, S9, S10, S11}
    BY DEF Problems
  <2> HIDE DEF S1, S2, S3, S4, S5, S6, S7, S8, S9, S10, S11
  <2> QED
    BY <2>1
<1>1. problem \in S1 <=> Has("admin-mfa")
  BY DEF Of, Shown, ProblemOf, About, AreasOf
<1>2. problem \in S2 <=> Has("user-mfa")
  BY DEF Part, Shown, ProblemOf, About, AreasOf
<1>3. problem \in S3 <=> Has("admin-sprawl")
  BY DEF Part, Shown, ProblemOf, About, AreasOf, kSubset
<1>4. problem \in S4 <=> Has("inactive-user")
  BY DEF Part, Shown, ProblemOf, About, AreasOf
<1>5. problem \in S5 <=> Has("signin")
  BY DEF Of, Shown, ProblemOf, About, AreasOf
<1>6. problem \in S6 <=> Has("signin-admin-1fa")
  BY DEF Of, Shown, ProblemOf, About, AreasOf
<1>7. problem \in S7 <=> Has("risky-oauth")
  BY DEF Of, Shown, ProblemOf, About, AreasOf
<1>8. problem \in S8 <=> Has("no-conditional-access")
  BY DEF Of, If, Shown, ProblemOf, About, AreasOf
<1>9. problem \in S9 <=> Has("legacy-auth")
  BY DEF Of, If, Shown, ProblemOf, About, AreasOf
<1>10. problem \in S10 <=> Has("external-sharing")
  BY DEF Of, If, Shown, ProblemOf, About, AreasOf
<1>11. problem \in S11 <=> Has("email-auth")
  BY DEF Of, If, Shown, ProblemOf, About, AreasOf
<1>12. (\E k \in Kinds : Has(k)) <=>
        \/ Has("admin-mfa") \/ Has("user-mfa") \/ Has("admin-sprawl")
        \/ Has("inactive-user") \/ Has("signin") \/ Has("signin-admin-1fa")
        \/ Has("risky-oauth") \/ Has("no-conditional-access")
        \/ Has("legacy-auth") \/ Has("external-sharing") \/ Has("email-auth")
  <2> HIDE DEF Has
  <2> QED
    BY DEF Kinds
<1> QED
  BY <1>0, <1>1, <1>2, <1>3, <1>4, <1>5, <1>6, <1>7, <1>8, <1>9, <1>10, <1>11,
     <1>12

(* A problem tells its kind and what it is about.                           *)
LEMMA ProblemsDiffer ==
  ASSUME NEW k, NEW l, NEW x, NEW y, ProblemOf(k, x) = ProblemOf(l, y)
  PROVE  k = l /\ x = y
<1>1. ProblemOf(k, x).who = x /\ ProblemOf(l, y).who = y
  BY DEF ProblemOf
<1>2. ProblemOf(k, x).finding[1] = k /\ ProblemOf(l, y).finding[1] = l
  BY DEF ProblemOf
<1> QED
  BY <1>1, <1>2

\* m is made of p and q, field by field.
Mixed(m, p, q) ==
  /\ m.users \in {p.users, q.users}
  /\ m.enabled \in {p.enabled, q.enabled} /\ m.admins \in {p.admins, q.admins}
  /\ m.mfa \in {p.mfa, q.mfa} /\ m.stale \in {p.stale, q.stale}
  /\ m.weak \in {p.weak, q.weak} /\ m.grants \in {p.grants, q.grants}
  /\ m.incidents \in {p.incidents, q.incidents}
  /\ (m.conditional <=> p.conditional) \/ (m.conditional <=> q.conditional)
  /\ (m.legacy <=> p.legacy) \/ (m.legacy <=> q.legacy)
  /\ (m.sharing <=> p.sharing) \/ (m.sharing <=> q.sharing)
  /\ \/ (m.spoofable <=> p.spoofable) \/ (m.spoofable <=> q.spoofable)
     \/ m.spoofable

(* What two postures have wrong is wrong with every mixture of them.        *)
LEMMA MixedKeepsProblems ==
  ASSUME NEW m, NEW p, NEW q, Mixed(m, p, q),
         NEW problem \in Problems(p) \cap Problems(q)
  PROVE  problem \in Problems(m)
<1>1. PICK k, x : /\ k \in Kinds /\ Shown(p, k, x)
                  /\ problem = ProblemOf(k, x)
  BY ProblemsAreShown
<1>2. PICK l, y : /\ l \in Kinds /\ Shown(q, l, y)
                  /\ problem = ProblemOf(l, y)
  BY ProblemsAreShown
<1>3. l = k /\ y = x
  <2>1. ProblemOf(l, y) = ProblemOf(k, x)
    BY <1>1, <1>2
  <2> QED
    BY <2>1, ProblemsDiffer
<1>4. Shown(p, k, x) /\ Shown(q, k, x)
  BY <1>1, <1>2, <1>3
<1>5. Shown(m, k, x)
  <2>1. CASE k \in {"admin-mfa", "user-mfa"}
    BY <1>4, <2>1 DEF Shown, Mixed
  <2>2. CASE k \in {"admin-sprawl", "inactive-user"}
    BY <1>4, <2>2 DEF Shown, Mixed
  <2>3. CASE k \in {"signin", "signin-admin-1fa", "risky-oauth"}
    BY <1>4, <2>3 DEF Shown, Mixed
  <2>4. CASE k \in {"no-conditional-access", "legacy-auth"}
    BY <1>4, <2>4 DEF Shown, Mixed
  <2>5. CASE k \in {"external-sharing", "email-auth"}
    BY <1>4, <2>5 DEF Shown, Mixed
  <2> QED
    BY <1>1, <2>1, <2>2, <2>3, <2>4, <2>5 DEF Kinds
<1> QED
  BY <1>1, <1>5, ProblemsAreShown

(* A problem shown by what a scan has seen, in areas it assessed, is a       *)
(* finding.                                                                 *)
LEMMA ShownIsFound ==
  ASSUME NEW s, NEW k \in Kinds, NEW x, Shown(s.seen, k, x),
         AreasOf(k) \subseteq s.assessed, IsFiniteSet(s.seen.admins),
         provider \in Providers,
         k = "no-conditional-access" => provider = "m365"
  PROVE  <<k, About(k, x)>> \in Evaluate(s)
<1> DEFINE f == <<k, About(k, x)>>
<1>1. CASE k = "admin-mfa"
  <2>1. f \in checkAdminMFA(s)
    BY <1>1 DEF Shown, About, AreasOf, checkAdminMFA, Judged, Each
  <2> QED
    BY <2>1 DEF Evaluate
<1>2. CASE k = "user-mfa"
  <2>1. f \in checkUserMFA(s)
    BY <1>2 DEF Shown, About, AreasOf, checkUserMFA, Judged, One
  <2> QED
    BY <2>1 DEF Evaluate
<1>3. CASE k = "admin-sprawl"
  <2>1. /\ x \in SUBSET (s.seen.enabled \cap s.seen.admins)
        /\ Cardinality(x) = AdminSprawlThreshold + 1
        /\ {"admin_roles"} \subseteq s.assessed
        /\ f = <<"admin-sprawl", "tenant">>
    BY <1>3 DEF Shown, About, AreasOf
  <2>2. IsFiniteSet(s.seen.enabled \cap s.seen.admins)
    BY FS_Subset
  <2>3. Cardinality(x) <= Cardinality(s.seen.enabled \cap s.seen.admins)
    BY <2>1, <2>2, FS_Subset
  <2>4. Cardinality(s.seen.enabled \cap s.seen.admins) > AdminSprawlThreshold
    BY <2>1, <2>2, <2>3, FS_CardinalityType, UsersAreCounted
  <2>5. f \in checkAdminSprawl(s)
    BY <2>1, <2>4 DEF checkAdminSprawl, Judged, One
  <2> QED
    BY <2>5 DEF Evaluate
<1>4. CASE k = "inactive-user"
  <2>1. f \in checkInactiveUsers(s)
    BY <1>4 DEF Shown, About, AreasOf, checkInactiveUsers, Judged, One
  <2> QED
    BY <2>1 DEF Evaluate
<1>5. CASE k = "signin"
  <2>1. f \in checkSignIns(s)
    BY <1>5 DEF Shown, About, AreasOf, checkSignIns, Judged, Each
  <2> QED
    BY <2>1 DEF Evaluate
<1>6. CASE k = "signin-admin-1fa"
  <2>1. f \in checkAdminSingleFactor(s)
    BY <1>6 DEF Shown, About, AreasOf, checkAdminSingleFactor, Judged, Each
  <2>2. f \in checkSignIns(s)
    BY <1>6, <2>1 DEF AreasOf, checkSignIns, Judged
  <2> QED
    BY <2>2 DEF Evaluate
<1>7. CASE k = "risky-oauth"
  <2>1. f \in checkOAuth(s)
    BY <1>7 DEF Shown, About, AreasOf, checkOAuth, Judged, Each
  <2> QED
    BY <2>1 DEF Evaluate
<1>8. CASE k = "no-conditional-access"
  <2>1. f \in checkConditionalAccess(s)
    BY <1>8 DEF Shown, About, AreasOf, checkConditionalAccess, Judged, One
  <2> QED
    BY <2>1 DEF Evaluate
<1>9. CASE k = "legacy-auth"
  <2>1. f \in checkLegacyAuth(s)
    BY <1>9 DEF Shown, About, AreasOf, checkLegacyAuth, Judged, One
  <2> QED
    BY <2>1 DEF Evaluate
<1>10. CASE k = "external-sharing"
  <2>1. f \in checkSharing(s)
    BY <1>10 DEF Shown, About, AreasOf, checkSharing, Judged, One
  <2> QED
    BY <2>1 DEF Evaluate
<1>11. CASE k = "email-auth"
  <2>1. f \in checkEmailAuth(s)
    BY <1>11 DEF Shown, About, AreasOf, checkEmailAuth, Judged, One
  <2> QED
    BY <2>1 DEF Evaluate
<1> QED
  BY <1>1, <1>2, <1>3, <1>4, <1>5, <1>6, <1>7, <1>8, <1>9, <1>10, <1>11
     DEF Kinds

-----------------------------------------------------------------------------
(***************************************************************************)
(* Types.                                                                  *)
(***************************************************************************)

Snapshots == [assessed : SUBSET Areas, notes : SUBSET Notes, seen : Facts]

PastScans == [wrong : SUBSET Fingerprints, read : SUBSET Fingerprints,
              due : SUBSET Fingerprints, quiet : BOOLEAN]

(* TypeOK with the parts it needs to be kept: an open row has not missed    *)
(* ResolveAfter scans, and what is wrong steadily is wrong now.             *)
Typed ==
  /\ provider \in Providers
  /\ posture \in Postures
  /\ next \in 0..(Len(Calls) + 1)
  /\ snapshot \in Snapshots
  /\ row \in [Fingerprints -> Rows]
  /\ \A fp \in Fingerprints :
       row[fp].status = "open" => row[fp].misses < ResolveAfter
  /\ steady \subseteq Problems(OnPages(posture))
  /\ past \in Seq(PastScans) /\ Len(past) <= ResolveAfter

LEMMA Picked ==
  ASSUME NEW p \in Facts, NEW q \in Facts, NEW S
  PROVE  [f \in Fields |-> IF f \in S THEN p[f] ELSE q[f]] \in Facts
<1> DEFINE m == [f \in Fields |-> IF f \in S THEN p[f] ELSE q[f]]
<1>1. m = [users |-> IF "users" \in S THEN p.users ELSE q.users,
           enabled |-> IF "enabled" \in S THEN p.enabled ELSE q.enabled,
           admins |-> IF "admins" \in S THEN p.admins ELSE q.admins,
           mfa |-> IF "mfa" \in S THEN p.mfa ELSE q.mfa,
           stale |-> IF "stale" \in S THEN p.stale ELSE q.stale,
           weak |-> IF "weak" \in S THEN p.weak ELSE q.weak,
           grants |-> IF "grants" \in S THEN p.grants ELSE q.grants,
           incidents |-> IF "incidents" \in S
             THEN p.incidents ELSE q.incidents,
           conditional |-> IF "conditional" \in S THEN p.conditional
                                                  ELSE q.conditional,
           legacy |-> IF "legacy" \in S THEN p.legacy ELSE q.legacy,
           sharing |-> IF "sharing" \in S THEN p.sharing ELSE q.sharing,
           spoofable |-> IF "spoofable" \in S
             THEN p.spoofable ELSE q.spoofable]
  BY DEF Fields
<1>2. /\ (IF "users" \in S THEN p.users ELSE q.users) \in SUBSET Users
      /\ (IF "enabled" \in S THEN p.enabled ELSE q.enabled) \in SUBSET Users
      /\ (IF "admins" \in S THEN p.admins ELSE q.admins) \in SUBSET Users
      /\ (IF "mfa" \in S THEN p.mfa ELSE q.mfa) \in SUBSET Users
      /\ (IF "stale" \in S THEN p.stale ELSE q.stale) \in SUBSET Users
      /\ (IF "weak" \in S THEN p.weak ELSE q.weak) \in SUBSET Users
      /\ (IF "grants" \in S THEN p.grants ELSE q.grants) \in SUBSET Apps
      /\ (IF "incidents" \in S THEN p.incidents
           ELSE q.incidents) \in SUBSET Incidents
  BY DEF Facts
<1>3. (IF "conditional" \in S THEN p.conditional
        ELSE q.conditional) \in BOOLEAN
  <2>1. p.conditional \in BOOLEAN /\ q.conditional \in BOOLEAN
    BY DEF Facts
  <2> QED
    BY <2>1, Zenon
<1>4. (IF "legacy" \in S THEN p.legacy ELSE q.legacy) \in BOOLEAN
  <2>1. p.legacy \in BOOLEAN /\ q.legacy \in BOOLEAN
    BY DEF Facts
  <2> QED
    BY <2>1, Zenon
<1>5. (IF "sharing" \in S THEN p.sharing ELSE q.sharing) \in BOOLEAN
  <2>1. p.sharing \in BOOLEAN /\ q.sharing \in BOOLEAN
    BY DEF Facts
  <2> QED
    BY <2>1, Zenon
<1>6. (IF "spoofable" \in S THEN p.spoofable ELSE q.spoofable) \in BOOLEAN
  <2>1. p.spoofable \in BOOLEAN /\ q.spoofable \in BOOLEAN
    BY DEF Facts
  <2> QED
    BY <2>1, Zenon
<1>7. m \in Facts
  <2> HIDE DEF m
  <2> QED
    BY <1>1, <1>2, <1>3, <1>4, <1>5, <1>6, Zenon DEF Facts
<1> QED
  BY <1>7

(* What the pages show is how a tenant may be.                              *)
LEMMA OnPagesType ==
  ASSUME NEW t \in [facts : Facts, pages : Pages]
  PROVE  OnPages(t) \in Facts
<1> DEFINE u == t.facts.users \cap t.pages.users
           e == t.facts.enabled \cap t.pages.users
           m == IF provider = "m365" THEN t.facts.mfa \cap t.pages.mfa
                                     ELSE t.facts.mfa
           g == t.facts.grants \cap t.pages.grants
           w == t.facts.weak \cap t.pages.weak
           i == t.facts.incidents \cap t.pages.incidents
<1>1. PICK p \in Facts : p = t.facts
  OBVIOUS
<1>2. OnPages(t) = [p EXCEPT !.users = u, !.enabled = e, !.mfa = m,
                             !.grants = g, !.weak = w, !.incidents = i]
  BY <1>1 DEF OnPages
<1>3. /\ u \in SUBSET Users /\ e \in SUBSET Users /\ m \in SUBSET Users
      /\ g \in SUBSET Apps /\ w \in SUBSET Users /\ i \in SUBSET Incidents
  BY <1>1 DEF Facts
<1> HIDE DEF u, e, m, g, w, i
<1>4. [p EXCEPT !.users = u, !.enabled = e, !.mfa = m] \in Facts
  BY <1>1, <1>3 DEF Facts
<1>5. PICK q \in Facts : q = [p EXCEPT !.users = u, !.enabled = e, !.mfa = m]
  BY <1>4
<1>6. [q EXCEPT !.grants = g, !.weak = w, !.incidents = i] \in Facts
  BY <1>3, <1>5 DEF Facts
<1> QED
  BY <1>2, <1>5, <1>6

LEMMA BegunType == ASSUME provider \in Providers PROVE Begun \in Snapshots
BY UnreadFields DEF Begun, Snapshots, StandingNotes, Notes

LEMMA ProblemsAreFindings ==
  ASSUME NEW p \in Facts, NEW problem \in Problems(p)
  PROVE  problem.finding \in Fingerprints
<1>1. PICK k, x : /\ k \in Kinds /\ Shown(p, k, x)
                  /\ problem = ProblemOf(k, x)
  BY ProblemsAreShown
<1>2. problem.finding = <<k, About(k, x)>>
  BY <1>1 DEF ProblemOf
<1>3. CASE k \in {"admin-mfa", "signin-admin-1fa", "risky-oauth", "signin"}
  <2>1. /\ k \in {"admin-mfa", "signin-admin-1fa"} => x \in Users
        /\ k = "risky-oauth" => x \in Apps
        /\ k = "signin" => x \in Incidents
    BY <1>1, <1>3 DEF Shown, Facts
  <2>2. problem.finding = <<k, x>>
    BY <1>2, <1>3 DEF About
  <2> QED
    BY <1>3, <2>1, <2>2 DEF Fingerprints, Each
<1>4. CASE k \notin {"admin-mfa", "signin-admin-1fa", "risky-oauth", "signin"}
  <2>1. About(k, x) = "tenant"
    BY <1>1, <1>4 DEF Shown, About, Kinds
  <2>2. k \in {"user-mfa", "admin-sprawl", "no-conditional-access",
               "inactive-user", "legacy-auth", "external-sharing",
                 "email-auth"}
    BY <1>1, <1>4 DEF Kinds
  <2> QED
    BY <1>2, <2>1, <2>2 DEF Fingerprints
<1> QED
  BY <1>3, <1>4

(* What a call that answers, or fails, leaves in the snapshot.              *)
Answered(c) ==
  [assessed |-> snapshot.assessed \cup Covers(c).areas,
   notes |-> snapshot.notes \cup
     (IF c = "signins" THEN SigninNotes(posture) ELSE {}),
   seen |-> [f \in Fields |->
               IF f \in Covers(c).fields THEN OnPages(posture)[f]
                 ELSE snapshot.seen[f]]]

LEMMA AnsweredType ==
  ASSUME Typed, NEW n \in DOMAIN Calls
  PROVE  Answered(Calls[n]) \in Snapshots
<1>1. OnPages(posture) \in Facts /\ snapshot.seen \in Facts
  BY PosturesArePaged, OnPagesType DEF Typed, Snapshots
<1>2. Answered(Calls[n]).seen \in Facts
  <2> DEFINE S == Covers(Calls[n]).fields
  <2>1. [f \in Fields |-> IF f \in S THEN OnPages(posture)[f]
          ELSE snapshot.seen[f]] \in Facts
    <3> HIDE DEF S
    <3> QED
      BY <1>1, Picked
  <2> QED
    BY <2>1 DEF Answered
<1>3. Covers(Calls[n]).areas \subseteq Areas
  BY CoversTellsFields DEF Typed
<1>4. SigninNotes(posture) \subseteq Notes
  BY DEF SigninNotes, Notes
<1>5. /\ Answered(Calls[n]).assessed \subseteq Areas
      /\ Answered(Calls[n]).notes \subseteq Notes
  BY <1>3, <1>4 DEF Answered, Typed, Snapshots
<1> QED
  BY <1>2, <1>5 DEF Snapshots, Answered

Failed(c) ==
  IF c = "dns"
  THEN [assessed |-> snapshot.assessed \cup Covers(c).areas,
        notes |-> snapshot.notes,
        seen |-> [snapshot.seen EXCEPT !.spoofable = TRUE]]
  ELSE [assessed |-> snapshot.assessed,
        notes |-> snapshot.notes \cup ({c} \cap Noted),
        seen |-> snapshot.seen]

LEMMA FailedType ==
  ASSUME Typed, NEW n \in DOMAIN Calls
  PROVE  Failed(Calls[n]) \in Snapshots
<1>1. snapshot.seen \in Facts
  BY DEF Typed, Snapshots
<1>2. [snapshot.seen EXCEPT !.spoofable = TRUE] \in Facts
  BY <1>1 DEF Facts
<1>3. Covers(Calls[n]).areas \subseteq Areas
  BY CoversTellsFields DEF Typed
<1>4. snapshot.assessed \subseteq Areas /\ snapshot.notes \subseteq Notes
  BY DEF Typed, Snapshots
<1>5. Noted \subseteq Notes
  BY DEF Notes
<1> QED
  BY <1>1, <1>2, <1>3, <1>4, <1>5 DEF Failed, Snapshots

LEMMA SnapshotSteps ==
  ASSUME Typed
  PROVE  /\ CallAnswers => snapshot' = Answered(Calls[next])
         /\ CallFails => snapshot' = Failed(Calls[next])
<1>1. CallAnswers => snapshot' = Answered(Calls[next])
  BY UnreadFields DEF CallAnswers, Answered
<1>2. ASSUME CallFails PROVE snapshot' = Failed(Calls[next])
  <2>1. PICK s \in Snapshots : s = snapshot
    BY DEF Typed
  <2>2. s = [assessed |-> s.assessed, notes |-> s.notes, seen |-> s.seen]
    BY <2>1 DEF Snapshots
  <2>3. CASE Calls[next] = "dns"
    <3>1. PICK A : A = Covers(Calls[next]).areas
      OBVIOUS
    <3>2. snapshot' = [s EXCEPT !.seen.spoofable = TRUE, !.assessed = @ \cup A]
      BY <1>2, <2>1, <2>3, <3>1 DEF CallFails
    <3>3. PICK t : t = [s.seen EXCEPT !.spoofable = TRUE]
      OBVIOUS
    <3>4. [s EXCEPT !.seen.spoofable = TRUE, !.assessed = @ \cup A] =
            [assessed |-> s.assessed \cup A, notes |-> s.notes, seen |-> t]
      <4>1. [s EXCEPT !.seen.spoofable = TRUE, !.assessed = @ \cup A] =
              [[s EXCEPT !.seen = t] EXCEPT !.assessed = @ \cup A]
        BY <3>3
      <4>2. [s EXCEPT !.seen = t] =
              [assessed |-> s.assessed, notes |-> s.notes, seen |-> t]
        BY <2>1 DEF Snapshots
      <4>3. PICK r : r = [s EXCEPT !.seen = t]
        OBVIOUS
      <4>4. [r EXCEPT !.assessed = @ \cup A] =
              [assessed |-> s.assessed \cup A, notes |-> s.notes, seen |-> t]
        <5>1. PICK a, n : a = s.assessed /\ n = s.notes
          OBVIOUS
        <5>2. r = [assessed |-> a, notes |-> n, seen |-> t]
          BY <4>2, <4>3, <5>1
        <5>3. [[assessed |-> a, notes |-> n,
                seen |-> t] EXCEPT !.assessed = @ \cup A] =
                [assessed |-> a \cup A, notes |-> n, seen |-> t]
          OBVIOUS
        <5> QED
          BY <5>1, <5>2, <5>3
      <4> QED
        BY <4>1, <4>3, <4>4
    <3> QED
      BY <2>1, <2>3, <3>1, <3>2, <3>3, <3>4 DEF Failed
  <2>4. CASE Calls[next] # "dns"
    <3>1. snapshot' = [s EXCEPT !.notes = @ \cup ({Calls[next]} \cap Noted)]
      BY <1>2, <2>1, <2>4 DEF CallFails
    <3> QED
      BY <2>1, <2>2, <2>4, <3>1 DEF Failed, Snapshots
  <2> QED
    BY <2>3, <2>4
<1> QED
  BY <1>1, <1>2

LEMMA RowsType ==
  ASSUME NEW r \in Rows, r.status = "open" => r.misses < ResolveAfter
  PROVE  /\ Reported \in Rows
         /\ Reported.status = "open" /\ Reported.misses = 0
         /\ Missed(r) \in Rows
         /\ Missed(r).status = "open" => Missed(r).misses < ResolveAfter
         /\ Missed(r).status = "open" =>
              r.status = "open" /\ Missed(r).misses = r.misses + 1
         /\ r.status = "open" /\ r.misses + 1 < ResolveAfter =>
              Missed(r).status = "open" /\ Missed(r).misses = r.misses + 1
<1>1. ResolveAfter \in Nat /\ ResolveAfter > 0 /\ r.misses \in 0..ResolveAfter
  BY ResolveAfterIsPositive DEF Rows
<1>2. Reported \in Rows /\ Reported.status = "open" /\ Reported.misses = 0
  BY <1>1 DEF Reported, Rows
<1>3. CASE r.status # "open"
  BY <1>1, <1>2, <1>3 DEF Missed
<1>4. CASE r.status = "open" /\ r.misses + 1 >= ResolveAfter
  <2>1. Missed(r) = [status |-> "resolved", misses |-> r.misses + 1]
    BY <1>4 DEF Missed
  <2>2. r.misses + 1 \in 0..ResolveAfter
    BY <1>1, <1>4
  <2> QED
    BY <1>1, <1>2, <1>4, <2>1, <2>2 DEF Rows
<1>5. CASE r.status = "open" /\ ~ (r.misses + 1 >= ResolveAfter)
  <2>1. Missed(r) = [status |-> "open", misses |-> r.misses + 1]
    BY <1>5 DEF Missed
  <2>2. r.misses + 1 \in 0..ResolveAfter /\ r.misses + 1 < ResolveAfter
    BY <1>1, <1>5
  <2> QED
    BY <1>1, <1>2, <1>5, <2>1, <2>2 DEF Rows
<1> QED
  BY <1>3, <1>4, <1>5

\* The notes an undisturbed scan of the tenant as it is leaves.
NotesDue == Each("manual-review", StandingNotes \cup SigninNotes(posture))

\* What a scan that is reconciled leaves in the history.
ThisScan ==
  [wrong |-> FindingsOf(steady),
   read |-> FindingsOf(Within(snapshot.assessed, steady)),
   due |-> NotesDue,
   quiet |-> troubles = 0]

LEMMA NotesAreFingerprints == NotesDue \subseteq Fingerprints
<1>1. StandingNotes \cup SigninNotes(posture) \subseteq Notes
  BY DEF StandingNotes, SigninNotes, Notes
<1>2. NotesDue \subseteq Each("manual-review", Notes)
  BY <1>1 DEF NotesDue, Each
<1> QED
  BY <1>2 DEF Fingerprints

LEMMA ThisScanType == ASSUME Typed PROVE ThisScan \in PastScans
<1>1. OnPages(posture) \in Facts
  BY PosturesArePaged, OnPagesType DEF Typed
<1>2. \A problem \in steady : problem.finding \in Fingerprints
  BY <1>1, ProblemsAreFindings DEF Typed
<1>3. (troubles = 0) \in BOOLEAN
  OBVIOUS
<1>4. /\ FindingsOf(steady) \subseteq Fingerprints
      /\ FindingsOf(Within(snapshot.assessed, steady)) \subseteq Fingerprints
  BY <1>2 DEF FindingsOf, Within
<1> QED
  BY <1>3, <1>4, NotesAreFingerprints DEF ThisScan, PastScans

(* The history after a scan: the scan behind the ones kept.                 *)
LEMMA PastAfter ==
  ASSUME Typed, Reconcile
  PROVE  /\ past' \in Seq(PastScans) /\ Len(past') <= ResolveAfter
         /\ Len(past') > 0 /\ past'[Len(past')] = ThisScan
         /\ \A i \in 1..Len(past') - 1 :
              /\ i + Len(past) + 1 - Len(past') \in DOMAIN past
              /\ past'[i] = past[i + Len(past) + 1 - Len(past')]
         /\ Len(past') <= Len(past) + 1
         /\ Len(past') = Len(past) + 1 \/ Len(past') = ResolveAfter
<1>0. /\ past \in Seq(PastScans) /\ Len(past) \in Nat
           /\ Len(past) <= ResolveAfter
      /\ ThisScan \in PastScans /\ ResolveAfter \in Nat /\ ResolveAfter > 0
  BY ThisScanType, ResolveAfterIsPositive DEF Typed
<1>1. past' = IF Len(past) < ResolveAfter THEN Append(past, ThisScan)
              ELSE Append(Tail(past), ThisScan)
  BY DEF Reconcile, ThisScan, NotesDue
<1> HIDE DEF ThisScan
<1>2. CASE Len(past) < ResolveAfter
  BY <1>0, <1>1, <1>2
<1>3. CASE ~ (Len(past) < ResolveAfter)
  <2>1. Len(past) = ResolveAfter /\ past # <<>>
    BY <1>0, <1>3
  <2>2. /\ Tail(past) \in Seq(PastScans) /\ Len(Tail(past)) = Len(past) - 1
        /\ \A i \in 1..Len(past) - 1 : Tail(past)[i] = past[i + 1]
    BY <1>0, <2>1
  <2>3. past' = Append(Tail(past), ThisScan)
    BY <1>1, <1>3
  <2> QED
    BY <1>0, <2>1, <2>2, <2>3
<1> QED
  BY <1>2, <1>3

(* Typed is preserved by every step.                                        *)
LEMMA TypedStep == Typed /\ [Next]_vars => Typed'
<1> SUFFICES ASSUME Typed, [Next]_vars PROVE Typed'
  OBVIOUS
<1>0. /\ Len(Calls) \in Nat /\ DOMAIN Calls = 1..Len(Calls)
      /\ provider \in Providers /\ next \in 0..(Len(Calls) + 1)
  BY CallTable DEF Typed
<1>1. CASE Begin
  <2>1. provider' = provider /\ posture' = posture
    BY <1>1 DEF Begin
  <2>2. Problems(OnPages(posture))' = Problems(OnPages(posture))
    BY <2>1 DEF Problems, OnPages
  <2>3. Len(Calls)' = Len(Calls) /\ snapshot' \in Snapshots
    BY <1>0, <1>1, BegunType DEF Begin, Calls
  <2>4. next' \in 0..(Len(Calls)' + 1)
    BY <1>0, <1>1, <2>3 DEF Begin
  <2> QED
    BY <1>1, <2>1, <2>2, <2>3, <2>4 DEF Typed, Begin
<1>2. CASE CallAnswers \/ CallFails
  <2>1. /\ next \in DOMAIN Calls /\ next' = next + 1
        /\ UNCHANGED <<provider, posture, row, steady, past>>
    BY <1>2 DEF CallAnswers, CallFails
  <2>2. snapshot' \in Snapshots
    BY <1>2, <2>1, SnapshotSteps, AnsweredType, FailedType
  <2>3. Problems(OnPages(posture))' = Problems(OnPages(posture))
    BY <2>1 DEF Problems, OnPages
  <2>4. next' \in 0..(Len(Calls)' + 1)
    BY <1>0, <2>1 DEF Calls
  <2> QED
    BY <2>1, <2>2, <2>3, <2>4 DEF Typed
<1>3. CASE ScanFails
  <2>1. /\ snapshot' \in Snapshots /\ next' = 0 /\ steady' = {}
        /\ UNCHANGED <<provider, posture, row, past>>
    BY <1>0, <1>3, BegunType DEF ScanFails
  <2>2. next' \in 0..(Len(Calls)' + 1)
    BY <1>0, <2>1 DEF Calls
  <2> QED
    BY <2>1, <2>2 DEF Typed
<1>4. CASE Reconcile
  <2>1. /\ snapshot' \in Snapshots /\ next' = 0 /\ steady' = {}
        /\ UNCHANGED <<provider, posture>>
        /\ row' = [fp \in Fingerprints |->
                     IF fp \in Evaluate(snapshot) THEN Reported
                     ELSE Missed(row[fp])]
    BY <1>0, <1>4, BegunType DEF Reconcile
  <2>2. next' \in 0..(Len(Calls)' + 1)
    BY <1>0, <2>1 DEF Calls
  <2>3. \A fp \in Fingerprints :
          /\ row'[fp] \in Rows
          /\ row'[fp].status = "open" => row'[fp].misses < ResolveAfter
    <3> SUFFICES ASSUME NEW fp \in Fingerprints
                 PROVE  /\ row'[fp] \in Rows
                        /\ row'[fp].status = "open" =>
                             row'[fp].misses < ResolveAfter
      OBVIOUS
    <3>1. row'[fp] = Reported \/ row'[fp] = Missed(row[fp])
      BY <2>1
    <3>2. /\ row[fp] \in Rows
          /\ row[fp].status = "open" => row[fp].misses < ResolveAfter
      BY DEF Typed
    <3>3. 0 < ResolveAfter
      BY ResolveAfterIsPositive
    <3> QED
      BY <3>1, <3>2, <3>3, RowsType
  <2>4. row' \in [Fingerprints -> Rows]
    BY <2>1, <2>3
  <2> QED
    BY <1>4, <2>1, <2>2, <2>3, <2>4, PastAfter DEF Typed
<1>5. CASE Change
  <2>1. Len(Calls)' = Len(Calls)
    BY <1>5 DEF Change, Calls
  <2>2. /\ provider' = provider /\ posture' \in Postures
        /\ steady' = steady \cap Problems(OnPages(posture'))
        /\ UNCHANGED <<next, snapshot, row, past>>
    BY <1>5 DEF Change
  <2>3. Problems(OnPages(posture))' = Problems(OnPages(posture'))
    BY <2>2 DEF Problems, OnPages
  <2>4. steady' \subseteq Problems(OnPages(posture))'
    BY <2>2, <2>3
  <2> QED
    BY <2>1, <2>2, <2>4 DEF Typed
<1>6. CASE UNCHANGED vars
  <2>1. /\ Len(Calls)' = Len(Calls)
        /\ Problems(OnPages(posture))' = Problems(OnPages(posture))
    BY <1>6 DEF vars, Calls, Problems, OnPages
  <2> QED
    BY <1>6, <2>1 DEF vars, Typed
<1> QED
  BY <1>1, <1>2, <1>3, <1>4, <1>5, <1>6 DEF Next

LEMMA TypedAlways == Spec => []Typed
<1>1. Init => Typed
  <2> SUFFICES ASSUME Init PROVE Typed
    OBVIOUS
  <2>1. /\ provider \in Providers /\ posture \in Postures
        /\ next = 0 /\ snapshot = Begun /\ steady = {}
        /\ row = [fp \in Fingerprints |-> Absent]
        /\ past = <<>>
    BY DEF Init
  <2>2. snapshot \in Snapshots /\ Len(Calls) \in Nat
    BY <2>1, BegunType, CallTable
  <2>3. Absent \in Rows /\ Absent.status # "open" /\ 0 <= ResolveAfter
    BY ResolveAfterIsPositive DEF Absent, Rows
  <2>4. past \in Seq(PastScans) /\ Len(past) <= ResolveAfter
    BY <2>1, <2>3
  <2>5. next \in 0..(Len(Calls) + 1)
    BY <2>1, <2>2
  <2> QED
    BY <2>1, <2>2, <2>3, <2>4, <2>5 DEF Typed
<1> QED
  BY <1>1, TypedStep, PTL DEF Spec

(* Every variable keeps its type, rows and snapshots included.              *)
THEOREM TypeCorrect == Spec => []TypeOK
<1>1. Typed => TypeOK
  BY DEF Typed, TypeOK, Snapshots
<1> QED
  BY <1>1, TypedAlways, PTL

-----------------------------------------------------------------------------
(***************************************************************************)
(* What was wrong since the scan began.  The calls see the tenant at       *)
(* different moments, so what they saw together may never have been: the   *)
(* facts a scan is left to judge are what its calls told so far and, for   *)
(* what none told yet, what the pages show now.  Problems that were there  *)
(* all along are problems of those facts, because every step of the scan,  *)
(* and every change of the tenant, only replaces parts of them by parts of *)
(* facts that have those problems too.                                     *)
(***************************************************************************)

Mix == [f \in Fields |-> IF Told(f) THEN snapshot.seen[f]
                         ELSE OnPages(posture)[f]]

Tracked ==
  /\ steady \subseteq Problems(Mix)
  /\ "admin_roles" \notin snapshot.assessed => snapshot.seen.admins = {}
  /\ "conditional_access" \in snapshot.assessed => provider = "m365"

\* m is made of p and q, field by field, each field taken whole.
LEMMA FieldsAreMixed ==
  ASSUME NEW m, NEW p, NEW q,
         \A f \in Fields \ {"spoofable"} : m[f] = p[f] \/ m[f] = q[f],
         \/ m["spoofable"] = p["spoofable"] \/ m["spoofable"] = q["spoofable"]
         \/ m["spoofable"] = TRUE
  PROVE  Mixed(m, p, q)
<1>1. /\ m.users \in {p.users, q.users}
      /\ m.enabled \in {p.enabled, q.enabled}
      /\ m.admins \in {p.admins, q.admins}
      /\ m.mfa \in {p.mfa, q.mfa}
      /\ m.stale \in {p.stale, q.stale}
      /\ m.weak \in {p.weak, q.weak}
      /\ m.grants \in {p.grants, q.grants}
      /\ m.incidents \in {p.incidents, q.incidents}
  BY DEF Fields
<1>2. (m.conditional <=> p.conditional) \/ (m.conditional <=> q.conditional)
  BY DEF Fields
<1>3. (m.legacy <=> p.legacy) \/ (m.legacy <=> q.legacy)
  BY DEF Fields
<1>4. (m.sharing <=> p.sharing) \/ (m.sharing <=> q.sharing)
  BY DEF Fields
<1>5. \/ (m.spoofable <=> p.spoofable) \/ (m.spoofable <=> q.spoofable)
      \/ m.spoofable
  OBVIOUS
<1> QED
  BY <1>1, <1>2, <1>3, <1>4, <1>5 DEF Mixed

(* Tracked holds again when what is wrong since then is wrong with two      *)
(* postures the new mixture is made of.                                     *)
LEMMA MixedIsTracked ==
  ASSUME provider' = provider, NEW p, NEW q,
         \A f \in Fields \ {"spoofable"} : Mix'[f] = p[f] \/ Mix'[f] = q[f],
         \/ Mix'["spoofable"] = p["spoofable"]
         \/ Mix'["spoofable"] = q["spoofable"]
         \/ Mix'["spoofable"] = TRUE,
         steady' \subseteq Problems(p) \cap Problems(q)
  PROVE  steady' \subseteq Problems(Mix)'
<1>1. PICK m : m = Mix'
  OBVIOUS
<1>2. Mixed(m, p, q)
  BY <1>1, FieldsAreMixed
<1>3. \A problem \in Problems(p) \cap Problems(q) : problem \in Problems(m)
  BY <1>2, MixedKeepsProblems
<1>4. Problems(Mix)' = Problems(m)
  BY <1>1 DEF Problems
<1> QED
  BY <1>3, <1>4

\* Nothing of the tenant is told when a scan begins.
LEMMA BegunTracked ==
  ASSUME snapshot' = Begun, next' \in {0, 1}, provider' = provider,
         steady' \subseteq Problems(OnPages(posture'))
  PROVE  Tracked'
<1>1. /\ snapshot'.assessed = {} /\ snapshot'.seen.admins = {}
  BY DEF Begun, Unread
<1>2. \A f \in Fields : ~ Told(f)'
  BY <1>1 DEF Told
<1>3. \A f \in Fields : Mix'[f] = OnPages(posture')[f]
  BY <1>2 DEF Mix, OnPages
<1>4. PICK p : p = OnPages(posture')
  OBVIOUS
<1>5. steady' \subseteq Problems(p) \cap Problems(p)
  BY <1>4
<1>6. steady' \subseteq Problems(Mix)'
  BY <1>3, <1>4, <1>5, MixedIsTracked DEF Fields
<1> QED
  BY <1>1, <1>6 DEF Tracked

\* A call that answers tells how the fields it covers are now.
LEMMA AnswerTracked ==
  ASSUME Typed, Tracked, CallAnswers
  PROVE  Tracked'
<1>0. /\ next \in DOMAIN Calls /\ next' = next + 1 /\ next \in Nat
      /\ provider' = provider /\ posture' = posture /\ steady' = steady
      /\ provider \in Providers
  BY CallTable DEF CallAnswers, Typed
<1> DEFINE C == Covers(Calls[next])
<1>1. snapshot' = Answered(Calls[next])
  BY SnapshotSteps
<1>2. /\ C.areas \subseteq Areas
      /\ next = 2 => {"users", "enabled"} \subseteq C.fields
      /\ \A f \in Fields \ {"users", "enabled"} :
           AreaOf[f] \in C.areas =>
             f \in C.fields \/ (f = "weak" /\ provider # "m365")
      /\ "admins" \in C.fields => "admin_roles" \in C.areas
      /\ "conditional_access" \in C.areas => provider = "m365"
  BY <1>0, CoversTellsFields
<1>3. /\ snapshot'.assessed = snapshot.assessed \cup C.areas
      /\ \A f \in Fields : snapshot'.seen[f] =
           IF f \in C.fields THEN OnPages(posture)[f] ELSE snapshot.seen[f]
  BY <1>1 DEF Answered
<1> HIDE DEF C
<1>4. \A f \in Fields : Mix'[f] = Mix[f] \/ Mix'[f] = OnPages(posture)[f]
  <2> SUFFICES ASSUME NEW f \in Fields
               PROVE  Mix'[f] = Mix[f] \/ Mix'[f] = OnPages(posture)[f]
    OBVIOUS
  <2>0. OnPages(posture)' = OnPages(posture)
    BY <1>0 DEF OnPages
  <2>1. /\ Mix[f] = IF Told(f) THEN snapshot.seen[f] ELSE OnPages(posture)[f]
        /\ Mix'[f] = IF Told(f)' THEN snapshot'.seen[f]
                     ELSE OnPages(posture)[f]
    BY <2>0 DEF Mix
  <2>2. Told(f)' /\ ~ Told(f) => f \in C.fields
    <3>1. CASE f \in {"users", "enabled"}
      BY <1>0, <1>2, <3>1 DEF Told
    <3>2. CASE f \notin {"users", "enabled"}
      BY <1>0, <1>2, <1>3, <3>2 DEF Told
    <3> QED
      BY <3>1, <3>2
  <2> QED
    BY <1>3, <2>1, <2>2
<1>5. steady' \subseteq Problems(Mix)'
  <2>1. PICK p, q : p = Mix /\ q = OnPages(posture)
    OBVIOUS
  <2>2. steady' \subseteq Problems(p) \cap Problems(q)
    BY <1>0, <2>1 DEF Typed, Tracked
  <2>3. \A f \in Fields : Mix'[f] = p[f] \/ Mix'[f] = q[f]
    BY <1>4, <2>1
  <2> QED
    BY <1>0, <2>2, <2>3, MixedIsTracked DEF Fields
<1>6. "admin_roles" \notin snapshot'.assessed => snapshot'.seen.admins = {}
  <2>1. "admins" \in Fields
    BY DEF Fields
  <2>2. snapshot'.seen["admins"] = IF "admins" \in C.fields
                                   THEN OnPages(posture)["admins"]
                                   ELSE snapshot.seen["admins"]
    BY <1>3, <2>1
  <2> QED
    BY <1>2, <1>3, <2>2 DEF Tracked
<1>7. "conditional_access" \in snapshot'.assessed => provider' = "m365"
  BY <1>0, <1>2, <1>3 DEF Tracked
<1> QED
  BY <1>5, <1>6, <1>7 DEF Tracked

\* A call that fails tells nothing, or that there are no DNS records.
LEMMA FailureTracked ==
  ASSUME Typed, Tracked, CallFails
  PROVE  Tracked'
<1>0. /\ next \in DOMAIN Calls /\ next' = next + 1 /\ next \in Nat
      /\ provider' = provider /\ posture' = posture /\ steady' = steady
      /\ provider \in Providers /\ next # 2
  BY CallTable DEF CallFails, Typed, Essential
<1>1. snapshot' = Failed(Calls[next])
  BY SnapshotSteps
<1>2. PICK s \in Facts : s = snapshot.seen
  BY DEF Typed, Snapshots
<1>3. \/ /\ snapshot'.seen = s /\ snapshot'.assessed = snapshot.assessed
      \/ /\ snapshot'.seen = [s EXCEPT !.spoofable = TRUE]
         /\ snapshot'.assessed = snapshot.assessed \cup {"email_auth"}
  <2>1. Calls[next] = "dns" => Covers(Calls[next]).areas = {"email_auth"}
    BY <1>0, M365Table, GWSTable DEF Call
  <2> QED
    BY <1>1, <1>2, <2>1 DEF Failed
<1>4. /\ \A f \in Fields \ {"spoofable"} : snapshot'.seen[f] = snapshot.seen[f]
      /\ \/ snapshot'.seen["spoofable"] = snapshot.seen["spoofable"]
         \/ snapshot'.seen["spoofable"] = TRUE
      /\ snapshot'.seen.admins = snapshot.seen.admins
      /\ snapshot'.assessed = snapshot.assessed \/
           snapshot'.seen["spoofable"] = TRUE
  <2>1. CASE snapshot'.seen = s /\ snapshot'.assessed = snapshot.assessed
    BY <1>2, <2>1
  <2>2. CASE /\ snapshot'.seen = [s EXCEPT !.spoofable = TRUE]
             /\ snapshot'.assessed = snapshot.assessed \cup {"email_auth"}
    <3>1. /\ [s EXCEPT !.spoofable = TRUE]["spoofable"] = TRUE
          /\ \A f \in Fields \ {"spoofable"} :
               [s EXCEPT !.spoofable = TRUE][f] = s[f]
      BY <1>2 DEF Facts, Fields
    <3> QED
      BY <1>2, <2>2, <3>1 DEF Fields
  <2> QED
    BY <1>3, <2>1, <2>2
<1>5. \A f \in Fields \ {"spoofable"} : Told(f)' <=> Told(f)
  BY <1>0, <1>3 DEF Told, AreaOf, Fields
<1>9. OnPages(posture)' = OnPages(posture)
  BY <1>0 DEF OnPages
<1>6. \A f \in Fields \ {"spoofable"} : Mix'[f] = Mix[f]
  BY <1>4, <1>5, <1>9 DEF Mix
<1>7. Mix'["spoofable"] = Mix["spoofable"] \/ Mix'["spoofable"] = TRUE
  <2>1. /\ Mix["spoofable"] = IF Told("spoofable")
             THEN snapshot.seen["spoofable"]
             ELSE OnPages(posture)["spoofable"]
        /\ Mix'["spoofable"] = IF Told("spoofable")'
             THEN snapshot'.seen["spoofable"]
             ELSE OnPages(posture)["spoofable"]
    BY <1>9 DEF Mix, Fields
  <2>2. snapshot'.assessed = snapshot.assessed =>
          (Told("spoofable")' <=> Told("spoofable"))
    BY <1>0 DEF Told
  <2>3. snapshot'.assessed # snapshot.assessed => Told("spoofable")'
    BY <1>3 DEF Told, AreaOf
  <2> QED
    BY <1>4, <2>1, <2>2, <2>3
<1>8. steady' \subseteq Problems(Mix)'
  <2>1. PICK p : p = Mix
    OBVIOUS
  <2>2. steady' \subseteq Problems(p) \cap Problems(p)
    BY <1>0, <2>1 DEF Tracked
  <2> QED
    BY <1>0, <1>6, <1>7, <2>1, <2>2, MixedIsTracked
<1> QED
  BY <1>0, <1>3, <1>4, <1>8 DEF Tracked

\* A change of the tenant shows in what is not told yet.
LEMMA ChangeTracked ==
  ASSUME Typed, Tracked, Change
  PROVE  Tracked'
<1>0. /\ UNCHANGED <<provider, next, snapshot>>
      /\ steady' = steady \cap Problems(OnPages(posture'))
      /\ OnPages(posture)' = OnPages(posture')
  BY DEF Change, OnPages
<1>1. \A f \in Fields : Told(f)' <=> Told(f)
  BY <1>0 DEF Told
<1>2. \A f \in Fields : Mix'[f] = Mix[f] \/ Mix'[f] = OnPages(posture')[f]
  BY <1>0, <1>1 DEF Mix
<1>3. PICK p, q : p = Mix /\ q = OnPages(posture')
  OBVIOUS
<1>4. steady' \subseteq Problems(p) \cap Problems(q)
  BY <1>0, <1>3 DEF Tracked
<1>5. \A f \in Fields : Mix'[f] = p[f] \/ Mix'[f] = q[f]
  BY <1>2, <1>3
<1>6. steady' \subseteq Problems(Mix)'
  BY <1>0, <1>4, <1>5, MixedIsTracked DEF Fields
<1> QED
  BY <1>0, <1>6 DEF Tracked

LEMMA TrackedStep == Typed /\ Tracked /\ [Next]_vars => Tracked'
<1> SUFFICES ASSUME Typed, Tracked, [Next]_vars PROVE Tracked'
  OBVIOUS
<1>1. CASE Begin
  <2>1. /\ snapshot' = Begun /\ next' \in {0, 1} /\ provider' = provider
        /\ steady' \subseteq Problems(OnPages(posture'))
    BY <1>1 DEF Begin
  <2> QED
    BY <2>1, BegunTracked
<1>2. CASE ScanFails \/ Reconcile
  <2>1. /\ snapshot' = Begun /\ next' \in {0, 1} /\ provider' = provider
        /\ steady' \subseteq Problems(OnPages(posture'))
    BY <1>2 DEF ScanFails, Reconcile
  <2> QED
    BY <2>1, BegunTracked
<1>3. CASE UNCHANGED vars
  <2>1. UNCHANGED <<provider, posture, next, snapshot, steady>>
    BY <1>3 DEF vars
  <2>2. Mix' = Mix
    BY <2>1 DEF Mix, Told, OnPages
  <2>3. Problems(Mix)' = Problems(Mix)
    BY <2>1, <2>2 DEF Problems
  <2> QED
    BY <2>1, <2>3 DEF Tracked
<1> QED
  BY <1>1, <1>2, <1>3, AnswerTracked, FailureTracked, ChangeTracked DEF Next

(* What the scan read of what was wrong all along, it finds.                *)
LEMMA ReadIsFound ==
  ASSUME Typed, Tracked, next > 2
  PROVE  FindingsOf(Within(snapshot.assessed,
    steady)) \subseteq Evaluate(snapshot)
<1> SUFFICES ASSUME NEW problem \in steady,
      problem.areas \subseteq snapshot.assessed
             PROVE  problem.finding \in Evaluate(snapshot)
  BY DEF FindingsOf, Within
<1>1. PICK k, x : /\ k \in Kinds /\ Shown(Mix, k, x)
                  /\ problem = ProblemOf(k, x)
  BY ProblemsAreShown DEF Tracked
<1>2. AreasOf(k) \subseteq snapshot.assessed /\ problem.finding = <<k,
                                                                    About(k,
                                                                      x)>>
  BY <1>1 DEF ProblemOf
<1>3. /\ Mix.users = snapshot.seen.users
      /\ Mix.enabled = snapshot.seen.enabled
      /\ \A f \in Fields \ {"users", "enabled", "weak"} :
           AreaOf[f] \in snapshot.assessed => Mix[f] = snapshot.seen[f]
      /\ provider = "m365" /\ "signin" \in snapshot.assessed =>
           Mix.weak = snapshot.seen.weak
  BY DEF Mix, Told, Fields, AreaOf
<1>4. Shown(snapshot.seen, k, x)
  <2> USE DEF AreasOf, AreaOf, Fields
  <2>1. CASE k = "admin-mfa"
    BY <1>1, <1>2, <1>3, <2>1 DEF Shown
  <2>2. CASE k = "user-mfa"
    <3>1. Mix.admins = snapshot.seen.admins \/ snapshot.seen.admins = {}
      BY <1>3 DEF Tracked
    <3> QED
      BY <1>1, <1>2, <1>3, <2>2, <3>1 DEF Shown
  <2>3. CASE k = "admin-sprawl"
    BY <1>1, <1>2, <1>3, <2>3 DEF Shown
  <2>4. CASE k = "inactive-user"
    BY <1>1, <1>2, <1>3, <2>4 DEF Shown
  <2>5. CASE k = "signin"
    BY <1>1, <1>2, <1>3, <2>5 DEF Shown
  <2>6. CASE k = "signin-admin-1fa"
    BY <1>1, <1>2, <1>3, <2>6, ProvidersAreKnown DEF Shown, Typed
  <2>7. CASE k = "risky-oauth"
    BY <1>1, <1>2, <1>3, <2>7 DEF Shown
  <2>8. CASE k = "no-conditional-access"
    BY <1>1, <1>2, <1>3, <2>8 DEF Shown
  <2>9. CASE k = "legacy-auth"
    BY <1>1, <1>2, <1>3, <2>9 DEF Shown
  <2>10. CASE k = "external-sharing"
    BY <1>1, <1>2, <1>3, <2>10 DEF Shown
  <2>11. CASE k = "email-auth"
    BY <1>1, <1>2, <1>3, <2>11 DEF Shown
  <2> QED
    BY <1>1, <2>1, <2>2, <2>3, <2>4, <2>5, <2>6, <2>7, <2>8, <2>9, <2>10,
       <2>11 DEF Kinds
<1>5. IsFiniteSet(snapshot.seen.admins)
  <2>1. snapshot.seen.admins \subseteq Users
    BY DEF Typed, Snapshots, Facts
  <2> QED
    BY <2>1, UsersAreCounted, FS_Subset
<1>6. k = "no-conditional-access" => provider = "m365"
  BY <1>2 DEF AreasOf, Tracked
<1> QED
  BY <1>1, <1>2, <1>4, <1>5, <1>6, ShownIsFound DEF Typed

(* What a scan read as wrong was reported then, and has missed at most the  *)
(* scans since.                                                             *)
Kept ==
  \A i \in DOMAIN past : \A fp \in past[i].read :
    /\ fp \in Fingerprints
    /\ row[fp].status = "open"
    /\ row[fp].misses <= Len(past) - i

\* The row of a fingerprint after a scan.
LEMMA RowAfter ==
  ASSUME Typed, Reconcile, NEW fp \in Fingerprints
  PROVE  /\ fp \in Evaluate(snapshot) =>
              row'[fp].status = "open" /\ row'[fp].misses = 0
         /\ fp \notin Evaluate(snapshot) => row'[fp] = Missed(row[fp])
         /\ \A k \in Nat : /\ row[fp].status = "open"
                           /\ row[fp].misses <= k
                           /\ k + 1 < ResolveAfter
              => row'[fp].status = "open" /\ row'[fp].misses <= k + 1
<1>1. row'[fp] = IF fp \in Evaluate(snapshot)
        THEN Reported ELSE Missed(row[fp])
  BY DEF Reconcile
<1>2. /\ row[fp] \in Rows
      /\ row[fp].status = "open" => row[fp].misses < ResolveAfter
      /\ row[fp].misses \in Nat /\ ResolveAfter \in Nat
  BY ResolveAfterIsPositive DEF Typed, Rows
<1>3. Reported.status = "open" /\ Reported.misses = 0
  BY DEF Reported
<1>4. ASSUME NEW k \in Nat, row[fp].status = "open", row[fp].misses <= k,
             k + 1 < ResolveAfter
      PROVE  row'[fp].status = "open" /\ row'[fp].misses <= k + 1
  <2>1. CASE fp \in Evaluate(snapshot)
    BY <1>1, <1>3, <2>1
  <2>2. CASE fp \notin Evaluate(snapshot)
    <3>1. row[fp].misses + 1 < ResolveAfter
      BY <1>2, <1>4
    <3>2. row'[fp].status = "open" /\ row'[fp].misses = row[fp].misses + 1
      BY <1>1, <1>2, <1>4, <2>2, <3>1, RowsType
    <3> QED
      BY <1>2, <1>4, <3>2
  <2> QED
    BY <2>1, <2>2
<1> QED
  BY <1>1, <1>3, <1>4

LEMMA KeptStep == Typed /\ Tracked /\ Kept /\ [Next]_vars => Kept'
<1> SUFFICES ASSUME Typed, Tracked, Kept, [Next]_vars PROVE Kept'
  OBVIOUS
<1>1. CASE UNCHANGED <<row, past>>
  BY <1>1 DEF Kept
<1>2. CASE Reconcile
  <2>0. /\ Len(past) \in Nat /\ Len(past) <= ResolveAfter
        /\ ResolveAfter \in Nat /\ ResolveAfter > 0
        /\ past' \in Seq(PastScans) /\ Len(past') <= ResolveAfter
        /\ Len(past') > 0 /\ past'[Len(past')] = ThisScan
        /\ \A i \in 1..Len(past') - 1 :
             /\ i + Len(past) + 1 - Len(past') \in DOMAIN past
             /\ past'[i] = past[i + Len(past) + 1 - Len(past')]
    BY <1>2, PastAfter, ResolveAfterIsPositive DEF Typed
  <2>1. Len(past') \in Nat /\ DOMAIN past' = 1..Len(past')
    BY <2>0
  <2>2. next > 2
    <3>1. Len(Calls) \in {4, 10}
      BY CallTable DEF Typed
    <3>2. next = Len(Calls) + 1
      BY <1>2 DEF Reconcile
    <3> QED
      BY <3>1, <3>2
  <2> SUFFICES ASSUME NEW i \in 1..Len(past'), NEW fp \in past'[i].read
               PROVE  /\ fp \in Fingerprints
                      /\ row'[fp].status = "open"
                      /\ row'[fp].misses <= Len(past') - i
    BY <2>1 DEF Kept
  <2>3. CASE i = Len(past')
    <3>1. fp \in FindingsOf(Within(snapshot.assessed, steady))
      BY <2>0, <2>3 DEF ThisScan
    <3>2. fp \in Evaluate(snapshot)
      BY <2>2, <3>1, ReadIsFound
    <3>3. fp \in Fingerprints
      BY <2>0, <2>3, ThisScanType DEF PastScans
    <3>4. row'[fp].status = "open" /\ row'[fp].misses = 0
      BY <1>2, <3>2, <3>3, RowAfter
    <3> QED
      BY <2>1, <2>3, <3>3, <3>4
  <2>4. CASE i # Len(past')
    <3>1. PICK j \in DOMAIN past :
            j = i + Len(past) + 1 - Len(past') /\ past'[i] = past[j]
      <4>1. i \in 1..Len(past') - 1
        BY <2>1, <2>4
      <4> QED
        BY <2>0, <4>1
    <3>2. /\ fp \in Fingerprints
          /\ row[fp].status = "open"
          /\ row[fp].misses <= Len(past) - j
      BY <3>1 DEF Kept
    <3>3. PICK k \in Nat : k = Len(past) - j /\ k + 1 = Len(past') - i
      <4>1. j \in 1..Len(past)
        BY <3>1 DEF Typed
      <4>2. Len(past) - j \in Nat
        BY <2>0, <4>1
      <4>3. Len(past) - j + 1 = Len(past') - i
        BY <2>0, <2>1, <3>1, <4>1
      <4> QED
        BY <4>2, <4>3
    <3>4. k + 1 < ResolveAfter
      BY <2>0, <2>1, <3>3
    <3>5. row'[fp].status = "open" /\ row'[fp].misses <= k + 1
      BY <1>2, <3>2, <3>3, <3>4, RowAfter
    <3> QED
      BY <3>2, <3>3, <3>5
  <2> QED
    BY <2>3, <2>4
<1> QED
  BY <1>1, <1>2 DEF Next, vars, Begin, CallAnswers, CallFails, ScanFails,
     Change

(* What the pages showed wrong throughout one of the last ResolveAfter      *)
(* scans, in an area that scan read, is open, however the tenant and its    *)
(* pages changed between the calls of the scans and whichever calls failed. *)
THEOREM ReadProblemsAlwaysOpen == Spec => []ReadProblemsStayOpen
<1>1. Init => Tracked /\ Kept
  <2> SUFFICES ASSUME Init PROVE Tracked /\ Kept
    OBVIOUS
  <2>1. past = <<>> /\ snapshot = Begun /\ steady = {}
    BY DEF Init
  <2>2. snapshot.assessed = {} /\ snapshot.seen.admins = {}
    BY <2>1 DEF Begun, Unread
  <2>3. DOMAIN past = {}
    BY <2>1
  <2> QED
    BY <2>1, <2>2, <2>3 DEF Tracked, Kept
<1>2. Kept => ReadProblemsStayOpen
  BY DEF Kept, ReadProblemsStayOpen, Open
<1> QED
  BY <1>1, <1>2, TypedAlways, TrackedStep, KeptStep, PTL DEF Spec

-----------------------------------------------------------------------------
(***************************************************************************)
(* Scans nothing disturbs.  Such a scan finds what the pages show wrong in *)
(* the areas it read, the notes due, and nothing else; as many of them as  *)
(* it takes to resolve a finding leave nothing else open.                  *)
(***************************************************************************)

\* A finite set has subsets of every smaller size.
LEMMA SomeOfThem ==
  ASSUME NEW S, IsFiniteSet(S), NEW n \in Nat, n <= Cardinality(S)
  PROVE  \E T \in SUBSET S : Cardinality(T) = n
<1>1. Cardinality(S) \in Nat /\ ExistsBijection(1..Cardinality(S), S)
  BY FS_CardinalityType
<1>2. PICK f \in Bijection(1..Cardinality(S), S) : TRUE
  BY <1>1 DEF ExistsBijection
<1>3. /\ f \in [1..Cardinality(S) -> S]
      /\ \A i, j \in 1..Cardinality(S) : f[i] = f[j] => i = j
  BY <1>2 DEF Bijection, Injection, IsInjective
<1>4. 1..n \subseteq 1..Cardinality(S)
  BY <1>1
<1> DEFINE T == {f[i] : i \in 1..n}
           g == [i \in 1..n |-> f[i]]
<1>5. T \in SUBSET S
  BY <1>3, <1>4
<1>6. g \in Bijection(1..n, T)
  <2>1. g \in [1..n -> T]
    OBVIOUS
  <2>2. \A i, j \in 1..n : g[i] = g[j] => i = j
    BY <1>3, <1>4
  <2>3. \A t \in T : \E i \in 1..n : g[i] = t
    OBVIOUS
  <2> HIDE DEF g, T
  <2> QED
    BY <2>1, <2>2, <2>3 DEF Bijection, Injection, IsInjective, Surjection
<1>7. ExistsBijection(1..n, T)
  BY <1>6 DEF ExistsBijection
<1> HIDE DEF T
<1>8. Cardinality(T) = n
  BY <1>7, FS_CountingElements
<1> QED
  BY <1>5, <1>8

(* Whatever Evaluate finds but the notes is a problem shown by what the     *)
(* scan saw, in areas it assessed.                                          *)
LEMMA FoundIsShown ==
  ASSUME NEW s, NEW fp \in Evaluate(s),
         fp \notin Each("manual-review", s.notes),
         IsFiniteSet(s.seen.admins), provider = "gws" => s.seen.weak = {}
  PROVE  \E k \in Kinds : \E x :
           /\ Shown(s.seen, k, x) /\ AreasOf(k) \subseteq s.assessed
           /\ fp = <<k, About(k, x)>>
<1>1. CASE fp \in checkAdminMFA(s)
  <2>1. PICK x \in (s.seen.enabled \cap s.seen.admins) \ s.seen.mfa :
          fp = <<"admin-mfa", x>> /\ {"mfa",
            "admin_roles"} \subseteq s.assessed
    BY <1>1 DEF checkAdminMFA, Judged, Each
  <2>2. /\ Shown(s.seen, "admin-mfa", x)
        /\ AreasOf("admin-mfa") \subseteq s.assessed
        /\ fp = <<"admin-mfa", About("admin-mfa", x)>>
    BY <2>1 DEF Shown, AreasOf, About
  <2> QED
    BY <2>2 DEF Kinds
<1>2. CASE fp \in checkUserMFA(s)
  <2>1. /\ fp = <<"user-mfa", "tenant">> /\ "mfa" \in s.assessed
        /\ ~ (s.seen.enabled \subseteq s.seen.admins \cup s.seen.mfa)
    BY <1>2 DEF checkUserMFA, Judged, One
  <2>2. PICK x \in s.seen.enabled : x \notin s.seen.admins
          /\ x \notin s.seen.mfa
    BY <2>1
  <2>3. /\ Shown(s.seen, "user-mfa", x)
        /\ AreasOf("user-mfa") \subseteq s.assessed
        /\ fp = <<"user-mfa", About("user-mfa", x)>>
    BY <2>1, <2>2 DEF Shown, AreasOf, About
  <2> QED
    BY <2>3 DEF Kinds
<1>3. CASE fp \in checkAdminSprawl(s)
  <2> DEFINE admins == s.seen.enabled \cap s.seen.admins
  <2>1. /\ fp = <<"admin-sprawl", "tenant">> /\ "admin_roles" \in s.assessed
        /\ Cardinality(admins) > AdminSprawlThreshold
    BY <1>3 DEF checkAdminSprawl, Judged, One
  <2>2. IsFiniteSet(admins)
    BY FS_Subset
  <2>3. /\ AdminSprawlThreshold + 1 \in Nat
        /\ AdminSprawlThreshold + 1 <= Cardinality(admins)
    BY <2>1, <2>2, FS_CardinalityType, UsersAreCounted
  <2>4. PICK x \in SUBSET admins : Cardinality(x) = AdminSprawlThreshold + 1
    <3> HIDE DEF admins
    <3> QED
      BY <2>2, <2>3, SomeOfThem
  <2>5. /\ Shown(s.seen, "admin-sprawl", x)
        /\ AreasOf("admin-sprawl") \subseteq s.assessed
        /\ fp = <<"admin-sprawl", About("admin-sprawl", x)>>
    BY <2>1, <2>4 DEF Shown, AreasOf, About
  <2> QED
    BY <2>5 DEF Kinds
<1>4. CASE fp \in checkInactiveUsers(s)
  <2>1. /\ fp = <<"inactive-user", "tenant">> /\ "inactive_user" \in s.assessed
        /\ s.seen.enabled \cap s.seen.stale # {}
    BY <1>4 DEF checkInactiveUsers, Judged, One
  <2>2. PICK x \in s.seen.enabled : x \in s.seen.stale
    BY <2>1
  <2>3. /\ Shown(s.seen, "inactive-user", x)
        /\ AreasOf("inactive-user") \subseteq s.assessed
        /\ fp = <<"inactive-user", About("inactive-user", x)>>
    BY <2>1, <2>2 DEF Shown, AreasOf, About
  <2> QED
    BY <2>3 DEF Kinds
<1>5. CASE fp \in checkSignIns(s)
  <2>1. "signin" \in s.assessed
    BY <1>5 DEF checkSignIns, Judged
  <2>2. CASE fp \in Each("signin", s.seen.incidents)
    <3>1. PICK x \in s.seen.incidents : fp = <<"signin", x>>
      BY <2>2 DEF Each
    <3>2. /\ Shown(s.seen, "signin", x)
          /\ AreasOf("signin") \subseteq s.assessed
          /\ fp = <<"signin", About("signin", x)>>
      BY <2>1, <3>1 DEF Shown, AreasOf, About
    <3> QED
      BY <3>2 DEF Kinds
  <2>3. CASE fp \in checkAdminSingleFactor(s)
    <3>1. PICK x \in s.seen.users \cap s.seen.admins \cap s.seen.weak :
            fp = <<"signin-admin-1fa", x>> /\ "admin_roles" \in s.assessed
      BY <2>3 DEF checkAdminSingleFactor, Judged, Each
    <3>2. /\ Shown(s.seen, "signin-admin-1fa", x)
          /\ AreasOf("signin-admin-1fa") \subseteq s.assessed
          /\ fp = <<"signin-admin-1fa", About("signin-admin-1fa", x)>>
      BY <2>1, <3>1 DEF Shown, AreasOf, About
    <3> QED
      BY <3>2 DEF Kinds
  <2> QED
    BY <1>5, <2>2, <2>3 DEF checkSignIns, Judged
<1>6. CASE fp \in checkLegacyAuth(s)
  <2>1. /\ Shown(s.seen, "legacy-auth", "tenant")
        /\ AreasOf("legacy-auth") \subseteq s.assessed
        /\ fp = <<"legacy-auth", About("legacy-auth", "tenant")>>
    BY <1>6 DEF checkLegacyAuth, Judged, One, Shown, AreasOf, About
  <2> QED
    BY <2>1 DEF Kinds
<1>7. CASE fp \in checkOAuth(s)
  <2>1. PICK x \in s.seen.grants :
          fp = <<"risky-oauth", x>> /\ "oauth" \in s.assessed
    BY <1>7 DEF checkOAuth, Judged, Each
  <2>2. /\ Shown(s.seen, "risky-oauth", x)
        /\ AreasOf("risky-oauth") \subseteq s.assessed
        /\ fp = <<"risky-oauth", About("risky-oauth", x)>>
    BY <2>1 DEF Shown, AreasOf, About
  <2> QED
    BY <2>2 DEF Kinds
<1>8. CASE fp \in checkSharing(s)
  <2>1. /\ Shown(s.seen, "external-sharing", "tenant")
        /\ AreasOf("external-sharing") \subseteq s.assessed
        /\ fp = <<"external-sharing", About("external-sharing", "tenant")>>
    BY <1>8 DEF checkSharing, Judged, One, Shown, AreasOf, About
  <2> QED
    BY <2>1 DEF Kinds
<1>9. CASE fp \in checkEmailAuth(s)
  <2>1. /\ Shown(s.seen, "email-auth", "tenant")
        /\ AreasOf("email-auth") \subseteq s.assessed
        /\ fp = <<"email-auth", About("email-auth", "tenant")>>
    BY <1>9 DEF checkEmailAuth, Judged, One, Shown, AreasOf, About
  <2> QED
    BY <2>1 DEF Kinds
<1>10. CASE fp \in checkConditionalAccess(s)
  <2>1. /\ Shown(s.seen, "no-conditional-access", "tenant")
        /\ AreasOf("no-conditional-access") \subseteq s.assessed
        /\ fp = <<"no-conditional-access", About("no-conditional-access",
                  "tenant")>>
    BY <1>10 DEF checkConditionalAccess, Judged, One, Shown, AreasOf, About
  <2> QED
    BY <2>1 DEF Kinds
<1> QED
  BY <1>1, <1>2, <1>3, <1>4, <1>5, <1>6, <1>7, <1>8, <1>9, <1>10
     DEF Evaluate, notesToFindings

\* Nothing disturbed the scan so far: it knows what the pages show.
Exact ==
  /\ steady = Problems(OnPages(posture))
  /\ \A f \in Fields : Told(f) => snapshot.seen[f] = OnPages(posture)[f]
  /\ \A n \in 1..next - 1 : Covers(Calls[n]).areas \subseteq snapshot.assessed
  /\ snapshot.notes =
       StandingNotes \cup
         (IF next > Len(Calls) THEN SigninNotes(posture) ELSE {})

Undisturbed ==
  /\ troubles \in Nat
  /\ provider = "gws" => snapshot.seen.weak = {}
  /\ next > 0 /\ troubles = 0 => Exact

\* Google's calls do not tell of single factors.
LEMMA WeakIsUntold ==
  ASSUME Typed, Undisturbed, [Next]_vars
  PROVE  provider' = "gws" => snapshot'.seen.weak = {}
<1>0. provider \in Providers
  BY DEF Typed
<1>1. CASE UNCHANGED <<provider, snapshot>>
  BY <1>1 DEF Undisturbed
<1>2. CASE snapshot' = Begun
  BY <1>2 DEF Begun, Unread
<1>3. CASE CallAnswers
  <2>1. next \in DOMAIN Calls /\ provider' = provider
    BY <1>3 DEF CallAnswers
  <2>2. snapshot'.seen["weak"] =
          IF "weak" \in Covers(Calls[next]).fields
          THEN OnPages(posture)["weak"] ELSE snapshot.seen["weak"]
    BY <1>3, SnapshotSteps DEF Answered, Fields
  <2>3. provider = "gws" => "weak" \notin Covers(Calls[next]).fields
    BY <1>0, <2>1, CallTable, GWSTable DEF Call
  <2> QED
    BY <2>1, <2>2, <2>3 DEF Undisturbed
<1>4. CASE CallFails
  <2>1. provider' = provider
    BY <1>4 DEF CallFails
  <2>2. PICK s \in Facts : s = snapshot.seen
    BY DEF Typed, Snapshots
  <2>3. snapshot'.seen \in {s, [s EXCEPT !.spoofable = TRUE]}
    BY <1>4, <2>2, SnapshotSteps DEF Failed
  <2>4. [s EXCEPT !.spoofable = TRUE].weak = s.weak
    BY <2>2 DEF Facts
  <2> QED
    BY <2>1, <2>2, <2>3, <2>4 DEF Undisturbed
<1> QED
  BY <1>1, <1>2, <1>3, <1>4
     DEF Next, vars, Begin, ScanFails, Reconcile, Change

\* The sign-ins are read last.
LEMMA SignInsAreLast ==
  ASSUME provider \in Providers, NEW n \in DOMAIN Calls
  PROVE  /\ Len(Calls) \in Nat /\ Len(Calls) > 2
         /\ n \in Nat /\ n > 0 /\ n <= Len(Calls)
         /\ Calls[n] = "signins" <=> n = Len(Calls)
<1>1. CASE provider = "m365"
  <2>1. /\ Len(Calls) = 10 /\ n \in 1..10
    BY <1>1, CallTable
  <2>2. n \in {1, 2, 3, 4, 5, 6, 7, 8, 9, 10}
    BY <2>1
  <2>3. n = 1 => Calls[n] # "signins"
    BY <1>1, CallTable
  <2>4. n = 2 => Calls[n] # "signins"
    BY <1>1, CallTable
  <2>5. n = 3 => Calls[n] # "signins"
    BY <1>1, CallTable
  <2>6. n = 4 => Calls[n] # "signins"
    BY <1>1, CallTable
  <2>7. n = 5 => Calls[n] # "signins"
    BY <1>1, CallTable
  <2>8. n = 6 => Calls[n] # "signins"
    BY <1>1, CallTable
  <2>9. n = 7 => Calls[n] # "signins"
    BY <1>1, CallTable
  <2>10. n = 8 => Calls[n] # "signins"
    BY <1>1, CallTable
  <2>11. n = 9 => Calls[n] # "signins"
    BY <1>1, CallTable
  <2>12. n = 10 => Calls[n] = "signins"
    BY <1>1, CallTable
  <2> QED
    BY <2>1, <2>2, <2>3, <2>4, <2>5, <2>6, <2>7, <2>8, <2>9, <2>10, <2>11,
       <2>12
<1>2. CASE provider # "m365"
  <2>1. /\ Len(Calls) = 4 /\ n \in 1..4
    BY <1>2, CallTable
  <2>2. n \in {1, 2, 3, 4}
    BY <2>1
  <2>3. n = 1 => Calls[n] # "signins"
    BY <1>2, CallTable
  <2>4. n = 2 => Calls[n] # "signins"
    BY <1>2, CallTable
  <2>5. n = 3 => Calls[n] # "signins"
    BY <1>2, CallTable
  <2>6. n = 4 => Calls[n] = "signins"
    BY <1>2, CallTable
  <2> QED
    BY <2>1, <2>2, <2>3, <2>4, <2>5, <2>6
<1> QED
  BY <1>1, <1>2

LEMMA AnswerExact ==
  ASSUME Typed, Exact, CallAnswers
  PROVE  Exact'
<1>0. /\ next \in DOMAIN Calls /\ next' = next + 1 /\ next \in Nat
      /\ provider' = provider /\ posture' = posture /\ steady' = steady
      /\ provider \in Providers
  BY CallTable DEF CallAnswers, Typed
<1> DEFINE C == Covers(Calls[next])
<1>1. snapshot' = Answered(Calls[next])
  BY SnapshotSteps
<1>2. /\ next = 2 => {"users", "enabled"} \subseteq C.fields
      /\ \A f \in Fields \ {"users", "enabled"} :
           AreaOf[f] \in C.areas =>
             f \in C.fields \/ (f = "weak" /\ provider # "m365")
  BY <1>0, CoversTellsFields
<1>3. /\ snapshot'.assessed = snapshot.assessed \cup C.areas
      /\ snapshot'.notes =
           snapshot.notes \cup (IF Calls[next] = "signins"
             THEN SigninNotes(posture) ELSE {})
      /\ \A f \in Fields : snapshot'.seen[f] =
           IF f \in C.fields THEN OnPages(posture)[f] ELSE snapshot.seen[f]
  BY <1>1 DEF Answered
<1>4. steady' = Problems(OnPages(posture))'
  BY <1>0 DEF Problems, OnPages, Exact
<1>5. \A f \in Fields : Told(f)' => snapshot'.seen[f] = OnPages(posture)'[f]
  <2> HIDE DEF C
  <2>0. OnPages(posture)' = OnPages(posture)
    BY <1>0 DEF OnPages
  <2> SUFFICES ASSUME NEW f \in Fields, Told(f)'
               PROVE  snapshot'.seen[f] = OnPages(posture)[f]
    BY <2>0
  <2>1. ~ Told(f) => f \in C.fields
    <3>1. CASE f \in {"users", "enabled"}
      BY <1>0, <1>2, <3>1 DEF Told
    <3>2. CASE f \notin {"users", "enabled"}
      BY <1>0, <1>2, <1>3, <3>2 DEF Told
    <3> QED
      BY <3>1, <3>2
  <2> QED
    BY <1>3, <2>1 DEF Exact
<1>6. \A n \in 1..next' - 1 :
        (Covers(Calls[n]).areas)' \subseteq snapshot'.assessed
  <2> SUFFICES ASSUME NEW n \in 1..next
               PROVE  (Covers(Calls[n]).areas)' \subseteq snapshot'.assessed
    BY <1>0
  <2>1. (Covers(Calls[n]).areas)' = Covers(Calls[n]).areas
    BY <1>0 DEF Covers, Calls
  <2>2. CASE n = next
    BY <1>3, <2>1, <2>2
  <2>3. CASE n # next
    <3>1. n \in 1..next - 1
      BY <1>0, <2>3
    <3> QED
      BY <1>3, <2>1, <3>1 DEF Exact
  <2> QED
    BY <2>2, <2>3
<1>7. snapshot'.notes =
        StandingNotes \cup
          (IF next' > Len(Calls) THEN SigninNotes(posture) ELSE {})
  <2>1. ~ (next > Len(Calls))
    BY <1>0, CallTable
  <2>2. next' > Len(Calls) <=> Calls[next] = "signins"
    <3>1. /\ Len(Calls) \in Nat /\ next \in Nat /\ next <= Len(Calls)
          /\ Calls[next] = "signins" <=> next = Len(Calls)
      BY <1>0, SignInsAreLast
    <3> QED
      BY <1>0, <3>1
  <2>3. snapshot.notes = StandingNotes
    BY <2>1 DEF Exact
  <2> QED
    BY <1>3, <2>2, <2>3
<1>8. /\ StandingNotes' = StandingNotes
      /\ SigninNotes(posture)' = SigninNotes(posture)
      /\ Len(Calls)' = Len(Calls)
  BY <1>0 DEF StandingNotes, SigninNotes, Calls
<1> QED
  BY <1>4, <1>5, <1>6, <1>7, <1>8 DEF Exact

LEMMA BegunExact ==
  ASSUME Typed, Begin
  PROVE  Exact'
<1>1. /\ provider' = provider /\ posture' = posture /\ next' = 1
      /\ steady' = Problems(OnPages(posture)) /\ snapshot' = Begun
  BY DEF Begin
<1>2. steady' = Problems(OnPages(posture))'
  BY <1>1 DEF Problems, OnPages
<1>3. snapshot'.assessed = {} /\ snapshot'.notes = StandingNotes
  BY <1>1 DEF Begun
<1>4. \A f \in Fields : ~ Told(f)'
  BY <1>1, <1>3 DEF Told
<1>5. 1..next' - 1 = {}
  BY <1>1
<1>6. ~ (next' > Len(Calls)')
  <2>1. Len(Calls)' = Len(Calls)
    BY <1>1 DEF Calls
  <2> QED
    BY <1>1, <2>1, CallTable DEF Typed
<1>7. StandingNotes' = StandingNotes
  BY <1>1 DEF StandingNotes
<1> QED
  BY <1>2, <1>3, <1>4, <1>5, <1>6, <1>7 DEF Exact

LEMMA UndisturbedStep == Typed /\ Undisturbed /\ [Next]_vars => Undisturbed'
<1> SUFFICES ASSUME Typed, Undisturbed, [Next]_vars PROVE Undisturbed'
  OBVIOUS
<1>0. provider' = "gws" => snapshot'.seen.weak = {}
  BY WeakIsUntold
<1>1. CASE Begin
  <2>1. troubles' \in Nat
    BY <1>1 DEF Begin, Undisturbed
  <2> QED
    BY <1>0, <1>1, <2>1, BegunExact DEF Undisturbed
<1>2. CASE CallAnswers
  <2>1. troubles' = troubles /\ next > 0
    BY <1>2, SignInsAreLast DEF CallAnswers, Typed
  <2> QED
    BY <1>0, <1>2, <2>1, AnswerExact DEF Undisturbed
<1>3. CASE CallFails
  <2>1. troubles' \in Nat /\ troubles' # 0
    BY <1>3 DEF CallFails, Undisturbed
  <2> QED
    BY <1>0, <2>1 DEF Undisturbed
<1>4. CASE ScanFails \/ Reconcile
  <2>1. troubles' = 0 /\ next' = 0
    BY <1>4 DEF ScanFails, Reconcile
  <2> QED
    BY <1>0, <2>1 DEF Undisturbed
<1>5. CASE Change
  <2>1. next' = next /\ troubles' = IF next > 0 THEN troubles + 1 ELSE 0
    BY <1>5 DEF Change
  <2>2. /\ troubles' \in Nat
        /\ ~ (next' > 0 /\ troubles' = 0)
    BY <2>1 DEF Undisturbed
  <2> QED
    BY <1>0, <2>2 DEF Undisturbed
<1>6. CASE UNCHANGED vars
  <2>1. UNCHANGED <<provider, posture, next, snapshot, steady, troubles>>
    BY <1>6 DEF vars
  <2>2. Exact' <=> Exact
    BY <2>1 DEF Exact, Problems, OnPages, Told, Covers, Calls,
       StandingNotes, SigninNotes
  <2> QED
    BY <2>1, <2>2 DEF Undisturbed
<1> QED
  BY <1>1, <1>2, <1>3, <1>4, <1>5, <1>6 DEF Next

(* A scan nothing disturbed finds what the pages show wrong in the areas it *)
(* read, and the notes due.                                                 *)
LEMMA ExactFinds ==
  ASSUME Typed, Tracked, Undisturbed, next = Len(Calls) + 1, troubles = 0
  PROVE  Evaluate(snapshot) =
           FindingsOf(Within(snapshot.assessed, steady)) \cup NotesDue
<1>0. /\ DOMAIN Calls = 1..Len(Calls) /\ provider \in Providers
      /\ Len(Calls) \in Nat /\ Len(Calls) > 2
  BY CallTable DEF Typed
<1>1. next > 2 /\ next > 0 /\ next > Len(Calls) /\ next - 1 = Len(Calls)
  BY <1>0
<1>2. Exact
  BY <1>1 DEF Undisturbed
<1>3. Each("manual-review", snapshot.notes) = NotesDue
  <2>1. snapshot.notes = StandingNotes \cup SigninNotes(posture)
    BY <1>1, <1>2 DEF Exact
  <2> QED
    BY <2>1 DEF NotesDue
<1>4. NotesDue \subseteq Evaluate(snapshot)
  BY <1>3 DEF Evaluate, notesToFindings
<1>5. "admin_roles" \in snapshot.assessed
  <2>1. CASE provider = "m365"
    <3>1. 4 \in 1..next - 1 /\ "admin_roles" \in Covers(Calls[4]).areas
      BY <1>0, <1>1, <2>1, CallTable, M365Table DEF Call
    <3> QED
      BY <1>2, <3>1 DEF Exact
  <2>2. CASE provider # "m365"
    <3>1. 2 \in 1..next - 1 /\ "admin_roles" \in Covers(Calls[2]).areas
      BY <1>0, <1>1, <2>2, CallTable, GWSTable DEF Call
    <3> QED
      BY <1>2, <3>1 DEF Exact
  <2> QED
    BY <2>1, <2>2
<1>6. /\ snapshot.seen.users = OnPages(posture).users
      /\ snapshot.seen.enabled = OnPages(posture).enabled
      /\ \A f \in Fields \ {"users", "enabled", "weak"} :
           AreaOf[f] \in snapshot.assessed =>
             snapshot.seen[f] = OnPages(posture)[f]
      /\ provider = "m365" /\ "signin" \in snapshot.assessed =>
           snapshot.seen.weak = OnPages(posture).weak
  BY <1>1, <1>2 DEF Exact, Told, Fields, AreaOf
<1>7. IsFiniteSet(snapshot.seen.admins)
  <2>1. snapshot.seen.admins \subseteq Users
    BY DEF Typed, Snapshots, Facts
  <2> QED
    BY <2>1, UsersAreCounted, FS_Subset
<1>8. provider = "gws" => snapshot.seen.weak = {}
  BY DEF Undisturbed
<1>9. ASSUME NEW fp \in Evaluate(snapshot), fp \notin NotesDue
      PROVE  fp \in FindingsOf(Within(snapshot.assessed, steady))
  <2>1. PICK k, x : /\ k \in Kinds /\ Shown(snapshot.seen, k, x)
                    /\ AreasOf(k) \subseteq snapshot.assessed
                    /\ fp = <<k, About(k, x)>>
    BY <1>3, <1>7, <1>8, <1>9, FoundIsShown
  <2>2. Shown(OnPages(posture), k, x)
    <3> USE DEF AreasOf, AreaOf, Fields
    <3>1. CASE k = "admin-mfa"
      BY <1>6, <2>1, <3>1 DEF Shown
    <3>2. CASE k = "user-mfa"
      BY <1>5, <1>6, <2>1, <3>2 DEF Shown
    <3>3. CASE k = "admin-sprawl"
      BY <1>6, <2>1, <3>3 DEF Shown
    <3>4. CASE k = "inactive-user"
      BY <1>6, <2>1, <3>4 DEF Shown
    <3>5. CASE k = "signin"
      BY <1>6, <2>1, <3>5 DEF Shown
    <3>6. CASE k = "signin-admin-1fa"
      BY <1>0, <1>6, <2>1, <3>6, ProvidersAreKnown DEF Shown
    <3>7. CASE k = "risky-oauth"
      BY <1>6, <2>1, <3>7 DEF Shown
    <3>8. CASE k = "no-conditional-access"
      BY <1>6, <2>1, <3>8 DEF Shown
    <3>9. CASE k = "legacy-auth"
      BY <1>6, <2>1, <3>9 DEF Shown
    <3>10. CASE k = "external-sharing"
      BY <1>6, <2>1, <3>10 DEF Shown
    <3>11. CASE k = "email-auth"
      BY <1>6, <2>1, <3>11 DEF Shown
    <3> QED
      BY <2>1, <3>1, <3>2, <3>3, <3>4, <3>5, <3>6, <3>7, <3>8, <3>9, <3>10,
         <3>11 DEF Kinds
  <2>3. ProblemOf(k, x) \in steady
    BY <1>2, <2>1, <2>2, ProblemsAreShown DEF Exact
  <2>4. ProblemOf(k, x).areas \subseteq snapshot.assessed
    BY <2>1 DEF ProblemOf
  <2>5. fp = ProblemOf(k, x).finding
    BY <2>1 DEF ProblemOf
  <2> QED
    BY <2>3, <2>4, <2>5 DEF FindingsOf, Within
<1> QED
  BY <1>1, <1>4, <1>9, ReadIsFound

\* What quiet scans did not find has missed all of them, and the notes of a
\* quiet scan are open after it.
Forgotten ==
  /\ \A fp \in Fingerprints : \A k \in DOMAIN past :
       (\A i \in k..Len(past) :
          past[i].quiet /\ fp \notin past[i].read \cup past[i].due) =>
         (row[fp].status = "open" => row[fp].misses >= Len(past) - k + 1)
  /\ past # <<>> /\ past[Len(past)].quiet => past[Len(past)].due \subseteq Open

LEMMA ForgottenStep ==
  Typed /\ Tracked /\ Undisturbed /\ Forgotten /\ [Next]_vars => Forgotten'
<1> SUFFICES ASSUME Typed, Tracked, Undisturbed, Forgotten, [Next]_vars
             PROVE  Forgotten'
  OBVIOUS
<1>1. CASE UNCHANGED <<row, past>>
  BY <1>1 DEF Forgotten, Open
<1>2. CASE Reconcile
  <2>1. /\ Len(past) \in Nat /\ Len(past) <= ResolveAfter
         /\ ResolveAfter \in Nat /\ ResolveAfter > 0
    BY ResolveAfterIsPositive DEF Typed
  <2>2. /\ past' \in Seq(PastScans) /\ Len(past') <= ResolveAfter
        /\ Len(past') > 0 /\ past'[Len(past')] = ThisScan
        /\ \A i \in 1..Len(past') - 1 :
             /\ i + Len(past) + 1 - Len(past') \in DOMAIN past
             /\ past'[i] = past[i + Len(past) + 1 - Len(past')]
    BY <1>2, PastAfter
  <2>3. Len(past') \in Nat /\ DOMAIN past' = 1..Len(past')
          /\ DOMAIN past = 1..Len(past)
    BY <2>1, <2>2 DEF Typed
  <2>4. next = Len(Calls) + 1
    BY <1>2 DEF Reconcile
  <2>5. /\ ThisScan.quiet <=> troubles = 0
        /\ ThisScan.read = FindingsOf(Within(snapshot.assessed, steady))
        /\ ThisScan.due = NotesDue /\ ThisScan.due \subseteq Fingerprints
    BY NotesAreFingerprints DEF ThisScan
  <2>6. ThisScan.quiet => Evaluate(snapshot) = ThisScan.read \cup ThisScan.due
    BY <2>4, <2>5, ExactFinds
  <2> HIDE DEF ThisScan
  <2>7. ThisScan.quiet => ThisScan.due \subseteq Open'
    <3> SUFFICES ASSUME ThisScan.quiet, NEW fp \in ThisScan.due
                 PROVE  fp \in Fingerprints /\ row'[fp].status = "open"
      BY DEF Open
    <3>1. fp \in Fingerprints /\ fp \in Evaluate(snapshot)
      BY <2>5, <2>6
    <3> QED
      BY <1>2, <3>1, RowAfter
  <2>8. ASSUME NEW fp \in Fingerprints, NEW k \in 1..Len(past'),
               \A i \in k..Len(past') :
                 past'[i].quiet /\ fp \notin past'[i].read \cup past'[i].due,
               row'[fp].status = "open"
        PROVE  row'[fp].misses >= Len(past') - k + 1
    <3>1. ThisScan.quiet /\ fp \notin ThisScan.read \cup ThisScan.due
      <4>1. Len(past') \in k..Len(past')
        BY <2>3
      <4> QED
        BY <2>1, <2>2, <2>8, <4>1
    <3>2. row'[fp] = Missed(row[fp])
      <4>1. fp \notin Evaluate(snapshot)
        BY <2>6, <3>1
      <4> QED
        BY <1>2, <4>1, RowAfter
    <3>3. /\ row[fp] \in Rows /\ row[fp].misses \in Nat
          /\ row[fp].status = "open" => row[fp].misses < ResolveAfter
      BY <2>1, <2>2 DEF Typed, Rows
    <3>4. row[fp].status = "open" /\ row'[fp].misses = row[fp].misses + 1
      BY <2>8, <3>2, <3>3, RowsType
    <3>5. CASE k = Len(past')
      BY <2>3, <3>3, <3>4, <3>5
    <3>6. CASE k # Len(past')
      <4>1. k \in 1..Len(past') - 1
        <5>1. Len(past') \in Nat
          BY <2>3
        <5> QED
          BY <3>6, <5>1
      <4>2. PICK j \in DOMAIN past : j = k + Len(past) + 1 - Len(past')
        BY <2>1, <2>2, <4>1
      <4>3. ASSUME NEW i \in j..Len(past)
            PROVE  past[i].quiet /\ fp \notin past[i].read \cup past[i].due
        <5>0. i + Len(past') - Len(past) - 1 \in k..Len(past') - 1
          <6>1. Len(past') \in Nat /\ Len(past) \in Nat /\ k \in Nat /\ k > 0
            BY <2>1, <2>3, <4>1
          <6>2. j \in Int /\ i \in j..Len(past)
            BY <2>3, <4>2
          <6> QED
            BY <4>2, <6>1, <6>2
        <5>1. PICK h \in k..Len(past') - 1 :
                h = i + Len(past') - Len(past) - 1
          BY <5>0
        <5>2. h \in 1..Len(past') - 1 /\ h \in k..Len(past')
          <6>1. Len(past') \in Nat /\ k \in Nat /\ k > 0
            BY <2>3, <4>1
          <6> QED
            BY <6>1
        <5>3. h + Len(past) + 1 - Len(past') = i
          BY <2>1, <2>2, <2>3, <5>1
        <5>4. past'[h] = past[i]
          BY <2>2, <5>2, <5>3
        <5> QED
          BY <2>8, <5>2, <5>4
      <4>4. row[fp].misses >= Len(past) - j + 1
        BY <2>8, <3>4, <4>2, <4>3 DEF Forgotten
      <4>5. Len(past) - j + 1 + 1 = Len(past') - k + 1
        BY <2>1, <2>2, <2>3, <4>2
      <4> QED
        BY <2>1, <2>2, <2>3, <3>3, <3>4, <4>2, <4>4, <4>5
    <3> QED
      BY <3>5, <3>6
  <2> QED
    BY <2>1, <2>2, <2>3, <2>7, <2>8 DEF Forgotten
<1> QED
  BY <1>1, <1>2 DEF Next, vars, Begin, CallAnswers, CallFails, ScanFails,
     Change

(* Once ResolveAfter scans nothing disturbed found the same, what is open   *)
(* is what the pages they read show wrong and the notes due, nothing else,  *)
(* whatever earlier scans tore, missed or took for missing.                 *)
THEOREM AlwaysSettlesOnTenant == Spec => []SettlesOnTenant
<1>1. Init => Tracked /\ Kept /\ Undisturbed /\ Forgotten
  <2> SUFFICES ASSUME Init PROVE Tracked /\ Kept /\ Undisturbed /\ Forgotten
    OBVIOUS
  <2>1. /\ past = <<>> /\ snapshot = Begun /\ steady = {}
        /\ next = 0 /\ troubles = 0
    BY DEF Init
  <2>2. /\ snapshot.assessed = {} /\ snapshot.seen.admins = {}
        /\ snapshot.seen.weak = {}
    BY <2>1 DEF Begun, Unread
  <2>3. DOMAIN past = {}
    BY <2>1
  <2> QED
    BY <2>1, <2>2, <2>3 DEF Tracked, Kept, Undisturbed, Forgotten
<1>2. Typed /\ Kept /\ Forgotten => SettlesOnTenant
  <2> DEFINE last == past[Len(past)]
  <2> SUFFICES ASSUME Typed, Kept, Forgotten, Len(past) = ResolveAfter,
                      \A i \in DOMAIN past :
                        /\ past[i].quiet
                        /\ past[i].read = last.read /\ past[i].due = last.due
               PROVE  Open = last.read \cup last.due
    BY DEF SettlesOnTenant
  <2>1. /\ ResolveAfter \in Nat /\ ResolveAfter > 0
        /\ DOMAIN past = 1..Len(past)
        /\ past # <<>> /\ Len(past) \in DOMAIN past /\ 1 \in DOMAIN past
    BY ResolveAfterIsPositive DEF Typed
  <2>2. last.read \subseteq Open
    BY <2>1 DEF Kept, Open
  <2>3. last.due \subseteq Open
    BY <2>1 DEF Forgotten
  <2>4. ASSUME NEW fp \in Open, fp \notin last.read \cup last.due
        PROVE  FALSE
    <3>1. /\ fp \in Fingerprints /\ row[fp].status = "open"
          /\ row[fp].misses \in Nat /\ row[fp].misses < ResolveAfter
      BY <2>1 DEF Open, Typed, Rows
    <3>2. \A i \in 1..Len(past) :
            past[i].quiet /\ fp \notin past[i].read \cup past[i].due
      BY <2>1, <2>4
    <3>3. row[fp].misses >= Len(past) - 1 + 1
      BY <2>1, <3>1, <3>2 DEF Forgotten
    <3> QED
      BY <2>1, <3>1, <3>3
  <2> QED
    BY <2>2, <2>3, <2>4
<1> QED
  BY <1>1, <1>2, TypedAlways, TrackedStep, KeptStep, UndisturbedStep,
     ForgottenStep, PTL DEF Spec
=============================================================================
