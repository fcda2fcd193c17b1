------------------------------ MODULE Tenancy ------------------------------
(***************************************************************************)
(* Organizations, roles, licenses and credits share the threads that serve *)
(* requests: this module composes them. A step is a step of one component  *)
(* on behalf of one request, a rollback, or something that happens to a    *)
(* user or a license by itself.                                            *)
(***************************************************************************)
EXTENDS Organizations, Licenses, Credits

vars == <<req, roleVars, orgVars, licenses, creditVars>>

Init ==
    /\ req = [r \in Requests |-> New]
    /\ RolesInit /\ OrganizationsInit /\ LicensesInit /\ CreditsInit

Next ==
    \/ \E r \in Requests :
          \/ RolesNext(r) /\ UNCHANGED <<orgVars, licenses, creditVars>>
          \/ OrganizationsNext(r) /\ UNCHANGED <<roleVars, licenses, creditVars>>
          \/ LicensesNext(r) /\ UNCHANGED <<roleVars, orgVars, creditVars>>
          \/ CreditsNext(r) /\ UNCHANGED <<roleVars, orgVars, licenses>>
          \/ RolledBack(r) /\ UNCHANGED <<roleVars, orgVars, licenses, creditVars>>
    \/ UsersNext /\ UNCHANGED <<roleVars, licenses, creditVars>>
    \/ TimeNext /\ UNCHANGED <<roleVars, orgVars, creditVars>>

Spec == Init /\ [][Next]_vars

-----------------------------------------------------------------------------
(***************************************************************************)
(* The limits that handlers check, as instances of CheckThenInsert.        *)
(***************************************************************************)
TwoBusinesses == INSTANCE CheckThenInsert WITH
    Callers <- Requests, Width <- Threads, Limit <- 2,
    rows <- Cardinality(LiveBusinesses), passed <- AtStep("business")

OneLicense == INSTANCE CheckThenInsert WITH
    Callers <- Requests, Width <- Threads, Limit <- 1,
    rows <- Cardinality({l \in licenses : Counts(l) /\ ~l.edited}),
    passed <- AtStep("license")

OneClient == INSTANCE CheckThenInsert WITH
    Callers <- Requests, Width <- Threads, Limit <- 1,
    rows <- Cardinality(clients), passed <- AtStep("client")

OneGrant == INSTANCE CheckThenInsert WITH
    Callers <- Requests, Width <- Threads, Limit <- 1,
    rows <- Cardinality(grants), passed <- AtStep("grant")

OneAssignment(a) == INSTANCE CheckThenInsert WITH
    Callers <- Requests, Width <- Threads, Limit <- 1,
    rows <- Cardinality(RowsOf(a)),
    passed <- {r \in AtStep("assign") : req[r].agent = a /\ req[r].found = None}

OneAccess(b, a) == INSTANCE CheckThenInsert WITH
    Callers <- Requests, Width <- Threads, Limit <- 1,
    rows <- Cardinality(AccessOf(b, a)),
    passed <- {r \in AtStep("access") : req[r].biz = b /\ req[r].agent = a}

\* An agent is assigned to the organization, and a business given access to
\* it, more than once only by requests that overlapped. And an assignment never
\* has the tones of more requests than could overlap, although each request
\* replaces only the tones it has seen.
AssignmentsOverlapOnly ==
    /\ \A a \in Agents : OneAssignment(a)!Exceeded
    /\ \A a \in Agents, b \in biz : OneAccess(b.id, a)!Exceeded
    /\ \A x \in assigned : Cardinality(x.tones) <= Threads

\* An organization gets a second administrator through invitations only when
\* they overlap. This needs the role's name to be unique: two roles called
\* "admin" and the check finds nobody. It leaves out those who were given the
\* role after the check, or were invited although the query of it failed.
OneAdminUnlessOverlapped ==
    Cardinality(roles) <= 1 =>
        Cardinality({m \in members : m.place = None /\ m.checked /\ ~m.deleted}) <= Threads

\* Two businesses for an organization, one valid license (as long as nobody
\* edits one), one row per client, per permission of a role: each of these
\* limits behaves as CheckThenInsert says, so it is exceeded only by requests
\* that overlapped, and by no more of them than there are threads. And so it is
\* with what has no row of its own to count.
LimitsAreChecked ==
    /\ TwoBusinesses!Spec
    /\ OneLicense!Spec
    /\ OneClient!Spec
    /\ OneGrant!Spec
    /\ [](AssignmentsOverlapOnly /\ OneAdminUnlessOverlapped)
=============================================================================
