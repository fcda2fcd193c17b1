------------------------------- MODULE Reports -------------------------------
(***************************************************************************)
(* What the dashboards, analytics, lists and exports show (users/manager,  *)
(* company_admin, analytics, user_dashboard, costs, dashboard,             *)
(* practitioner, distributor). Each is made by several queries, one after  *)
(* the other, and at READ COMMITTED each query sees what is committed when *)
(* it runs: figures of one answer may be of different moments. A behaviour *)
(* follows one answer and the rows of one table it reads; a query of       *)
(* another table finds nothing. Rejected calls and early returns, which    *)
(* answer with zeros, make no further query and have no figures.           *)
(***************************************************************************)
EXTENDS Naturals, Integers, Sequences, FiniteSets

CONSTANTS
    Members,       \* the people the rows belong to
    Me,            \* the one who asks
    MaxRows,       \* bound: rows of the table
    MaxChanges     \* bound: rows changed while an answer is made

VARIABLES
    subject,   \* the table that is followed
    rows,      \* its rows
    placed,    \* the members of the team, the organization or the department
    report     \* the answer that is being made: the queries to come, the figures
               \* so far, the people it is about, the rows changed since it began

reportVars == <<subject, rows, placed, report>>

\* No answer is being made.
NoReport == [todo |-> <<>>, figures |-> <<>>, people |-> {}, changed |-> 0]

Statuses == {"active", "completed", "other"}

(***************************************************************************)
(* Queries. A breakdown, the rows of a list and the points of a series are *)
(* counted together: what matters is how many rows they stand for.         *)
(* Averages are left out.                                                  *)
(***************************************************************************)
AnyStatus == "any"
Ids == [kind |-> "ids"]    \* the people whose rows are counted from here on
One == [kind |-> "one"]    \* what follows is done for each of them alike

Figure(t, whose, status, span, live) ==
    [kind |-> "count", table |-> t, whose |-> whose, status |-> status,
     span |-> span, live |-> live]

Count(t, whose, status) == Figure(t, whose, status, "ever", TRUE)
Listed(t, whose)        == Count(t, whose, AnyStatus)
Unfiltered(q)           == Figure(q.table, q.whose, q.status, q.span, FALSE)
Ranged(q)               == Figure(q.table, q.whose, q.status, "range", q.live)
Series(t, whose, st)    == Figure(t, whose, st, "range", FALSE)

Whose(q) == CASE q.whose = "own"  -> {Me}
              [] q.whose = "read" -> report.people
              [] q.whose = "all"  -> Members

\* The end of a range is a date, and a timestamp of that day is after it.
InSpan(q, row) == q.span = "range" => ~row.today

RowsSeen(q) ==
    Cardinality({x \in rows : /\ x.owner \in Whose(q)
                              /\ q.status \in {AnyStatus, x.status}
                              /\ q.live => x.live
                              /\ InSpan(q, x)})

(***************************************************************************)
(* The answers of the manager, the company and the platform.               *)
(***************************************************************************)
Goals(whose, status)    == Count("goals", whose, status)
Training(whose, status) == Count("trainings", whose, status)
Completion(whose)       == <<Training(whose, AnyStatus), Training(whose, "completed")>>
Sessions(whose)         == Series("activities", whose, "active")

ListTeam       == <<Ids, One, Goals("read", AnyStatus), Training("read", AnyStatus)>>
\* Mutant: deleted goals count among the completed ones.
HealthWithDeleted == <<Ids, One, Goals("read", AnyStatus), Unfiltered(Goals("read", "completed"))>>
TeamHealth     == <<Ids, One, Goals("read", AnyStatus), Goals("read", "completed")>>
TeamStats      == <<Ids, Goals("read", "active")>> \o Completion("read")
MemberDetail   == <<Ids, One, Unfiltered(Count("activities", "read", "active")),
                    Unfiltered(Count("conversations", "read", AnyStatus)),
                    Unfiltered(Count("messages", "read", AnyStatus))>>

OrgOverview    == <<Unfiltered(Count("profiles", "all", AnyStatus)),
                    Unfiltered(Count("profiles", "all", "active"))>>
Departments    == <<Unfiltered(Count("employees", "all", AnyStatus)), Ids,
                    Goals("read", "active")>> \o Completion("read")
DepartmentMembers == <<Unfiltered(Listed("employees", "all")), Unfiltered(Listed("employees", "all"))>>

UserAnalytics  == <<Sessions("own"), Ranged(Goals("own", AnyStatus)), Sessions("own")>> \o Completion("own")
TeamAnalytics  == <<Ids, Ranged(Goals("read", AnyStatus)), Sessions("read")>>
                  \o Completion("read") \o <<Series("activities", "read", AnyStatus)>>
CompanyAnalytics == <<Ids, Ranged(Goals("read", AnyStatus)), Sessions("read")>>
                  \o Completion("read") \o <<Series("activities", "read", AnyStatus)>>
PlatformAnalytics == <<Sessions("all"), Ranged(Goals("all", AnyStatus)), Ranged(Listed("feedback", "all")),
                    Ranged(Listed("feedback", "all")),
                    Series("activities", "all", AnyStatus)>>

OrganizationStats == <<Listed("organizations", "all"), Count("organizations", "all", "active")>>
BusinessStats  == <<Listed("businesses", "all"), Count("businesses", "all", "active"),
                    Listed("businesses", "all"), Count("businesses", "all", "active"),
                    Count("businesses", "all", "other")>>
LicenseStats   == <<Listed("licenses", "all"), Count("licenses", "all", "active"),
                    Count("licenses", "all", "completed"), Ranged(Count("licenses", "all", "active")),
                    Listed("licenses", "all")>>
BusinessUsers  == <<Listed("users", "all"), Count("users", "all", "active")>>

(***************************************************************************)
(* The answers of users, practitioners and distributors, and the exports.  *)
(***************************************************************************)
DashboardStats == <<Unfiltered(Count("activities", "own", "active")), Goals("own", "completed"),
                    Goals("own", "active"), Goals("own", "other")>> \o Completion("own")
ActivityLog    == <<Unfiltered(Listed("activities", "own")), Unfiltered(Listed("activities", "own"))>>

CostDashboard  == <<Listed("costs", "own"), Listed("costs", "own"), Listed("costs", "own")>>
CostsFiltered  == <<Ranged(Listed("costs", "own")), Ranged(Listed("costs", "own")),
                    Ranged(Listed("costs", "own"))>>

ListClients    == <<Listed("clients", "own"), Listed("clients", "own")>>
ListSessions   == <<Listed("sessions", "own"), Listed("sessions", "own")>>
Territory      == <<Listed("network", "own"), Count("network", "own", "active")>>
Transactions   == <<Unfiltered(Listed("transactions", "own")), Unfiltered(Listed("transactions", "own"))>>
DistributorCosts == <<Unfiltered(Count("transactions", "own", "active")),
                      Unfiltered(Count("transactions", "own", "completed"))>>
ListReports    == <<Listed("reports", "own"), Listed("reports", "own")>>

BuildExport    == <<Ids, Goals("read", AnyStatus), Unfiltered(Listed("activities", "read"))>>
\* The job keeps how many records it had, and a download reads them again.
StartExport    == BuildExport
DownloadExport == StartExport \o BuildExport

Answers ==
    {ListTeam, TeamHealth, TeamStats, MemberDetail, OrgOverview, Departments,
     DepartmentMembers, UserAnalytics, TeamAnalytics, CompanyAnalytics, PlatformAnalytics,
     OrganizationStats, BusinessStats, LicenseStats, BusinessUsers, DashboardStats,
     ActivityLog, CostDashboard, CostsFiltered, ListClients, ListSessions, Territory,
     Transactions, DistributorCosts, ListReports, DownloadExport}

Reads(answer, t) ==
    \E i \in DOMAIN answer : answer[i].kind = "count" /\ answer[i].table = t

Tables == UNION {{a[i].table : i \in {j \in DOMAIN a : a[j].kind = "count"}} : a \in Answers}

(***************************************************************************)
(* Actions.                                                                *)
(***************************************************************************)
Row == [nr : Nat, owner : Members, status : Statuses, live : BOOLEAN, today : BOOLEAN]

\* Nothing tells rows that are alike apart: they are numbered from 1.
Alike(row)    == {x \in rows : x = [row EXCEPT !.nr = x.nr]}
Numbered(row) == [row EXCEPT !.nr = Cardinality(Alike(row)) + 1]

ReportsInit ==
    /\ subject \in Tables
    /\ rows = {}
    /\ placed \in SUBSET Members
    /\ report = NoReport

Begin(answer) ==
    /\ report = NoReport
    /\ Reads(answer, subject)
    /\ report' = [todo |-> answer, figures |-> <<>>, people |-> {}, changed |-> 0]
    /\ UNCHANGED <<subject, rows, placed>>

Proceed(figures, people) ==
    report' = [report EXCEPT !.todo = Tail(@), !.figures = figures, !.people = people]

Query ==
    /\ report # NoReport /\ report.todo # <<>>
    /\ LET q == Head(report.todo) IN
       CASE q.kind = "ids"   -> Proceed(report.figures, placed)
         [] q.kind = "one"   -> \E m \in report.people : Proceed(report.figures, {m})
         [] q.kind = "count" -> Proceed(IF q.table = subject
                                     THEN Append(report.figures, [of |-> q, is |-> RowsSeen(q)])
                                     ELSE report.figures, report.people)
    /\ UNCHANGED <<subject, rows, placed>>

\* The answer is sent, or nobody is there to be asked about.
Send ==
    /\ report # NoReport
    /\ report.todo # <<>> => Head(report.todo) = One /\ report.people = {}
    /\ report' = NoReport
    /\ UNCHANGED <<subject, rows, placed>>

Changed(n) ==
    /\ report # NoReport => report.changed + n <= MaxChanges
    /\ report' = IF report = NoReport THEN NoReport ELSE [report EXCEPT !.changed = @ + n]

Insert(owner, status, live, today) ==
    /\ Cardinality(rows) < MaxRows
    /\ rows' = rows \union {Numbered([nr |-> 1, owner |-> owner, status |-> status,
                                      live |-> live, today |-> today])}
    /\ Changed(1)
    /\ UNCHANGED <<subject, placed>>

\* A report is stored as completed at once.
GenerateReport == subject = "reports" /\ Insert(Me, "completed", TRUE, TRUE)

\* A session is scheduled with a client (of a roster that module Credits has).
CreateSession == subject = "sessions" /\ Insert(Me, "active", TRUE, TRUE)

Update(old, status, live) ==
    /\ old.nr = Cardinality(Alike(old)) /\ <<status, live>> # <<old.status, old.live>>
    /\ rows' = (rows \ {old}) \union {Numbered([old EXCEPT !.status = status, !.live = live])}
    /\ Changed(1)
    /\ UNCHANGED <<subject, placed>>

\* The tables that other calls and other services write.
Others ==
    /\ subject \notin {"reports", "sessions"}
    /\ \E status \in Statuses, live \in BOOLEAN :
          \/ \E owner \in Members, today \in BOOLEAN : Insert(owner, status, live, today)
          \/ \E old \in rows : Update(old, status, live)

\* A member comes or goes, with the rows it owns.
Move(m) ==
    /\ placed' = IF m \in placed THEN placed \ {m} ELSE placed \union {m}
    /\ Changed(Cardinality({x \in rows : x.owner = m}))
    /\ UNCHANGED <<subject, rows>>

ReportsNext ==
    \/ \E answer \in Answers : Begin(answer)
    \/ Query
    \/ Send
    \/ GenerateReport \/ CreateSession \/ Others
    \/ \E m \in Members : Move(m)

-----------------------------------------------------------------------------
\* The figures of an answer contradict each other by no more than the rows
\* that were changed while it was made: a part (the completed goals, the
\* active users) is at most the whole, and a breakdown, a list or a series
\* adds up to its total. If nothing changed they agree.
FiguresAgree ==
    report # NoReport =>
        \A i, j \in DOMAIN report.figures :
            LET whole == report.figures[i]
                part  == report.figures[j]
            IN  /\ whole.of.status = AnyStatus
                /\ whole.of.table = part.of.table /\ whole.of.span = part.of.span
                => part.is <= whole.is + report.changed
=============================================================================
