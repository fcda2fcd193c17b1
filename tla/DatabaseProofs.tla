--------------------------- MODULE DatabaseProofs ---------------------------
(***************************************************************************)
(* Proofs about the database: the answers that read it, and the scripts    *)
(* that make its schema.                                                   *)
(*                                                                         *)
(* Reports, for any people and any number of rows and changes: the figures *)
(* of an answer differ by no more than what changed meanwhile.  Each is    *)
(* what its query would find now, give or take the rows changed so far; so *)
(* a new figure, which is what its query finds, is compared with that.     *)
(*                                                                         *)
(* Migrations, for any rows and commands: the revision tells the schema.   *)
(* A command is followed script by script, and a script operation by       *)
(* operation, beside the same operations on the schema alone; that each    *)
(* script's way back returns is the module's assumption ScriptsReturn, a   *)
(* closed formula.  What a script or a command does is a function on       *)
(* numbers, and the lemmas on it are proved by induction on numbers, with  *)
(* the set of the numbers that have the property.                          *)
(***************************************************************************)
EXTENDS Database, FiniteSetTheorems, SequenceTheorems, WellFoundedInduction, TLAPS

(***************************************************************************)
(* What the answers have in common.                                        *)
(***************************************************************************)
\* The figures of one table over the same span are about the same people, and
\* one that counts all of them counts the deleted as well if another does.
Coherent(a) ==
    \A i, j \in DOMAIN a :
        /\ a[i].kind = "count" /\ a[j].kind = "count"
        /\ a[i].table = a[j].table /\ a[i].span = a[j].span
        => /\ a[i].whose = a[j].whose
           /\ a[i].status = AnyStatus /\ a[i].live => a[j].live

\* The ids of the people are read before their rows are counted; what is done
\* for each of them alike comes next, and then they are not read again.
Ordered(a) ==
    \A i, j \in DOMAIN a :
        /\ a[i].kind = "one" /\ j < i => a[j].kind = "ids"
        /\ a[i].kind = "one" /\ j > i => a[j].kind # "ids"
        /\ a[i].kind = "count" /\ a[i].whose = "read" => \E h \in DOMAIN a : h < i /\ a[h].kind = "ids"

WellFormed(a) ==
    /\ Len(a) \in Nat \ {0} /\ DOMAIN a = 1..Len(a)
    /\ \A i \in DOMAIN a : /\ a[i].kind \in {"ids", "one", "count"}
                           /\ a[i].kind = "one" => a[i] = One
                           /\ a[i].kind = "count" => a[i].whose \in {"own", "read", "all"}
    /\ Coherent(a) /\ Ordered(a)

LEMMA TwoAndTwo == \A a, b, c, d : <<a, b>> \o <<c, d>> = <<a, b, c, d>>
<1> TAKE a, b, c, d
<1> DEFINE s == <<a, b>> \o <<c, d>>
<1>1. /\ s \in Seq({a, b, c, d}) /\ Len(s) = 4
      /\ s[1] = a /\ s[2] = b /\ s[3] = c /\ s[4] = d
  OBVIOUS
<1> HIDE DEF s
<1>2. s = <<a, b, c, d>>
  BY <1>1
<1> QED
  BY <1>2 DEF s

LEMMA ThreeAndTwo == \A a, b, c, d, e : <<a, b, c>> \o <<d, e>> = <<a, b, c, d, e>>
<1> TAKE a, b, c, d, e
<1> DEFINE s == <<a, b, c>> \o <<d, e>>
<1>1. /\ s \in Seq({a, b, c, d, e}) /\ Len(s) = 5
      /\ s[1] = a /\ s[2] = b /\ s[3] = c /\ s[4] = d /\ s[5] = e
  OBVIOUS
<1> HIDE DEF s
<1>2. s = <<a, b, c, d, e>>
  BY <1>1
<1> QED
  BY <1>2 DEF s

LEMMA ThreeTwoAndOne == \A a, b, c, d, e, f : <<a, b, c>> \o <<d, e>> \o <<f>> = <<a, b, c, d, e, f>>
<1> TAKE a, b, c, d, e, f
<1> DEFINE s == <<a, b, c>> \o <<d, e>> \o <<f>>
<1>1. /\ s \in Seq({a, b, c, d, e, f}) /\ Len(s) = 6
      /\ s[1] = a /\ s[2] = b /\ s[3] = c /\ s[4] = d /\ s[5] = e /\ s[6] = f
  OBVIOUS
<1> HIDE DEF s
<1>2. s = <<a, b, c, d, e, f>>
  BY <1>1
<1> QED
  BY <1>2 DEF s

LEMMA FourAndTwo == \A a, b, c, d, e, f : <<a, b, c, d>> \o <<e, f>> = <<a, b, c, d, e, f>>
<1> TAKE a, b, c, d, e, f
<1> DEFINE s == <<a, b, c, d>> \o <<e, f>>
<1>1. /\ s \in Seq({a, b, c, d, e, f}) /\ Len(s) = 6
      /\ s[1] = a /\ s[2] = b /\ s[3] = c /\ s[4] = d /\ s[5] = e /\ s[6] = f
  OBVIOUS
<1> HIDE DEF s
<1>2. s = <<a, b, c, d, e, f>>
  BY <1>1
<1> QED
  BY <1>2 DEF s

LEMMA ThreeAndThree == \A a, b, c, d, e, f : <<a, b, c>> \o <<d, e, f>> = <<a, b, c, d, e, f>>
<1> TAKE a, b, c, d, e, f
<1> DEFINE s == <<a, b, c>> \o <<d, e, f>>
<1>1. /\ s \in Seq({a, b, c, d, e, f}) /\ Len(s) = 6
      /\ s[1] = a /\ s[2] = b /\ s[3] = c /\ s[4] = d /\ s[5] = e /\ s[6] = f
  OBVIOUS
<1> HIDE DEF s
<1>2. s = <<a, b, c, d, e, f>>
  BY <1>1
<1> QED
  BY <1>2 DEF s

LEMMA TeamStatsIs ==
  TeamStats =
      <<Ids, Goals("read", "active"), Training("read", AnyStatus), Training("read", "completed")>>
BY TwoAndTwo DEF TeamStats, Completion

LEMMA DepartmentsIs ==
  Departments =
      <<Unfiltered(Count("employees", "all", AnyStatus)), Ids, Goals("read", "active"),
      Training("read", AnyStatus), Training("read", "completed")>>
BY ThreeAndTwo DEF Departments, Completion

LEMMA UserAnalyticsIs ==
  UserAnalytics =
      <<Sessions("own"), Ranged(Goals("own", AnyStatus)), Sessions("own"),
      Training("own", AnyStatus), Training("own", "completed")>>
BY ThreeAndTwo DEF UserAnalytics, Completion

LEMMA TeamAnalyticsIs ==
  TeamAnalytics =
      <<Ids, Ranged(Goals("read", AnyStatus)), Sessions("read"), Training("read", AnyStatus),
      Training("read", "completed"), Series("activities", "read", AnyStatus)>>
BY ThreeTwoAndOne DEF TeamAnalytics, Completion

LEMMA CompanyAnalyticsIs ==
  CompanyAnalytics =
      <<Ids, Ranged(Goals("read", AnyStatus)), Sessions("read"), Training("read", AnyStatus),
      Training("read", "completed"), Series("activities", "read", AnyStatus)>>
BY ThreeTwoAndOne DEF CompanyAnalytics, Completion

LEMMA DashboardStatsIs ==
  DashboardStats =
      <<Unfiltered(Count("activities", "own", "active")), Goals("own", "completed"),
        Goals("own", "active"), Goals("own", "other"),
        Training("own", AnyStatus), Training("own", "completed")>>
BY FourAndTwo DEF DashboardStats, Completion

LEMMA DownloadExportIs ==
  DownloadExport =
      <<Ids, Goals("read", AnyStatus), Unfiltered(Listed("activities", "read")),
      Ids, Goals("read", AnyStatus), Unfiltered(Listed("activities", "read"))>>
BY ThreeAndThree DEF DownloadExport, StartExport, BuildExport

LEMMA AnswersWellFormed == ASSUME NEW a \in Answers PROVE WellFormed(a)
<1> USE DEF WellFormed, Coherent, Ordered, Ids, One, AnyStatus, Figure, Count, Listed, Unfiltered,
            Ranged, Series, Goals, Training, Sessions
<1>1. WellFormed(ListTeam)
  BY DEF ListTeam
<1>2. WellFormed(TeamHealth)
  BY DEF TeamHealth
<1>3. WellFormed(TeamStats)
  BY TeamStatsIs
<1>4. WellFormed(MemberDetail)
  BY DEF MemberDetail
<1>5. WellFormed(OrgOverview)
  BY DEF OrgOverview
<1>6. WellFormed(Departments)
  BY DepartmentsIs
<1>7. WellFormed(DepartmentMembers)
  BY DEF DepartmentMembers
<1>8. WellFormed(UserAnalytics)
  BY UserAnalyticsIs
<1>9. WellFormed(TeamAnalytics)
  BY TeamAnalyticsIs
<1>10. WellFormed(CompanyAnalytics)
  BY CompanyAnalyticsIs
<1>11. WellFormed(PlatformAnalytics)
  BY DEF PlatformAnalytics
<1>12. WellFormed(OrganizationStats)
  BY DEF OrganizationStats
<1>13. WellFormed(BusinessStats)
  BY DEF BusinessStats
<1>14. WellFormed(LicenseStats)
  BY DEF LicenseStats
<1>15. WellFormed(BusinessUsers)
  BY DEF BusinessUsers
<1>16. WellFormed(DashboardStats)
  BY DashboardStatsIs
<1>17. WellFormed(ActivityLog)
  BY DEF ActivityLog
<1>18. WellFormed(CostDashboard)
  BY DEF CostDashboard
<1>19. WellFormed(CostsFiltered)
  BY DEF CostsFiltered
<1>20. WellFormed(ListClients)
  BY DEF ListClients
<1>21. WellFormed(ListSessions)
  BY DEF ListSessions
<1>22. WellFormed(Territory)
  BY DEF Territory
<1>23. WellFormed(Transactions)
  BY DEF Transactions
<1>24. WellFormed(DistributorCosts)
  BY DEF DistributorCosts
<1>25. WellFormed(ListReports)
  BY DEF ListReports
<1>26. WellFormed(DownloadExport)
  BY DownloadExportIs
<1> HIDE DEF WellFormed, Coherent, Ordered, Ids, One, AnyStatus, Figure, Count, Listed, Unfiltered,
             Ranged, Series, Goals, Training, Sessions
<1> QED
  BY <1>1, <1>2, <1>3, <1>4, <1>5, <1>6, <1>7, <1>8, <1>9, <1>10, <1>11, <1>12, <1>13,
     <1>14, <1>15, <1>16, <1>17, <1>18, <1>19, <1>20, <1>21, <1>22, <1>23, <1>24,
     <1>25, <1>26 DEF Answers


LEMMA Tuples ==
  /\ \A a, b : <<a, b>> \in Seq({a, b})
  /\ \A a, b, c : <<a, b, c>> \in Seq({a, b, c})
  /\ \A a, b, c, d : <<a, b, c, d>> \in Seq({a, b, c, d})
  /\ \A a, b, c, d, e : <<a, b, c, d, e>> \in Seq({a, b, c, d, e})
  /\ \A a, b, c, d, e, f : <<a, b, c, d, e, f>> \in Seq({a, b, c, d, e, f})
OBVIOUS

LEMMA AnswersAreSequences == ASSUME NEW a \in Answers PROVE \E S : a \in Seq(S)
<1>1. \E S : ListTeam \in Seq(S)
  BY Tuples DEF ListTeam
<1>2. \E S : TeamHealth \in Seq(S)
  BY Tuples DEF TeamHealth
<1>3. \E S : TeamStats \in Seq(S)
  BY Tuples, TeamStatsIs
<1>4. \E S : MemberDetail \in Seq(S)
  BY Tuples DEF MemberDetail
<1>5. \E S : OrgOverview \in Seq(S)
  BY Tuples DEF OrgOverview
<1>6. \E S : Departments \in Seq(S)
  BY Tuples, DepartmentsIs
<1>7. \E S : DepartmentMembers \in Seq(S)
  BY Tuples DEF DepartmentMembers
<1>8. \E S : UserAnalytics \in Seq(S)
  BY Tuples, UserAnalyticsIs
<1>9. \E S : TeamAnalytics \in Seq(S)
  BY Tuples, TeamAnalyticsIs
<1>10. \E S : CompanyAnalytics \in Seq(S)
  BY Tuples, CompanyAnalyticsIs
<1>11. \E S : PlatformAnalytics \in Seq(S)
  BY Tuples DEF PlatformAnalytics
<1>12. \E S : OrganizationStats \in Seq(S)
  BY Tuples DEF OrganizationStats
<1>13. \E S : BusinessStats \in Seq(S)
  BY Tuples DEF BusinessStats
<1>14. \E S : LicenseStats \in Seq(S)
  BY Tuples DEF LicenseStats
<1>15. \E S : BusinessUsers \in Seq(S)
  BY Tuples DEF BusinessUsers
<1>16. \E S : DashboardStats \in Seq(S)
  BY Tuples, DashboardStatsIs
<1>17. \E S : ActivityLog \in Seq(S)
  BY Tuples DEF ActivityLog
<1>18. \E S : CostDashboard \in Seq(S)
  BY Tuples DEF CostDashboard
<1>19. \E S : CostsFiltered \in Seq(S)
  BY Tuples DEF CostsFiltered
<1>20. \E S : ListClients \in Seq(S)
  BY Tuples DEF ListClients
<1>21. \E S : ListSessions \in Seq(S)
  BY Tuples DEF ListSessions
<1>22. \E S : Territory \in Seq(S)
  BY Tuples DEF Territory
<1>23. \E S : Transactions \in Seq(S)
  BY Tuples DEF Transactions
<1>24. \E S : DistributorCosts \in Seq(S)
  BY Tuples DEF DistributorCosts
<1>25. \E S : ListReports \in Seq(S)
  BY Tuples DEF ListReports
<1>26. \E S : DownloadExport \in Seq(S)
  BY Tuples, DownloadExportIs
<1> QED
  BY <1>1, <1>2, <1>3, <1>4, <1>5, <1>6, <1>7, <1>8, <1>9, <1>10, <1>11, <1>12, <1>13,
     <1>14, <1>15, <1>16, <1>17, <1>18, <1>19, <1>20, <1>21, <1>22, <1>23, <1>24,
     <1>25, <1>26 DEF Answers


(***************************************************************************)
(* Counting rows.                                                          *)
(***************************************************************************)
\* Two numbers that differ by at most n.
Within(a, b, n) == a <= b + n /\ b <= a + n

\* The rows that a query finds when it is about the people given.
About(q, people) ==
    CASE q.whose = "own"  -> {Me}
      [] q.whose = "read" -> people
      [] q.whose = "all"  -> Members

Found(q, people) ==
    {x \in rows : /\ x.owner \in About(q, people)
                  /\ q.status \in {AnyStatus, x.status}
                  /\ q.live => x.live
                  /\ InSpan(q, x)}

\* The rows of those who came or went since the people were read.
Astray(people) == {x \in rows : x.owner \in (people \ placed) \union (placed \ people)}

\* A set that has no more than the elements of another and of a third.
LEMMA AtMostMore ==
  ASSUME NEW B, IsFiniteSet(B), NEW M, IsFiniteSet(M), NEW A, A \subseteq B \union M
  PROVE  /\ IsFiniteSet(A) /\ Cardinality(A) \in Nat /\ Cardinality(B) \in Nat /\ Cardinality(M) \in Nat
         /\ Cardinality(A) <= Cardinality(B) + Cardinality(M)
<1>1. /\ IsFiniteSet(B \union M)
      /\ Cardinality(B \union M) = Cardinality(B) + Cardinality(M) - Cardinality(B \intersect M)
  BY FS_Union
<1>2. IsFiniteSet(A) /\ Cardinality(A) <= Cardinality(B \union M)
  BY <1>1, FS_Subset
<1>3. IsFiniteSet(B \intersect M)
  BY FS_Subset
<1> QED
  BY <1>1, <1>2, <1>3, FS_CardinalityType

LEMMA Apart ==
  ASSUME NEW A, IsFiniteSet(A), NEW B, IsFiniteSet(B), NEW M, IsFiniteSet(M), NEW N, IsFiniteSet(N),
         A \subseteq B \union M, B \subseteq A \union N, NEW n \in Nat,
         Cardinality(M) <= n, Cardinality(N) <= n
  PROVE  Within(Cardinality(A), Cardinality(B), n) /\ Cardinality(A) \in Nat /\ Cardinality(B) \in Nat
BY AtMostMore DEF Within

LEMMA Chained ==
  ASSUME NEW a \in Int, NEW b \in Int, NEW c \in Int, NEW m \in Int, NEW n \in Int,
         Within(a, b, m), Within(b, c, n)
  PROVE  Within(a, c, m + n)
BY DEF Within

LEMMA FoundFinite ==
  ASSUME IsFiniteSet(rows)
  PROVE  /\ \A q, people : IsFiniteSet(Found(q, people)) /\ Cardinality(Found(q, people)) \in Nat
         /\ \A people : IsFiniteSet(Astray(people)) /\ Cardinality(Astray(people)) \in Nat
BY FS_Subset, FS_CardinalityType DEF Found, Astray

\* The rows that are found, about the people and about those who are there now,
\* are the same but for the rows of those who came or went.
LEMMA FoundAstray ==
  ASSUME IsFiniteSet(rows), NEW q, q.whose \in {"own", "read", "all"}, NEW people,
         NEW n \in Nat, Cardinality(Astray(people)) <= n
  PROVE  Within(Cardinality(Found(q, people)), Cardinality(Found(q, placed)), n)
<1>1. /\ Found(q, people) \subseteq Found(q, placed) \union Astray(people)
      /\ Found(q, placed) \subseteq Found(q, people) \union Astray(people)
  BY DEF Found, About, Astray
<1> QED
  BY <1>1, FoundFinite, Apart

\* One row is added, or put in the place of another.
OneRow == \E x, y : rows' = (rows \ {x}) \union {y}

LEMMA OneRowFound ==
  ASSUME IsFiniteSet(rows), OneRow, UNCHANGED placed
  PROVE  /\ IsFiniteSet(rows)'
         /\ \A q, people : Within(Cardinality(Found(q, people)'), Cardinality(Found(q, people)), 1)
         /\ \A people : Cardinality(Astray(people)') <= Cardinality(Astray(people)) + 1
<1>1. PICK x, y : rows' = (rows \ {x}) \union {y}
  BY DEF OneRow
<1>2. /\ IsFiniteSet({x}) /\ Cardinality({x}) = 1 /\ IsFiniteSet({y}) /\ Cardinality({y}) = 1
  BY FS_Singleton
<1>3. IsFiniteSet(rows')
  BY <1>1, <1>2, FS_Subset, FS_Union
<1>4. ASSUME NEW q, NEW people
      PROVE  Within(Cardinality(Found(q, people)'), Cardinality(Found(q, people)), 1)
  <2>1. /\ Found(q, people)' \subseteq Found(q, people) \union {y}
        /\ Found(q, people) \subseteq Found(q, people)' \union {x}
    BY <1>1 DEF Found, About, InSpan
  <2>2. IsFiniteSet(Found(q, people)) /\ IsFiniteSet(Found(q, people)')
    BY <1>3, FS_Subset DEF Found
  <2> QED
    BY <1>2, <2>1, <2>2, Apart
<1>5. ASSUME NEW people
      PROVE  Cardinality(Astray(people)') <= Cardinality(Astray(people)) + 1
  <2>1. Astray(people)' \subseteq Astray(people) \union {y}
    BY <1>1 DEF Astray
  <2> QED
    BY <1>2, <2>1, FoundFinite, AtMostMore
<1> QED
  BY <1>3, <1>4, <1>5

(***************************************************************************)
(* The answer that is being made.                                          *)
(***************************************************************************)
\* The people are going to be read once more.
Again(a, k) ==
    /\ \E i \in 1..k : a[i].kind = "ids"
    /\ \E i \in (k + 1)..Len(a) : a[i].kind = "ids"

\* The answer a after k of its queries.
After(a, k) ==
    /\ report = [todo |-> report.todo, figures |-> report.figures,
                 people |-> report.people, changed |-> report.changed]
    /\ k \in 0..Len(a)
    /\ \E S : report.todo \in Seq(S)
    /\ Len(report.todo) = Len(a) - k
    /\ \A i \in 1..Len(report.todo) : report.todo[i] = a[k + i]
    /\ \E S : report.figures \in Seq(S)
    /\ report.changed \in Nat

Counted(a, k) ==
    \A j \in 1..Len(report.figures) :
        /\ report.figures[j].is \in Nat
        /\ \E i \in 1..k : a[i] = report.figures[j].of
        /\ report.figures[j].of.kind = "count"

\* A figure is as many as the query would find now, but for what has changed.
Drifted(people) ==
    \A j \in 1..Len(report.figures) :
        Within(report.figures[j].is, Cardinality(Found(report.figures[j].of, people)), report.changed)

Making(a, k) ==
    /\ After(a, k) /\ Counted(a, k) /\ Drifted(report.people)
    /\ Again(a, k) => /\ Cardinality(Astray(report.people)) <= report.changed
                      /\ Drifted(placed)

ReportsInv ==
    /\ IsFiniteSet(rows)
    /\ report # NoReport => \E a \in Answers, k \in Nat : Making(a, k)
    /\ FiguresAgree

\* A figure is one that the answer asks for, and before the queries to come.
LEMMA FigureOf ==
  ASSUME NEW a \in Answers, NEW k, Making(a, k), NEW j \in 1..Len(report.figures)
  PROVE  /\ report.figures[j].of.whose \in {"own", "read", "all"}
         /\ report.figures[j].of.kind = "count"
         /\ \E i \in 1..Len(a) : i <= k /\ a[i] = report.figures[j].of /\ a[i].kind = "count"
<1>1. /\ \E i \in 1..k : a[i] = report.figures[j].of
      /\ report.figures[j].of.kind = "count"
  BY DEF Making, Counted
<1>2. PICK i \in 1..k : a[i] = report.figures[j].of
  BY <1>1
<1>3. Len(a) \in Nat /\ k \in 0..Len(a) /\ DOMAIN a = 1..Len(a)
  BY AnswersWellFormed DEF Making, After, WellFormed
<1>4. i \in 1..Len(a) /\ i <= k /\ a[i].kind = "count"
  BY <1>1, <1>2, <1>3
<1>5. a[i].whose \in {"own", "read", "all"}
  BY <1>3, <1>4, AnswersWellFormed DEF WellFormed
<1> QED
  BY <1>1, <1>2, <1>4, <1>5

LEMMA ReportsStart == ReportsInit => ReportsInv
BY FS_EmptySet DEF ReportsInit, ReportsInv, FiguresAgree

\* Figures that may be compared: what the one counts the other counts as well.
LEMMA PartFound ==
  ASSUME NEW a \in Answers, NEW k, After(a, k), NEW i \in 1..Len(a), NEW j \in 1..Len(a),
         a[i].kind = "count", a[j].kind = "count", IsFiniteSet(rows), NEW people,
         a[i].status = AnyStatus, a[i].table = a[j].table, a[i].span = a[j].span
  PROVE  Cardinality(Found(a[j], people)) <= Cardinality(Found(a[i], people))
<1>1. a[i].whose = a[j].whose /\ (a[i].live => a[j].live)
  BY AnswersWellFormed DEF WellFormed, Coherent
<1>2. Found(a[j], people) \subseteq Found(a[i], people)
  BY <1>1 DEF Found, About, InSpan
<1> QED
  BY <1>2, FoundFinite, FS_Subset

LEMMA BeginStep ==
  ASSUME ReportsInv, NEW a \in Answers, Begin(a)
  PROVE  ReportsInv'
<1>1. report' = [todo |-> a, figures |-> <<>>, people |-> {}, changed |-> 0]
  BY DEF Begin
<1>2. Len(a) \in Nat \ {0} /\ DOMAIN a = 1..Len(a) /\ \E S : a \in Seq(S)
  BY AnswersWellFormed, AnswersAreSequences DEF WellFormed
<1>3. report'.todo = a /\ report'.figures = <<>> /\ Len(report'.figures) = 0 /\ report'.changed = 0
      /\ report'.people = {}
  BY <1>1
<1>4. \E S : report'.figures \in Seq(S)
  BY <1>3, EmptySeq
<1>5. After(a, 0)'
  BY <1>1, <1>2, <1>3, <1>4 DEF After
<1>6. Counted(a, 0)' /\ Drifted(report.people)' /\ ~Again(a, 0)' /\ FiguresAgree'
  BY <1>3 DEF Counted, Drifted, Again, FiguresAgree
<1> QED
  BY <1>5, <1>6 DEF ReportsInv, Making, Begin

\* The answer takes note of what has changed, and nothing else of it does.
LEMMA Noted ==
  ASSUME ReportsInv, NEW n \in Nat, Changed(n), report # NoReport, NEW a \in Answers, NEW k, Making(a, k)
  PROVE  /\ report'.figures = report.figures /\ report'.people = report.people
         /\ report'.changed = report.changed + n /\ report.changed \in Nat
         /\ After(a, k)' /\ Counted(a, k)' /\ FiguresAgree'
<1>1. /\ report'.todo = report.todo /\ report'.figures = report.figures
      /\ report'.people = report.people /\ report'.changed = report.changed + n
      /\ report' = [todo |-> report'.todo, figures |-> report'.figures,
                    people |-> report'.people, changed |-> report'.changed]
  BY DEF Changed, Making, After
<1>2. After(a, k)' /\ Counted(a, k)'
  BY <1>1 DEF Making, After, Counted
<1>3. /\ DOMAIN report.figures = 1..Len(report.figures) /\ report.changed \in Nat
      /\ \A j \in 1..Len(report.figures) : report.figures[j].is \in Nat
  BY DEF Making, After, Counted
<1>4. \A i, j \in 1..Len(report.figures) :
          report.figures[j].is <= report.figures[i].is + report.changed
          => report.figures[j].is <= report.figures[i].is + (report.changed + n)
  BY <1>3
<1>5. FiguresAgree'
  BY <1>1, <1>3, <1>4 DEF ReportsInv, FiguresAgree
<1> QED
  BY <1>1, <1>2, <1>3, <1>5

\* The rows change by one, which the answer that is being made takes note of.
LEMMA RowsStep ==
  ASSUME ReportsInv, OneRow, Changed(1), UNCHANGED <<subject, placed>>
  PROVE  ReportsInv'
<1>1. /\ IsFiniteSet(rows)'
      /\ \A q, people : Within(Cardinality(Found(q, people)'), Cardinality(Found(q, people)), 1)
      /\ \A people : Cardinality(Astray(people)') <= Cardinality(Astray(people)) + 1
  BY OneRowFound DEF ReportsInv
<1>2. CASE report = NoReport
  BY <1>1, <1>2 DEF ReportsInv, Changed, FiguresAgree
<1>3. CASE report # NoReport
  <2>1. PICK a \in Answers, k \in Nat : Making(a, k)
    BY <1>3 DEF ReportsInv
  <2>2. /\ report'.figures = report.figures /\ report'.people = report.people
        /\ report'.changed = report.changed + 1 /\ report.changed \in Nat
        /\ After(a, k)' /\ Counted(a, k)' /\ FiguresAgree'
    BY <1>3, <2>1, Noted
  <2>3. PICK figures, group : figures = report.figures /\ group = report.people
    OBVIOUS
  <2>4. ASSUME NEW people, Drifted(people)
        PROVE  Drifted(people)'
    <3>1. ASSUME NEW j \in 1..Len(figures)
          PROVE  Within(figures[j].is, Cardinality(Found(figures[j].of, people)'), report.changed + 1)
      <4>1. PICK q : q = figures[j].of
        OBVIOUS
      <4>2. /\ figures[j].is \in Nat /\ report.changed \in Nat
            /\ Cardinality(Found(q, people)) \in Nat /\ Cardinality(Found(q, people)') \in Nat
        <5>1. figures[j].is \in Nat /\ report.changed \in Nat
          BY <2>1, <2>3 DEF Making, After, Counted
        <5>2. IsFiniteSet(rows') /\ IsFiniteSet(rows)
          BY <1>1 DEF ReportsInv
        <5>3. IsFiniteSet(Found(q, people)) /\ IsFiniteSet(Found(q, people)')
          BY <5>2, FS_Subset DEF Found
        <5> QED
          BY <5>1, <5>3, FS_CardinalityType
      <4>3. Within(figures[j].is, Cardinality(Found(q, people)), report.changed)
        BY <2>4, <2>3, <4>1 DEF Drifted
      <4>4. Within(Cardinality(Found(q, people)'), Cardinality(Found(q, people)), 1)
        BY <1>1
      <4>5. Within(figures[j].is, Cardinality(Found(q, people)'), report.changed + 1)
        <5>1. PICK x, y, z : /\ x = figures[j].is /\ y = Cardinality(Found(q, people))
                             /\ z = Cardinality(Found(q, people)')
          OBVIOUS
        <5>2. PICK c : c = report.changed
          OBVIOUS
        <5>3. /\ x \in Nat /\ y \in Nat /\ z \in Nat /\ c \in Nat
              /\ Within(x, y, c) /\ Within(z, y, 1)
          BY <4>2, <4>3, <4>4, <5>1, <5>2
        <5>4. Within(x, z, c + 1)
          BY <5>3 DEF Within
        <5> QED
          BY <5>1, <5>2, <5>4
      <4> QED
        BY <4>1, <4>5
    <3> QED
      BY <2>2, <2>3, <3>1 DEF Drifted
  <2>5. Drifted(report.people)'
    <3>1. Drifted(group)'
      BY <2>1, <2>4, <2>3 DEF Making
    <3> QED
      BY <2>2, <2>3, <3>1 DEF Drifted
  <2>6. Again(a, k)' => Cardinality(Astray(report.people))' <= report'.changed /\ Drifted(placed)'
    <3>1. HAVE Again(a, k)'
    <3>2. Again(a, k)
      BY <3>1 DEF Again
    <3>3. Drifted(placed)'
      <4>1. PICK now : now = placed
        OBVIOUS
      <4>2. Drifted(now)'
        BY <2>1, <2>4, <3>2, <4>1 DEF Making
      <4> QED
        BY <4>1, <4>2 DEF Drifted
    <3>4. IsFiniteSet(Astray(group)) /\ IsFiniteSet(Astray(group)')
      BY <1>1, FS_Subset DEF Astray, ReportsInv
    <3>5. Cardinality(Astray(group)') \in Nat /\ Cardinality(Astray(group)) \in Nat
      BY <3>4, FS_CardinalityType
    <3>6. Cardinality(Astray(group)) <= report.changed /\ report.changed \in Nat
      BY <2>1, <2>3, <3>2 DEF Making, After
    <3>7. Cardinality(Astray(group)') <= Cardinality(Astray(group)) + 1
      BY <1>1
    <3>8. Cardinality(Astray(group)') <= report.changed + 1
      BY <3>5, <3>6, <3>7
    <3>9. Astray(report.people)' = Astray(group)'
      BY <2>2, <2>3 DEF Astray
    <3> QED
      BY <2>2, <3>3, <3>8, <3>9
  <2> QED
    BY <1>1, <2>2, <2>5, <2>6 DEF ReportsInv, Making
<1> QED
  BY <1>2, <1>3

\* A member comes or goes: its rows are what the answer takes note of.
LEMMA MoveStep ==
  ASSUME ReportsInv, NEW m \in Members, Move(m)
  PROVE  ReportsInv'
<1> DEFINE its == {x \in rows : x.owner = m}
           n   == Cardinality(its)
<1>1. /\ IsFiniteSet(its) /\ n \in Nat /\ Changed(n) /\ rows' = rows /\ IsFiniteSet(rows)
      /\ placed' = IF m \in placed THEN placed \ {m} ELSE placed \union {m}
  BY FS_Subset, FS_CardinalityType DEF Move, ReportsInv
<1>2. CASE report = NoReport
  BY <1>1, <1>2 DEF ReportsInv, Changed, FiguresAgree
<1>3. CASE report # NoReport
  <2>1. PICK a \in Answers, k \in Nat : Making(a, k)
    BY <1>3 DEF ReportsInv
  <2>2. /\ report'.figures = report.figures /\ report'.people = report.people
        /\ report'.changed = report.changed + n /\ report.changed \in Nat
        /\ After(a, k)' /\ Counted(a, k)' /\ FiguresAgree'
    <3> HIDE DEF n
    <3> QED
      BY <1>1, <1>3, <2>1, Noted
  <2>3. PICK figures, group, before, after :
            figures = report.figures /\ group = report.people /\ before = placed /\ after = placed'
    OBVIOUS
  <2>4. \A q, people : Found(q, people)' = Found(q, people)
    BY <1>1 DEF Found, About, InSpan
  <2>5. \A q, people : IsFiniteSet(Found(q, people)) /\ Cardinality(Found(q, people)) \in Nat
    BY <1>1, FoundFinite
  <2>6. /\ \A j \in 1..Len(figures) : figures[j].is \in Nat
        /\ \A people : Drifted(people) =
              \A j \in 1..Len(figures) :
                 Within(figures[j].is, Cardinality(Found(figures[j].of, people)), report.changed)
        /\ \A people : Drifted(people)' =
              \A j \in 1..Len(figures) :
                 Within(figures[j].is, Cardinality(Found(figures[j].of, people)), report.changed + n)
    <3> HIDE DEF n
    <3>1. \A j \in 1..Len(figures) : figures[j].is \in Nat
      BY <2>1, <2>3 DEF Making, Counted
    <3>2. ASSUME NEW people
          PROVE  Drifted(people) =
              \A j \in 1..Len(figures) :
                 Within(figures[j].is, Cardinality(Found(figures[j].of, people)), report.changed)
      BY <2>3 DEF Drifted
    <3>3. ASSUME NEW people
          PROVE  Drifted(people)' =
              \A j \in 1..Len(figures) :
                 Within(figures[j].is, Cardinality(Found(figures[j].of, people)), report.changed + n)
      <4>1. \A j : Found(figures[j].of, people)' = Found(figures[j].of, people)
        BY <2>4
      <4> QED
        BY <2>2, <2>3, <4>1 DEF Drifted
    <3> QED
      BY <3>1, <3>2, <3>3
  <2>7. Drifted(report.people)'
    <3>1. ASSUME NEW j \in 1..Len(figures)
          PROVE  Within(figures[j].is, Cardinality(Found(figures[j].of, group)), report.changed + n)
      <4>1. Within(figures[j].is, Cardinality(Found(figures[j].of, group)), report.changed)
        BY <2>1, <2>3, <2>6 DEF Making
      <4>2. figures[j].is \in Nat /\ Cardinality(Found(figures[j].of, group)) \in Nat
        BY <2>5, <2>6
      <4> HIDE DEF n
      <4> QED
        BY <1>1, <2>2, <4>1, <4>2 DEF Within
    <3>2. Drifted(group)'
      BY <2>6, <3>1
    <3> QED
      BY <2>2, <2>3, <3>2 DEF Drifted
  <2>8. ASSUME Again(a, k)
        PROVE  Cardinality(Astray(report.people))' <= report'.changed /\ Drifted(placed)'
    <3>1. Cardinality(Astray(group)) <= report.changed
      BY <2>1, <2>3, <2>8 DEF Making
    <3>2. Astray(group)' \subseteq Astray(group) \union its
      BY <1>1 DEF Astray
    <3>3. IsFiniteSet(Astray(group))
      BY <1>1, FoundFinite
    <3>4. /\ Cardinality(Astray(group)') \in Nat /\ Cardinality(Astray(group)) \in Nat
          /\ Cardinality(Astray(group)') <= Cardinality(Astray(group)) + n
      BY <1>1, <3>2, <3>3, AtMostMore
    <3>5. Cardinality(Astray(group)') <= report.changed + n
      <4> HIDE DEF n
      <4> QED
        BY <1>1, <2>2, <3>1, <3>4
    <3>6. Astray(report.people)' = Astray(group)'
      BY <2>2, <2>3 DEF Astray
    <3>7. ASSUME NEW j \in 1..Len(figures)
          PROVE  Within(figures[j].is, Cardinality(Found(figures[j].of, after)), report.changed + n)
      <4> DEFINE q == figures[j].of
      <4>1. Within(figures[j].is, Cardinality(Found(q, before)), report.changed)
        BY <2>1, <2>3, <2>6, <2>8 DEF Making
      <4>2. /\ Found(q, before) \subseteq Found(q, after) \union its
            /\ Found(q, after) \subseteq Found(q, before) \union its
        <5>1. q.whose \in {"own", "read", "all"}
          BY <2>1, <2>3, FigureOf
        <5>2. \A x : x # m => (x \in About(q, before) <=> x \in About(q, after))
          BY <1>1, <2>3, <5>1 DEF About
        <5> HIDE DEF q
        <5> QED
          BY <5>2 DEF Found
      <4>3. Within(Cardinality(Found(q, before)), Cardinality(Found(q, after)), n)
        BY <1>1, <2>5, <4>2, Apart
      <4>4. figures[j].is \in Nat /\ Cardinality(Found(q, before)) \in Nat /\ Cardinality(Found(q, after)) \in Nat
        BY <2>5, <2>6
      <4> HIDE DEF n, q
      <4>5. Within(figures[j].is, Cardinality(Found(q, after)), report.changed + n)
        <5>1. PICK x, y, z : /\ x = figures[j].is /\ y = Cardinality(Found(q, before))
                             /\ z = Cardinality(Found(q, after))
          OBVIOUS
        <5>2. Within(x, y, report.changed) /\ Within(y, z, n) /\ x \in Nat /\ y \in Nat /\ z \in Nat
          BY <4>1, <4>3, <4>4, <5>1
        <5>3. Within(x, z, report.changed + n)
          BY <1>1, <2>2, <5>2 DEF Within
        <5> QED
          BY <5>1, <5>3
      <4> QED
        BY <4>5 DEF q
    <3>8. Drifted(after)'
      BY <2>6, <3>7
    <3>9. Drifted(placed)'
      BY <2>3, <3>8 DEF Drifted
    <3> QED
      BY <2>2, <3>5, <3>6, <3>9
  <2>9. Again(a, k)' => Again(a, k)
    BY DEF Again
  <2> QED
    BY <1>1, <2>2, <2>7, <2>8, <2>9 DEF ReportsInv, Making
<1> QED
  BY <1>2, <1>3

LEMMA InsertIsOneRow ==
  ASSUME NEW owner, NEW status, NEW live, NEW today, Insert(owner, status, live, today)
  PROVE  OneRow
<1> DEFINE new == Numbered([nr |-> 1, owner |-> owner, status |-> status, live |-> live, today |-> today])
<1>1. rows' = rows \union {new}
  BY DEF Insert
<1> HIDE DEF new
<1>2. rows' = (rows \ {new}) \union {new}
  BY <1>1
<1> QED
  BY <1>2 DEF OneRow

LEMMA UpdateIsOneRow ==
  ASSUME NEW old, NEW status, NEW live, Update(old, status, live)
  PROVE  OneRow
BY DEF Update, OneRow

LEMMA WriteStep ==
  ASSUME ReportsInv, GenerateReport \/ CreateSession \/ Others
  PROVE  ReportsInv'
<1>1. OneRow
  BY InsertIsOneRow, UpdateIsOneRow DEF GenerateReport, CreateSession, Others
<1>2. Changed(1) /\ UNCHANGED <<subject, placed>>
  BY DEF GenerateReport, CreateSession, Others, Insert, Update
<1> QED
  BY <1>1, <1>2, RowsStep

LEMMA SendStep == ReportsInv /\ Send => ReportsInv'
BY DEF ReportsInv, Send, FiguresAgree

\* The next query of an answer.
LEMMA NextQuery ==
  ASSUME NEW a \in Answers, NEW k, After(a, k), report.todo # <<>>, NEW figures, NEW people,
         Proceed(figures, people), \E S : figures \in Seq(S)
  PROVE  /\ k \in Nat /\ k + 1 \in 1..Len(a) /\ Head(report.todo) = a[k + 1]
         /\ report'.figures = figures /\ report'.people = people /\ report'.changed = report.changed
         /\ After(a, k + 1)'
<1>1. PICK S : report.todo \in Seq(S)
  BY DEF After
<1>2. /\ Len(a) \in Nat /\ k \in 0..Len(a) /\ Len(report.todo) = Len(a) - k
      /\ \A i \in 1..Len(report.todo) : report.todo[i] = a[k + i]
  BY AnswersWellFormed DEF After, WellFormed
<1>3. Len(report.todo) \in Nat \ {0} /\ Head(report.todo) = report.todo[1]
  BY <1>1
<1>4. /\ Tail(report.todo) \in Seq(S) /\ Len(Tail(report.todo)) = Len(report.todo) - 1
      /\ \A i \in 1..Len(Tail(report.todo)) : Tail(report.todo)[i] = report.todo[i + 1]
  BY <1>1
<1>5. report' = [todo |-> Tail(report.todo), figures |-> figures, people |-> people,
                 changed |-> report.changed]
  BY DEF Proceed, After
<1>6. /\ report'.todo = Tail(report.todo) /\ report'.figures = figures /\ report'.people = people
      /\ report'.changed = report.changed
      /\ report' = [todo |-> report'.todo, figures |-> report'.figures, people |-> report'.people,
                    changed |-> report'.changed]
  BY <1>5
<1>7. k \in Nat /\ k + 1 \in 1..Len(a) /\ Head(report.todo) = a[k + 1]
  BY <1>2, <1>3
<1>8. \A i \in 1..Len(report'.todo) : report'.todo[i] = a[(k + 1) + i]
  <2>1. TAKE i \in 1..Len(report'.todo)
  <2>2. i \in Nat /\ i + 1 \in 1..Len(report.todo) /\ report'.todo[i] = report.todo[i + 1]
    BY <1>3, <1>4, <1>6, <2>1
  <2>3. report.todo[i + 1] = a[k + (i + 1)] /\ k + (i + 1) = (k + 1) + i
    BY <1>2, <2>2
  <2> QED
    BY <2>2, <2>3
<1>9. /\ k + 1 \in 0..Len(a) /\ Len(report'.todo) = Len(a) - (k + 1) /\ report'.changed \in Nat
      /\ \E T : report'.todo \in Seq(T)
  <2>1. report'.todo \in Seq(S) /\ report'.changed \in Nat
    BY <1>4, <1>6 DEF After
  <2>2. Len(report'.todo) = Len(report.todo) - 1
    BY <1>4, <1>6
  <2>3. k + 1 \in 0..Len(a) /\ Len(report'.todo) = Len(a) - (k + 1)
    BY <1>2, <1>3, <1>7, <2>2
  <2> QED
    BY <2>1, <2>3
<1> QED
  BY <1>6, <1>7, <1>8, <1>9 DEF After

\* A query that does not read them leaves the people to be read.
LEMMA NotYet ==
  ASSUME NEW a, NEW k \in Nat, a[k + 1].kind # "ids", Len(a) \in Nat, Again(a, k + 1)
  PROVE  Again(a, k)
<1>1. \A i \in 1..(k + 1) : i \in 1..k \/ i = k + 1
  OBVIOUS
<1>2. \A i \in ((k + 1) + 1)..Len(a) : i \in (k + 1)..Len(a)
  OBVIOUS
<1> QED
  BY <1>1, <1>2 DEF Again

LEMMA SameFigures ==
  ASSUME UNCHANGED <<rows, report.figures, report.changed>>, NEW people, Drifted(people)
  PROVE  Drifted(people)'
<1>1. \A q : Found(q, people)' = Found(q, people)
  BY DEF Found, About, InSpan
<1>2. PICK figures : figures = report.figures
  OBVIOUS
<1>3. ASSUME NEW j \in 1..Len(figures)
      PROVE  Within(figures[j].is, Cardinality(Found(figures[j].of, people)'), report.changed)
  <2>1. PICK q : q = figures[j].of
    OBVIOUS
  <2>2. Found(q, people)' = Found(q, people)
    BY <1>1
  <2> QED
    BY <1>2, <2>1, <2>2 DEF Drifted
<1> QED
  BY <1>2, <1>3 DEF Drifted

\* The people are read: they are those who are there, and the figures there are
\* count as many of them as the query would find now.
LEMMA IdsStep ==
  ASSUME ReportsInv, NEW a \in Answers, NEW k, Making(a, k), report.todo # <<>>,
         Head(report.todo).kind = "ids", Proceed(report.figures, placed), UNCHANGED <<subject, rows, placed>>
  PROVE  Making(a, k + 1)'
<1>1. \E S : report.figures \in Seq(S)
  BY DEF Making, After
<1>2. /\ k \in Nat /\ k + 1 \in 1..Len(a) /\ Head(report.todo) = a[k + 1]
      /\ report'.figures = report.figures /\ report'.people = placed /\ report'.changed = report.changed
      /\ After(a, k + 1)'
  BY <1>1, NextQuery DEF Making
<1>3. Counted(a, k + 1)'
  <2>1. \A i \in 1..k : i \in 1..(k + 1)
    BY <1>2
  <2> QED
    BY <1>2, <2>1 DEF Making, Counted
<1>4. Drifted(placed)
  <2>1. CASE \E i \in 1..k : a[i].kind = "ids"
    <3>1. k + 1 \in (k + 1)..Len(a)
      BY <1>2
    <3> QED
      BY <1>2, <2>1, <3>1 DEF Making, Again
  <2>2. CASE ~\E i \in 1..k : a[i].kind = "ids"
    <3>1. ASSUME NEW j \in 1..Len(report.figures)
          PROVE  Found(report.figures[j].of, placed) = Found(report.figures[j].of, report.people)
      <4>1. /\ report.figures[j].of.whose \in {"own", "read", "all"}
            /\ \E i \in 1..Len(a) : i <= k /\ a[i] = report.figures[j].of /\ a[i].kind = "count"
        BY FigureOf
      <4>2. PICK i \in 1..Len(a) : i <= k /\ a[i] = report.figures[j].of /\ a[i].kind = "count"
        BY <4>1
      <4>3. Len(a) \in Nat /\ DOMAIN a = 1..Len(a) /\ Ordered(a)
        BY AnswersWellFormed DEF WellFormed
      <4>4. ASSUME a[i].whose = "read"
            PROVE  FALSE
        <5>1. PICK h \in 1..Len(a) : h < i /\ a[h].kind = "ids"
          BY <4>2, <4>3, <4>4 DEF Ordered
        <5>2. h \in 1..k
          BY <1>2, <4>2, <4>3, <5>1
        <5> QED
          BY <2>2, <5>1, <5>2
      <4>5. About(report.figures[j].of, placed) = About(report.figures[j].of, report.people)
        BY <4>1, <4>2, <4>4 DEF About
      <4> QED
        BY <4>5 DEF Found
    <3> QED
      BY <3>1 DEF Making, Drifted
  <2> QED
    BY <2>1, <2>2
<1>5. Drifted(placed)' /\ Drifted(report.people)'
  <2>1. PICK now : now = placed
    OBVIOUS
  <2>2. Drifted(now)'
    BY <1>2, <1>4, <2>1, SameFigures
  <2> QED
    BY <1>2, <2>1, <2>2 DEF Drifted
<1>6. Cardinality(Astray(report.people))' <= report'.changed
  <2>1. Astray(report.people)' = {}
    BY <1>2 DEF Astray
  <2>2. report'.changed \in Nat
    BY <1>2 DEF After
  <2> QED
    BY <2>1, <2>2, FS_EmptySet
<1> QED
  BY <1>2, <1>3, <1>5, <1>6 DEF Making

\* What follows is done for each of the people alike: nothing is counted yet.
LEMMA OneStep ==
  ASSUME ReportsInv, NEW a \in Answers, NEW k, Making(a, k), report.todo # <<>>,
         Head(report.todo).kind = "one", NEW m, Proceed(report.figures, {m}), UNCHANGED <<subject, rows, placed>>
  PROVE  Making(a, k + 1)'
<1>1. \E S : report.figures \in Seq(S)
  BY DEF Making, After
<1>2. /\ k \in Nat /\ k + 1 \in 1..Len(a) /\ Head(report.todo) = a[k + 1]
      /\ report'.figures = report.figures /\ After(a, k + 1)'
  BY <1>1, NextQuery DEF Making
<1>3. Len(a) \in Nat /\ DOMAIN a = 1..Len(a) /\ Ordered(a) /\ a[k + 1].kind = "one"
  BY <1>2, AnswersWellFormed DEF WellFormed
<1>4. ASSUME NEW j \in 1..Len(report.figures)
      PROVE  FALSE
  <2>1. PICK i \in 1..Len(a) : i <= k /\ a[i] = report.figures[j].of /\ a[i].kind = "count"
    BY FigureOf
  <2>2. i < k + 1
    BY <1>2, <2>1
  <2>3. a[i].kind = "ids"
    BY <1>2, <1>3, <2>1, <2>2 DEF Ordered
  <2> QED
    BY <2>1, <2>3
<1>5. ~Again(a, k + 1)'
  <2>1. ASSUME NEW i \in ((k + 1) + 1)..Len(a)
        PROVE  a[i].kind # "ids"
    <3>1. i \in 1..Len(a) /\ i > k + 1
      BY <1>2, <1>3
    <3> QED
      BY <1>2, <1>3, <3>1 DEF Ordered
  <2> QED
    BY <2>1 DEF Again
<1> QED
  BY <1>2, <1>4, <1>5 DEF Making, Counted, Drifted

LEMMA SameAnswer ==
  ASSUME ReportsInv, report # NoReport, UNCHANGED <<report.figures, report.changed>>
  PROVE  FiguresAgree'
BY DEF ReportsInv, FiguresAgree

\* A query of a table that is not followed.
LEMMA ElsewhereStep ==
  ASSUME ReportsInv, NEW a \in Answers, NEW k, Making(a, k), report.todo # <<>>,
         Head(report.todo).kind = "count", Proceed(report.figures, report.people),
         UNCHANGED <<subject, rows, placed>>
  PROVE  Making(a, k + 1)'
<1>1. \E S : report.figures \in Seq(S)
  BY DEF Making, After
<1>2. /\ k \in Nat /\ k + 1 \in 1..Len(a) /\ Head(report.todo) = a[k + 1]
      /\ report'.figures = report.figures /\ report'.people = report.people /\ report'.changed = report.changed
      /\ After(a, k + 1)'
  BY <1>1, NextQuery DEF Making
<1>3. Counted(a, k + 1)'
  <2>1. \A i \in 1..k : i \in 1..(k + 1)
    BY <1>2
  <2> QED
    BY <1>2, <2>1 DEF Making, Counted
<1>4. PICK group, now : group = report.people /\ now = placed
  OBVIOUS
<1>5. Drifted(report.people)'
  <2>1. Drifted(group)'
    BY <1>2, <1>4, SameFigures DEF Making
  <2> QED
    BY <1>2, <1>4, <2>1 DEF Drifted
<1>6. ASSUME Again(a, k + 1)
      PROVE  Cardinality(Astray(report.people))' <= report'.changed /\ Drifted(placed)'
  <2>1. Again(a, k)
    BY <1>2, <1>6, NotYet, AnswersWellFormed DEF WellFormed
  <2>2. Drifted(now)'
    BY <1>2, <1>4, <2>1, SameFigures DEF Making
  <2>3. Astray(report.people)' = Astray(report.people)
    BY <1>2 DEF Astray
  <2> QED
    BY <1>2, <1>4, <2>1, <2>2, <2>3 DEF Drifted, Making
<1>7. Again(a, k + 1)' => Again(a, k + 1)
  BY DEF Again
<1> QED
  BY <1>2, <1>3, <1>5, <1>6, <1>7 DEF Making

\* A query of the table that is followed: its figure is what it finds.
LEMMA CountStep ==
  ASSUME ReportsInv, NEW a \in Answers, NEW k, Making(a, k), report # NoReport, report.todo # <<>>,
         NEW q, q = Head(report.todo), q.kind = "count",
         Proceed(Append(report.figures, [of |-> q, is |-> RowsSeen(q)]), report.people),
         UNCHANGED <<subject, rows, placed>>
  PROVE  Making(a, k + 1)' /\ FiguresAgree'
<1> DEFINE new == [of |-> q, is |-> RowsSeen(q)]
<1>1. /\ \E S : report.figures \in Seq(S) /\ report.changed \in Nat /\ IsFiniteSet(rows) /\ IsFiniteSet(rows')
  BY DEF Making, After, ReportsInv
<1>2. PICK S : report.figures \in Seq(S)
  BY <1>1
<1>3. PICK old, figures : old = report.figures /\ figures = Append(report.figures, new)
  OBVIOUS
<1>4. /\ figures \in Seq(S \union {new}) /\ Len(old) \in Nat /\ Len(figures) = Len(old) + 1
      /\ DOMAIN figures = 1..Len(figures)
      /\ \A j \in 1..Len(old) : figures[j] = old[j]
      /\ figures[Len(old) + 1] = new
  <2> HIDE DEF new
  <2>1. old \in Seq(S \union {new}) /\ new \in S \union {new}
    BY <1>2, <1>3
  <2> QED
    BY <1>3, <2>1
<1>5. /\ k \in Nat /\ k + 1 \in 1..Len(a) /\ q = a[k + 1]
      /\ report'.figures = figures /\ report'.people = report.people /\ report'.changed = report.changed
      /\ After(a, k + 1)'
  <2>1. Proceed(figures, report.people) /\ \E T : figures \in Seq(T)
    BY <1>3, <1>4
  <2>2. After(a, k) /\ Head(report.todo) = q
    BY DEF Making
  <2> HIDE DEF new
  <2> QED
    BY <2>1, <2>2, NextQuery
<1>6. q.whose \in {"own", "read", "all"} /\ Len(a) \in Nat /\ DOMAIN a = 1..Len(a)
  BY <1>5, AnswersWellFormed DEF WellFormed
<1>7. new.of = q /\ new.is = Cardinality(Found(q, report.people)) /\ new.is \in Nat
  <2>1. RowsSeen(q) = Cardinality(Found(q, report.people))
    BY DEF RowsSeen, Found, Whose, About
  <2> QED
    BY <1>1, <2>1, FoundFinite
<1> HIDE DEF new
<1>8. \A j \in 1..Len(figures) : j = Len(old) + 1 \/ j \in 1..Len(old)
  BY <1>4
<1>9. Counted(a, k + 1)'
  <2>1. ASSUME NEW j \in 1..Len(figures)
        PROVE  /\ figures[j].is \in Nat /\ figures[j].of.kind = "count"
               /\ \E i \in 1..(k + 1) : a[i] = figures[j].of
    <3>1. CASE j = Len(old) + 1
      BY <1>4, <1>5, <1>7, <3>1
    <3>2. CASE j \in 1..Len(old)
      <4>1. \A i \in 1..k : i \in 1..(k + 1)
        BY <1>5
      <4> QED
        BY <1>3, <1>4, <3>2, <4>1 DEF Making, Counted
    <3> QED
      BY <1>8, <3>1, <3>2
  <2> QED
    BY <1>5, <2>1 DEF Counted
<1>10. \A c, people : Found(c, people)' = Found(c, people)
  BY DEF Found, About, InSpan
<1>11. PICK group, now : group = report.people /\ now = placed
  OBVIOUS
<1>12. ASSUME NEW people, Drifted(people), Within(new.is, Cardinality(Found(q, people)), report.changed)
       PROVE  Drifted(people)'
  <2>1. ASSUME NEW j \in 1..Len(figures)
        PROVE  Within(figures[j].is, Cardinality(Found(figures[j].of, people)'), report.changed)
    <3>1. PICK c : c = figures[j].of
      OBVIOUS
    <3>2. Found(c, people)' = Found(c, people)
      BY <1>10
    <3>3. CASE j = Len(old) + 1
      BY <1>4, <1>7, <1>12, <3>1, <3>2, <3>3
    <3>4. CASE j \in 1..Len(old)
      BY <1>3, <1>4, <1>12, <3>1, <3>2, <3>4 DEF Drifted
    <3> QED
      BY <1>8, <3>3, <3>4
  <2> QED
    BY <1>5, <2>1 DEF Drifted
<1>13. Drifted(report.people)'
  <2>1. Within(new.is, Cardinality(Found(q, group)), report.changed)
    BY <1>1, <1>7, <1>11 DEF Within
  <2>2. Drifted(group)'
    BY <1>11, <1>12, <2>1 DEF Making
  <2> QED
    BY <1>5, <1>11, <2>2 DEF Drifted
<1>14. ASSUME Again(a, k + 1)
       PROVE  Cardinality(Astray(report.people))' <= report'.changed /\ Drifted(placed)'
  <2>1. Again(a, k)
    BY <1>5, <1>6, <1>14, NotYet
  <2>2. Cardinality(Astray(report.people)) <= report.changed /\ Drifted(placed)
    BY <2>1 DEF Making
  <2>3. Within(new.is, Cardinality(Found(q, now)), report.changed)
    BY <1>1, <1>6, <1>7, <1>11, <2>2, FoundAstray
  <2>4. Drifted(now)'
    BY <1>11, <1>12, <2>2, <2>3
  <2>5. Astray(report.people)' = Astray(report.people)
    BY <1>5 DEF Astray
  <2> QED
    BY <1>5, <1>11, <2>2, <2>4, <2>5 DEF Drifted
<1>15. Again(a, k + 1)' => Again(a, k + 1)
  BY DEF Again
<1>16. FiguresAgree'
  <2>1. ASSUME NEW i \in 1..Len(figures), NEW j \in 1..Len(figures), figures[i].of.status = AnyStatus,
               figures[i].of.table = figures[j].of.table, figures[i].of.span = figures[j].of.span
        PROVE  figures[j].is <= figures[i].is + report.changed
    <3>1. \A h \in 1..Len(figures) : figures[h].is \in Nat /\ \E n \in 1..Len(a) : a[n] = figures[h].of /\ a[n].kind = "count"
      <4>1. TAKE h \in 1..Len(figures)
      <4>2. CASE h = Len(old) + 1
        BY <1>4, <1>5, <1>7, <4>2
      <4>3. CASE h \in 1..Len(old)
        <5>1. figures[h] = report.figures[h] /\ h \in 1..Len(report.figures)
          BY <1>3, <1>4, <4>3
        <5>2. report.figures[h].is \in Nat
          BY <5>1 DEF Making, Counted
        <5>3. \E n \in 1..Len(a) : a[n] = report.figures[h].of /\ a[n].kind = "count"
          BY <5>1, FigureOf
        <5> QED
          BY <5>1, <5>2, <5>3
      <4> QED
        BY <1>8, <4>2, <4>3
    <3>2. Cardinality(Found(figures[j].of, group)) <= Cardinality(Found(figures[i].of, group))
      <4>1. PICK n \in 1..Len(a), m \in 1..Len(a) :
                 a[n] = figures[i].of /\ a[n].kind = "count" /\ a[m] = figures[j].of /\ a[m].kind = "count"
        BY <3>1
      <4> QED
        BY <1>1, <2>1, <4>1, PartFound DEF Making
    <3>3. /\ Cardinality(Found(figures[j].of, group)) \in Nat /\ Cardinality(Found(figures[i].of, group)) \in Nat
          /\ figures[i].is \in Nat /\ figures[j].is \in Nat
      BY <1>1, <3>1, FoundFinite
    <3>4. \A h \in 1..Len(old) :
             Within(figures[h].is, Cardinality(Found(figures[h].of, group)), report.changed)
      BY <1>3, <1>4, <1>11 DEF Making, Drifted
    <3>5. figures[Len(old) + 1].is = Cardinality(Found(figures[Len(old) + 1].of, group))
      BY <1>4, <1>7, <1>11
    <3>6. CASE i \in 1..Len(old) /\ j \in 1..Len(old)
      <4>1. figures[i] = report.figures[i] /\ figures[j] = report.figures[j]
            /\ i \in DOMAIN report.figures /\ j \in DOMAIN report.figures
        BY <1>2, <1>3, <1>4, <3>6
      <4> QED
        BY <2>1, <4>1 DEF ReportsInv, FiguresAgree
    <3>7. CASE i = Len(old) + 1 /\ j \in 1..Len(old)
      BY <1>1, <3>2, <3>3, <3>4, <3>5, <3>7 DEF Within
    <3>8. CASE i \in 1..Len(old) /\ j = Len(old) + 1
      BY <1>1, <3>2, <3>3, <3>4, <3>5, <3>8 DEF Within
    <3>9. CASE i = Len(old) + 1 /\ j = Len(old) + 1
      BY <1>1, <3>3, <3>9
    <3> QED
      BY <1>8, <3>6, <3>7, <3>8, <3>9
  <2> QED
    BY <1>4, <1>5, <2>1 DEF FiguresAgree
<1> QED
  BY <1>5, <1>9, <1>13, <1>14, <1>15, <1>16 DEF Making

LEMMA QueryStep ==
  ASSUME ReportsInv, Query
  PROVE  ReportsInv'
<1>1. /\ report # NoReport /\ report.todo # <<>> /\ UNCHANGED <<subject, rows, placed>>
      /\ IsFiniteSet(rows) /\ IsFiniteSet(rows')
  BY DEF Query, ReportsInv
<1>2. PICK a \in Answers, k \in Nat : Making(a, k)
  BY <1>1 DEF ReportsInv
<1>3. PICK q : q = Head(report.todo)
  OBVIOUS
<1>4. q.kind \in {"ids", "one", "count"}
  <2>1. PICK S : report.todo \in Seq(S)
    BY <1>2 DEF Making, After
  <2>2. /\ Len(a) \in Nat /\ k \in 0..Len(a) /\ Len(report.todo) = Len(a) - k /\ DOMAIN a = 1..Len(a)
        /\ \A i \in 1..Len(report.todo) : report.todo[i] = a[k + i]
    BY <1>2, AnswersWellFormed DEF Making, After, WellFormed
  <2>3. Len(report.todo) \in Nat \ {0} /\ Head(report.todo) = report.todo[1]
    BY <1>1, <2>1
  <2>4. q = a[k + 1] /\ k + 1 \in DOMAIN a
    BY <1>3, <2>2, <2>3
  <2> QED
    BY <2>4, AnswersWellFormed DEF WellFormed
<1>5. CASE q.kind = "ids"
  <2>1. Proceed(report.figures, placed)
    BY <1>3, <1>5 DEF Query
  <2>2. Making(a, k + 1)'
    BY <1>1, <1>2, <1>3, <1>5, <2>1, IdsStep
  <2>3. UNCHANGED <<report.figures, report.changed>>
    <3>1. \E S : report.figures \in Seq(S)
      BY <1>2 DEF Making, After
    <3> QED
      BY <1>1, <1>2, <2>1, <3>1, NextQuery DEF Making
  <2> QED
    BY <1>1, <2>2, <2>3, SameAnswer DEF ReportsInv
<1>6. CASE q.kind = "one"
  <2>1. PICK m \in report.people : Proceed(report.figures, {m})
    BY <1>3, <1>6 DEF Query
  <2>2. Making(a, k + 1)'
    BY <1>1, <1>2, <1>3, <1>6, <2>1, OneStep
  <2>3. UNCHANGED <<report.figures, report.changed>>
    <3>1. \E S : report.figures \in Seq(S)
      BY <1>2 DEF Making, After
    <3> QED
      BY <1>1, <1>2, <2>1, <3>1, NextQuery DEF Making
  <2> QED
    BY <1>1, <2>2, <2>3, SameAnswer DEF ReportsInv
<1>7. CASE q.kind = "count" /\ q.table # subject
  <2>1. Proceed(report.figures, report.people)
    BY <1>3, <1>7 DEF Query
  <2>2. Making(a, k + 1)'
    BY <1>1, <1>2, <1>3, <1>7, <2>1, ElsewhereStep
  <2>3. UNCHANGED <<report.figures, report.changed>>
    <3>1. \E S : report.figures \in Seq(S)
      BY <1>2 DEF Making, After
    <3> QED
      BY <1>1, <1>2, <2>1, <3>1, NextQuery DEF Making
  <2> QED
    BY <1>1, <2>2, <2>3, SameAnswer DEF ReportsInv
<1>8. CASE q.kind = "count" /\ q.table = subject
  <2>1. Proceed(Append(report.figures, [of |-> q, is |-> RowsSeen(q)]), report.people)
    BY <1>3, <1>8 DEF Query
  <2>2. Making(a, k + 1)' /\ FiguresAgree'
    BY <1>1, <1>2, <1>3, <1>8, <2>1, CountStep
  <2> QED
    BY <1>1, <2>2 DEF ReportsInv
<1> QED
  BY <1>4, <1>5, <1>6, <1>7, <1>8

\* Nothing moves while the other part of the database is followed.
LEMMA ReportsStutter == ReportsInv /\ UNCHANGED reportVars => ReportsInv'
<1> SUFFICES ASSUME ReportsInv, UNCHANGED reportVars
             PROVE  ReportsInv'
  OBVIOUS
<1>1. UNCHANGED <<subject, rows, placed, report>>
  BY DEF reportVars
<1>2. \A q, people : Found(q, people)' = Found(q, people)
  BY <1>1 DEF Found, About, InSpan
<1>3. CASE report = NoReport
  BY <1>1, <1>3 DEF ReportsInv, FiguresAgree
<1>4. CASE report # NoReport
  <2>1. PICK a \in Answers, k \in Nat : Making(a, k)
    BY <1>4 DEF ReportsInv
  <2>2. PICK group, now : group = report.people /\ now = placed
    OBVIOUS
  <2>3. \A people : Drifted(people) => Drifted(people)'
    BY <1>1, SameFigures
  <2>4. Drifted(report.people)'
    <3>1. Drifted(group)'
      BY <2>1, <2>2, <2>3 DEF Making
    <3> QED
      BY <1>1, <2>2, <3>1 DEF Drifted
  <2>5. Again(a, k) => Drifted(placed)'
    <3>1. Again(a, k) => Drifted(now)'
      BY <2>1, <2>2, <2>3 DEF Making
    <3> QED
      BY <1>1, <2>2, <3>1 DEF Drifted
  <2>6. After(a, k)' /\ Counted(a, k)' /\ (Again(a, k)' => Again(a, k))
    BY <1>1, <2>1 DEF Making, After, Counted, Again
  <2>7. Astray(report.people)' = Astray(report.people)
    BY <1>1 DEF Astray
  <2>8. Making(a, k)'
    BY <1>1, <2>1, <2>4, <2>5, <2>6, <2>7 DEF Making
  <2> QED
    BY <1>1, <2>8 DEF ReportsInv, FiguresAgree
<1> QED
  BY <1>3, <1>4

LEMMA ReportsStep == ReportsInv /\ ReportsNext => ReportsInv'
BY BeginStep, QueryStep, SendStep, WriteStep, MoveStep DEF ReportsNext

\* The figures of an answer contradict each other by no more than the rows that
\* changed while its queries ran, for any number of people and rows. The
\* invariant says that each figure is what its query would find now, about the
\* people that were read, give or take those rows. Where the people are to be
\* read once more (a download of an export), each figure is also what its query
\* would find about those who are there now, as that is what comes next.
THEOREM FiguresKept == Spec => []FiguresAgree
<1>1. Init => ReportsInv
  BY ReportsStart DEF Init
<1>2. ReportsInv /\ [Next]_vars => ReportsInv'
  BY ReportsStep, ReportsStutter DEF Next, vars
<1>3. ReportsInv => FiguresAgree
  BY DEF ReportsInv
<1> QED
  BY <1>1, <1>2, <1>3, PTL DEF Spec

-----------------------------------------------------------------------------
(***************************************************************************)
(* One operation of a script.                                              *)
(***************************************************************************)
Fields(db) == DOMAIN db = {"tables", "columns", "keys", "rules", "indexes", "enums", "rows", "breaks"}

\* A database has the schema that is drafted, and may have types of enumerations
\* that downgrades have left.
Matches(db, plan) ==
    /\ Fields(db) /\ Fields(plan)
    /\ db.tables = plan.tables /\ db.columns = plan.columns /\ db.keys = plan.keys
    /\ db.rules = plan.rules /\ db.indexes = plan.indexes
    /\ plan.enums \subseteq db.enums

LEMMA FitsThePlan ==
  ASSUME NEW db, NEW plan, Matches(db, plan), NEW op, Fits(db, op)
  PROVE  Fits(plan, op)
BY DEF Matches, Fits

LEMMA AlteredFields ==
  ASSUME NEW db, Fields(db), NEW op
  PROVE  Fields(Altered(db, op))
BY DEF Fields, Altered, WithoutTable, WithoutColumn

LEMMA AlteredMatches ==
  ASSUME NEW db, NEW plan, Matches(db, plan), NEW op
  PROVE  Matches(Altered(db, op), Altered(plan, op))
<1>1. Fields(Altered(db, op)) /\ Fields(Altered(plan, op))
  BY AlteredFields DEF Matches
<1> USE DEF Matches, Fields
<1>2. CASE op.do = "create table"
  BY <1>1, <1>2 DEF Altered
<1>3. CASE op.do = "drop table"
  BY <1>1, <1>3 DEF Altered, WithoutTable
<1>4. CASE op.do = "add column"
  BY <1>1, <1>4 DEF Altered
<1>5. CASE op.do = "drop column"
  BY <1>1, <1>5 DEF Altered, WithoutColumn
<1>6. CASE op.do = "add key"
  BY <1>1, <1>6 DEF Altered
<1>7. CASE op.do = "drop key"
  BY <1>1, <1>7 DEF Altered
<1>8. CASE op.do \in {"add rule", "drop rule"}
  BY <1>1, <1>8 DEF Altered
<1>9. CASE op.do \in {"index", "drop index"}
  BY <1>1, <1>9 DEF Altered
<1>10. CASE op.do \in {"types", "drop types"}
  BY <1>1, <1>10 DEF Altered
<1>11. CASE op.do \notin {"create table", "drop table", "add column", "drop column", "add key", "drop key",
                          "add rule", "drop rule", "index", "drop index", "types", "drop types"}
  BY <1>1, <1>11 DEF Altered
<1> QED
  BY <1>2, <1>3, <1>4, <1>5, <1>6, <1>7, <1>8, <1>9, <1>10, <1>11

\* The rows are no part of the schema.
LEMMA ExecutedMatches ==
  ASSUME NEW db, Fields(db), NEW plan, NEW op, Matches(Altered(db, op), plan)
  PROVE  Matches(Executed(db, op), plan)
<1> DEFINE after == Altered(db, op)
<1>1. Fields(after)
  BY AlteredFields
<1> HIDE DEF after
<1>2. \A stored, breaks : /\ Matches([after EXCEPT !.rows = stored, !.breaks = breaks], plan)
                          /\ Matches([after EXCEPT !.breaks = breaks], plan)
                          /\ Matches([after EXCEPT !.rows = stored], plan)
  BY <1>1 DEF Matches, Fields, after
<1> QED
  BY <1>2 DEF Executed, after
(***************************************************************************)
(* A script, and the scripts of a command, step by step.                   *)
(***************************************************************************)

\* Some number is the least.
LEMMA SomeLeast ==
  ASSUME NEW S, S # {}, S \subseteq Nat
  PROVE  \E n \in S : \A k \in S : n <= k
<1>1. PICK x \in S : \A y \in S : ~(<<y, x>> \in OpToRel(<, Nat))
  BY NatLessThanWellFounded, WFMin
<1>2. \A y \in S : x \in Nat /\ y \in Nat /\ x <= y
  <2> SUFFICES ASSUME NEW y \in S, y < x PROVE FALSE
    OBVIOUS
  <2>1. <<y, x>> \in Nat \X Nat /\ <<y, x>>[1] < <<y, x>>[2]
    OBVIOUS
  <2>2. <<y, x>> \in OpToRel(<, Nat)
    BY <2>1 DEF OpToRel
  <2> QED
    BY <1>1, <2>2
<1> QED
  BY <1>2

\* Induction, for a property given as the set of numbers that have it.
LEMMA AllNumbers ==
  ASSUME NEW S \in SUBSET Nat, 0 \in S, \A n \in S : n + 1 \in S
  PROVE  \A n \in Nat : n \in S
<1> SUFFICES ASSUME Nat \ S # {} PROVE FALSE
  OBVIOUS
<1>1. PICK n \in Nat \ S : \A k \in Nat \ S : n <= k
  BY SomeLeast
<1>2. n # 0 /\ n - 1 \in Nat
  BY <1>1
<1>3. n - 1 \in S
  BY <1>1, <1>2
<1> QED
  BY <1>1, <1>2, <1>3

\* What an operation makes of the database, and of a plan.
Ran(before, op) ==
    IF before.ok /\ Possible(before.db, op) THEN [ok |-> TRUE, db |-> Executed(before.db, op)]
    ELSE [ok |-> FALSE, db |-> before.db]

Drew(before, op) ==
    IF before.ok /\ Fits(before.db, op) THEN [ok |-> TRUE, db |-> Altered(before.db, op)]
    ELSE [ok |-> FALSE, db |-> before.db]

LEMMA RunSteps ==
  ASSUME NEW start, NEW ops, Len(ops) \in Nat
  PROVE  \E f : /\ f[0] = [ok |-> TRUE, db |-> start]
                /\ \A i \in 1..Len(ops) : f[i] = Ran(f[i - 1], ops[i])
                /\ Run(start, ops) = f[Len(ops)]
<1> DEFINE Body(f, i) == 
               IF i = 0 THEN [ok |-> TRUE, db |-> start]
               ELSE LET before == f[i - 1]
                    IN  IF before.ok /\ Possible(before.db, ops[i])
                        THEN [ok |-> TRUE, db |-> Executed(before.db, ops[i])]
                        ELSE [ok |-> FALSE, db |-> before.db]
           F == CHOOSE f : f = [i \in 0..Len(ops) |-> Body(f, i)]
           N == {n \in Nat : \E f : f = [i \in 0..n |-> Body(f, i)]}
<1>1. 0 \in N
  <2> DEFINE f == [i \in 0..0 |-> [ok |-> TRUE, db |-> start]]
  <2>1. \A i \in 0..0 : Body(f, i) = [ok |-> TRUE, db |-> start]
    OBVIOUS
  <2>2. f = [i \in 0..0 |-> Body(f, i)]
    BY <2>1
  <2> HIDE DEF Body, f
  <2> QED
    BY <2>2
<1>2. ASSUME NEW n \in N
      PROVE  n + 1 \in N
  <2>1. PICK f : f = [i \in 0..n |-> Body(f, i)]
    OBVIOUS
  <2> DEFINE g == [i \in 0..(n + 1) |-> IF i = n + 1 THEN Body(f, i) ELSE f[i]]
  <2>2. \A i \in 0..(n + 1) : i # 0 => i - 1 \in 0..n /\ g[i - 1] = f[i - 1]
    OBVIOUS
  <2>3. \A i \in 0..(n + 1) : Body(g, i) = Body(f, i)
    <3> HIDE DEF g
    <3> QED
      BY <2>2
  <2> HIDE DEF Body
  <2>4. \A i \in 0..n : f[i] = Body(f, i)
    BY <2>1
  <2>5. g = [i \in 0..(n + 1) |-> Body(g, i)]
    BY <2>3, <2>4
  <2> HIDE DEF g
  <2>6. \E h : h = [i \in 0..(n + 1) |-> Body(h, i)]
    BY <2>5
  <2> QED
    BY <2>6
<1> HIDE DEF Body
<1>3. Len(ops) \in N
  <2>1. N \in SUBSET Nat
    OBVIOUS
  <2> HIDE DEF N
  <2> QED
    BY <1>1, <1>2, <2>1, AllNumbers
<1>4. F = [i \in 0..Len(ops) |-> Body(F, i)]
  BY <1>3
<1>5. Run(start, ops) = F[Len(ops)]
  BY DEF Run, Body, F
<1> HIDE DEF F
<1>6. F[0] = [ok |-> TRUE, db |-> start] /\ \A i \in 1..Len(ops) : F[i] = Body(F, i)
  <2>1. 0 \in 0..Len(ops) /\ \A i \in 1..Len(ops) : i \in 0..Len(ops)
    BY SMT
  <2>2. Body(F, 0) = [ok |-> TRUE, db |-> start]
    BY DEF Body
  <2> QED
    BY <1>4, <2>1, <2>2
<1>7. \A i \in 1..Len(ops) : Body(F, i) = Ran(F[i - 1], ops[i])
  BY DEF Body, Ran
<1> QED
  BY <1>5, <1>6, <1>7

LEMMA DraftedSteps ==
  ASSUME NEW start, NEW ops, Len(ops) \in Nat
  PROVE  \E f : /\ f[0] = [ok |-> TRUE, db |-> start]
                /\ \A i \in 1..Len(ops) : f[i] = Drew(f[i - 1], ops[i])
                /\ Drafted(start, ops) = f[Len(ops)]
<1> DEFINE Body(f, i) == 
               IF i = 0 THEN [ok |-> TRUE, db |-> start]
               ELSE LET before == f[i - 1]
                    IN  IF before.ok /\ Fits(before.db, ops[i])
                        THEN [ok |-> TRUE, db |-> Altered(before.db, ops[i])]
                        ELSE [ok |-> FALSE, db |-> before.db]
           F == CHOOSE f : f = [i \in 0..Len(ops) |-> Body(f, i)]
           N == {n \in Nat : \E f : f = [i \in 0..n |-> Body(f, i)]}
<1>1. 0 \in N
  <2> DEFINE f == [i \in 0..0 |-> [ok |-> TRUE, db |-> start]]
  <2>1. \A i \in 0..0 : Body(f, i) = [ok |-> TRUE, db |-> start]
    OBVIOUS
  <2>2. f = [i \in 0..0 |-> Body(f, i)]
    BY <2>1
  <2> HIDE DEF Body, f
  <2> QED
    BY <2>2
<1>2. ASSUME NEW n \in N
      PROVE  n + 1 \in N
  <2>1. PICK f : f = [i \in 0..n |-> Body(f, i)]
    OBVIOUS
  <2> DEFINE g == [i \in 0..(n + 1) |-> IF i = n + 1 THEN Body(f, i) ELSE f[i]]
  <2>2. \A i \in 0..(n + 1) : i # 0 => i - 1 \in 0..n /\ g[i - 1] = f[i - 1]
    OBVIOUS
  <2>3. \A i \in 0..(n + 1) : Body(g, i) = Body(f, i)
    <3> HIDE DEF g
    <3> QED
      BY <2>2
  <2> HIDE DEF Body
  <2>4. \A i \in 0..n : f[i] = Body(f, i)
    BY <2>1
  <2>5. g = [i \in 0..(n + 1) |-> Body(g, i)]
    BY <2>3, <2>4
  <2> HIDE DEF g
  <2>6. \E h : h = [i \in 0..(n + 1) |-> Body(h, i)]
    BY <2>5
  <2> QED
    BY <2>6
<1> HIDE DEF Body
<1>3. Len(ops) \in N
  <2>1. N \in SUBSET Nat
    OBVIOUS
  <2> HIDE DEF N
  <2> QED
    BY <1>1, <1>2, <2>1, AllNumbers
<1>4. F = [i \in 0..Len(ops) |-> Body(F, i)]
  BY <1>3
<1>5. Drafted(start, ops) = F[Len(ops)]
  BY DEF Drafted, Body, F
<1> HIDE DEF F
<1>6. F[0] = [ok |-> TRUE, db |-> start] /\ \A i \in 1..Len(ops) : F[i] = Body(F, i)
  <2>1. 0 \in 0..Len(ops) /\ \A i \in 1..Len(ops) : i \in 0..Len(ops)
    BY SMT
  <2>2. Body(F, 0) = [ok |-> TRUE, db |-> start]
    BY DEF Body
  <2> QED
    BY <1>4, <2>1, <2>2
<1>7. \A i \in 1..Len(ops) : Body(F, i) = Drew(F[i - 1], ops[i])
  BY DEF Body, Drew
<1> QED
  BY <1>5, <1>6, <1>7

LEMMA AppliedSteps ==
  ASSUME NEW db, NEW from, NEW to, Len(Path(from, to)) \in Nat
  PROVE  \E f : /\ f[0] = [ok |-> TRUE, db |-> db]
                /\ \A i \in 1..Len(Path(from, to)) : f[i] = IF f[i - 1].ok THEN Run(f[i - 1].db, Path(from, to)[i]) ELSE f[i - 1]
                /\ Applied(db, from, to) = f[Len(Path(from, to))]
<1> DEFINE Body(f, i) == 
               IF i = 0 THEN [ok |-> TRUE, db |-> db]
               ELSE LET before == f[i - 1]
                    IN  IF before.ok THEN Run(before.db, Path(from, to)[i]) ELSE before
           F == CHOOSE f : f = [i \in 0..Len(Path(from, to)) |-> Body(f, i)]
           N == {n \in Nat : \E f : f = [i \in 0..n |-> Body(f, i)]}
<1>1. 0 \in N
  <2> DEFINE f == [i \in 0..0 |-> [ok |-> TRUE, db |-> db]]
  <2>1. \A i \in 0..0 : Body(f, i) = [ok |-> TRUE, db |-> db]
    OBVIOUS
  <2>2. f = [i \in 0..0 |-> Body(f, i)]
    BY <2>1
  <2> HIDE DEF Body, f
  <2> QED
    BY <2>2
<1>2. ASSUME NEW n \in N
      PROVE  n + 1 \in N
  <2>1. PICK f : f = [i \in 0..n |-> Body(f, i)]
    OBVIOUS
  <2> DEFINE g == [i \in 0..(n + 1) |-> IF i = n + 1 THEN Body(f, i) ELSE f[i]]
  <2>2. \A i \in 0..(n + 1) : i # 0 => i - 1 \in 0..n /\ g[i - 1] = f[i - 1]
    OBVIOUS
  <2>3. \A i \in 0..(n + 1) : Body(g, i) = Body(f, i)
    <3> HIDE DEF g
    <3> QED
      BY <2>2
  <2> HIDE DEF Body
  <2>4. \A i \in 0..n : f[i] = Body(f, i)
    BY <2>1
  <2>5. g = [i \in 0..(n + 1) |-> Body(g, i)]
    BY <2>3, <2>4
  <2> HIDE DEF g
  <2>6. \E h : h = [i \in 0..(n + 1) |-> Body(h, i)]
    BY <2>5
  <2> QED
    BY <2>6
<1> HIDE DEF Body
<1>3. Len(Path(from, to)) \in N
  <2>1. N \in SUBSET Nat
    OBVIOUS
  <2> HIDE DEF N
  <2> QED
    BY <1>1, <1>2, <2>1, AllNumbers
<1>4. F = [i \in 0..Len(Path(from, to)) |-> Body(F, i)]
  BY <1>3
<1>5. Applied(db, from, to) = F[Len(Path(from, to))]
  BY DEF Applied, Body, F
<1> HIDE DEF F
<1>6. F[0] = [ok |-> TRUE, db |-> db] /\ \A i \in 1..Len(Path(from, to)) : F[i] = Body(F, i)
  <2>1. 0 \in 0..Len(Path(from, to)) /\ \A i \in 1..Len(Path(from, to)) : i \in 0..Len(Path(from, to))
    BY SMT
  <2>2. Body(F, 0) = [ok |-> TRUE, db |-> db]
    BY DEF Body
  <2> QED
    BY <1>4, <2>1, <2>2
<1>7. \A i \in 1..Len(Path(from, to)) : Body(F, i) = IF F[i - 1].ok THEN Run(F[i - 1].db, Path(from, to)[i]) ELSE F[i - 1]
  BY DEF Body
<1> QED
  BY <1>5, <1>6, <1>7

LEMMA DraftSteps ==
  ASSUME Latest \in Nat
  PROVE  \E f : /\ f[0] = [ok |-> TRUE, db |-> Blank]
                /\ \A i \in 1..Latest : f[i] = IF f[i - 1].ok THEN Drafted(f[i - 1].db, Scripts[i].up) ELSE f[i - 1]
                /\ Draft = f
<1> DEFINE Body(f, i) == 
               IF i = 0 THEN [ok |-> TRUE, db |-> Blank]
               ELSE LET before == f[i - 1]
                    IN  IF before.ok THEN Drafted(before.db, Scripts[i].up) ELSE before
           F == CHOOSE f : f = [i \in 0..Latest |-> Body(f, i)]
           N == {n \in Nat : \E f : f = [i \in 0..n |-> Body(f, i)]}
<1>1. 0 \in N
  <2> DEFINE f == [i \in 0..0 |-> [ok |-> TRUE, db |-> Blank]]
  <2>1. \A i \in 0..0 : Body(f, i) = [ok |-> TRUE, db |-> Blank]
    OBVIOUS
  <2>2. f = [i \in 0..0 |-> Body(f, i)]
    BY <2>1
  <2> HIDE DEF Body, f
  <2> QED
    BY <2>2
<1>2. ASSUME NEW n \in N
      PROVE  n + 1 \in N
  <2>1. PICK f : f = [i \in 0..n |-> Body(f, i)]
    OBVIOUS
  <2> DEFINE g == [i \in 0..(n + 1) |-> IF i = n + 1 THEN Body(f, i) ELSE f[i]]
  <2>2. \A i \in 0..(n + 1) : i # 0 => i - 1 \in 0..n /\ g[i - 1] = f[i - 1]
    OBVIOUS
  <2>3. \A i \in 0..(n + 1) : Body(g, i) = Body(f, i)
    <3> HIDE DEF g
    <3> QED
      BY <2>2
  <2> HIDE DEF Body
  <2>4. \A i \in 0..n : f[i] = Body(f, i)
    BY <2>1
  <2>5. g = [i \in 0..(n + 1) |-> Body(g, i)]
    BY <2>3, <2>4
  <2> HIDE DEF g
  <2>6. \E h : h = [i \in 0..(n + 1) |-> Body(h, i)]
    BY <2>5
  <2> QED
    BY <2>6
<1> HIDE DEF Body
<1>3. Latest \in N
  <2>1. N \in SUBSET Nat
    OBVIOUS
  <2> HIDE DEF N
  <2> QED
    BY <1>1, <1>2, <2>1, AllNumbers
<1>4. F = [i \in 0..Latest |-> Body(F, i)]
  BY <1>3
<1>5. Draft = F
  BY DEF Draft, Body, F
<1> HIDE DEF F
<1>6. F[0] = [ok |-> TRUE, db |-> Blank] /\ \A i \in 1..Latest : F[i] = Body(F, i)
  <2>1. 0 \in 0..Latest /\ \A i \in 1..Latest : i \in 0..Latest
    BY SMT
  <2>2. Body(F, 0) = [ok |-> TRUE, db |-> Blank]
    BY DEF Body
  <2> QED
    BY <1>4, <2>1, <2>2
<1>7. \A i \in 1..Latest : Body(F, i) = IF F[i - 1].ok THEN Drafted(F[i - 1].db, Scripts[i].up) ELSE F[i - 1]
  BY DEF Body
<1> QED
  BY <1>5, <1>6, <1>7

(***************************************************************************)
(* The scripts have finitely many operations.                              *)
(***************************************************************************)
IsSeq(s)    == \E S : s \in Seq(S)
IsScript(s) == Len(s.up) \in Nat /\ Len(s.down) \in Nat

LEMMA SeqLen == ASSUME NEW s, IsSeq(s) PROVE Len(s) \in Nat /\ DOMAIN s = 1..Len(s)
BY DEF IsSeq

LEMMA Joined == ASSUME NEW s, IsSeq(s), NEW t, IsSeq(t) PROVE IsSeq(s \o t)
<1>1. PICK S, T : s \in Seq(S) /\ t \in Seq(T)
  BY DEF IsSeq
<1>2. s \in Seq(S \union T) /\ t \in Seq(S \union T)
  BY <1>1
<1> QED
  BY <1>2 DEF IsSeq

LEMMA Numbering == ASSUME NEW n \in Nat, NEW f, f = [i \in 1..n |-> f[i]] PROVE IsSeq(f) /\ Len(f) = n
<1>1. f \in [1..n -> {f[i] : i \in 1..n}]
  OBVIOUS
<1>2. f \in Seq({f[i] : i \in 1..n})
  BY <1>1, SeqDef
<1>3. DOMAIN f = 1..n
  BY <1>1
<1>4. Len(f) = n
  BY <1>2, <1>3
<1> QED
  BY <1>2, <1>4 DEF IsSeq

LEMMA DroppedIs == ASSUME NEW tables, IsSeq(tables) PROVE IsSeq(Dropped(tables))
<1>1. Len(tables) \in Nat /\ DOMAIN tables = 1..Len(tables)
  BY SeqLen
<1>2. Dropped(tables) = [i \in 1..Len(tables) |-> Dropped(tables)[i]]
  BY <1>1 DEF Dropped
<1> QED
  BY <1>1, <1>2, Numbering

LEMMA TuplesAre ==
  /\ \A a : IsSeq(<<a>>)
  /\ \A a, b : IsSeq(<<a, b>>)
  /\ \A a, b, c : IsSeq(<<a, b, c>>)
  /\ \A a, b, c, d : IsSeq(<<a, b, c, d>>)
<1>1. /\ \A a : <<a>> \in Seq({a})
      /\ \A a, b : <<a, b>> \in Seq({a, b})
      /\ \A a, b, c : <<a, b, c>> \in Seq({a, b, c})
      /\ \A a, b, c, d : <<a, b, c, d>> \in Seq({a, b, c, d})
  OBVIOUS
<1> QED
  BY <1>1 DEF IsSeq

LEMMA ScriptsListed ==
  /\ IsScript(Message)
  /\ IsScript(InitialModels)
  /\ IsScript(PerAgentPreferences)
  /\ IsScript(FileOwners)
  /\ IsScript(FileServices)
  /\ IsScript(AgentPrompts)
  /\ IsScript(VectorStores)
  /\ IsScript(PromptText)
  /\ IsScript(ChatTables)
  /\ IsScript(AlexChatAdded)
  /\ IsScript(AlexChat)
  /\ IsScript(ReportTable)
  /\ IsScript(IssuesAndLicenses)
  /\ IsScript(DisplayName)
  /\ IsScript(AgentType)
  /\ IsScript(ProfilesAndGenders)
  /\ IsScript(IssueTypes)
  /\ IsScript(AttachmentKeys)
  /\ IsScript(FrontendTexts)
  /\ IsScript(FrontendTextsTable)
  /\ IsScript(OrganizationTones)
  /\ IsScript(OrganizationType)
  /\ IsScript(BusinessAgents)
  /\ IsScript(ReportsAgain)
  /\ IsScript(UserAgentAssignments)
  /\ IsScript(AgentInformation)
  /\ IsScript(ConvertedKey)
  /\ IsScript(MultiRole)
  /\ IsScript(Phase5)
  /\ IsScript(AuditKeys)
<1>1. IsScript(Message)
  BY DEF IsScript, Message
<1>2. IsScript(InitialModels)
  BY DEF IsScript, InitialModels
<1>3. IsScript(PerAgentPreferences)
  BY DEF IsScript, PerAgentPreferences
<1>4. IsScript(FileOwners)
  BY DEF IsScript, FileOwners
<1>5. IsScript(FileServices)
  BY DEF IsScript, FileServices
<1>6. IsScript(AgentPrompts)
  BY DEF IsScript, AgentPrompts
<1>7. IsScript(VectorStores)
  BY DEF IsScript, VectorStores
<1>8. IsScript(PromptText)
  BY DEF IsScript, PromptText
<1>9. IsScript(ChatTables)
  BY DEF IsScript, ChatTables
<1>10. IsScript(AlexChatAdded)
  BY DEF IsScript, AlexChatAdded
<1>11. IsScript(AlexChat)
  BY DEF IsScript, AlexChat
<1>12. IsScript(ReportTable)
  BY DEF IsScript, ReportTable
<1>13. IsScript(IssuesAndLicenses)
  BY DEF IsScript, IssuesAndLicenses
<1>14. IsScript(DisplayName)
  BY DEF IsScript, DisplayName
<1>15. IsScript(AgentType)
  BY DEF IsScript, AgentType
<1>16. IsScript(ProfilesAndGenders)
  BY DEF IsScript, ProfilesAndGenders
<1>17. IsScript(IssueTypes)
  BY DEF IsScript, IssueTypes
<1>18. IsScript(AttachmentKeys)
  BY DEF IsScript, AttachmentKeys
<1>19. IsScript(FrontendTexts)
  BY DEF IsScript, FrontendTexts
<1>20. IsScript(FrontendTextsTable)
  BY DEF IsScript, FrontendTextsTable
<1>21. IsScript(OrganizationTones)
  BY DEF IsScript, OrganizationTones
<1>22. IsScript(OrganizationType)
  BY DEF IsScript, OrganizationType
<1>23. IsScript(BusinessAgents)
  BY DEF IsScript, BusinessAgents
<1>24. IsScript(ReportsAgain)
  BY DEF IsScript, ReportsAgain
<1>25. IsScript(UserAgentAssignments)
  BY DEF IsScript, UserAgentAssignments
<1>26. IsScript(AgentInformation)
  BY DEF IsScript, AgentInformation
<1>27. IsScript(ConvertedKey)
  BY DEF IsScript, ConvertedKey
<1>28. IsScript(MultiRole)
  BY DEF IsScript, MultiRole
<1>29. IsScript(Phase5)
  BY DEF IsScript, Phase5
<1>30. IsScript(AuditKeys)
  BY DEF IsScript, AuditKeys
<1> QED
  BY <1>1, <1>2, <1>3, <1>4, <1>5, <1>6, <1>7, <1>8, <1>9, <1>10, <1>11, <1>12, <1>13,
     <1>14, <1>15, <1>16, <1>17, <1>18, <1>19, <1>20, <1>21, <1>22, <1>23, <1>24,
     <1>25, <1>26, <1>27, <1>28, <1>29, <1>30

LEMMA BusinessesIs == IsScript(Businesses)
<1> DEFINE new    == {"messagetypeenum", "audiotypeenum", "messagestatusenum", "conversationstatusenum",
                      "rolelevelenum"}
           recasts(using) == <<Recast("chat_messages", "message_type", using),
                               Recast("chat_messages", "audio_type", using),
                               Recast("chat_messages", "status", using),
                               Recast("conversations", "status", using)>>
           added  == <<"business_id", "assigned_by", "assigned_at", "expires_at", "is_active">>
           up1 == <<Enums(new),
                  TableOf("business", {Owned("organization_id", "organization")}, {}, {}, {"businesstypeenum"}),
                  Table("organization_admin", {Ref("assigned_by", "users"), Owned("user_id", "users"),
                                               Owned("organization_id", "organization")}),
                  Table("employee_profiles", {Ref("manager_id", "user_profiles"),
                                              Owned("user_profile_id", "user_profiles")}),
                  Table("student_profiles", {Ref("parent_contact_id", "user_profiles"),
                                             Owned("user_profile_id", "user_profiles")}),
                  Table("teacher_profiles", {Owned("user_profile_id", "user_profiles")}),
                  DropTable("relationship")>>
           up2 == <<Column("organization", "email"), Column("organization", "address"),
                     RequiredColumn("roles", "role_level")>>
           up3 == [i \in 1..5 |-> Column("user_profiles", added[i])]
           up4 == <<Key("user_profiles", Ref("assigned_by", "users")),
                     Key("user_profiles", Owned("business_id", "business"))>>
           down1 == <<DropKey("user_profiles", "business_id"), DropKey("user_profiles", "assigned_by")>>
           down2 == [i \in 1..5 |-> DropColumn("user_profiles", added[6 - i])]
           down3 == <<DropColumn("roles", "role_level"), DropColumn("organization", "address"),
                       DropColumn("organization", "email")>>
           down4 == Reverse(recasts(FALSE))
           down5 == <<Table("relationship", {}), DropTable("teacher_profiles"), DropTable("student_profiles"),
                       DropTable("employee_profiles"), DropTable("organization_admin"),
                       DropTable("business"), DropEnums(new)>>
<1>1. Businesses = [up |-> up1 \o recasts(TRUE) \o up2 \o up3 \o up4,
                    down |-> down1 \o down2 \o down3 \o down4 \o down5]
  BY DEF Businesses
<1>2. IsSeq(up1) /\ IsSeq(down5)
  <2>1. \A a, b, c, d, e, f, g : <<a, b, c, d, e, f, g>> \in Seq({a, b, c, d, e, f, g})
    OBVIOUS
  <2> QED
    BY <2>1 DEF IsSeq
<1>3. IsSeq(recasts(TRUE)) /\ IsSeq(up2) /\ IsSeq(up4) /\ IsSeq(down1) /\ IsSeq(down3)
  BY TuplesAre
<1>4. IsSeq(up3) /\ IsSeq(down2)
  <2>1. up3 = [i \in 1..5 |-> up3[i]] /\ down2 = [i \in 1..5 |-> down2[i]] /\ 5 \in Nat
    OBVIOUS
  <2> HIDE DEF up3, down2
  <2> QED
    BY <2>1, Numbering
<1>5. IsSeq(down4)
  <2> DEFINE r == recasts(FALSE)
  <2>1. IsSeq(r)
    BY TuplesAre
  <2> HIDE DEF r
  <2>2. Len(r) \in Nat
    BY <2>1, SeqLen
  <2>3. Reverse(r) = [i \in 1..Len(r) |-> Reverse(r)[i]]
    BY DEF Reverse
  <2>4. IsSeq(Reverse(r))
    BY <2>2, <2>3, Numbering
  <2> QED
    BY <2>4 DEF r
<1> HIDE DEF up1, up2, up3, up4, down1, down2, down3, down4, down5, recasts
<1>6. IsSeq(up1 \o recasts(TRUE) \o up2 \o up3 \o up4) /\ IsSeq(down1 \o down2 \o down3 \o down4 \o down5)
  BY <1>2, <1>3, <1>4, <1>5, Joined
<1> QED
  BY <1>1, <1>6, SeqLen DEF IsScript

LEMMA IssueAttachmentsIs == IsScript(IssueAttachments)
<1> DEFINE up1   == <<Table("issue_attachments", {Owned("issue_id", "issues"), Owned("uploaded_by", "users")})>>
           up2   == [i \in 1..3 |-> Index(AttachmentIndexes[i], "issue_attachments")]
           down1 == [i \in 1..3 |-> DropIndex(AttachmentIndexes[4 - i], "issue_attachments")]
           down2 == <<DropTable("issue_attachments")>>
<1>1. IssueAttachments = [up |-> up1 \o up2, down |-> down1 \o down2]
  BY DEF IssueAttachments
<1>2. IsSeq(up1) /\ IsSeq(down2)
  BY TuplesAre
<1>3. up2 = [i \in 1..3 |-> up2[i]] /\ down1 = [i \in 1..3 |-> down1[i]] /\ 3 \in Nat
  OBVIOUS
<1> HIDE DEF up1, up2, down1, down2
<1>4. IsSeq(up1 \o up2) /\ IsSeq(down1 \o down2)
  BY <1>2, <1>3, Numbering, Joined
<1> QED
  BY <1>1, <1>4, SeqLen DEF IsScript

LEMMA SharedTables == IsSeq(ManagerTables) /\ IsSeq(PractitionerTables) /\ IsSeq(DistributorTables)
BY TuplesAre DEF ManagerTables, PractitionerTables, DistributorTables

LEMMA Phase2Is == IsScript(Phase2)
<1> DEFINE tables  == ManagerTables \o PractitionerTables \o DistributorTables
           dropped == [i \in 1..13 |-> [Phase2Indexes[14 - i] EXCEPT !.do = "drop index"]]
<1>1. Phase2 = [up |-> <<Seed("roles")>> \o tables \o Phase2Indexes, down |-> dropped \o Dropped(tables)]
  BY DEF Phase2
<1>2. IsSeq(tables)
  BY SharedTables, Joined
<1>3. IsSeq(Phase2Indexes)
  <2>1. Phase2Indexes = [i \in 1..13 |-> Phase2Indexes[i]] /\ 13 \in Nat
    BY DEF Phase2Indexes
  <2> QED
    BY <2>1, Numbering
<1>4. dropped = [i \in 1..13 |-> dropped[i]] /\ 13 \in Nat
  OBVIOUS
<1> HIDE DEF tables, dropped
<1>5. IsSeq(<<Seed("roles")>> \o tables \o Phase2Indexes) /\ IsSeq(dropped \o Dropped(tables))
  BY <1>2, <1>3, <1>4, TuplesAre, Numbering, DroppedIs, Joined
<1> QED
  BY <1>1, <1>5, SeqLen DEF IsScript

LEMMA Phase3Is == IsScript(Phase3)
<1> DEFINE tables == ManagerTables \o PractitionerTables \o DistributorTables \o Phase3Shared
           first  == <<Seed("roles"), Index("ix_roles_name", "roles")>>
<1>1. Phase3 = [up |-> first \o tables \o Phase3Indexes, down |-> Dropped(tables)]
  BY DEF Phase3
<1>2. IsSeq(Phase3Shared) /\ IsSeq(first)
  BY TuplesAre DEF Phase3Shared
<1>3. IsSeq(tables)
  BY <1>2, SharedTables, Joined
<1>4. IsSeq(Phase3Indexes)
  <2>1. Phase3Indexes = [i \in 1..18 |-> Phase3Indexes[i]] /\ 18 \in Nat
    BY DEF Phase3Indexes
  <2> QED
    BY <2>1, Numbering
<1> HIDE DEF tables, first
<1>5. IsSeq(first \o tables \o Phase3Indexes) /\ IsSeq(Dropped(tables))
  BY <1>2, <1>3, <1>4, DroppedIs, Joined
<1> QED
  BY <1>1, <1>5, SeqLen DEF IsScript

LEMMA Phase4Is == IsScript(Phase4)
<1>1. IsSeq(Phase4Tables)
  BY TuplesAre DEF Phase4Tables
<1>2. IsSeq(Phase4Indexes)
  <2>1. Phase4Indexes = [i \in 1..11 |-> Phase4Indexes[i]] /\ 11 \in Nat
    BY DEF Phase4Indexes
  <2> QED
    BY <2>1, Numbering
<1>3. IsSeq(Phase4Tables \o Phase4Indexes) /\ IsSeq(Dropped(Phase4Tables))
  BY <1>1, <1>2, DroppedIs, Joined
<1> QED
  BY <1>3, SeqLen DEF IsScript, Phase4

LEMMA Phase6Is == IsScript(Phase6)
<1> DEFINE up   == Phase6.up
           down == Phase6.down
<1>1. up = [i \in 1..10 |-> up[i]] /\ down = [i \in 1..10 |-> down[i]] /\ 10 \in Nat
  BY DEF Phase6
<1> HIDE DEF up, down
<1>2. IsSeq(up) /\ IsSeq(down)
  BY <1>1, Numbering
<1> QED
  BY <1>2, SeqLen DEF IsScript, up, down

LEMMA ScriptsAreFinite ==
  /\ Latest = 36
  /\ \A r \in 1..Latest : IsScript(Scripts[r])
<1>1. Latest = 36
  BY DEF Latest, Scripts
<1>2. \A r \in 1..36 : Scripts[r] \in {Message, InitialModels, PerAgentPreferences, FileOwners, FileServices, AgentPrompts,
                                  VectorStores, PromptText, ChatTables, AlexChatAdded, AlexChat, ReportTable,
                                  Businesses, IssuesAndLicenses, DisplayName, AgentType, ProfilesAndGenders, IssueTypes,
                                  IssueAttachments, AttachmentKeys, FrontendTexts, FrontendTextsTable, OrganizationTones, OrganizationType,
                                  BusinessAgents, ReportsAgain, UserAgentAssignments, AgentInformation, ConvertedKey, MultiRole,
                                  Phase2, Phase3, Phase4, Phase5, Phase6, AuditKeys}
  BY DEF Scripts
<1> QED
  BY <1>1, <1>2, ScriptsListed, BusinessesIs, IssueAttachmentsIs, Phase2Is, Phase3Is, Phase4Is, Phase6Is

(***************************************************************************)
(* A command.                                                              *)
(***************************************************************************)
\* The operations that the database lets through, the plan lets through as well.
LEMMA RunMatches ==
  ASSUME NEW ops, Len(ops) \in Nat, NEW db, NEW plan, Matches(db, plan), Run(db, ops).ok
  PROVE  Drafted(plan, ops).ok /\ Matches(Run(db, ops).db, Drafted(plan, ops).db)
<1>1. PICK f : /\ f[0] = [ok |-> TRUE, db |-> db]
               /\ \A i \in 1..Len(ops) : f[i] = Ran(f[i - 1], ops[i])
               /\ Run(db, ops) = f[Len(ops)]
  BY RunSteps
<1>2. PICK g : /\ g[0] = [ok |-> TRUE, db |-> plan]
               /\ \A i \in 1..Len(ops) : g[i] = Drew(g[i - 1], ops[i])
               /\ Drafted(plan, ops) = g[Len(ops)]
  BY DraftedSteps
<1> DEFINE Holds(n) == n <= Len(ops) /\ f[n].ok => g[n].ok /\ Matches(f[n].db, g[n].db)
           N == {n \in Nat : Holds(n)}
<1>3. 0 \in N
  BY <1>1, <1>2
<1>4. ASSUME NEW n \in N
      PROVE  n + 1 \in N
  <2>1. SUFFICES ASSUME n + 1 <= Len(ops), f[n + 1].ok
                 PROVE  g[n + 1].ok /\ Matches(f[n + 1].db, g[n + 1].db)
    OBVIOUS
  <2>2. n + 1 \in 1..Len(ops) /\ (n + 1) - 1 = n
    BY <2>1
  <2> DEFINE op == ops[n + 1]
  <2>3. f[n + 1] = Ran(f[n], op) /\ g[n + 1] = Drew(g[n], op)
    BY <1>1, <1>2, <2>2
  <2>4. /\ f[n].ok /\ Possible(f[n].db, op)
        /\ f[n + 1].db = Executed(f[n].db, op)
    BY <2>1, <2>3 DEF Ran
  <2>5. g[n].ok /\ Matches(f[n].db, g[n].db)
    BY <2>1, <2>4
  <2>6. Fits(g[n].db, op)
    BY <2>4, <2>5, FitsThePlan DEF Possible
  <2>7. g[n + 1].ok /\ g[n + 1].db = Altered(g[n].db, op)
    BY <2>3, <2>5, <2>6 DEF Drew
  <2>8. Matches(Executed(f[n].db, op), Altered(g[n].db, op))
    BY <2>5, AlteredMatches, ExecutedMatches DEF Matches
  <2> QED
    BY <2>4, <2>7, <2>8
<1>5. Len(ops) \in N
  <2>1. N \in SUBSET Nat
    OBVIOUS
  <2> HIDE DEF N
  <2> QED
    BY <1>3, <1>4, <2>1, AllNumbers
<1> QED
  BY <1>1, <1>2, <1>5

LEMMA DraftedFields ==
  ASSUME NEW ops, Len(ops) \in Nat, NEW plan, Fields(plan)
  PROVE  Fields(Drafted(plan, ops).db)
<1>1. PICK g : /\ g[0] = [ok |-> TRUE, db |-> plan]
               /\ \A i \in 1..Len(ops) : g[i] = Drew(g[i - 1], ops[i])
               /\ Drafted(plan, ops) = g[Len(ops)]
  BY DraftedSteps
<1> DEFINE N == {n \in Nat : n <= Len(ops) => Fields(g[n].db)}
<1>2. 0 \in N
  BY <1>1
<1>3. ASSUME NEW n \in N
      PROVE  n + 1 \in N
  <2>1. SUFFICES ASSUME n + 1 <= Len(ops)
                 PROVE  Fields(g[n + 1].db)
    OBVIOUS
  <2>2. n + 1 \in 1..Len(ops) /\ (n + 1) - 1 = n
    BY <2>1
  <2>3. g[n + 1] = Drew(g[n], ops[n + 1]) /\ Fields(g[n].db)
    BY <1>1, <2>2
  <2> QED
    BY <2>3, AlteredFields DEF Drew
<1>4. Len(ops) \in N
  <2>1. N \in SUBSET Nat
    OBVIOUS
  <2> HIDE DEF N
  <2> QED
    BY <1>2, <1>3, <2>1, AllNumbers
<1> QED
  BY <1>1, <1>4

LEMMA DraftIs ==
  /\ Draft[0] = [ok |-> TRUE, db |-> Blank]
  /\ \A r \in 1..Latest : /\ r - 1 \in 0..Latest
                          /\ Draft[r] = IF Draft[r - 1].ok THEN Drafted(Draft[r - 1].db, Scripts[r].up)
                                        ELSE Draft[r - 1]
<1>1. PICK f : /\ f[0] = [ok |-> TRUE, db |-> Blank]
               /\ \A i \in 1..Latest : f[i] = IF f[i - 1].ok THEN Drafted(f[i - 1].db, Scripts[i].up)
                                              ELSE f[i - 1]
               /\ Draft = f
  BY ScriptsAreFinite, DraftSteps
<1> QED
  BY <1>1, ScriptsAreFinite

LEMMA DraftFields == ASSUME NEW r \in 0..Latest PROVE Fields(Draft[r].db)
<1> DEFINE N == {n \in Nat : n <= Latest => Fields(Draft[n].db)}
<1>1. 0 \in N
  BY DraftIs DEF Fields, Blank
<1>2. ASSUME NEW n \in N
      PROVE  n + 1 \in N
  <2>1. SUFFICES ASSUME n + 1 <= Latest
                 PROVE  Fields(Draft[n + 1].db)
    OBVIOUS
  <2>2. n + 1 \in 1..Latest /\ (n + 1) - 1 = n /\ Fields(Draft[n].db)
    BY <2>1, ScriptsAreFinite
  <2>3. Len(Scripts[n + 1].up) \in Nat
    BY <2>2, ScriptsAreFinite DEF IsScript
  <2> QED
    BY <2>2, <2>3, DraftIs, DraftedFields
<1>3. r \in N
  <2>1. N \in SUBSET Nat /\ r \in Nat
    BY ScriptsAreFinite
  <2> HIDE DEF N
  <2> QED
    BY <1>1, <1>2, <2>1, AllNumbers
<1> QED
  BY <1>3

\* The schema is that of the revision, which a new database can be upgraded to.
At(db, r) == r \in 0..Latest /\ Draft[r].ok /\ Matches(db, Draft[r].db)

LEMMA UpOne ==
  ASSUME NEW r \in 1..Latest, NEW db, At(db, r - 1), Run(db, Scripts[r].up).ok
  PROVE  At(Run(db, Scripts[r].up).db, r)
<1>1. Len(Scripts[r].up) \in Nat
  BY ScriptsAreFinite DEF IsScript
<1>2. /\ Drafted(Draft[r - 1].db, Scripts[r].up).ok
      /\ Matches(Run(db, Scripts[r].up).db, Drafted(Draft[r - 1].db, Scripts[r].up).db)
  BY <1>1, RunMatches DEF At
<1>3. Draft[r] = Drafted(Draft[r - 1].db, Scripts[r].up)
  BY DraftIs DEF At
<1> QED
  BY <1>2, <1>3, ScriptsAreFinite DEF At

LEMMA DownOne ==
  ASSUME NEW r \in 1..Latest, NEW db, At(db, r), Run(db, Scripts[r].down).ok
  PROVE  At(Run(db, Scripts[r].down).db, r - 1)
<1> DEFINE back == Drafted(Draft[r].db, Scripts[r].down)
<1>1. Len(Scripts[r].down) \in Nat
  BY ScriptsAreFinite DEF IsScript
<1>2. back.ok /\ Matches(Run(db, Scripts[r].down).db, back.db)
  BY <1>1, RunMatches DEF At
<1>3. Structure(back.db) = Built[r - 1] /\ Draft[r - 1].db.enums \subseteq back.db.enums
  BY <1>2, ScriptsReturn DEF At
<1> HIDE DEF back
<1>4. r - 1 \in 0..Latest /\ Built[r - 1] = Structure(Draft[r - 1].db)
  BY DraftIs DEF Built
<1>5. Draft[r - 1].ok
  BY DraftIs DEF At
<1>6. Fields(Draft[r - 1].db)
  BY <1>4, DraftFields
<1>7. /\ back.db.tables = Draft[r - 1].db.tables /\ back.db.columns = Draft[r - 1].db.columns
      /\ back.db.keys = Draft[r - 1].db.keys /\ back.db.rules = Draft[r - 1].db.rules
      /\ back.db.indexes = Draft[r - 1].db.indexes
  BY <1>3, <1>4 DEF Structure
<1> QED
  BY <1>2, <1>3, <1>4, <1>5, <1>6, <1>7 DEF At, Matches

\* All scripts of a command, one after the other.
LEMMA CommandKeeps ==
  ASSUME NEW db, NEW from, At(db, from), NEW to \in 0..Latest, to # from, Applied(db, from, to).ok
  PROVE  At(Applied(db, from, to).db, to)
<1> DEFINE scripts == Path(from, to)
           len     == IF from < to THEN to - from ELSE from - to
           place(i) == IF from < to THEN from + i ELSE from - i
<1>1. from \in 0..Latest /\ Latest = 36 /\ len \in Nat
  BY ScriptsAreFinite DEF At
<1>2. /\ Len(scripts) = len
      /\ \A i \in 1..len : scripts[i] = IF from < to THEN Scripts[from + i].up ELSE Scripts[from + 1 - i].down
  <2>1. CASE from < to
    <3>1. scripts = [i \in 1..(to - from) |-> Scripts[from + i].up] /\ len = to - from
      BY <2>1 DEF Path
    <3>2. scripts = [i \in 1..len |-> scripts[i]]
      BY <3>1
    <3> HIDE DEF len, scripts
    <3>3. Len(scripts) = len
      BY <1>1, <3>2, Numbering
    <3> QED
      BY <2>1, <3>1, <3>3
  <2>2. CASE ~(from < to)
    <3>1. scripts = [i \in 1..(from - to) |-> Scripts[from + 1 - i].down] /\ len = from - to
      BY <2>2 DEF Path
    <3>2. scripts = [i \in 1..len |-> scripts[i]]
      BY <3>1
    <3> HIDE DEF len, scripts
    <3>3. Len(scripts) = len
      BY <1>1, <3>2, Numbering
    <3> QED
      BY <2>2, <3>1, <3>3
  <2> QED
    BY <2>1, <2>2
<1>3. PICK f : /\ f[0] = [ok |-> TRUE, db |-> db]
               /\ \A i \in 1..len : f[i] = IF f[i - 1].ok THEN Run(f[i - 1].db, scripts[i]) ELSE f[i - 1]
               /\ Applied(db, from, to) = f[len]
  BY <1>1, <1>2, AppliedSteps
<1> HIDE DEF scripts
<1> DEFINE N == {n \in Nat : n <= len /\ f[n].ok => At(f[n].db, place(n))}
<1>4. 0 \in N
  <2>1. place(0) = from
    BY <1>1
  <2> QED
    BY <1>3, <2>1
<1>5. ASSUME NEW n \in N
      PROVE  n + 1 \in N
  <2>1. SUFFICES ASSUME n + 1 <= len, f[n + 1].ok
                 PROVE  At(f[n + 1].db, place(n + 1))
    OBVIOUS
  <2>2. n \in Nat /\ n + 1 \in 1..len /\ (n + 1) - 1 = n /\ n <= len
    BY <1>1, <2>1
  <2>3. f[n + 1] = IF f[n].ok THEN Run(f[n].db, scripts[n + 1]) ELSE f[n]
    BY <1>3, <2>2
  <2>4. /\ f[n].ok /\ f[n + 1] = Run(f[n].db, scripts[n + 1])
        /\ At(f[n].db, place(n))
    BY <2>1, <2>2, <2>3
  <2>5. CASE from < to
    <3>1. /\ from + (n + 1) \in 1..Latest /\ (from + (n + 1)) - 1 = from + n
          /\ place(n) = from + n /\ place(n + 1) = from + (n + 1)
      BY <1>1, <2>2, <2>5
    <3>2. scripts[n + 1] = Scripts[from + (n + 1)].up
      BY <1>2, <2>2, <2>5
    <3> HIDE DEF place
    <3> QED
      BY <2>1, <2>4, <3>1, <3>2, UpOne
  <2>6. CASE ~(from < to)
    <3>1. /\ from - n \in 1..Latest /\ (from - n) - 1 = from - (n + 1) /\ from + 1 - (n + 1) = from - n
          /\ place(n) = from - n /\ place(n + 1) = from - (n + 1)
      BY <1>1, <2>2, <2>6
    <3>2. scripts[n + 1] = Scripts[from + 1 - (n + 1)].down
      BY <1>2, <2>2, <2>6
    <3> HIDE DEF place
    <3> QED
      BY <2>1, <2>4, <3>1, <3>2, DownOne
  <2> QED
    BY <2>5, <2>6
<1>6. len \in N
  <2>1. N \in SUBSET Nat
    OBVIOUS
  <2> HIDE DEF N, len
  <2> QED
    BY <1>1, <1>4, <1>5, <2>1, AllNumbers
<1>7. place(len) = to
  BY <1>1
<1> QED
  BY <1>1, <1>3, <1>6, <1>7

\* Rows come and go.
LEMMA RowsOnly ==
  ASSUME NEW db, NEW r, At(db, r), NEW stored, NEW breaks
  PROVE  At([db EXCEPT !.rows = stored, !.breaks = breaks], r)
BY DEF At, Matches, Fields

MigrationsInv == At(database, revision)

LEMMA MigrationsStart == MigrationsInit => MigrationsInv
<1>1. Fields(Blank) /\ Matches(Blank, Blank)
  BY DEF Fields, Matches, Blank
<1> QED
  BY <1>1, DraftIs, ScriptsAreFinite DEF MigrationsInit, MigrationsInv, At

LEMMA MigrationsStep == MigrationsInv /\ MigrationsNext => MigrationsInv'
<1> SUFFICES ASSUME MigrationsInv, MigrationsNext
             PROVE  MigrationsInv'
  OBVIOUS
<1>1. ASSUME NEW to \in Targets \cup {revision - 1, revision + 1}, Upgrade(to) \/ Downgrade(to)
      PROVE  MigrationsInv'
  <2>1. to \in 0..Latest /\ to # revision /\ Migrate(to)
    BY <1>1, TargetsAreRevisions, ScriptsAreFinite DEF Upgrade, Downgrade, MigrationsInv, At
  <2>2. CASE Applied(database, revision, to).ok
    <3>1. database' = Applied(database, revision, to).db /\ revision' = to
      BY <2>1, <2>2 DEF Migrate
    <3>2. At(Applied(database, revision, to).db, to)
      BY <2>1, <2>2, CommandKeeps DEF MigrationsInv
    <3> QED
      BY <3>1, <3>2 DEF MigrationsInv
  <2>3. CASE ~Applied(database, revision, to).ok
    BY <2>1, <2>3 DEF Migrate, MigrationsInv
  <2> QED
    BY <2>2, <2>3
<1>2. ASSUME NEW t \in Filled, Store(t) \/ Clear(t)
      PROVE  MigrationsInv'
  <2>1. revision' = revision
    BY <1>2 DEF Store, Clear
  <2>2. PICK stored, breaks : database' = [database EXCEPT !.rows = stored, !.breaks = breaks]
    BY <1>2 DEF Store, Clear
  <2> QED
    BY <2>1, <2>2, RowsOnly DEF MigrationsInv
<1> QED
  BY <1>1, <1>2 DEF MigrationsNext

LEMMA MigrationsKept == MigrationsInv => SchemaOfRevision
<1> SUFFICES ASSUME MigrationsInv
             PROVE  SchemaOfRevision
  OBVIOUS
<1>1. Built[revision] = Structure(Draft[revision].db)
  BY DEF MigrationsInv, At, Built
<1> QED
  BY <1>1 DEF MigrationsInv, At, Matches, SchemaOfRevision, Structure

\* Whatever is stored, and whatever commands come in whatever order, the schema
\* is that of the revision in alembic_version. The invariant says more: the
\* revision is one that a new database can be upgraded to, and no type of an
\* enumeration is missing that the upgrade would have made.
THEOREM SchemaKept == Spec => []SchemaOfRevision
<1>1. Init => MigrationsInv
  BY MigrationsStart DEF Init
<1>2. MigrationsInv /\ [Next]_vars => MigrationsInv'
  <2>1. MigrationsInv /\ UNCHANGED migrationVars => MigrationsInv'
    BY DEF MigrationsInv, migrationVars
  <2> QED
    BY <2>1, MigrationsStep DEF Next, vars
<1> QED
  BY <1>1, <1>2, MigrationsKept, PTL DEF Spec
=============================================================================
