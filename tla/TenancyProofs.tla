--------------------------- MODULE TenancyProofs ---------------------------
(***************************************************************************)
(* Proofs about Tenancy, for every set of requests and number of threads.  *)
(*                                                                         *)
(* TenancyInv is the inductive invariant, with one part for each table and *)
(* what holds of a request at each of its steps. A limit that a handler    *)
(* looks up is counted with the requests that have looked and not yet      *)
(* added their row: the two together are never more than the threads. For  *)
(* the tones of an assignment that is not enough, since a request replaces *)
(* the tones it has seen, and the invariant sets any of the tones apart:   *)
(* those that are left, and the requests that have seen no others of them, *)
(* are together at most the threads.                                       *)
(*                                                                         *)
(* An action of one component changes the table of the requests and the    *)
(* variables of that component; the ...Aside lemmas say that the parts of  *)
(* the others are kept whatever the request goes on to, and the ...Step    *)
(* lemmas are one for each component. The sum over the ledger is a fold    *)
(* over a set, whose recursion is derived here by induction over the       *)
(* numbers, in the form of a set of numbers that is all of Nat.            *)
(***************************************************************************)
EXTENDS Tenancy, FiniteSetTheorems, WellFoundedInduction, TLAPS

(***************************************************************************)
(* The table of the requests.                                              *)
(***************************************************************************)
Served ==
    /\ DOMAIN req = Requests
    /\ Cardinality(InService) <= Threads

\* A request in service goes on, or a new one is taken up.
Moves(r, v) == Goes(r, v) /\ (TakenUp(r) \/ r \in InService)

(***************************************************************************)
(* What holds of every request at its step.                                *)
(***************************************************************************)
\* The requests that have committed something with their name on it.
Finished == {r \in Requests : req[r] = Done}

RoleIds  == Requests \union {Seeded, None}
PlaceIds == Requests \union {First, None}

Promotes(v) == v.step = "profile" /\ v.place \in PlaceIds /\ v.role \in RoleIds /\ v.checked = FALSE
Changes(v)  == v.step = "role" /\ v.role \in RoleIds

\* What the role was wanted for.
MakesRole(r) ==
    At(r, "makeRole") => req[r].next = Done \/ Promotes(req[r].next) \/ Changes(req[r].next)

\* An invitation that checked for administrators is for a role that there is.
Invites(r) ==
    /\ At(r, "profile") =>
          /\ req[r].place \in PlaceIds /\ req[r].role \in RoleIds /\ req[r].checked \in BOOLEAN
          /\ req[r].checked => \E x \in roles : x.id = req[r].role
    /\ At(r, "role") => Changes(req[r])

Assigns(r) ==
    At(r, "assign") =>
        /\ req[r].agent \in Agents
        /\ req[r].found \in Finished \union {None}
        /\ req[r].old \subseteq Finished

Gives(r) == At(r, "access") => req[r].biz \in Requests \union {First} /\ req[r].agent \in Agents

\* The ids of rows are different, and a row with the name of a request is there
\* once the request is done.
OneOfEachId(rows) == \A x, y \in rows : x.id = y.id => x = y

RolesInv ==
    /\ IsFiniteSet(roles) /\ OneOfEachId(roles)
    /\ roles \subseteq [id : Requests \union {Seeded}, named : BOOLEAN, deleted : BOOLEAN]
    /\ \A x \in roles : x.id # Seeded => req[x.id] # New /\ ~At(x.id, "makeRole")
    /\ grants \subseteq Finished

BusinessesInv ==
    /\ org \in [state : {"none", "live", "deleted"}, onboarded : BOOLEAN]
    /\ IsFiniteSet(biz) /\ OneOfEachId(biz)
    /\ biz \subseteq [id : Finished \union {First}, live : BOOLEAN, onboarded : BOOLEAN]
    /\ org.state = "none" => biz = {} /\ AtStep("business") = {}

\* Those who are about to add an assignment or an access, and those who are
\* about to replace the tones of a row.
Assigning(a) == {r \in AtStep("assign") : req[r].agent = a /\ req[r].found = None}
Giving(b, a) == {r \in AtStep("access") : req[r].biz = b /\ req[r].agent = a}
Replacing(x) == {r \in AtStep("assign") : req[r].found = x.id}

\* Those of them who have seen no other tones in the row than D.
Unseeing(x, D) == {r \in Replacing(x) : req[r].old \intersect x.tones \subseteq D}

\* However many tones are set apart: those a row has beside them, and the
\* requests that have seen no others there, are of requests that overlapped.
TonesOverlap(x) ==
    \A D \in SUBSET Requests : Cardinality(x.tones \ D) + Cardinality(Unseeing(x, D)) <= Threads

AssignedInv ==
    /\ IsFiniteSet(assigned) /\ OneOfEachId(assigned)
    /\ assigned \subseteq [id : Finished, agent : Agents, tones : SUBSET Finished]
    /\ \A a \in Agents : Cardinality(RowsOf(a)) + Cardinality(Assigning(a)) <= Threads
    /\ \A x \in assigned : TonesOverlap(x)

AccessInv ==
    /\ IsFiniteSet(access)
    /\ access \subseteq [id : Finished, biz : Requests \union {First}, agent : Agents]
    /\ \A b \in Requests \union {First}, a \in Agents :
          Cardinality(AccessOf(b, a)) + Cardinality(Giving(b, a)) <= Threads

\* Administrators of the organization by an invitation that checked for others,
\* and those who are about to become it.
Checked == {m \in members : m.place = None /\ m.checked /\ ~m.deleted}
Checking == {r \in AtStep("profile") : req[r].place = None /\ req[r].checked}

MembersInv ==
    /\ IsFiniteSet(members) /\ OneOfEachId(members)
    /\ members \subseteq [id : Requests, place : PlaceIds, role : RoleIds,
                          checked : BOOLEAN, active : BOOLEAN, deleted : BOOLEAN]
    /\ \A m \in members : m.id \in Finished \/ At(m.id, "entry")
    /\ \A m \in members : m.checked => \E x \in roles : x.id = m.role
    /\ Cardinality(roles) <= 1 => Cardinality(Checked) + Cardinality(Checking) <= Threads

LicensesInv ==
    /\ IsFiniteSet(licenses) /\ OneOfEachId(licenses)
    /\ licenses \subseteq [id : Finished, active : BOOLEAN, over : BOOLEAN, edited : BOOLEAN]

LedgerOf(p)   == {x \in ledger : x.to = p}
Covered(p, n) == n # None => n \in Nat /\ n <= Sum(LedgerOf(p))

Allocates(r) ==
    At(r, "balance") \/ At(r, "allocate") =>
        /\ req[r].to \in Practitioners /\ req[r].amount \in Amounts
        /\ req[r].allocated \in Nat /\ req[r].allocated + req[r].amount <= Purchased
        /\ req[r].allocated <= Sum(ledger)
        /\ At(r, "allocate") => Covered(req[r].to, req[r].total)

CreditsInv ==
    /\ IsFiniteSet(ledger) /\ OneOfEachId(ledger)
    /\ ledger \subseteq [id : Finished, to : Practitioners, amount : Amounts]
    /\ allocated \in Nat /\ allocated <= Purchased /\ allocated <= Sum(ledger)
    /\ DOMAIN total = Practitioners /\ \A p \in Practitioners : Covered(p, total[p])
    /\ clients \subseteq [id : Finished, active : BOOLEAN] /\ IsFiniteSet(clients) /\ OneOfEachId(clients)

\* What holds at the step a request is at.
Calls(r) == MakesRole(r) /\ Invites(r) /\ Assigns(r) /\ Gives(r) /\ Allocates(r)

TenancyInv ==
    /\ Served
    /\ \A r \in Requests : Calls(r)
    /\ RolesInv /\ BusinessesInv /\ AssignedInv /\ AccessInv /\ MembersInv /\ LicensesInv
    /\ CreditsInv

-----------------------------------------------------------------------------
LEMMA StepsDiffer == New # Done /\ New.step = "new" /\ Done.step = "done"
BY DEF New, Done

LEMMA AtIsInService ==
  ASSUME NEW r \in Requests, NEW s, At(r, s), s # "new", s # "done"
  PROVE  r \in InService
BY StepsDiffer DEF At, InService

LEMMA InServiceFinite == IsFiniteSet(InService) /\ Cardinality(InService) \in Nat
BY RequestsAssumption, FS_Subset, FS_CardinalityType DEF InService

LEMMA FinishedFinite == \A S : S \subseteq Finished => IsFiniteSet(S) /\ Cardinality(S) \in Nat
BY RequestsAssumption, FS_Subset, FS_CardinalityType DEF Finished

\* Whoever is in service is one of at most Threads.
LEMMA AtMostThreads ==
  ASSUME Served, NEW A, A \subseteq InService
  PROVE  IsFiniteSet(A) /\ Cardinality(A) \in Nat /\ Cardinality(A) <= Threads
<1>1. IsFiniteSet(A) /\ Cardinality(A) \in Nat /\ Cardinality(A) <= Cardinality(InService)
  BY InServiceFinite, FS_Subset, FS_CardinalityType
<1> QED
  BY <1>1, InServiceFinite, RequestsAssumption DEF Served

\* While a request is being taken up, there is still a thread for it.
LEMMA OneMoreThanInService ==
  ASSUME NEW r \in Requests, TakenUp(r), NEW A, A \subseteq InService \union {r}
  PROVE  IsFiniteSet(A) /\ Cardinality(A) \in Nat /\ Cardinality(A) <= Threads
<1>1. IsFiniteSet(InService \union {r})
      /\ Cardinality(InService \union {r}) \in {Cardinality(InService), Cardinality(InService) + 1}
  BY InServiceFinite, FS_AddElement
<1>2. IsFiniteSet(A) /\ Cardinality(A) \in Nat /\ Cardinality(A) <= Cardinality(InService \union {r})
  BY <1>1, FS_Subset, FS_CardinalityType
<1>3. Cardinality(InService) < Threads
  BY DEF TakenUp
<1> QED
  BY <1>1, <1>2, <1>3, InServiceFinite, RequestsAssumption

LEMMA MovesEffect ==
  ASSUME Served, NEW r \in Requests, NEW v, Moves(r, v)
  PROVE  /\ Served'
         /\ req'[r] = v /\ \A q \in Requests : q # r => req'[q] = req[q]
         /\ Finished \subseteq Finished' /\ r \notin Finished
         /\ \A s : AtStep(s)' = IF v.step = s THEN AtStep(s) \union {r} ELSE AtStep(s) \ {r}
<1>1. /\ DOMAIN req' = Requests
      /\ req'[r] = v /\ \A q \in Requests : q # r => req'[q] = req[q]
  BY DEF Moves, Goes, Served
<1>2. r \notin Finished /\ Finished \subseteq Finished'
  BY <1>1, StepsDiffer DEF Moves, TakenUp, InService, Finished
<1>3. \A s : AtStep(s)' = IF v.step = s THEN AtStep(s) \union {r} ELSE AtStep(s) \ {r}
  BY <1>1 DEF AtStep, At
<1>4. InService' \subseteq InService \union {r}
  BY <1>1 DEF InService
<1>5. CASE TakenUp(r)
  BY <1>1, <1>2, <1>3, <1>4, <1>5, OneMoreThanInService DEF Served
<1>6. CASE r \in InService
  BY <1>1, <1>2, <1>3, <1>4, <1>6, AtMostThreads DEF Served
<1> QED
  BY <1>1, <1>2, <1>3, <1>5, <1>6 DEF Moves

LEMMA Smaller ==
  ASSUME NEW B, IsFiniteSet(B), NEW A, A \subseteq B
  PROVE  IsFiniteSet(A) /\ Cardinality(A) \in Nat /\ Cardinality(B) \in Nat /\ Cardinality(A) <= Cardinality(B)
BY FS_Subset, FS_CardinalityType

LEMMA Added ==
  ASSUME NEW S, IsFiniteSet(S), NEW x
  PROVE  /\ IsFiniteSet(S \union {x}) /\ Cardinality(S) \in Nat /\ Cardinality(S \union {x}) \in Nat
         /\ Cardinality(S \union {x}) <= Cardinality(S) + 1
         /\ x \notin S => Cardinality(S \union {x}) = Cardinality(S) + 1
<1>1. IsFiniteSet(S \union {x}) /\ Cardinality(S \union {x}) \in Nat /\ Cardinality(S) \in Nat
  BY FS_AddElement, FS_CardinalityType
<1>2. x \in S => Cardinality(S \union {x}) = Cardinality(S)
  BY FS_AddElement
<1>3. x \notin S => Cardinality(S \union {x}) = Cardinality(S) + 1
  BY FS_AddElement
<1> QED
  BY <1>1, <1>2, <1>3

\* One row takes the place of another.
LEMMA Replaced ==
  ASSUME NEW S, IsFiniteSet(S), NEW x \in S, NEW y
  PROVE  /\ IsFiniteSet((S \ {x}) \union {y}) /\ Cardinality((S \ {x}) \union {y}) <= Cardinality(S)
         /\ y \notin S \ {x} => Cardinality((S \ {x}) \union {y}) = Cardinality(S)
<1>1. /\ IsFiniteSet(S \ {x}) /\ Cardinality(S \ {x}) = Cardinality(S) - 1
      /\ Cardinality(S) \in Nat /\ Cardinality(S \ {x}) \in Nat
  BY FS_RemoveElement, FS_CardinalityType
<1> DEFINE T == (S \ {x}) \union {y}
<1>2. /\ IsFiniteSet(T)
      /\ Cardinality(T) = IF y \in S \ {x} THEN Cardinality(S \ {x}) ELSE Cardinality(S \ {x}) + 1
  BY <1>1, FS_AddElement
<1> HIDE DEF T
<1>3. Cardinality(T) <= Cardinality(S) /\ (y \notin S \ {x} => Cardinality(T) = Cardinality(S))
  BY <1>1, <1>2
<1> QED
  BY <1>2, <1>3 DEF T

-----------------------------------------------------------------------------
(***************************************************************************)
(* What a step of another component leaves alone.                          *)
(***************************************************************************)
LEMMA RolesAside ==
  ASSUME Served, RolesInv, NEW r \in Requests, NEW v, Moves(r, v), UNCHANGED roleVars,
         v # New, v.step = "makeRole" => TakenUp(r)
  PROVE  RolesInv'
<1>1. Finished \subseteq Finished'
  BY MovesEffect
<1>2. ASSUME NEW x \in roles, x.id # Seeded PROVE req'[x.id] # New /\ ~At(x.id, "makeRole")'
  <2>1. x.id \in Requests /\ req[x.id] # New /\ ~At(x.id, "makeRole")
    BY <1>2 DEF RolesInv
  <2>2. x.id # r => req'[x.id] = req[x.id]
    BY <2>1, MovesEffect
  <2>3. x.id = r => v.step # "makeRole" /\ req'[x.id] = v
    BY <2>1, MovesEffect DEF TakenUp
  <2> QED
    BY <2>1, <2>2, <2>3 DEF At
<1> QED
  BY <1>1, <1>2 DEF RolesInv, roleVars, OneOfEachId

LEMMA BusinessesAside ==
  ASSUME Served, BusinessesInv, NEW r \in Requests, NEW v, Moves(r, v), UNCHANGED <<org, biz>>,
         v.step # "business"
  PROVE  BusinessesInv'
<1>1. Finished \subseteq Finished' /\ AtStep("business")' \subseteq AtStep("business")
  BY MovesEffect
<1> QED
  BY <1>1 DEF BusinessesInv, OneOfEachId

LEMMA LicensesAside ==
  ASSUME Served, LicensesInv, NEW r \in Requests, NEW v, Moves(r, v), UNCHANGED licenses
  PROVE  LicensesInv'
<1>1. Finished \subseteq Finished'
  BY MovesEffect
<1> QED
  BY <1>1 DEF LicensesInv, OneOfEachId

LEMMA CreditsAside ==
  ASSUME Served, CreditsInv, NEW r \in Requests, NEW v, Moves(r, v), UNCHANGED creditVars
  PROVE  CreditsInv'
<1>1. Finished \subseteq Finished'
  BY MovesEffect
<1> QED
  BY <1>1 DEF CreditsInv, OneOfEachId, creditVars, Covered, LedgerOf

LEMMA InServiceOf ==
  \A s : s # "new" /\ s # "done" => AtStep(s) \subseteq InService
BY AtIsInService DEF AtStep

LEMMA FewerOf ==
  ASSUME NEW A, A \subseteq InService, NEW B, B \subseteq A, NEW n \in Nat, n + Cardinality(A) <= Threads
  PROVE  n + Cardinality(B) <= Threads
<1>1. Cardinality(A) \in Nat /\ Cardinality(B) \in Nat /\ Cardinality(B) <= Cardinality(A)
  BY InServiceFinite, Smaller
<1> QED
  BY <1>1, RequestsAssumption

LEMMA AssignedAside ==
  ASSUME Served, AssignedInv, NEW r \in Requests, NEW v, Moves(r, v), UNCHANGED assigned,
         v.step # "assign"
  PROVE  AssignedInv'
<1>1. /\ Finished \subseteq Finished' /\ AtStep("assign")' \subseteq AtStep("assign")
      /\ \A q \in AtStep("assign")' : req'[q] = req[q]
  BY MovesEffect DEF AtStep
<1>2. AtStep("assign") \subseteq InService
  BY InServiceOf
<1>3. ASSUME NEW a \in Agents
      PROVE  Cardinality(RowsOf(a)') + Cardinality(Assigning(a)') <= Threads
  <2>1. RowsOf(a)' = RowsOf(a) /\ Assigning(a)' \subseteq Assigning(a) /\ Assigning(a) \subseteq InService
    BY <1>1, <1>2 DEF RowsOf, Assigning
  <2>2. Cardinality(RowsOf(a)) \in Nat
    BY Smaller DEF AssignedInv, RowsOf
  <2> QED
    BY <2>1, <2>2, FewerOf DEF AssignedInv
<1>4. ASSUME NEW x \in assigned, NEW D \in SUBSET Requests
      PROVE  Cardinality(x.tones \ D) + Cardinality(Unseeing(x, D)') <= Threads
  <2>1. Unseeing(x, D)' \subseteq Unseeing(x, D) /\ Unseeing(x, D) \subseteq InService
    BY <1>1, <1>2 DEF Unseeing, Replacing
  <2>2. Cardinality(x.tones \ D) \in Nat
    BY FinishedFinite DEF AssignedInv
  <2> QED
    BY <2>1, <2>2, FewerOf DEF AssignedInv, TonesOverlap
<1>5. \A x \in assigned : TonesOverlap(x)'
  BY <1>4 DEF TonesOverlap
<1> QED
  BY <1>1, <1>3, <1>5 DEF AssignedInv, OneOfEachId

LEMMA AccessAside ==
  ASSUME Served, AccessInv, NEW r \in Requests, NEW v, Moves(r, v), UNCHANGED access,
         v.step # "access"
  PROVE  AccessInv'
<1>1. /\ Finished \subseteq Finished' /\ AtStep("access")' \subseteq AtStep("access")
      /\ \A q \in AtStep("access")' : req'[q] = req[q]
  BY MovesEffect DEF AtStep
<1>2. AtStep("access") \subseteq InService
  BY InServiceOf
<1>3. ASSUME NEW b \in Requests \union {First}, NEW a \in Agents
      PROVE  Cardinality(AccessOf(b, a)') + Cardinality(Giving(b, a)') <= Threads
  <2>1. AccessOf(b, a)' = AccessOf(b, a) /\ Giving(b, a)' \subseteq Giving(b, a) /\ Giving(b, a) \subseteq InService
    BY <1>1, <1>2 DEF AccessOf, Giving
  <2>2. Cardinality(AccessOf(b, a)) \in Nat
    BY Smaller DEF AccessInv, AccessOf
  <2> QED
    BY <2>1, <2>2, FewerOf DEF AccessInv
<1> QED
  BY <1>1, <1>3 DEF AccessInv
\* Some number is the least.
LEMMA SomeLeast ==
  ASSUME NEW S, S # {}, S \subseteq Nat
  PROVE  \E n \in S : \A k \in S : n <= k
<1>1. PICK x \in S : \A y \in S : ~(<<y, x>> \in OpToRel(<, Nat))
  BY NatLessThanWellFounded, WFMin
<1>2. \A y \in S : x \in Nat /\ y \in Nat /\ x <= y
  <2> SUFFICES ASSUME NEW y \in S, y < x PROVE FALSE
    OBVIOUS
  <2>1. <<y, x>> \in Nat \X Nat /\ <<y, x>>[1] < <<y, x>>[2]
    OBVIOUS
  <2>2. <<y, x>> \in OpToRel(<, Nat)
    BY <2>1 DEF OpToRel
  <2> QED
    BY <1>1, <2>2
<1> QED
  BY <1>2

\* Induction, for a property given as the set of numbers that have it.
LEMMA AllNumbers ==
  ASSUME NEW S \in SUBSET Nat, 0 \in S, \A n \in S : n + 1 \in S
  PROVE  \A n \in Nat : n \in S
<1> SUFFICES ASSUME Nat \ S # {} PROVE FALSE
  OBVIOUS
<1>1. PICK n \in Nat \ S : \A k \in Nat \ S : n <= k
  BY SomeLeast
<1>2. n # 0 /\ n - 1 \in Nat
  BY <1>1
<1>3. n - 1 \in S
  BY <1>1, <1>2
<1> QED
  BY <1>1, <1>2, <1>3

(***************************************************************************)
(* The sum of the amounts of rows.                                         *)
(***************************************************************************)
Rows(S) == IsFiniteSet(S) /\ \A x \in S : x.amount \in Nat

Some(s) == CHOOSE i \in s : TRUE

\* What a fold over the sets in D adds up.
Sums(g, D) == \A s \in D : g[s] = IF s = {} THEN 0 ELSE Some(s).amount + g[s \ {Some(s)}]

Adds(g, D) == g \in [D -> Nat] /\ Sums(g, D)

UpTo(S, n) == {s \in SUBSET S : Cardinality(s) <= n}

LEMMA OneLess ==
  ASSUME NEW s, IsFiniteSet(s), NEW i \in s
  PROVE  /\ IsFiniteSet(s \ {i})
         /\ Cardinality(s) \in Nat /\ Cardinality(s \ {i}) = Cardinality(s) - 1 /\ Cardinality(s) >= 1
<1>1. Cardinality(s) \in Nat /\ Cardinality(s \ {i}) \in Nat /\ IsFiniteSet(s \ {i})
  BY FS_RemoveElement, FS_CardinalityType
<1>2. Cardinality(s \ {i}) = Cardinality(s) - 1
  BY FS_RemoveElement
<1> QED
  BY <1>1, <1>2

LEMMA FirstOf == \A s : s # {} => Some(s) \in s
BY DEF Some

LEMMA SumsExist ==
  ASSUME NEW S, Rows(S)
  PROVE  \E g : Adds(g, SUBSET S)
<1> DEFINE N == {n \in Nat : \E g : Adds(g, UpTo(S, n))}
<1>1. \A s \in SUBSET S : IsFiniteSet(s) /\ Cardinality(s) \in Nat /\ Cardinality(s) <= Cardinality(S)
  BY FS_Subset, FS_CardinalityType DEF Rows
<1>2. 0 \in N
  <2>1. \A s \in UpTo(S, 0) : s = {}
    BY <1>1, FS_EmptySet DEF UpTo
  <2>2. Adds([s \in UpTo(S, 0) |-> 0], UpTo(S, 0))
    BY <2>1 DEF Adds, Sums
  <2> QED
    BY <2>2
<1>3. ASSUME NEW n \in N PROVE n + 1 \in N
  <2>1. PICK g : Adds(g, UpTo(S, n))
    BY <1>3
  <2> DEFINE h == [s \in UpTo(S, n + 1) |->
                     IF s = {} THEN 0 ELSE Some(s).amount + g[s \ {Some(s)}]]
  <2>2. \A s \in UpTo(S, n + 1) : s # {} => Some(s) \in s /\ s \ {Some(s)} \in UpTo(S, n)
    <3> SUFFICES ASSUME NEW s \in UpTo(S, n + 1), s # {}
                 PROVE  Some(s) \in s /\ s \ {Some(s)} \in UpTo(S, n)
      OBVIOUS
    <3>1. Some(s) \in s /\ IsFiniteSet(s) /\ Cardinality(s) <= n + 1 /\ s \subseteq S
      BY <1>1, FirstOf DEF UpTo
    <3>2. Cardinality(s \ {Some(s)}) = Cardinality(s) - 1 /\ Cardinality(s) \in Nat
      BY <3>1, OneLess
    <3> QED
      BY <3>1, <3>2 DEF UpTo
  <2>3. \A s \in UpTo(S, n) : s \in UpTo(S, n + 1) /\ h[s] = g[s]
    <3>1. \A s \in UpTo(S, n) : s \in UpTo(S, n + 1)
      BY <1>1 DEF UpTo
    <3> QED
      BY <2>1, <3>1 DEF Adds, Sums
  <2>4. h \in [UpTo(S, n + 1) -> Nat]
    <3>1. \A s \in UpTo(S, n + 1) : s # {} => Some(s).amount \in Nat /\ g[s \ {Some(s)}] \in Nat
      BY <2>1, <2>2 DEF Adds, Sums, UpTo, Rows
    <3>2. \A s \in UpTo(S, n + 1) : s # {} => Some(s).amount + g[s \ {Some(s)}] \in Nat
      BY <3>1
    <3> QED
      BY <3>2
  <2>5. Adds(h, UpTo(S, n + 1))
    <3>1. \A s \in UpTo(S, n + 1) : h[s] = IF s = {} THEN 0 ELSE Some(s).amount + g[s \ {Some(s)}]
      OBVIOUS
    <3> HIDE DEF h
    <3> QED
      BY <2>2, <2>3, <2>4, <3>1 DEF Adds, Sums
  <2> QED
    BY <2>5
<1>4. Cardinality(S) \in N
  <2>1. N \in SUBSET Nat /\ Cardinality(S) \in Nat
    BY FS_CardinalityType DEF Rows
  <2> HIDE DEF N
  <2> QED
    BY <1>2, <1>3, <2>1, AllNumbers
<1>5. UpTo(S, Cardinality(S)) = SUBSET S
  BY <1>1 DEF UpTo
<1> QED
  BY <1>4, <1>5

\* There is one such sum.
LEMMA SumsAgree ==
  ASSUME NEW S, NEW T, IsFiniteSet(S), IsFiniteSet(T), NEW g, NEW h,
         Sums(g, SUBSET S), Sums(h, SUBSET T)
  PROVE  \A s \in SUBSET (S \intersect T) : g[s] = h[s]
<1> DEFINE N == {n \in Nat : \A s \in SUBSET (S \intersect T) : Cardinality(s) <= n => g[s] = h[s]}
<1>1. \A s \in SUBSET (S \intersect T) : IsFiniteSet(s) /\ Cardinality(s) \in Nat
  BY FS_Subset, FS_CardinalityType DEF Rows
<1>2. 0 \in N
  <2>1. \A s \in SUBSET (S \intersect T) : Cardinality(s) <= 0 => s = {}
    BY <1>1, FS_EmptySet
  <2> QED
    BY <2>1 DEF Sums
<1>3. ASSUME NEW n \in N PROVE n + 1 \in N
  <2> SUFFICES ASSUME NEW s \in SUBSET (S \intersect T), Cardinality(s) <= n + 1
               PROVE  g[s] = h[s]
    BY <1>3
  <2>5. CASE s = {}
    BY <2>5 DEF Sums
  <2> SUFFICES ASSUME s # {} PROVE g[s] = h[s]
    BY <2>5
  <2> DEFINE t == s \ {Some(s)}
  <2>1. Some(s) \in s /\ IsFiniteSet(s)
    BY <1>1, FirstOf
  <2>2. t \in SUBSET (S \intersect T) /\ Cardinality(t) = Cardinality(s) - 1 /\ Cardinality(s) \in Nat
    BY <2>1, OneLess
  <2>3. g[t] = h[t]
    BY <1>3, <2>2
  <2>4. g[s] = Some(s).amount + g[t] /\ h[s] = Some(s).amount + h[t]
    BY DEF Sums
  <2> QED
    BY <2>3, <2>4
<1>4. \A n \in Nat : n \in N
  <2>1. N \in SUBSET Nat
    OBVIOUS
  <2> HIDE DEF N
  <2> QED
    BY <1>2, <1>3, <2>1, AllNumbers
<1> QED
  BY <1>1, <1>4

LEMMA SumIsSum ==
  ASSUME NEW S, Rows(S), NEW g, Adds(g, SUBSET S)
  PROVE  \A s \in SUBSET S : Sum(s) = g[s]
<1> SUFFICES ASSUME NEW s \in SUBSET S PROVE Sum(s) = g[s]
  OBVIOUS
<1>1. Rows(s)
  BY FS_Subset DEF Rows
<1> DEFINE Fold(f) == f = [t \in SUBSET s |-> IF t = {} THEN 0 ELSE Some(t).amount + f[t \ {Some(t)}]]
           iter == CHOOSE f : Fold(f)
<1>2. Sum(s) = iter[s]
  BY DEF Sum, MapThenSumSet, MapThenFoldSet, Some
<1>3. PICK f : Adds(f, SUBSET s)
  BY <1>1, SumsExist
<1>4. Fold(f)
  BY <1>3 DEF Adds, Sums
<1>5. Fold(iter)
  BY <1>4
<1>6. Sums(iter, SUBSET s)
  <2> HIDE DEF iter
  <2> QED
    BY <1>5 DEF Sums
<1>7. Sums(g, SUBSET S)
  BY DEF Adds
<1> HIDE DEF iter
<1> QED
  BY <1>1, <1>2, <1>6, <1>7, SumsAgree DEF Rows

LEMMA SumRecurs ==
  ASSUME NEW S, Rows(S)
  PROVE  /\ Sum(S) \in Nat
         /\ Sum(S) = IF S = {} THEN 0 ELSE Some(S).amount + Sum(S \ {Some(S)})
<1>1. PICK g : Adds(g, SUBSET S)
  BY SumsExist
<1>2. \A s \in SUBSET S : Sum(s) = g[s] /\ g[s] \in Nat
  BY <1>1, SumIsSum DEF Adds
<1>3. g[S] = IF S = {} THEN 0 ELSE Some(S).amount + g[S \ {Some(S)}]
  BY <1>1 DEF Adds, Sums
<1> QED
  BY <1>2, <1>3

\* Any content may be taken out first.
LEMMA SumWithout ==
  ASSUME NEW S, Rows(S), NEW x \in S
  PROVE  Sum(S) = x.amount + Sum(S \ {x})
<1> DEFINE N == {n \in Nat : \A s \in SUBSET S : \A k \in s :
                    Cardinality(s) <= n => Sum(s) = k.amount + Sum(s \ {k})}
<1>1. \A s \in SUBSET S : IsFiniteSet(s) /\ Cardinality(s) \in Nat /\ Rows(s)
  BY FS_Subset, FS_CardinalityType DEF Rows
<1>2. \A k \in S : k.amount \in Nat
  BY DEF Rows
<1>3. 0 \in N
  <2>1. \A s \in SUBSET S : Cardinality(s) <= 0 => s = {}
    BY <1>1, FS_EmptySet
  <2> QED
    BY <2>1
<1>4. ASSUME NEW n \in N PROVE n + 1 \in N
  <2> SUFFICES ASSUME NEW s \in SUBSET S, NEW k \in s, Cardinality(s) <= n + 1
               PROVE  Sum(s) = k.amount + Sum(s \ {k})
    BY <1>4
  <2> DEFINE c == Some(s)
  <2>1. c \in s /\ Sum(s) = c.amount + Sum(s \ {c})
    BY <1>1, FirstOf, SumRecurs
  <2> SUFFICES ASSUME k # c PROVE Sum(s) = k.amount + Sum(s \ {k})
    BY <2>1
  <2> HIDE DEF c
  <2>2. Cardinality(s) \in Nat /\ Cardinality(s \ {c}) <= n /\ Cardinality(s \ {k}) <= n
    <3>1. Cardinality(s \ {c}) = Cardinality(s) - 1 /\ Cardinality(s) \in Nat
      BY <1>1, <2>1, OneLess
    <3>2. Cardinality(s \ {k}) = Cardinality(s) - 1
      BY <1>1, OneLess
    <3> QED
      BY <3>1, <3>2
  <2>3. Sum(s \ {c}) = k.amount + Sum((s \ {c}) \ {k})
    BY <1>4, <2>2
  <2>4. Sum(s \ {k}) = c.amount + Sum((s \ {k}) \ {c})
    BY <1>4, <2>1, <2>2
  <2>5. (s \ {c}) \ {k} = (s \ {k}) \ {c}
    OBVIOUS
  <2>6. Sum((s \ {k}) \ {c}) \in Nat /\ k.amount \in Nat /\ c.amount \in Nat
    <3>1. (s \ {k}) \ {c} \in SUBSET S
      OBVIOUS
    <3> QED
      BY <1>1, <1>2, <2>1, <3>1, SumRecurs
  <2> QED
    BY <2>1, <2>3, <2>4, <2>5, <2>6
<1>5. \A n \in Nat : n \in N
  <2>1. N \in SUBSET Nat
    OBVIOUS
  <2> HIDE DEF N
  <2> QED
    BY <1>3, <1>4, <2>1, AllNumbers
<1> QED
  BY <1>1, <1>5


\* The ids of the roles stay, and there are not fewer of them.
RolesGrow ==
    /\ \A x \in roles : \E y \in roles' : y.id = x.id
    /\ Cardinality(roles') <= 1 => Cardinality(roles) <= 1

LEMMA MembersAside ==
  ASSUME Served, MembersInv, NEW r \in Requests, NEW v, Moves(r, v), UNCHANGED members, RolesGrow,
         v.step = "profile" => v.checked = FALSE,
         At(r, "entry") => v = Done
  PROVE  MembersInv'
<1>1. ASSUME NEW m \in members PROVE m.id \in Finished' \/ At(m.id, "entry")'
  <2>1. m.id # r => req'[m.id] = req[m.id]
    BY <1>1, MovesEffect DEF MembersInv
  <2>2. m.id \in Requests /\ (m.id \in Finished \/ At(m.id, "entry"))
    BY <1>1 DEF MembersInv
  <2>3. m.id = r => req'[m.id] = Done
    BY <2>2, MovesEffect
  <2> QED
    BY <2>1, <2>2, <2>3, MovesEffect DEF Finished, At
<1>2. Checked' = Checked /\ Checking' \subseteq Checking
  BY MovesEffect DEF Checked, Checking, AtStep, At
<1>3. Checking \subseteq InService /\ IsFiniteSet(Checked)
  BY InServiceOf, Smaller DEF Checked, Checking, MembersInv
<1>4. Cardinality(roles') <= 1 => Cardinality(Checked') + Cardinality(Checking') <= Threads
  <2>1. /\ Cardinality(Checking') \in Nat /\ Cardinality(Checking) \in Nat /\ Cardinality(Checked) \in Nat
        /\ Cardinality(Checking') <= Cardinality(Checking)
    BY <1>2, <1>3, InServiceFinite, Smaller, FS_CardinalityType
  <2> QED
    BY <1>2, <2>1, RequestsAssumption DEF RolesGrow, MembersInv
<1> QED
  BY <1>1, <1>4 DEF MembersInv, RolesGrow, OneOfEachId

\* What has been read of the ledger is still covered.
LedgerGrows ==
    /\ Sum(ledger) <= Sum(ledger')
    /\ \A p \in Practitioners : Sum(LedgerOf(p)) <= Sum(LedgerOf(p)')

SumsAreNumbers ==
    /\ Sum(ledger) \in Nat /\ Sum(ledger') \in Nat
    /\ \A p \in Practitioners : Sum(LedgerOf(p)) \in Nat /\ Sum(LedgerOf(p)') \in Nat

LEMMA CallsAside ==
  ASSUME Served, NEW r \in Requests, NEW v, Moves(r, v), RolesGrow, LedgerGrows, SumsAreNumbers,
         NEW q \in Requests, q # r, Calls(q)
  PROVE  Calls(q)'
<1>1. req'[q] = req[q] /\ Finished \subseteq Finished'
  BY MovesEffect
<1>2. \A s : At(q, s)' <=> At(q, s)
  BY <1>1 DEF At
<1>3. Assigns(q)' /\ Gives(q)' /\ MakesRole(q)'
  BY <1>1, <1>2 DEF Calls, Assigns, Gives, MakesRole
<1>4. Invites(q)'
  BY <1>1, <1>2 DEF Calls, Invites, RolesGrow
<1>5. Allocates(q)'
  <2> SUFFICES ASSUME At(q, "balance") \/ At(q, "allocate")
               PROVE  /\ req[q].to \in Practitioners /\ req[q].amount \in Amounts
                      /\ req[q].allocated \in Nat /\ req[q].allocated + req[q].amount <= Purchased
                      /\ req[q].allocated <= Sum(ledger')
                      /\ At(q, "allocate") => Covered(req[q].to, req[q].total)'
    BY <1>1, <1>2 DEF Allocates
  <2>1. /\ req[q].to \in Practitioners /\ req[q].amount \in Amounts
        /\ req[q].allocated \in Nat /\ req[q].allocated + req[q].amount <= Purchased
        /\ req[q].allocated <= Sum(ledger)
        /\ At(q, "allocate") => Covered(req[q].to, req[q].total)
    BY DEF Calls, Allocates
  <2>2. req[q].allocated <= Sum(ledger')
    BY <2>1 DEF LedgerGrows, SumsAreNumbers
  <2>3. ASSUME Covered(req[q].to, req[q].total) PROVE Covered(req[q].to, req[q].total)'
    <3> DEFINE n == req[q].total
    <3>1. PICK p \in Practitioners : p = req[q].to
      BY <2>1
    <3>2. n # None => n \in Nat /\ n <= Sum(LedgerOf(p))
      BY <2>3, <3>1 DEF Covered
    <3>3. /\ Sum(LedgerOf(p)) \in Nat /\ Sum(LedgerOf(p)') \in Nat
          /\ Sum(LedgerOf(p)) <= Sum(LedgerOf(p)')
      BY <2>1 DEF LedgerGrows, SumsAreNumbers
    <3>4. n # None => n \in Nat /\ n <= Sum(LedgerOf(p)')
      BY <3>2, <3>3
    <3> QED
      BY <1>1, <3>1, <3>4 DEF Covered
  <2> QED
    BY <2>1, <2>2, <2>3
<1> QED
  BY <1>3, <1>4, <1>5 DEF Calls

LEMMA SumAdds ==
  ASSUME NEW S, Rows(S), NEW x, x \notin S, x.amount \in Nat
  PROVE  Rows(S \union {x}) /\ Sum(S) \in Nat /\ Sum(S \union {x}) = Sum(S) + x.amount
<1> DEFINE T == S \union {x}
<1>1. Rows(T) /\ x \in T /\ T \ {x} = S
  BY FS_AddElement DEF Rows
<1> HIDE DEF T
<1>2. Sum(T) = x.amount + Sum(S) /\ Sum(S) \in Nat
  BY <1>1, SumWithout, SumRecurs
<1>3. Sum(T) = Sum(S) + x.amount
  BY <1>2
<1> QED
  BY <1>1, <1>2, <1>3 DEF T

LEMMA LedgerRows == ASSUME CreditsInv PROVE Rows(ledger) /\ \A p : Rows(LedgerOf(p))
<1>1. IsFiniteSet(ledger) /\ \A x \in ledger : x.amount \in Nat
  BY CreditsAssumption DEF CreditsInv
<1>2. \A p : LedgerOf(p) \in SUBSET ledger
  BY DEF LedgerOf
<1>3. \A p : IsFiniteSet(LedgerOf(p))
  BY <1>1, <1>2, FS_Subset
<1> QED
  BY <1>1, <1>2, <1>3 DEF Rows

LEMMA LedgerStays == ASSUME CreditsInv, UNCHANGED ledger PROVE LedgerGrows /\ SumsAreNumbers
<1>1. \A p : LedgerOf(p)' = LedgerOf(p)
  BY DEF LedgerOf
<1>2. Sum(ledger) \in Nat /\ \A p : Sum(LedgerOf(p)) \in Nat
  BY LedgerRows, SumRecurs
<1> QED
  BY <1>1, <1>2 DEF LedgerGrows, SumsAreNumbers

LEMMA RolesStay == ASSUME UNCHANGED roles PROVE RolesGrow
BY DEF RolesGrow

\* A row with a new id is added, or one takes the place of another with its id.
LEMMA IdsStayOne ==
  ASSUME NEW S, OneOfEachId(S), NEW y
  PROVE  /\ (\A x \in S : x.id # y.id) => OneOfEachId(S \union {y}) /\ y \notin S
         /\ \A x \in S : x.id = y.id => OneOfEachId((S \ {x}) \union {y}) /\ y \notin S \ {x}
         /\ \A x \in S : OneOfEachId(S \ {x})
BY DEF OneOfEachId

LEMMA Together ==
  ASSUME TenancyInv, NEW r \in Requests, NEW v, Moves(r, v), RolesGrow, LedgerGrows, SumsAreNumbers, Calls(r)',
         RolesInv', BusinessesInv', AssignedInv', AccessInv', MembersInv', LicensesInv', CreditsInv'
  PROVE  TenancyInv'
<1>1. \A q \in Requests : Calls(q)'
  BY CallsAside DEF TenancyInv
<1> QED
  BY <1>1, MovesEffect DEF TenancyInv

-----------------------------------------------------------------------------
(***************************************************************************)
(* The steps of roles.                                                     *)
(***************************************************************************)
LEMMA RolesGo ==
  ASSUME NEW r \in Requests, MakesRole(r), RolesNext(r)
  PROVE  \E v : /\ Moves(r, v)
                /\ v.step \in {"makeRole", "grant", "done", "profile", "role"}
                /\ v.step = "makeRole" => TakenUp(r) /\ v.next = Done
                /\ v.step = "profile" => Promotes(v)
                /\ v.step = "role" => Changes(v)
                /\ ~At(r, "entry")
<1> USE StepsDiffer, AtIsInService
<1>1. TakenUp(r) => ~At(r, "entry")
  BY DEF TakenUp, At
<1>2. CASE MakeRole(r)
  BY <1>2 DEF MakeRole, Moves, MakesRole, At, Promotes, Changes
<1>3. CASE LookUpRole(r)
  <2> DEFINE v == IF Named = {} THEN [step |-> "makeRole", next |-> Done] ELSE Done
  <2>1. Goes(r, v) /\ TakenUp(r)
    BY <1>3 DEF LookUpRole, WithRole
  <2>2. /\ v.step \in {"makeRole", "done"}
        /\ v.step = "makeRole" => v.next = Done
    OBVIOUS
  <2> QED
    BY <1>1, <2>1, <2>2 DEF Moves
<1>4. CASE AssignPermission(r)
  BY <1>1, <1>4 DEF AssignPermission, Moves
<1>5. CASE Grant(r)
  BY <1>5 DEF Grant, Ends, Moves, At
<1>6. CASE CreateRole(r) \/ (\E x \in roles : UpdateRole(r, x) \/ DeleteRole(r, x)) \/ \E g \in grants : RemovePermission(r, g)
  <2>1. Whole(r)
    BY <1>6 DEF CreateRole, UpdateRole, DeleteRole, RemovePermission
  <2> QED
    BY <1>1, <2>1 DEF Whole, Ends, Moves
<1> QED
  BY <1>2, <1>3, <1>4, <1>5, <1>6 DEF RolesNext

LEMMA RolesChange ==
  ASSUME Served, RolesInv, NEW r \in Requests, NEW v, Moves(r, v), RolesNext(r),
         v.step \in {"makeRole", "grant", "done", "profile", "role"},
         v.step = "makeRole" => TakenUp(r)
  PROVE  RolesInv' /\ RolesGrow
<1>1. v # New /\ req'[r] = v /\ (\A q \in Requests : q # r => req'[q] = req[q]) /\ Finished \subseteq Finished'
  BY MovesEffect, StepsDiffer
<1>2. Cardinality(roles) \in Nat
  BY FS_CardinalityType DEF RolesInv
<1>3. CASE UNCHANGED roleVars
  BY <1>1, <1>3, RolesAside, RolesStay DEF roleVars
<1>4. ASSUME roles' = roles \union {Role(r)}, UNCHANGED grants, req[r] = New \/ At(r, "makeRole"), v.step # "makeRole"
      PROVE  RolesInv' /\ RolesGrow
  <2>1. Role(r).id = r /\ r # Seeded /\ Role(r) \in [id : Requests \union {Seeded}, named : BOOLEAN, deleted : BOOLEAN]
    BY SeededAssumption DEF Role
  <2>2. \A x \in roles : x.id # r
    BY <1>4, SeededAssumption DEF RolesInv
  <2>3. OneOfEachId(roles') /\ IsFiniteSet(roles') /\ Cardinality(roles') = Cardinality(roles) + 1
    BY <1>4, <2>1, <2>2, IdsStayOne, FS_AddElement DEF RolesInv
  <2>4. \A x \in roles' : x.id # Seeded => req'[x.id] # New /\ ~At(x.id, "makeRole")'
    <3> SUFFICES ASSUME NEW x \in roles', x.id # Seeded PROVE req'[x.id] # New /\ ~At(x.id, "makeRole")'
      OBVIOUS
    <3>1. CASE x.id = r
      BY <1>1, <1>4, <3>1 DEF At
    <3>2. CASE x.id # r
      <4>1. x \in roles /\ x.id \in Requests
        BY <1>4, <2>1, <3>2 DEF RolesInv
      <4> QED
        BY <1>1, <3>2, <4>1 DEF RolesInv, At
    <3> QED
      BY <3>1, <3>2
  <2>5. RolesInv'
    BY <1>1, <1>4, <2>1, <2>3, <2>4 DEF RolesInv
  <2>6. RolesGrow
    BY <1>2, <1>4, <2>3 DEF RolesGrow
  <2> QED
    BY <2>5, <2>6
<1>5. ASSUME NEW x \in roles, NEW y, roles' = (roles \ {x}) \union {y}, UNCHANGED grants, y.id = x.id, TakenUp(r),
             y \in [id : Requests \union {Seeded}, named : BOOLEAN, deleted : BOOLEAN], v = Done
      PROVE  RolesInv' /\ RolesGrow
  <2>1. OneOfEachId(roles') /\ IsFiniteSet(roles') /\ Cardinality(roles') = Cardinality(roles)
    <3>1. OneOfEachId((roles \ {x}) \union {y}) /\ y \notin roles \ {x}
      BY <1>5, IdsStayOne DEF RolesInv
    <3>2. IsFiniteSet(roles)
      BY DEF RolesInv
    <3> QED
      BY <1>5, <3>1, <3>2, Replaced
  <2>2. \A z \in roles' : z.id # Seeded => req'[z.id] # New /\ ~At(z.id, "makeRole")'
    <3> SUFFICES ASSUME NEW z \in roles, z.id # Seeded PROVE req'[z.id] # New /\ ~At(z.id, "makeRole")'
      BY <1>5
    <3>1. z.id \in Requests /\ req[z.id] # New /\ ~At(z.id, "makeRole")
      BY DEF RolesInv
    <3>2. z.id # r
      BY <1>5, <3>1 DEF TakenUp
    <3> QED
      BY <1>1, <3>1, <3>2 DEF At
  <2>3. RolesInv'
    BY <1>1, <1>5, <2>1, <2>2 DEF RolesInv
  <2>4. RolesGrow
    BY <1>5, <2>1 DEF RolesGrow
  <2> QED
    BY <2>3, <2>4
<1>6. ASSUME UNCHANGED roles, grants' \subseteq grants \union {r}, v = Done PROVE RolesInv' /\ RolesGrow
  <2>1. grants' \subseteq Finished'
    BY <1>1, <1>6 DEF RolesInv, Finished
  <2>2. \A x \in roles : x.id # Seeded => req'[x.id] # New /\ ~At(x.id, "makeRole")'
    <3> SUFFICES ASSUME NEW x \in roles, x.id # Seeded PROVE req'[x.id] # New /\ ~At(x.id, "makeRole")'
      OBVIOUS
    <3>1. x.id \in Requests /\ req[x.id] # New /\ ~At(x.id, "makeRole")
      BY DEF RolesInv
    <3> QED
      BY <1>1, <1>6, <3>1, StepsDiffer DEF At
  <2> QED
    BY <1>6, <2>1, <2>2, RolesStay DEF RolesInv
<1>7. Goes(r, Done) => v = Done
  BY <1>1 DEF Goes, Served
<1>8. CASE MakeRole(r)
  <2>1. v.step # "makeRole"
    BY <1>8, StepsDiffer DEF MakeRole, TakenUp, At
  <2> QED
    BY <1>4, <1>8, <2>1 DEF MakeRole
<1>9. CASE CreateRole(r)
  BY <1>4, <1>7, <1>9, StepsDiffer DEF CreateRole, Whole, Ends, TakenUp
<1>10. ASSUME NEW x \in roles, UpdateRole(r, x) \/ DeleteRole(r, x) PROVE RolesInv' /\ RolesGrow
  <2>1. x \in [id : Requests \union {Seeded}, named : BOOLEAN, deleted : BOOLEAN]
    BY <1>10 DEF RolesInv
  <2>2. PICK y \in {[x EXCEPT !.named = ~@], [x EXCEPT !.deleted = TRUE]} : roles' = (roles \ {x}) \union {y}
    BY <1>10 DEF UpdateRole, DeleteRole
  <2>3. y.id = x.id /\ y \in [id : Requests \union {Seeded}, named : BOOLEAN, deleted : BOOLEAN]
    BY <2>1, <2>2
  <2>4. UNCHANGED grants /\ TakenUp(r) /\ v = Done
    BY <1>7, <1>10 DEF UpdateRole, DeleteRole, Whole, Ends
  <2> QED
    BY <1>5, <1>10, <2>2, <2>3, <2>4
<1>11. CASE Grant(r)
  BY <1>6, <1>7, <1>11 DEF Grant, Ends
<1>12. ASSUME NEW g \in grants, RemovePermission(r, g) PROVE RolesInv' /\ RolesGrow
  BY <1>6, <1>7, <1>12 DEF RemovePermission, Whole, Ends
<1> QED
  BY <1>3, <1>8, <1>9, <1>10, <1>11, <1>12 DEF RolesNext, LookUpRole, AssignPermission

LEMMA RolesStep ==
  ASSUME TenancyInv, NEW r \in Requests, RolesNext(r), UNCHANGED <<orgVars, licenses, creditVars>>
  PROVE  TenancyInv'
<1> USE DEF TenancyInv
<1>1. PICK v : /\ Moves(r, v)
               /\ v.step \in {"makeRole", "grant", "done", "profile", "role"}
               /\ v.step = "makeRole" => TakenUp(r) /\ v.next = Done
               /\ v.step = "profile" => Promotes(v)
               /\ v.step = "role" => Changes(v)
               /\ ~At(r, "entry")
  BY RolesGo DEF Calls
<1>2. UNCHANGED <<org, biz>> /\ UNCHANGED assigned /\ UNCHANGED access /\ UNCHANGED members /\ UNCHANGED ledger
  BY DEF orgVars, creditVars
<1>3. RolesInv' /\ RolesGrow
  BY <1>1, RolesChange
<1>4. BusinessesInv' /\ AssignedInv' /\ AccessInv' /\ LicensesInv' /\ CreditsInv'
  BY <1>1, <1>2, BusinessesAside, AssignedAside, AccessAside, LicensesAside, CreditsAside
<1>5. MembersInv'
  BY <1>1, <1>2, <1>3, MembersAside DEF Promotes
<1>6. req'[r] = v
  BY <1>1, MovesEffect
<1>7. Calls(r)'
  BY <1>1, <1>6 DEF Calls, MakesRole, Invites, Assigns, Gives, Allocates, At, Promotes
<1> QED
  BY <1>1, <1>2, <1>3, <1>4, <1>5, <1>7, LedgerStays, Together DEF TenancyInv

-----------------------------------------------------------------------------
(***************************************************************************)
(* The steps of organizations: the businesses.                             *)
(***************************************************************************)
BusinessesNext(r) ==
    \/ CreateOrganization(r) \/ UpdateOrganization(r) \/ DeleteOrganization(r)
    \/ CreateBusiness(r) \/ InsertBusiness(r)
    \/ \E b \in biz : UpdateBusiness(r, b) \/ DeleteBusiness(r, b)

LEMMA BusinessesGo ==
  ASSUME NEW r \in Requests, BusinessesNext(r)
  PROVE  \E v : /\ Moves(r, v) /\ ~At(r, "entry")
                /\ v = Done \/ (CreateBusiness(r) /\ v = [step |-> "business"])
<1> USE StepsDiffer, AtIsInService
<1>1. TakenUp(r) => ~At(r, "entry")
  BY DEF TakenUp, At
<1>2. CASE CreateBusiness(r)
  BY <1>1, <1>2 DEF CreateBusiness, Moves
<1>3. CASE InsertBusiness(r)
  BY <1>3 DEF InsertBusiness, Ends, Moves, At
<1>4. CASE \/ CreateOrganization(r) \/ UpdateOrganization(r) \/ DeleteOrganization(r)
           \/ \E b \in biz : UpdateBusiness(r, b) \/ DeleteBusiness(r, b)
  <2>1. Whole(r)
    BY <1>4 DEF CreateOrganization, UpdateOrganization, DeleteOrganization, UpdateBusiness, DeleteBusiness
  <2> QED
    BY <1>1, <2>1 DEF Whole, Ends, Moves
<1> QED
  BY <1>2, <1>3, <1>4 DEF BusinessesNext

OrgType == [state : {"none", "live", "deleted"}, onboarded : BOOLEAN]
BizType == [id : Finished \union {First}, live : BOOLEAN, onboarded : BOOLEAN]

LEMMA BusinessesChange ==
  ASSUME Served, BusinessesInv, NEW r \in Requests, NEW v, Moves(r, v), BusinessesNext(r)
  PROVE  BusinessesInv'
<1> USE DEF OrgType, BizType
<1>1. /\ req'[r] = v /\ Finished \subseteq Finished' /\ r \notin Finished /\ r # First
      /\ AtStep("business")' = IF v.step = "business" THEN AtStep("business") \union {r} ELSE AtStep("business") \ {r}
      /\ Goes(r, Done) => v = Done
      /\ v = Done => r \in Finished'
      /\ \A b \in biz : b.id # r
  BY MovesEffect, FirstAssumption DEF Goes, Served, BusinessesInv, Finished
<1>2. org \in OrgType /\ biz \subseteq BizType /\ IsFiniteSet(biz) /\ OneOfEachId(biz)
  BY DEF BusinessesInv
<1>3. biz \subseteq BizType'
  BY <1>1, <1>2
<1>4. Business(r).id = r /\ Business(First).id = First /\ Business(First) \in BizType'
  BY DEF Business
<1>5. v = Done => Business(r) \in BizType'
  BY <1>1 DEF Business
<1>6. ASSUME UNCHANGED biz, org' \in OrgType, org'.state = "none" => org.state = "none", v.step # "business"
      PROVE  BusinessesInv'
  BY <1>1, <1>2, <1>3, <1>6 DEF BusinessesInv
<1>7. ASSUME UNCHANGED org, org.state # "none", biz' \subseteq BizType', IsFiniteSet(biz'), OneOfEachId(biz')
      PROVE  BusinessesInv'
  BY <1>2, <1>7 DEF BusinessesInv
<1>8. CASE CreateOrganization(r)
  <2>1. v = Done /\ org' \in OrgType /\ org'.state = "live"
    BY <1>1, <1>2, <1>8 DEF CreateOrganization, Whole, Ends
  <2>2. biz' = {Business(r)} \/ biz' = {Business(r), Business(First)}
    BY <1>8 DEF CreateOrganization
  <2>3. IsFiniteSet(biz') /\ OneOfEachId(biz') /\ biz' \subseteq BizType'
    <3>1. IsFiniteSet({Business(r)}) /\ IsFiniteSet({Business(r)} \union {Business(First)})
      BY FS_Singleton, FS_AddElement
    <3>2. {Business(r)} \union {Business(First)} = {Business(r), Business(First)}
      OBVIOUS
    <3> QED
      BY <1>1, <1>4, <1>5, <2>1, <2>2, <3>1, <3>2 DEF OneOfEachId
  <2> QED
    BY <2>1, <2>3 DEF BusinessesInv
<1>9. CASE UpdateOrganization(r)
  <2>1. v = Done /\ UNCHANGED biz /\ org' \in OrgType /\ org'.state = org.state
    BY <1>1, <1>2, <1>9 DEF UpdateOrganization, Whole, Ends
  <2> QED
    BY <1>6, <2>1, StepsDiffer
<1>10. CASE DeleteOrganization(r)
  <2>1. v = Done /\ UNCHANGED biz /\ org' \in OrgType /\ org'.state = "deleted"
    BY <1>1, <1>2, <1>10 DEF DeleteOrganization, Whole, Ends
  <2> QED
    BY <1>6, <2>1, StepsDiffer
<1>11. CASE CreateBusiness(r)
  BY <1>2, <1>3, <1>7, <1>11 DEF CreateBusiness, orgVars, OneOfEachId
<1>12. CASE InsertBusiness(r)
  <2>1. v = Done /\ UNCHANGED org /\ biz' = biz \union {Business(r)} /\ r \in AtStep("business")
    BY <1>1, <1>12 DEF InsertBusiness, Ends, AtStep
  <2>2. org.state # "none"
    BY <2>1 DEF BusinessesInv
  <2>3. IsFiniteSet(biz') /\ OneOfEachId(biz') /\ biz' \subseteq BizType'
    BY <1>1, <1>2, <1>3, <1>4, <1>5, <2>1, IdsStayOne, FS_AddElement
  <2> QED
    BY <1>7, <2>1, <2>2, <2>3
<1>13. ASSUME NEW b \in biz, UpdateBusiness(r, b) \/ DeleteBusiness(r, b) PROVE BusinessesInv'
  <2>1. PICK c \in {[b EXCEPT !.onboarded = TRUE], [b EXCEPT !.live = FALSE]} :
              biz' = (biz \ {b}) \union {c} /\ UNCHANGED org
    BY <1>13 DEF UpdateBusiness, DeleteBusiness
  <2>2. c.id = b.id /\ c \in BizType'
    BY <1>2, <1>3, <2>1
  <2>3. OneOfEachId((biz \ {b}) \union {c}) /\ IsFiniteSet((biz \ {b}) \union {c})
    BY <1>2, <2>2, IdsStayOne, Replaced
  <2>4. org.state # "none"
    BY <1>13 DEF BusinessesInv
  <2> QED
    BY <1>3, <1>7, <2>1, <2>2, <2>3, <2>4
<1> QED
  BY <1>8, <1>9, <1>10, <1>11, <1>12, <1>13 DEF BusinessesNext

LEMMA BusinessesStep ==
  ASSUME TenancyInv, NEW r \in Requests, BusinessesNext(r), UNCHANGED <<roleVars, licenses, creditVars>>
  PROVE  TenancyInv'
<1> USE DEF TenancyInv
<1>1. PICK v : /\ Moves(r, v) /\ ~At(r, "entry")
               /\ v = Done \/ (CreateBusiness(r) /\ v = [step |-> "business"])
  BY BusinessesGo
<1>2. UNCHANGED assigned /\ UNCHANGED access /\ UNCHANGED members
  BY DEF BusinessesNext, CreateOrganization, UpdateOrganization, DeleteOrganization, CreateBusiness,
         InsertBusiness, UpdateBusiness, DeleteBusiness, orgVars
<1>3. UNCHANGED roles /\ UNCHANGED ledger /\ UNCHANGED roleVars /\ UNCHANGED creditVars
  BY DEF roleVars, creditVars
<1>4. v.step \in {"done", "business"} /\ v # New
  BY <1>1, StepsDiffer
<1>5. RolesInv' /\ AssignedInv' /\ AccessInv' /\ LicensesInv' /\ CreditsInv'
  BY <1>1, <1>2, <1>3, <1>4, RolesAside, AssignedAside, AccessAside, LicensesAside, CreditsAside
<1>6. RolesGrow /\ LedgerGrows /\ SumsAreNumbers
  BY <1>3, RolesStay, LedgerStays
<1>7. MembersInv'
  BY <1>1, <1>2, <1>4, <1>6, MembersAside
<1>8. BusinessesInv'
  BY <1>1, BusinessesChange
<1>9. req'[r] = v
  BY <1>1, MovesEffect
<1>10. Calls(r)'
  BY <1>4, <1>9 DEF Calls, MakesRole, Invites, Assigns, Gives, Allocates, At
<1> QED
  BY <1>1, <1>5, <1>6, <1>7, <1>8, <1>10, Together

-----------------------------------------------------------------------------
(***************************************************************************)
(* The steps of organizations: the agents and the businesses' access.      *)
(***************************************************************************)
AssignedNext(r) ==
    \/ \E a \in Agents : AssignAgent(r, a)
    \/ CommitAssignment(r)
    \/ \E x \in assigned : RemoveAgent(r, x)

AccessNext(r) ==
    \/ \E b \in biz, a \in Agents : GiveAccess(r, b.id, a)
    \/ InsertAccess(r)
    \/ \E x \in access : RemoveAccess(r, x)

\* A request that is taken up is about to add something to rows and requests
\* that are together less than the threads.
LEMMA OneMore ==
  ASSUME NEW r \in Requests, TakenUp(r), NEW A, A \subseteq InService
  PROVE  Cardinality(A \union {r}) <= Threads
BY OneMoreThanInService

LEMMA OneLess2 ==
  ASSUME NEW r, NEW A, A \subseteq InService, r \in A
  PROVE  /\ Cardinality(A) \in Nat /\ Cardinality(A \ {r}) \in Nat
         /\ Cardinality(A \ {r}) = Cardinality(A) - 1
BY InServiceFinite, Smaller, OneLess

LEMMA AccessGo ==
  ASSUME TenancyInv, NEW r \in Requests, AccessNext(r)
  PROVE  \E v : /\ Moves(r, v) /\ ~At(r, "entry") /\ v.step \in {"done", "access"} /\ v # New
                /\ v.step = "access" => v.biz \in Requests \union {First} /\ v.agent \in Agents
<1> USE StepsDiffer, AtIsInService
<1>1. TakenUp(r) => ~At(r, "entry")
  BY DEF TakenUp, At
<1>2. ASSUME NEW b \in biz, NEW a \in Agents, GiveAccess(r, b.id, a)
      PROVE  \E v : /\ Moves(r, v) /\ ~At(r, "entry") /\ v.step \in {"done", "access"} /\ v # New
                    /\ v.step = "access" => v.biz \in Requests \union {First} /\ v.agent \in Agents
  <2> DEFINE v == [step |-> "access", biz |-> b.id, agent |-> a]
  <2>1. b.id \in Requests \union {First}
    BY DEF TenancyInv, BusinessesInv, Finished
  <2>2. Moves(r, v) /\ ~At(r, "entry")
    BY <1>1, <1>2 DEF GiveAccess, Moves
  <2>3. v.step = "access" /\ v.biz = b.id /\ v.agent = a /\ v # New
    BY DEF New
  <2> HIDE DEF v
  <2> QED
    BY <2>1, <2>2, <2>3
<1>3. CASE InsertAccess(r)
  BY <1>3 DEF InsertAccess, Ends, Moves, At
<1>4. CASE \E x \in access : RemoveAccess(r, x)
  <2>1. Whole(r)
    BY <1>4 DEF RemoveAccess
  <2> QED
    BY <1>1, <2>1 DEF Whole, Ends, Moves
<1> QED
  BY <1>2, <1>3, <1>4 DEF AccessNext

LEMMA AccessChange ==
  ASSUME TenancyInv, NEW r \in Requests, NEW v, Moves(r, v), AccessNext(r)
  PROVE  AccessInv'
<1> USE DEF TenancyInv
<1>1. /\ req'[r] = v /\ (\A q \in Requests : q # r => req'[q] = req[q])
      /\ Finished \subseteq Finished' /\ r \notin Finished
      /\ AtStep("access")' = IF v.step = "access" THEN AtStep("access") \union {r} ELSE AtStep("access") \ {r}
      /\ \A w : Goes(r, w) => v = w
  BY MovesEffect DEF Goes, Served
<1>2. AtStep("access") \subseteq InService
  BY InServiceOf
<1>3. IsFiniteSet(access) /\ access \subseteq [id : Finished', biz : Requests \union {First}, agent : Agents]
  BY <1>1 DEF AccessInv
<1>4. ASSUME NEW b \in biz, NEW a \in Agents, GiveAccess(r, b.id, a) PROVE AccessInv'
  <2>1. v.step = "access" /\ v.biz = b.id /\ v.agent = a /\ UNCHANGED access /\ AccessOf(b.id, a) = {} /\ TakenUp(r)
    BY <1>1, <1>4 DEF GiveAccess, orgVars
  <2>2. ASSUME NEW c \in Requests \union {First}, NEW d \in Agents
        PROVE  Cardinality(AccessOf(c, d)') + Cardinality(Giving(c, d)') <= Threads
    <3>1. AccessOf(c, d)' = AccessOf(c, d) /\ Giving(c, d) \subseteq InService
      BY <1>2, <2>1 DEF AccessOf, Giving
    <3>2. CASE c = b.id /\ d = a
      <4>1. Giving(c, d)' = Giving(c, d) \union {r}
        BY <1>1, <2>1, <3>2 DEF Giving, AtStep
      <4>2. Cardinality(Giving(c, d)') <= Threads /\ Cardinality(Giving(c, d)') \in Nat
        BY <2>1, <3>1, <4>1, OneMoreThanInService
      <4>3. Cardinality(AccessOf(c, d)') = 0
        BY <2>1, <3>1, <3>2, FS_EmptySet
      <4> QED
        BY <4>2, <4>3
    <3>3. CASE ~(c = b.id /\ d = a)
      <4>1. r \notin AtStep("access")
        BY <2>1 DEF AtStep, At, TakenUp, New
      <4>2. Giving(c, d)' = Giving(c, d)
        BY <1>1, <2>1, <3>3, <4>1 DEF Giving, AtStep
      <4> QED
        BY <3>1, <4>2 DEF AccessInv
    <3> QED
      BY <3>2, <3>3
  <2> QED
    BY <1>3, <2>1, <2>2 DEF AccessInv
<1>5. CASE InsertAccess(r)
  <2> DEFINE row == [id |-> r, biz |-> req[r].biz, agent |-> req[r].agent]
  <2>1. v = Done /\ r \in AtStep("access") /\ access' = access \union {row}
    BY <1>1, <1>5 DEF InsertAccess, Ends, AtStep
  <2>2. req[r].biz \in Requests \union {First} /\ req[r].agent \in Agents
    BY <2>1 DEF AtStep, Calls, Gives
  <2>3. /\ row.biz = req[r].biz /\ row.agent = req[r].agent
        /\ row \in [id : Finished', biz : Requests \union {First}, agent : Agents]
    BY <1>1, <2>1, <2>2 DEF Finished
  <2> HIDE DEF row
  <2>4. IsFiniteSet(access') /\ access' \subseteq [id : Finished', biz : Requests \union {First}, agent : Agents]
    BY <1>3, <2>1, <2>3, FS_AddElement
  <2>5. ASSUME NEW c \in Requests \union {First}, NEW d \in Agents
        PROVE  Cardinality(AccessOf(c, d)') + Cardinality(Giving(c, d)') <= Threads
    <3>1. IsFiniteSet(AccessOf(c, d)) /\ Cardinality(AccessOf(c, d)) \in Nat /\ Giving(c, d) \subseteq InService
      BY <1>2, Smaller DEF AccessOf, Giving, AccessInv
    <3>2. CASE c = req[r].biz /\ d = req[r].agent
      <4>1. AccessOf(c, d)' = AccessOf(c, d) \union {row} /\ Giving(c, d)' = Giving(c, d) \ {r} /\ r \in Giving(c, d)
        BY <1>1, <2>1, <2>3, <3>2, StepsDiffer DEF AccessOf, Giving, AtStep
      <4>2. Cardinality(AccessOf(c, d)') <= Cardinality(AccessOf(c, d)) + 1 /\ Cardinality(AccessOf(c, d)') \in Nat
        BY <3>1, <4>1, Added
      <4>3. Cardinality(Giving(c, d)') = Cardinality(Giving(c, d)) - 1 /\ Cardinality(Giving(c, d)) \in Nat
        BY <3>1, <4>1, OneLess2
      <4>4. Cardinality(AccessOf(c, d)) + Cardinality(Giving(c, d)) <= Threads
        BY DEF AccessInv
      <4> QED
        BY <3>1, <4>2, <4>3, <4>4, RequestsAssumption
    <3>3. CASE ~(c = req[r].biz /\ d = req[r].agent)
      <4>1. AccessOf(c, d)' = AccessOf(c, d) /\ Giving(c, d)' = Giving(c, d)
        BY <1>1, <2>1, <2>3, <3>3, StepsDiffer DEF AccessOf, Giving, AtStep
      <4> QED
        BY <4>1 DEF AccessInv
    <3> QED
      BY <3>2, <3>3
  <2> QED
    BY <2>4, <2>5 DEF AccessInv
<1>6. ASSUME NEW x \in access, RemoveAccess(r, x) PROVE AccessInv'
  <2>1. v = Done /\ access' = access \ {x}
    BY <1>1, <1>6 DEF RemoveAccess, Whole, Ends
  <2>2. IsFiniteSet(access')
    BY <1>3, <2>1, Smaller
  <2>3. ASSUME NEW c \in Requests \union {First}, NEW d \in Agents
        PROVE  Cardinality(AccessOf(c, d)') + Cardinality(Giving(c, d)') <= Threads
    <3>1. AccessOf(c, d)' \subseteq AccessOf(c, d) /\ Giving(c, d)' \subseteq Giving(c, d) /\ Giving(c, d) \subseteq InService
      BY <1>1, <1>2, <2>1, StepsDiffer DEF AccessOf, Giving, AtStep
    <3>2. IsFiniteSet(AccessOf(c, d))
      BY Smaller DEF AccessOf, AccessInv
    <3>3. /\ Cardinality(AccessOf(c, d)) \in Nat /\ Cardinality(AccessOf(c, d)') \in Nat
          /\ Cardinality(AccessOf(c, d)') <= Cardinality(AccessOf(c, d))
      BY <3>1, <3>2, Smaller
    <3>4. Cardinality(AccessOf(c, d)) + Cardinality(Giving(c, d)') <= Threads
      BY <3>1, <3>3, FewerOf DEF AccessInv
    <3>5. Cardinality(Giving(c, d)') \in Nat
      BY <3>1, InServiceFinite, Smaller
    <3> QED
      BY <3>3, <3>4, <3>5, RequestsAssumption
  <2> QED
    BY <1>3, <2>1, <2>2, <2>3 DEF AccessInv
<1> QED
  BY <1>4, <1>5, <1>6 DEF AccessNext

LEMMA AccessStep ==
  ASSUME TenancyInv, NEW r \in Requests, AccessNext(r), UNCHANGED <<roleVars, licenses, creditVars>>
  PROVE  TenancyInv'
<1>1. PICK v : /\ Moves(r, v) /\ ~At(r, "entry") /\ v.step \in {"done", "access"} /\ v # New
               /\ v.step = "access" => v.biz \in Requests \union {First} /\ v.agent \in Agents
  BY AccessGo
<1>2. UNCHANGED <<org, biz>> /\ UNCHANGED assigned /\ UNCHANGED members
  BY DEF AccessNext, GiveAccess, InsertAccess, RemoveAccess, orgVars
<1>3. UNCHANGED roles /\ UNCHANGED ledger /\ UNCHANGED roleVars /\ UNCHANGED creditVars
  BY DEF roleVars, creditVars
<1>4. AccessInv'
  BY <1>1, AccessChange
<1> USE DEF TenancyInv
<1>5. RolesInv' /\ BusinessesInv' /\ AssignedInv' /\ LicensesInv' /\ CreditsInv'
  BY <1>1, <1>2, <1>3, RolesAside, BusinessesAside, AssignedAside, LicensesAside, CreditsAside
<1>6. RolesGrow /\ LedgerGrows /\ SumsAreNumbers
  BY <1>3, RolesStay, LedgerStays
<1>7. MembersInv'
  BY <1>1, <1>2, <1>6, MembersAside
<1>8. req'[r] = v
  BY <1>1, MovesEffect
<1>9. Calls(r)'
  BY <1>1, <1>8 DEF Calls, MakesRole, Invites, Assigns, Gives, Allocates, At
<1> QED
  BY <1>1, <1>4, <1>5, <1>6, <1>7, <1>9, Together

LEMMA AssignedGo ==
  ASSUME TenancyInv, NEW r \in Requests, AssignedNext(r)
  PROVE  \E v : /\ Moves(r, v) /\ ~At(r, "entry") /\ v.step \in {"done", "assign"} /\ v # New
                /\ v.step = "assign" =>
                      v.agent \in Agents /\ v.found \in Finished \union {None} /\ v.old \subseteq Finished
<1> USE StepsDiffer, AtIsInService
<1>1. TakenUp(r) => ~At(r, "entry")
  BY DEF TakenUp, At
<1>2. ASSUME NEW a \in Agents, AssignAgent(r, a)
      PROVE  \E v : /\ Moves(r, v) /\ ~At(r, "entry") /\ v.step \in {"done", "assign"} /\ v # New
                    /\ v.step = "assign" =>
                          v.agent \in Agents /\ v.found \in Finished \union {None} /\ v.old \subseteq Finished
  <2>1. PICK found \in Finished \union {None}, old \in SUBSET Finished :
            Goes(r, [step |-> "assign", agent |-> a, found |-> found, old |-> old])
    <3>1. \A x \in RowsOf(a) : x.id \in Finished /\ x.tones \subseteq Finished
      BY DEF RowsOf, TenancyInv, AssignedInv
    <3> QED
      BY <1>2, <3>1 DEF AssignAgent
  <2> DEFINE v == [step |-> "assign", agent |-> a, found |-> found, old |-> old]
  <2>2. Moves(r, v) /\ ~At(r, "entry")
    BY <1>1, <1>2, <2>1 DEF AssignAgent, Moves
  <2>3. v.step = "assign" /\ v.found = found /\ v.agent = a /\ v.old = old /\ v # New
    BY DEF New
  <2> HIDE DEF v
  <2> QED
    BY <2>2, <2>3
<1>3. CASE CommitAssignment(r)
  BY <1>3 DEF CommitAssignment, Ends, Moves, At
<1>4. CASE \E x \in assigned : RemoveAgent(r, x)
  <2>1. Whole(r)
    BY <1>4 DEF RemoveAgent
  <2> QED
    BY <1>1, <2>1 DEF Whole, Ends, Moves
<1> QED
  BY <1>2, <1>3, <1>4 DEF AssignedNext

RowType == [id : Finished, agent : Agents, tones : SUBSET Finished]

\* The first look: a row that is there, or none.
LEMMA AssignAgentKeeps ==
  ASSUME TenancyInv, NEW r \in Requests, NEW v, Moves(r, v), NEW a \in Agents, AssignAgent(r, a)
  PROVE  AssignedInv'
<1> USE DEF TenancyInv
<1>1. /\ req'[r] = v /\ (\A q \in Requests : q # r => req'[q] = req[q])
      /\ Finished \subseteq Finished' /\ r \notin AtStep("assign")
      /\ AtStep("assign")' = IF v.step = "assign" THEN AtStep("assign") \union {r} ELSE AtStep("assign") \ {r}
      /\ \A w : Goes(r, w) => v = w
      /\ TakenUp(r) /\ UNCHANGED assigned
  BY MovesEffect DEF Goes, Served, AssignAgent, orgVars, AtStep, At, TakenUp, New
<1>2. AtStep("assign") \subseteq InService
  BY InServiceOf
<1>3. IsFiniteSet(assigned) /\ OneOfEachId(assigned) /\ assigned \subseteq RowType /\ None \notin Requests
  BY RequestsAssumption DEF AssignedInv, RowType
<1>4. PICK x : \/ v = [step |-> "assign", agent |-> a, found |-> None, old |-> {}] /\ RowsOf(a) = {}
               \/ x \in RowsOf(a) /\ v = [step |-> "assign", agent |-> a, found |-> x.id, old |-> x.tones]
  BY <1>1 DEF AssignAgent
<1>5. v.step = "assign" /\ AtStep("assign")' = AtStep("assign") \union {r}
  BY <1>1, <1>4
<1>6. ASSUME NEW b \in Agents PROVE Cardinality(RowsOf(b)') + Cardinality(Assigning(b)') <= Threads
  <2>1. RowsOf(b)' = RowsOf(b) /\ Assigning(b) \subseteq InService
    BY <1>1, <1>2 DEF RowsOf, Assigning
  <2>2. CASE v.found = None /\ b = a
    <3>1. RowsOf(a) = {}
      BY <1>3, <1>4, <2>2 DEF RowsOf, RowType, Finished
    <3>2. Assigning(b)' \subseteq InService \union {r}
      BY <1>1, <1>2 DEF Assigning
    <3>3. Cardinality(Assigning(b)') <= Threads /\ Cardinality(Assigning(b)') \in Nat
      BY <1>1, <3>2, OneMoreThanInService
    <3> QED
      BY <2>1, <2>2, <3>1, <3>3, FS_EmptySet
  <2>3. CASE v.found # None \/ b # a
    <3>1. ~(v.agent = b /\ v.found = None)
      BY <1>4, <2>3
    <3>2. Assigning(b)' = Assigning(b)
      BY <1>1, <1>5, <3>1 DEF Assigning, AtStep
    <3> QED
      BY <2>1, <3>2 DEF AssignedInv
  <2> QED
    BY <2>2, <2>3
<1>7. ASSUME NEW y \in assigned, NEW D \in SUBSET Requests
      PROVE  Cardinality(y.tones \ D) + Cardinality(Unseeing(y, D)') <= Threads
  <2>1. Unseeing(y, D) \subseteq InService /\ Unseeing(y, D)' \subseteq InService \union {r}
    BY <1>1, <1>2 DEF Unseeing, Replacing
  <2>2. CASE v.found = y.id /\ v.old \intersect y.tones \subseteq D
    <3>1. y.id # None
      BY <1>3 DEF RowType, Finished
    <3>2. x \in assigned /\ v.found = x.id /\ v.old = x.tones
      BY <1>4, <2>2, <3>1 DEF RowsOf
    <3>3. x = y
      BY <1>3, <2>2, <3>2 DEF OneOfEachId
    <3>4. y.tones \ D = {}
      BY <2>2, <3>2, <3>3
    <3>5. Cardinality(Unseeing(y, D)') <= Threads /\ Cardinality(Unseeing(y, D)') \in Nat
      BY <1>1, <2>1, OneMoreThanInService
    <3> QED
      BY <3>4, <3>5, FS_EmptySet
  <2>3. CASE ~(v.found = y.id /\ v.old \intersect y.tones \subseteq D)
    <3>1. Unseeing(y, D)' = Unseeing(y, D)
      BY <1>1, <1>5, <2>3 DEF Unseeing, Replacing, AtStep
    <3> QED
      BY <3>1 DEF AssignedInv, TonesOverlap
  <2> QED
    BY <2>2, <2>3
<1>8. \A y \in assigned : TonesOverlap(y)'
  BY <1>7 DEF TonesOverlap
<1> QED
  BY <1>1, <1>3, <1>6, <1>8 DEF AssignedInv, RowType

\* What a request replaces: with the tones it has seen set apart too, those that
\* stay and those who have seen no others are as many as before, and it was one
\* of them.
LEMMA TonesReplaced ==
  ASSUME TenancyInv, NEW r \in Requests, NEW v, Moves(r, v), NEW x \in assigned, NEW y,
         At(r, "assign"), req[r].found = x.id, v = Done,
         y.id = x.id, y.tones = (x.tones \ req[r].old) \union {r}
  PROVE  TonesOverlap(y)'
<1> SUFFICES ASSUME NEW D \in SUBSET Requests
             PROVE  Cardinality(y.tones \ D) + Cardinality(Unseeing(y, D)') <= Threads
  BY DEF TonesOverlap
<1> USE DEF TenancyInv
<1> DEFINE old == req[r].old
           E == D \union old
           seen == Unseeing(x, E)
           rest == x.tones \ E
<1>1. /\ req'[r] = v /\ (\A q \in Requests : q # r => req'[q] = req[q])
      /\ r \notin Finished /\ AtStep("assign")' = AtStep("assign") \ {r} /\ r \in AtStep("assign")
  BY MovesEffect, StepsDiffer DEF AtStep
<1>2. x.tones \subseteq Finished /\ old \subseteq Finished /\ Finished \subseteq Requests
      /\ \A q \in AtStep("assign") : req[q].old \subseteq Finished
  BY DEF AssignedInv, Calls, Assigns, Finished, AtStep
<1>3. r \in seen /\ seen \subseteq InService
  BY <1>1, InServiceOf DEF Unseeing, Replacing
<1>4. E \in SUBSET Requests
  BY <1>2
<1>5. Cardinality(rest) + Cardinality(seen) <= Threads
  BY <1>4 DEF AssignedInv, TonesOverlap
<1>6. Unseeing(y, D)' \subseteq seen \ {r}
  <2> SUFFICES ASSUME NEW q \in Unseeing(y, D)' PROVE q \in seen /\ q # r
    OBVIOUS
  <2>1. q \in AtStep("assign") /\ q # r /\ req'[q] = req[q] /\ req[q].found = x.id
        /\ req[q].old \intersect y.tones \subseteq D
    BY <1>1 DEF Unseeing, Replacing, AtStep
  <2>2. req[q].old \intersect x.tones \subseteq E
    BY <2>1
  <2> QED
    BY <2>1, <2>2 DEF Unseeing, Replacing
<1>7. y.tones \ D \subseteq rest \union {r} /\ r \notin rest
  BY <1>1, <1>2
<1>8. IsFiniteSet(rest)
  <2>1. rest \subseteq Finished
    BY <1>2
  <2> QED
    BY <2>1, FinishedFinite
<1> HIDE DEF seen, rest, E, old
<1>9. /\ Cardinality(rest) \in Nat /\ Cardinality(y.tones \ D) \in Nat
      /\ Cardinality(y.tones \ D) <= Cardinality(rest) + 1
  <2>1. IsFiniteSet(rest \union {r}) /\ Cardinality(rest \union {r}) = Cardinality(rest) + 1 /\ Cardinality(rest) \in Nat
    BY <1>7, <1>8, Added
  <2>2. Cardinality(y.tones \ D) \in Nat /\ Cardinality(y.tones \ D) <= Cardinality(rest \union {r})
    BY <1>7, <2>1, Smaller
  <2> QED
    BY <2>1, <2>2
<1>10. /\ Cardinality(seen) \in Nat /\ Cardinality(Unseeing(y, D)') \in Nat
       /\ Cardinality(Unseeing(y, D)') <= Cardinality(seen) - 1
  <2>1. Cardinality(seen \ {r}) = Cardinality(seen) - 1 /\ Cardinality(seen) \in Nat /\ IsFiniteSet(seen \ {r})
    <3>1. IsFiniteSet(seen)
      BY <1>3, InServiceFinite, Smaller
    <3> QED
      BY <1>3, <3>1, OneLess, FS_RemoveElement
  <2>2. Cardinality(Unseeing(y, D)') <= Cardinality(seen \ {r}) /\ Cardinality(Unseeing(y, D)') \in Nat
    BY <1>6, <2>1, Smaller
  <2> QED
    BY <2>1, <2>2
<1> QED
  BY <1>5, <1>9, <1>10, RequestsAssumption

LEMMA AssignmentAdded ==
  ASSUME TenancyInv, NEW r \in Requests, NEW v, Moves(r, v), CommitAssignment(r), req[r].found = None
  PROVE  AssignedInv'
<1> USE DEF TenancyInv
<1> DEFINE row == [id |-> r, agent |-> req[r].agent, tones |-> {r}]
<1>1. /\ v = Done /\ (\A q \in Requests : q # r => req'[q] = req[q]) /\ r \in Finished'
      /\ Finished \subseteq Finished' /\ r \notin Finished
      /\ AtStep("assign")' = AtStep("assign") \ {r} /\ r \in AtStep("assign")
  BY MovesEffect, StepsDiffer DEF CommitAssignment, Ends, Goes, Served, AtStep, Finished
<1>2. AtStep("assign") \subseteq InService
  BY InServiceOf
<1>3. IsFiniteSet(assigned) /\ OneOfEachId(assigned) /\ assigned \subseteq RowType /\ None \notin Requests
  BY RequestsAssumption DEF AssignedInv, RowType
<1>4. assigned' = assigned \union {row}
  <2>1. \A x \in assigned : x.id # None
    BY <1>3 DEF RowType, Finished
  <2>2. {IF x.id = req[r].found THEN [x EXCEPT !.tones = (@ \ req[r].old) \union {r}] ELSE x : x \in assigned} = assigned
    BY <2>1
  <2> QED
    BY <2>2 DEF CommitAssignment
<1>5. req[r].agent \in Agents
  BY <1>1 DEF Calls, Assigns, AtStep
<1>6. /\ row.id = r /\ row.agent = req[r].agent /\ row.tones = {r} /\ row \in RowType'
      /\ assigned \subseteq RowType'
  BY <1>1, <1>3, <1>5 DEF RowType
<1> HIDE DEF row
<1>7. row \notin assigned /\ OneOfEachId(assigned') /\ IsFiniteSet(assigned')
  <2>1. \A x \in assigned : x.id # row.id
    BY <1>1, <1>3, <1>6 DEF RowType
  <2> QED
    BY <1>3, <1>4, <2>1, IdsStayOne, Added
<1>8. ASSUME NEW b \in Agents PROVE Cardinality(RowsOf(b)') + Cardinality(Assigning(b)') <= Threads
  <2>1. IsFiniteSet(RowsOf(b)) /\ Cardinality(RowsOf(b)) \in Nat /\ Assigning(b) \subseteq InService
    BY <1>2, <1>3, Smaller DEF RowsOf, Assigning
  <2>2. Cardinality(RowsOf(b)) + Cardinality(Assigning(b)) <= Threads
    BY DEF AssignedInv
  <2>3. CASE b = req[r].agent
    <3>1. RowsOf(b)' = RowsOf(b) \union {row} /\ Assigning(b)' = Assigning(b) \ {r} /\ r \in Assigning(b)
      BY <1>1, <1>4, <1>6, <2>3 DEF RowsOf, Assigning, AtStep
    <3>2. Cardinality(RowsOf(b)') <= Cardinality(RowsOf(b)) + 1 /\ Cardinality(RowsOf(b)') \in Nat
      BY <2>1, <3>1, Added
    <3>3. Cardinality(Assigning(b)') = Cardinality(Assigning(b)) - 1 /\ Cardinality(Assigning(b)) \in Nat
      BY <2>1, <3>1, OneLess2
    <3> QED
      BY <2>1, <2>2, <3>2, <3>3, RequestsAssumption
  <2>4. CASE b # req[r].agent
    <3>1. RowsOf(b)' = RowsOf(b) /\ Assigning(b)' = Assigning(b)
      BY <1>1, <1>4, <1>6, <2>4 DEF RowsOf, Assigning, AtStep
    <3> QED
      BY <2>2, <3>1
  <2> QED
    BY <2>3, <2>4
<1>9. ASSUME NEW y \in assigned', NEW D \in SUBSET Requests
      PROVE  Cardinality(y.tones \ D) + Cardinality(Unseeing(y, D)') <= Threads
  <2>1. CASE y = row
    <3>1. \A q \in AtStep("assign") : req[q].found # r
      BY <1>1, RequestsAssumption DEF Calls, Assigns, AtStep
    <3>2. Unseeing(y, D)' = {}
      BY <1>1, <1>6, <2>1, <3>1 DEF Unseeing, Replacing, AtStep
    <3>3. Cardinality(y.tones \ D) \in {0, 1}
      <4>1. y.tones \ D = {} \/ y.tones \ D = {r}
        BY <1>6, <2>1
      <4> QED
        BY <4>1, FS_EmptySet, FS_Singleton
    <3> QED
      BY <3>2, <3>3, FS_EmptySet, RequestsAssumption
  <2>2. CASE y \in assigned
    <3>1. Unseeing(y, D)' \subseteq Unseeing(y, D) /\ Unseeing(y, D) \subseteq InService
      BY <1>1, <1>2 DEF Unseeing, Replacing, AtStep
    <3>2. Cardinality(y.tones \ D) \in Nat
      BY <1>3, <2>2, FinishedFinite DEF RowType
    <3> QED
      BY <2>2, <3>1, <3>2, FewerOf DEF AssignedInv, TonesOverlap
  <2> QED
    BY <1>4, <2>1, <2>2
<1>10. \A y \in assigned' : TonesOverlap(y)'
  BY <1>9 DEF TonesOverlap
<1> QED
  BY <1>4, <1>6, <1>7, <1>8, <1>10 DEF AssignedInv, RowType

LEMMA AssignmentReplaced ==
  ASSUME TenancyInv, NEW r \in Requests, NEW v, Moves(r, v), CommitAssignment(r), req[r].found # None,
         NEW x \in assigned, x.id = req[r].found
  PROVE  AssignedInv'
<1> USE DEF TenancyInv
<1> DEFINE y == [x EXCEPT !.tones = (x.tones \ req[r].old) \union {r}]
<1>1. /\ v = Done /\ (\A q \in Requests : q # r => req'[q] = req[q]) /\ r \in Finished'
      /\ Finished \subseteq Finished'
      /\ AtStep("assign")' = AtStep("assign") \ {r} /\ r \in AtStep("assign")
  BY MovesEffect, StepsDiffer DEF CommitAssignment, Ends, Goes, Served, AtStep, Finished
<1>2. AtStep("assign") \subseteq InService
  BY InServiceOf
<1>3. IsFiniteSet(assigned) /\ OneOfEachId(assigned) /\ assigned \subseteq RowType
  BY DEF AssignedInv, RowType
<1>4. assigned' = (assigned \ {x}) \union {y}
  <2>1. \A z \in assigned : z.id = req[r].found <=> z = x
    BY <1>3 DEF OneOfEachId
  <2>2. assigned' = {IF z.id = req[r].found THEN [z EXCEPT !.tones = (@ \ req[r].old) \union {r}] ELSE z : z \in assigned}
    BY DEF CommitAssignment
  <2> QED
    BY <2>1, <2>2
<1>5. /\ y.id = x.id /\ y.agent = x.agent /\ y.tones = (x.tones \ req[r].old) \union {r} /\ y \in RowType'
      /\ assigned \subseteq RowType'
  BY <1>1, <1>3 DEF RowType
<1> HIDE DEF y
<1>6. OneOfEachId(assigned') /\ IsFiniteSet(assigned')
  BY <1>3, <1>4, <1>5, IdsStayOne, Replaced
<1>7. ASSUME NEW b \in Agents PROVE Cardinality(RowsOf(b)') + Cardinality(Assigning(b)') <= Threads
  <2>1. IsFiniteSet(RowsOf(b)) /\ Cardinality(RowsOf(b)) \in Nat
    BY <1>3, Smaller DEF RowsOf
  <2>2. Cardinality(RowsOf(b)) + Cardinality(Assigning(b)) <= Threads
    BY DEF AssignedInv
  <2>3. Assigning(b)' = Assigning(b)
    BY <1>1 DEF Assigning, AtStep
  <2>4. RowsOf(b)' = IF x.agent = b THEN (RowsOf(b) \ {x}) \union {y} ELSE RowsOf(b)
    BY <1>4, <1>5 DEF RowsOf
  <2>5. x.agent = b => x \in RowsOf(b)
    BY DEF RowsOf
  <2>6. Cardinality(RowsOf(b)') \in Nat /\ Cardinality(RowsOf(b)') <= Cardinality(RowsOf(b))
    <3>1. CASE x.agent = b
      <4>1. IsFiniteSet(RowsOf(b)') /\ Cardinality(RowsOf(b)') <= Cardinality(RowsOf(b))
        BY <2>1, <2>4, <2>5, <3>1, Replaced
      <4> QED
        BY <4>1, FS_CardinalityType
    <3> QED
      BY <2>1, <2>4, <3>1
  <2>7. Cardinality(Assigning(b)) \in Nat
    BY <1>2, InServiceFinite, Smaller DEF Assigning
  <2> QED
    BY <2>1, <2>2, <2>3, <2>6, <2>7, RequestsAssumption
<1>8. ASSUME NEW z \in assigned' PROVE TonesOverlap(z)'
  <2>1. CASE z = y
    <3>1. At(r, "assign")
      BY <1>1 DEF AtStep
    <3> QED
      BY <1>1, <1>5, <2>1, <3>1, TonesReplaced
  <2>2. CASE z \in assigned
    <3> SUFFICES ASSUME NEW D \in SUBSET Requests
                 PROVE  Cardinality(z.tones \ D) + Cardinality(Unseeing(z, D)') <= Threads
      BY DEF TonesOverlap
    <3>1. Unseeing(z, D)' \subseteq Unseeing(z, D) /\ Unseeing(z, D) \subseteq InService
      BY <1>1, <1>2 DEF Unseeing, Replacing, AtStep
    <3>2. Cardinality(z.tones \ D) \in Nat
      BY <1>3, <2>2, FinishedFinite DEF RowType
    <3> QED
      BY <2>2, <3>1, <3>2, FewerOf DEF AssignedInv, TonesOverlap
  <2> QED
    BY <1>4, <2>1, <2>2
<1> QED
  BY <1>4, <1>5, <1>6, <1>7, <1>8 DEF AssignedInv, RowType

LEMMA AgentRemoved ==
  ASSUME TenancyInv, NEW r \in Requests, NEW v, Moves(r, v), NEW x \in assigned, RemoveAgent(r, x)
  PROVE  AssignedInv'
<1> USE DEF TenancyInv
<1>1. /\ v = Done /\ (\A q \in Requests : q # r => req'[q] = req[q])
      /\ Finished \subseteq Finished' /\ AtStep("assign")' = AtStep("assign") \ {r}
      /\ assigned' = assigned \ {x}
  BY MovesEffect, StepsDiffer DEF RemoveAgent, Whole, Ends, Goes, Served
<1>2. AtStep("assign") \subseteq InService
  BY InServiceOf
<1>3. IsFiniteSet(assigned') /\ OneOfEachId(assigned') /\ assigned' \subseteq RowType'
  BY <1>1, Smaller DEF AssignedInv, RowType, OneOfEachId
<1>4. ASSUME NEW b \in Agents PROVE Cardinality(RowsOf(b)') + Cardinality(Assigning(b)') <= Threads
  <2>1. IsFiniteSet(RowsOf(b))
    BY Smaller DEF RowsOf, AssignedInv
  <2>2. RowsOf(b)' \subseteq RowsOf(b) /\ Assigning(b)' \subseteq Assigning(b) /\ Assigning(b) \subseteq InService
    BY <1>1, <1>2 DEF RowsOf, Assigning, AtStep
  <2>3. /\ Cardinality(RowsOf(b)) \in Nat /\ Cardinality(RowsOf(b)') \in Nat
        /\ Cardinality(RowsOf(b)') <= Cardinality(RowsOf(b))
    BY <2>1, <2>2, Smaller
  <2>4. Cardinality(RowsOf(b)) + Cardinality(Assigning(b)') <= Threads
    BY <2>2, <2>3, FewerOf DEF AssignedInv
  <2>5. Cardinality(Assigning(b)') \in Nat
    BY <2>2, InServiceFinite, Smaller
  <2> QED
    BY <2>3, <2>4, <2>5, RequestsAssumption
<1>5. ASSUME NEW z \in assigned' PROVE TonesOverlap(z)'
  <2> SUFFICES ASSUME NEW D \in SUBSET Requests
               PROVE  Cardinality(z.tones \ D) + Cardinality(Unseeing(z, D)') <= Threads
    BY DEF TonesOverlap
  <2>1. Unseeing(z, D)' \subseteq Unseeing(z, D) /\ Unseeing(z, D) \subseteq InService
    BY <1>1, <1>2 DEF Unseeing, Replacing, AtStep
  <2>2. z \in assigned /\ z.tones \subseteq Finished
    BY <1>1 DEF AssignedInv
  <2>3. Cardinality(z.tones \ D) \in Nat
    BY <2>2, FinishedFinite
  <2> QED
    BY <2>1, <2>2, <2>3, FewerOf DEF AssignedInv, TonesOverlap
<1> QED
  BY <1>3, <1>4, <1>5 DEF AssignedInv, RowType

LEMMA AssignedChange ==
  ASSUME TenancyInv, NEW r \in Requests, NEW v, Moves(r, v), AssignedNext(r)
  PROVE  AssignedInv'
<1>1. ASSUME CommitAssignment(r), req[r].found # None, \A x \in assigned : x.id # req[r].found
      PROVE  AssignedInv'
  <2>1. v.step = "done"
    BY <1>1, MovesEffect, StepsDiffer DEF CommitAssignment, Ends, Goes, Served, TenancyInv
  <2>2. UNCHANGED assigned
    BY <1>1 DEF CommitAssignment
  <2> QED
    BY <2>1, <2>2, AssignedAside DEF TenancyInv
<1> QED
  BY <1>1, AssignAgentKeeps, AssignmentAdded, AssignmentReplaced, AgentRemoved DEF AssignedNext

LEMMA AssignedStep ==
  ASSUME TenancyInv, NEW r \in Requests, AssignedNext(r), UNCHANGED <<roleVars, licenses, creditVars>>
  PROVE  TenancyInv'
<1>1. PICK v : /\ Moves(r, v) /\ ~At(r, "entry") /\ v.step \in {"done", "assign"} /\ v # New
               /\ v.step = "assign" =>
                     v.agent \in Agents /\ v.found \in Finished \union {None} /\ v.old \subseteq Finished
  BY AssignedGo
<1>2. UNCHANGED <<org, biz>> /\ UNCHANGED access /\ UNCHANGED members
  BY DEF AssignedNext, AssignAgent, CommitAssignment, RemoveAgent, orgVars
<1>3. UNCHANGED roles /\ UNCHANGED ledger /\ UNCHANGED roleVars /\ UNCHANGED creditVars
  BY DEF roleVars, creditVars
<1>4. AssignedInv'
  BY <1>1, AssignedChange
<1> USE DEF TenancyInv
<1>5. RolesInv' /\ BusinessesInv' /\ AccessInv' /\ LicensesInv' /\ CreditsInv'
  BY <1>1, <1>2, <1>3, RolesAside, BusinessesAside, AccessAside, LicensesAside, CreditsAside
<1>6. RolesGrow /\ LedgerGrows /\ SumsAreNumbers
  BY <1>3, RolesStay, LedgerStays
<1>7. MembersInv'
  BY <1>1, <1>2, <1>6, MembersAside
<1>8. req'[r] = v /\ Finished \subseteq Finished'
  BY <1>1, MovesEffect
<1>9. Calls(r)'
  BY <1>1, <1>8 DEF Calls, MakesRole, Invites, Assigns, Gives, Allocates, At
<1> QED
  BY <1>1, <1>4, <1>5, <1>6, <1>7, <1>9, Together

-----------------------------------------------------------------------------
(***************************************************************************)
(* The steps of organizations: the administrators.                         *)
(***************************************************************************)
MembersNext(r) ==
    \/ \E place \in {None} \union {b.id : b \in biz} :
          InvitePromoted(r, place) \/ \E x \in roles : InviteAdmin(r, place, x)
    \/ CreateProfile(r) \/ CreateEntry(r)
    \/ \E m \in members : ChangeUserRole(r, m)
    \/ CommitRole(r)

\* What a request is about to do once it has gone on.
Intends(v) ==
    /\ v.step \in {"profile", "makeRole", "role", "entry", "done"}
    /\ v.step = "makeRole" => Promotes(v.next) \/ Changes(v.next)
    /\ v.step = "role" => Changes(v)
    /\ v.step = "profile" =>
          /\ v.place \in PlaceIds /\ v.role \in RoleIds /\ v.checked \in BOOLEAN
          /\ v.checked => \E x \in roles : x.id = v.role

LEMMA RoleFound ==
  ASSUME TenancyInv, NEW r \in Requests
  PROVE  RoleId \in RoleIds /\ RoleFor(r) \in RoleIds
<1>1. ASSUME Cardinality(Named) = 1 PROVE Named # {}
  BY <1>1, FS_EmptySet
<1>2. RoleId \in RoleIds
  BY <1>1 DEF RoleId, RoleIds, Named, TenancyInv, RolesInv
<1> QED
  BY <1>2 DEF RoleFor, RoleIds

LEMMA MembersGo ==
  ASSUME TenancyInv, NEW r \in Requests, MembersNext(r)
  PROVE  \E v : /\ Moves(r, v) /\ Intends(v) /\ v # New
                /\ v.step = "makeRole" => TakenUp(r)
                /\ At(r, "entry") => v = Done
<1> USE StepsDiffer, AtIsInService
<1> DEFINE Gone == \E v : /\ Moves(r, v) /\ Intends(v) /\ v # New
                          /\ v.step = "makeRole" => TakenUp(r)
                          /\ At(r, "entry") => v = Done
<1>1. TakenUp(r) => ~At(r, "entry")
  BY DEF TakenUp, At
<1>2. {None} \union {b.id : b \in biz} \subseteq PlaceIds
  BY DEF TenancyInv, BusinessesInv, PlaceIds, Finished
<1>3. ASSUME NEW w, WithRole(r, w), TakenUp(r), Promotes(w) \/ Changes(w) PROVE Gone
  <2> DEFINE v == IF Named = {} THEN [step |-> "makeRole", next |-> w] ELSE w
  <2>1. Goes(r, v)
    BY <1>3 DEF WithRole
  <2>2. v = w \/ (v.step = "makeRole" /\ v.next = w)
    OBVIOUS
  <2>3. w.step \in {"profile", "role"}
    BY <1>3 DEF Promotes, Changes
  <2> HIDE DEF v
  <2>4. Intends(v) /\ v # New
    BY <1>3, <2>2, <2>3 DEF Intends, Promotes, Changes
  <2> QED
    BY <1>1, <1>3, <2>1, <2>4 DEF Moves
<1>4. ASSUME NEW place \in {None} \union {b.id : b \in biz}, InvitePromoted(r, place) PROVE Gone
  <2> DEFINE w == [step |-> "profile", place |-> place, role |-> RoleFor(r), checked |-> FALSE, entry |-> FALSE]
  <2>1. WithRole(r, w) /\ TakenUp(r)
    BY <1>4 DEF InvitePromoted
  <2>2. Promotes(w)
    BY <1>2, RoleFound DEF Promotes
  <2> QED
    BY <1>3, <2>1, <2>2
<1>5. ASSUME NEW place \in {None} \union {b.id : b \in biz}, NEW x \in roles, InviteAdmin(r, place, x) PROVE Gone
  <2>0. PICK checked \in BOOLEAN :
           Goes(r, [step |-> "profile", place |-> place, role |-> x.id, checked |-> checked, entry |-> TRUE])
    BY <1>5 DEF InviteAdmin
  <2> DEFINE v == [step |-> "profile", place |-> place, role |-> x.id, checked |-> checked, entry |-> TRUE]
  <2>1. Moves(r, v) /\ ~At(r, "entry")
    BY <1>1, <1>5, <2>0 DEF InviteAdmin, Moves
  <2>2. x.id \in RoleIds
    BY DEF TenancyInv, RolesInv, RoleIds
  <2>3. Intends(v) /\ v # New /\ v.step = "profile"
    BY <1>2, <2>2 DEF Intends, New
  <2> QED
    BY <2>1, <2>3
<1>6. CASE CreateProfile(r)
  <2>1. PICK v \in {[step |-> "entry"], Done} : Goes(r, v)
    BY <1>6 DEF CreateProfile
  <2>2. Moves(r, v) /\ ~At(r, "entry")
    BY <1>6, <2>1 DEF CreateProfile, Moves, At
  <2>3. Intends(v) /\ v # New /\ v.step # "makeRole"
    BY <2>1 DEF Intends
  <2> QED
    BY <2>2, <2>3
<1>7. CASE CreateEntry(r) \/ CommitRole(r)
  <2>1. Moves(r, Done)
    BY <1>7 DEF CreateEntry, CommitRole, Ends, Moves, At
  <2>2. Intends(Done)
    BY DEF Intends
  <2> QED
    BY <2>1, <2>2
<1>8. ASSUME NEW m \in members, ChangeUserRole(r, m) PROVE Gone
  <2> DEFINE w == [step |-> "role", user |-> m.id, role |-> RoleFor(r)]
  <2>1. WithRole(r, w) /\ TakenUp(r)
    BY <1>8 DEF ChangeUserRole
  <2>2. Changes(w)
    BY RoleFound DEF Changes
  <2> QED
    BY <1>3, <2>1, <2>2
<1> QED
  BY <1>4, <1>5, <1>6, <1>7, <1>8 DEF MembersNext

MemberType ==
    [id : Requests, place : PlaceIds, role : RoleIds, checked : BOOLEAN, active : BOOLEAN, deleted : BOOLEAN]

\* While there is one role of the name, it is the one the administrators have.
LEMMA AdminInvited ==
  ASSUME TenancyInv, NEW r \in Requests, NEW v, Moves(r, v),
         NEW place, NEW x \in roles, InviteAdmin(r, place, x), UNCHANGED roles
  PROVE  MembersInv'
<1> USE DEF TenancyInv
<1>0. PICK checked \in BOOLEAN :
         /\ checked => ~HasAdmin(place)
         /\ Goes(r, [step |-> "profile", place |-> place, role |-> x.id, checked |-> checked, entry |-> TRUE])
  BY DEF InviteAdmin
<1>1. /\ v = [step |-> "profile", place |-> place, role |-> x.id, checked |-> checked, entry |-> TRUE]
      /\ (\A q \in Requests : q # r => req'[q] = req[q]) /\ req'[r] = v
      /\ Finished \subseteq Finished' /\ UNCHANGED members /\ UNCHANGED roles
      /\ AtStep("profile")' = AtStep("profile") \union {r} /\ r \notin AtStep("profile") /\ TakenUp(r)
  <2>1. v = [step |-> "profile", place |-> place, role |-> x.id, checked |-> checked, entry |-> TRUE]
    BY <1>0, MovesEffect DEF Goes, Served
  <2>2. UNCHANGED members /\ TakenUp(r)
    BY DEF InviteAdmin, orgVars
  <2>3. v.step = "profile" /\ r \notin AtStep("profile")
    BY <2>1, <2>2 DEF AtStep, At, TakenUp, New
  <2> QED
    BY <2>1, <2>2, <2>3, MovesEffect
<1>2. \A m \in members : m.id \in Finished' \/ At(m.id, "entry")'
  BY <1>1 DEF MembersInv, At, TakenUp, New, Finished
<1>3. Cardinality(roles) <= 1 => Cardinality(Checked') + Cardinality(Checking') <= Threads
  <2> SUFFICES ASSUME Cardinality(roles) <= 1 PROVE Cardinality(Checked') + Cardinality(Checking') <= Threads
    OBVIOUS
  <2>1. Checked' = Checked /\ Checking \subseteq InService
    BY <1>1, InServiceOf DEF Checked, Checking
  <2>2. CASE place # None \/ ~checked
    <3>1. Checking' = Checking
      BY <1>1, <2>2 DEF Checking, AtStep
    <3> QED
      BY <2>1, <3>1 DEF MembersInv
  <2>3. CASE place = None /\ checked
    <3>1. roles = {x}
      <4>1. IsFiniteSet(roles) /\ Cardinality(roles) \in Nat /\ Cardinality(roles) # 0
        BY FS_CardinalityType, FS_EmptySet DEF RolesInv
      <4> QED
        BY <4>1, FS_Singleton
    <3>2. RoleId = x.id /\ RoleId # None
      <4>1. Named = {x}
        BY <3>1 DEF InviteAdmin, Named
      <4>2. Cardinality({x}) = 1
        BY FS_Singleton
      <4>3. x.id # None
        BY SeededAssumption, RequestsAssumption DEF RolesInv
      <4> QED
        BY <4>1, <4>2, <4>3 DEF RoleId
    <3>3. Checked = {}
      <4>1. Admins(None) = {}
        BY <1>0, <2>3 DEF HasAdmin
      <4>2. \A m \in Checked : m.role = x.id
        BY <3>1 DEF Checked, MembersInv
      <4> QED
        BY <3>2, <4>1, <4>2 DEF Checked, Admins
    <3>4. Checking' \subseteq InService \union {r}
      BY <1>1, <2>1 DEF Checking, AtStep
    <3>5. Cardinality(Checking') <= Threads /\ Cardinality(Checking') \in Nat
      BY <1>1, <3>4, OneMoreThanInService
    <3> QED
      BY <2>1, <3>3, <3>5, FS_EmptySet
  <2> QED
    BY <2>2, <2>3
<1> QED
  BY <1>1, <1>2, <1>3 DEF MembersInv, OneOfEachId

LEMMA ProfileCreated ==
  ASSUME TenancyInv, NEW r \in Requests, NEW v, Moves(r, v), CreateProfile(r), UNCHANGED roles
  PROVE  MembersInv'
<1> USE DEF TenancyInv
<1> DEFINE row == [id |-> r, place |-> req[r].place, role |-> req[r].role,
                   checked |-> req[r].checked, active |-> FALSE, deleted |-> FALSE]
<1>1. /\ v = IF req[r].entry THEN [step |-> "entry"] ELSE Done
      /\ members' = members \union {row} /\ At(r, "profile") /\ r \in AtStep("profile")
      /\ (\A q \in Requests : q # r => req'[q] = req[q]) /\ req'[r] = v
      /\ Finished \subseteq Finished' /\ r \notin Finished
  BY MovesEffect DEF CreateProfile, Goes, Served, AtStep
<1>2. v.step # "profile" /\ AtStep("profile")' = AtStep("profile") \ {r}
  BY <1>1, MovesEffect, StepsDiffer
<1>3. /\ req[r].place \in PlaceIds /\ req[r].role \in RoleIds /\ req[r].checked \in BOOLEAN
      /\ req[r].checked => \E x \in roles : x.id = req[r].role
  BY <1>1 DEF Calls, Invites
<1>4. /\ row.id = r /\ row.place = req[r].place /\ row.role = req[r].role
      /\ row.checked = req[r].checked /\ row.deleted = FALSE /\ row \in MemberType
  BY <1>3 DEF MemberType
<1> HIDE DEF row
<1>5. IsFiniteSet(members) /\ OneOfEachId(members) /\ members \subseteq MemberType
      /\ \A m \in members : m.id # r
  BY <1>1 DEF MembersInv, MemberType, At
<1>6. IsFiniteSet(members') /\ OneOfEachId(members') /\ row \notin members /\ members' \subseteq MemberType
  BY <1>1, <1>4, <1>5, IdsStayOne, Added
<1>7. \A m \in members' : m.id \in Finished' \/ At(m.id, "entry")'
  <2>1. r \in Finished' \/ At(r, "entry")'
    BY <1>1 DEF Finished, At
  <2>2. \A m \in members : m.id \in Finished' \/ At(m.id, "entry")'
    BY <1>1, <1>5 DEF MembersInv, MemberType, Finished, At
  <2> QED
    BY <1>1, <1>4, <2>1, <2>2
<1>8. \A m \in members' : m.checked => \E x \in roles' : x.id = m.role
  BY <1>1, <1>3, <1>4 DEF MembersInv
<1>9. Cardinality(roles) <= 1 => Cardinality(Checked') + Cardinality(Checking') <= Threads
  <2> SUFFICES ASSUME Cardinality(roles) <= 1 PROVE Cardinality(Checked') + Cardinality(Checking') <= Threads
    OBVIOUS
  <2>1. /\ Cardinality(Checked) + Cardinality(Checking) <= Threads /\ Checking \subseteq InService
        /\ IsFiniteSet(Checked) /\ Cardinality(Checked) \in Nat
    BY InServiceOf, Smaller DEF MembersInv, Checked, Checking
  <2>2. CASE req[r].place = None /\ req[r].checked
    <3>1. Checked' = Checked \union {row} /\ Checking' = Checking \ {r} /\ r \in Checking
      BY <1>1, <1>2, <1>4, <2>2 DEF Checked, Checking, AtStep
    <3>2. Cardinality(Checked') <= Cardinality(Checked) + 1 /\ Cardinality(Checked') \in Nat
      BY <2>1, <3>1, Added
    <3>3. Cardinality(Checking') = Cardinality(Checking) - 1 /\ Cardinality(Checking) \in Nat
      BY <2>1, <3>1, OneLess2
    <3> QED
      BY <2>1, <3>2, <3>3, RequestsAssumption
  <2>3. CASE ~(req[r].place = None /\ req[r].checked)
    <3>1. Checked' = Checked /\ Checking' = Checking
      BY <1>1, <1>2, <1>4, <2>3 DEF Checked, Checking, AtStep
    <3> QED
      BY <2>1, <3>1
  <2> QED
    BY <2>2, <2>3
<1> QED
  BY <1>6, <1>7, <1>8, <1>9 DEF MembersInv, MemberType

\* A row of members changes, and does not become one that is counted.
LEMMA MemberChanges ==
  ASSUME TenancyInv, NEW m \in members, NEW n, n \in MemberType, n.id = m.id,
         n.checked => m.checked /\ n.role = m.role,
         n.place = m.place, ~n.deleted => ~m.deleted,
         members' = (members \ {m}) \union {n}, UNCHANGED roles,
         \A q \in Requests : q \in Finished \/ At(q, "entry") => q \in Finished' \/ At(q, "entry")',
         Checking' \subseteq Checking
  PROVE  MembersInv'
<1> USE DEF TenancyInv
<1>1. IsFiniteSet(members) /\ OneOfEachId(members) /\ members \subseteq MemberType
  BY DEF MembersInv, MemberType
<1>2. IsFiniteSet(members') /\ OneOfEachId(members') /\ members' \subseteq MemberType
  BY <1>1, IdsStayOne, Replaced
<1>3. \A k \in members' : k.id \in Finished' \/ At(k.id, "entry")'
  BY <1>1 DEF MembersInv, MemberType
<1>4. \A k \in members' : k.checked => \E x \in roles' : x.id = k.role
  BY DEF MembersInv
<1>5. Cardinality(roles) <= 1 => Cardinality(Checked') + Cardinality(Checking') <= Threads
  <2>1. Checking \subseteq InService /\ IsFiniteSet(Checked) /\ Cardinality(Checked) \in Nat
    BY <1>1, InServiceOf, Smaller DEF Checked, Checking
  <2>2. IsFiniteSet(Checked') /\ Cardinality(Checked') <= Cardinality(Checked)
    <3>1. CASE n \in Checked'
      <4>1. m \in Checked
        BY <3>1, <1>1 DEF Checked, MemberType
      <4>2. Checked' = (Checked \ {m}) \union {n}
        BY <3>1 DEF Checked
      <4> QED
        BY <2>1, <4>1, <4>2, Replaced
    <3>2. CASE n \notin Checked'
      <4>1. Checked' \subseteq Checked
        BY <3>2 DEF Checked
      <4> QED
        BY <2>1, <4>1, Smaller
    <3> QED
      BY <3>1, <3>2
  <2>3. /\ Cardinality(Checked') \in Nat /\ Cardinality(Checking) \in Nat /\ Cardinality(Checking') \in Nat
        /\ Cardinality(Checking') <= Cardinality(Checking)
    BY <2>1, <2>2, FS_CardinalityType, InServiceFinite, Smaller
  <2> QED
    BY <2>1, <2>2, <2>3, RequestsAssumption DEF MembersInv
<1> QED
  BY <1>2, <1>3, <1>4, <1>5 DEF MembersInv, MemberType

LEMMA RoleCommitted ==
  ASSUME TenancyInv, NEW r \in Requests, NEW v, Moves(r, v), CommitRole(r), UNCHANGED roles
  PROVE  MembersInv'
<1> USE DEF TenancyInv
<1>1. /\ v = Done /\ At(r, "role") /\ r \in AtStep("role")
      /\ (\A q \in Requests : q # r => req'[q] = req[q]) /\ req'[r] = v
      /\ Finished \subseteq Finished'
  BY MovesEffect DEF CommitRole, Ends, Goes, Served, AtStep
<1>2. Checking' \subseteq Checking
  BY <1>1, StepsDiffer DEF Checking, AtStep, At
<1>3. \A q \in Requests : q \in Finished \/ At(q, "entry") => q \in Finished' \/ At(q, "entry")'
  BY <1>1 DEF Finished, At
<1>4. IsFiniteSet(members) /\ OneOfEachId(members) /\ members \subseteq MemberType
  BY DEF MembersInv, MemberType
<1>5. members' = {IF m.id = req[r].user THEN [m EXCEPT !.role = req[r].role, !.checked = FALSE] ELSE m : m \in members}
  BY DEF CommitRole
<1>6. CASE \A m \in members : m.id # req[r].user
  <2>1. UNCHANGED members
    BY <1>5, <1>6
  <2> QED
    BY <1>1, <2>1, RolesStay, StepsDiffer, MembersAside
<1>7. ASSUME NEW m \in members, m.id = req[r].user PROVE MembersInv'
  <2> DEFINE n == [m EXCEPT !.role = req[r].role, !.checked = FALSE]
  <2>1. \A k \in members : k.id = req[r].user <=> k = m
    BY <1>4, <1>7 DEF OneOfEachId
  <2>2. members' = (members \ {m}) \union {n}
    BY <1>5, <2>1
  <2>3. req[r].role \in RoleIds
    BY <1>1 DEF Calls, Invites, Changes
  <2>4. n \in MemberType /\ n.id = m.id /\ n.place = m.place /\ n.checked = FALSE /\ n.deleted = m.deleted
    BY <1>4, <2>3 DEF MemberType
  <2> HIDE DEF n
  <2> QED
    BY <1>2, <1>3, <2>2, <2>4, MemberChanges
<1> QED
  BY <1>6, <1>7

LEMMA MembersChange ==
  ASSUME TenancyInv, NEW r \in Requests, NEW v, Moves(r, v), Intends(v), At(r, "entry") => v = Done,
         MembersNext(r), UNCHANGED roles
  PROVE  MembersInv'
<1> USE DEF TenancyInv
<1>1. ASSUME NEW w, WithRole(r, w), v = w \/ v.step = "makeRole", Promotes(w) \/ Changes(w), UNCHANGED members
      PROVE  MembersInv'
  <2>1. v.step = "profile" => v.checked = FALSE
    BY <1>1 DEF Promotes, Changes
  <2> QED
    BY <1>1, <2>1, RolesStay, MembersAside
<1>2. ASSUME NEW w, WithRole(r, w) PROVE v = w \/ v.step = "makeRole"
  <2>1. Goes(r, IF Named = {} THEN [step |-> "makeRole", next |-> w] ELSE w)
    BY <1>2 DEF WithRole
  <2>2. v = IF Named = {} THEN [step |-> "makeRole", next |-> w] ELSE w
    BY <2>1, MovesEffect DEF Goes, Served
  <2> QED
    BY <2>2
<1>3. ASSUME NEW place \in {None} \union {b.id : b \in biz}, InvitePromoted(r, place) PROVE MembersInv'
  <2> DEFINE w == [step |-> "profile", place |-> place, role |-> RoleFor(r), checked |-> FALSE, entry |-> FALSE]
  <2>1. WithRole(r, w) /\ UNCHANGED members
    BY <1>3 DEF InvitePromoted, orgVars
  <2>2. place \in PlaceIds
    BY DEF BusinessesInv, PlaceIds, Finished
  <2>3. Promotes(w)
    BY <2>2, RoleFound DEF Promotes
  <2> QED
    BY <1>1, <1>2, <2>1, <2>3
<1>4. ASSUME NEW m \in members, ChangeUserRole(r, m) PROVE MembersInv'
  <2> DEFINE w == [step |-> "role", user |-> m.id, role |-> RoleFor(r)]
  <2>1. WithRole(r, w) /\ UNCHANGED members
    BY <1>4 DEF ChangeUserRole, orgVars
  <2>2. Changes(w)
    BY RoleFound DEF Changes
  <2> QED
    BY <1>1, <1>2, <2>1, <2>2
<1>5. CASE CreateEntry(r)
  <2>1. UNCHANGED members /\ v.step = "done"
    BY <1>5, MovesEffect, StepsDiffer DEF CreateEntry, Ends, Goes, Served
  <2> QED
    BY <2>1, RolesStay, MembersAside
<1> QED
  BY <1>3, <1>4, <1>5, AdminInvited, ProfileCreated, RoleCommitted DEF MembersNext

LEMMA MembersStep ==
  ASSUME TenancyInv, NEW r \in Requests, MembersNext(r), UNCHANGED <<roleVars, licenses, creditVars>>
  PROVE  TenancyInv'
<1>1. PICK v : /\ Moves(r, v) /\ Intends(v) /\ v # New
               /\ v.step = "makeRole" => TakenUp(r)
               /\ At(r, "entry") => v = Done
  BY MembersGo
<1>2. UNCHANGED <<org, biz>> /\ UNCHANGED assigned /\ UNCHANGED access
  BY DEF MembersNext, InvitePromoted, InviteAdmin, CreateProfile, CreateEntry, ChangeUserRole, CommitRole, orgVars
<1>3. UNCHANGED roles /\ UNCHANGED ledger /\ UNCHANGED roleVars /\ UNCHANGED creditVars
  BY DEF roleVars, creditVars
<1>4. MembersInv'
  BY <1>1, <1>3, MembersChange
<1> USE DEF TenancyInv
<1>5. v.step \notin {"business", "assign", "access", "grant", "balance", "allocate"}
  BY <1>1 DEF Intends
<1>6. RolesInv' /\ BusinessesInv' /\ AssignedInv' /\ AccessInv' /\ LicensesInv' /\ CreditsInv'
  BY <1>1, <1>2, <1>3, <1>5, RolesAside, BusinessesAside, AssignedAside, AccessAside, LicensesAside, CreditsAside
<1>7. RolesGrow /\ LedgerGrows /\ SumsAreNumbers
  BY <1>3, RolesStay, LedgerStays
<1>8. req'[r] = v
  BY <1>1, MovesEffect
<1>9. Calls(r)'
  BY <1>1, <1>3, <1>5, <1>8 DEF Calls, MakesRole, Invites, Assigns, Gives, Allocates, At, Intends
<1> QED
  BY <1>1, <1>4, <1>6, <1>7, <1>9, Together

-----------------------------------------------------------------------------
(***************************************************************************)
(* What happens by itself.                                                 *)
(***************************************************************************)
LEMMA NothingMoves ==
  ASSUME req' = req
  PROVE  /\ Served' <=> Served
         /\ Finished' = Finished /\ (\A s : AtStep(s)' = AtStep(s)) /\ (\A r, s : At(r, s)' <=> At(r, s))
BY DEF Served, InService, Finished, AtStep, At

\* The parts whose variables stay as they are.
LEMMA RolesHold == ASSUME RolesInv, UNCHANGED <<req, roleVars>> PROVE RolesInv'
BY NothingMoves DEF RolesInv, roleVars, OneOfEachId

LEMMA BusinessesHold == ASSUME BusinessesInv, UNCHANGED <<req, org, biz>> PROVE BusinessesInv'
BY NothingMoves DEF BusinessesInv, OneOfEachId

LEMMA AssignedHold == ASSUME AssignedInv, UNCHANGED <<req, assigned>> PROVE AssignedInv'
<1>1. /\ \A a : Assigning(a)' = Assigning(a) /\ RowsOf(a)' = RowsOf(a)
      /\ \A x : TonesOverlap(x)' <=> TonesOverlap(x)
  BY NothingMoves DEF Assigning, RowsOf, TonesOverlap, Unseeing, Replacing
<1> QED
  BY <1>1, NothingMoves DEF AssignedInv, OneOfEachId

LEMMA AccessHolds == ASSUME AccessInv, UNCHANGED <<req, access>> PROVE AccessInv'
<1>1. \A b, a : Giving(b, a)' = Giving(b, a) /\ AccessOf(b, a)' = AccessOf(b, a)
  BY NothingMoves DEF Giving, AccessOf
<1> QED
  BY <1>1, NothingMoves DEF AccessInv

LEMMA MembersHold == ASSUME MembersInv, UNCHANGED <<req, members, roles>> PROVE MembersInv'
BY NothingMoves DEF MembersInv, OneOfEachId, Checked, Checking

LEMMA LicensesHold == ASSUME LicensesInv, UNCHANGED <<req, licenses>> PROVE LicensesInv'
BY NothingMoves DEF LicensesInv, OneOfEachId

LEMMA CreditsHold == ASSUME CreditsInv, UNCHANGED <<req, creditVars>> PROVE CreditsInv'
BY NothingMoves DEF CreditsInv, OneOfEachId, creditVars, Covered, LedgerOf

LEMMA CallsHold ==
  ASSUME NEW r \in Requests, Calls(r), UNCHANGED <<req, roles, ledger>>
  PROVE  Calls(r)'
<1>1. MakesRole(r)' /\ Invites(r)' /\ Assigns(r)' /\ Gives(r)'
  BY NothingMoves DEF Calls, MakesRole, Invites, Assigns, Gives, Changes, Promotes
<1>2. Allocates(r)'
  BY NothingMoves DEF Calls, Allocates, Covered, LedgerOf
<1> QED
  BY <1>1, <1>2 DEF Calls

\* An invitation is accepted, or a user deleted.
LEMMA UsersStep ==
  ASSUME TenancyInv, UsersNext, UNCHANGED <<roleVars, licenses, creditVars>>
  PROVE  TenancyInv'
<1> USE DEF TenancyInv
<1>1. UNCHANGED <<req, org, biz>> /\ UNCHANGED <<req, assigned>> /\ UNCHANGED <<req, access>>
      /\ UNCHANGED <<req, roleVars>> /\ UNCHANGED <<req, licenses>> /\ UNCHANGED <<req, creditVars>>
      /\ UNCHANGED <<req, roles, ledger>>
  BY DEF UsersNext, Accept, DeleteUser, roleVars, creditVars
<1>2. PICK m \in members : Accept(m) \/ DeleteUser(m)
  BY DEF UsersNext
<1>3. PICK n \in {[m EXCEPT !.active = TRUE], [m EXCEPT !.deleted = TRUE]} :
          members' = (members \ {m}) \union {n}
  BY <1>2 DEF Accept, DeleteUser
<1>4. m \in MemberType
  BY DEF MembersInv, MemberType
<1>5. /\ n \in MemberType /\ n.id = m.id /\ n.place = m.place /\ n.role = m.role
      /\ n.checked = m.checked /\ (~n.deleted => ~m.deleted)
  BY <1>3, <1>4 DEF MemberType
<1>6. Checking' \subseteq Checking
  BY <1>1, NothingMoves DEF Checking
<1>7. MembersInv'
  BY <1>1, <1>3, <1>5, <1>6, NothingMoves, MemberChanges
<1>8. \A r \in Requests : Calls(r)'
  BY <1>1, CallsHold
<1> QED
  BY <1>1, <1>7, <1>8, NothingMoves, RolesHold, BusinessesHold, AssignedHold, AccessHolds, LicensesHold, CreditsHold

-----------------------------------------------------------------------------
(***************************************************************************)
(* The steps of licenses.                                                  *)
(***************************************************************************)
LicenseType == [id : Finished, active : BOOLEAN, over : BOOLEAN, edited : BOOLEAN]

LEMMA LicenseChanges ==
  ASSUME LicensesInv, Finished \subseteq Finished', NEW l \in licenses, NEW n \in LicenseType, n.id = l.id,
         licenses' = (licenses \ {l}) \union {n}
  PROVE  LicensesInv'
<1>1. IsFiniteSet(licenses) /\ OneOfEachId(licenses) /\ licenses \subseteq LicenseType
  BY DEF LicensesInv, LicenseType
<1>2. IsFiniteSet(licenses') /\ OneOfEachId(licenses') /\ licenses' \subseteq LicenseType
  BY <1>1, IdsStayOne, Replaced
<1> QED
  BY <1>2 DEF LicensesInv, LicenseType

LEMMA LicenseAdded ==
  ASSUME LicensesInv, Finished \subseteq Finished', NEW n, n \in LicenseType', n.id \notin Finished,
         licenses' = licenses \union {n}
  PROVE  LicensesInv'
<1>1. IsFiniteSet(licenses) /\ OneOfEachId(licenses) /\ licenses \subseteq LicenseType
  BY DEF LicensesInv, LicenseType
<1>2. \A l \in licenses : l.id # n.id
  BY <1>1 DEF LicenseType
<1>3. IsFiniteSet(licenses') /\ OneOfEachId(licenses')
  BY <1>1, <1>2, IdsStayOne, Added
<1>4. licenses \subseteq LicenseType'
  BY <1>1 DEF LicenseType
<1> QED
  BY <1>3, <1>4 DEF LicensesInv, LicenseType

\* What the end of a request's call makes of the licenses.
LEMMA LicensesGo ==
  ASSUME NEW r \in Requests, LicensesNext(r)
  PROVE  \E v \in {[step |-> "license"], Done} : /\ Moves(r, v) /\ ~At(r, "entry")
                                                 /\ InsertLicense(r) => v = Done
<1> USE StepsDiffer, AtIsInService
<1>1. TakenUp(r) => ~At(r, "entry") /\ ~At(r, "license")
  BY DEF TakenUp, At
<1>2. CASE CreateLicense(r)
  BY <1>1, <1>2 DEF CreateLicense, InsertLicense, Moves
<1>3. CASE InsertLicense(r)
  BY <1>3 DEF InsertLicense, Ends, Moves, At
<1>4. CASE \E l \in licenses : UpdateLicense(r, l)
  <2>1. Whole(r)
    BY <1>4 DEF UpdateLicense
  <2> QED
    BY <1>1, <2>1 DEF Whole, Ends, Moves
<1> QED
  BY <1>2, <1>3, <1>4 DEF LicensesNext

LEMMA LicensesStep ==
  ASSUME TenancyInv, NEW r \in Requests, LicensesNext(r), UNCHANGED <<roleVars, orgVars, creditVars>>
  PROVE  TenancyInv'
<1> USE DEF TenancyInv
<1>1. PICK v \in {[step |-> "license"], Done} : /\ Moves(r, v) /\ ~At(r, "entry")
                                                /\ InsertLicense(r) => v = Done
  BY LicensesGo
<1>2. UNCHANGED <<org, biz>> /\ UNCHANGED assigned /\ UNCHANGED access /\ UNCHANGED members
  BY DEF orgVars
<1>3. UNCHANGED roles /\ UNCHANGED ledger /\ UNCHANGED roleVars /\ UNCHANGED creditVars
  BY DEF roleVars, creditVars
<1>4. v.step \in {"done", "license"} /\ v # New
  BY <1>1, StepsDiffer DEF New
<1>5. RolesInv' /\ BusinessesInv' /\ AssignedInv' /\ AccessInv' /\ CreditsInv'
  BY <1>1, <1>2, <1>3, <1>4, RolesAside, BusinessesAside, AssignedAside, AccessAside, CreditsAside
<1>6. RolesGrow /\ LedgerGrows /\ SumsAreNumbers
  BY <1>3, RolesStay, LedgerStays
<1>7. MembersInv'
  BY <1>1, <1>2, <1>4, <1>6, MembersAside
<1>8. req'[r] = v /\ Finished \subseteq Finished' /\ r \notin Finished
  BY <1>1, MovesEffect
<1>9. LicensesInv'
  <2>1. CASE CreateLicense(r)
    BY <1>1, <2>1, LicensesAside DEF CreateLicense
  <2>2. CASE InsertLicense(r)
    <3>1. PICK over \in BOOLEAN : licenses' = licenses \union {[License(r) EXCEPT !.over = over]}
      BY <2>2 DEF InsertLicense
    <3>2. r \in Finished'
      BY <1>1, <1>8, <2>2 DEF Finished
    <3>3. [License(r) EXCEPT !.over = over] \in LicenseType' /\ [License(r) EXCEPT !.over = over].id = r
      BY <3>2 DEF License, LicenseType
    <3> QED
      BY <1>8, <3>1, <3>3, LicenseAdded
  <2>3. ASSUME NEW l \in licenses, UpdateLicense(r, l) PROVE LicensesInv'
    <3>1. PICK active \in BOOLEAN, over \in BOOLEAN :
              licenses' = (licenses \ {l}) \union {[id |-> l.id, active |-> active, over |-> over, edited |-> TRUE]}
      BY <2>3 DEF UpdateLicense
    <3>2. [id |-> l.id, active |-> active, over |-> over, edited |-> TRUE] \in LicenseType
      BY DEF LicensesInv, LicenseType
    <3> QED
      BY <1>8, <3>1, <3>2, LicenseChanges
  <2> QED
    BY <2>1, <2>2, <2>3 DEF LicensesNext
<1>10. Calls(r)'
  BY <1>4, <1>8 DEF Calls, MakesRole, Invites, Assigns, Gives, Allocates, At
<1> QED
  BY <1>1, <1>5, <1>6, <1>7, <1>9, <1>10, Together

\* A license runs out.
LEMMA TimeStep ==
  ASSUME TenancyInv, TimeNext, UNCHANGED <<roleVars, orgVars, creditVars>>
  PROVE  TenancyInv'
<1> USE DEF TenancyInv
<1>1. UNCHANGED <<req, org, biz>> /\ UNCHANGED <<req, assigned>> /\ UNCHANGED <<req, access>>
      /\ UNCHANGED <<req, roleVars>> /\ UNCHANGED <<req, members, roles>> /\ UNCHANGED <<req, creditVars>>
      /\ UNCHANGED <<req, roles, ledger>>
  BY DEF TimeNext, roleVars, creditVars, orgVars
<1>2. PICK l \in licenses : licenses' = (licenses \ {l}) \union {[l EXCEPT !.over = TRUE]}
  BY DEF TimeNext, LicenseEnds
<1>3. l \in LicenseType
  BY DEF LicensesInv, LicenseType
<1>4. [l EXCEPT !.over = TRUE] \in LicenseType /\ [l EXCEPT !.over = TRUE].id = l.id
  BY <1>3 DEF LicenseType
<1>5. LicensesInv'
  BY <1>1, <1>2, <1>4, NothingMoves, LicenseChanges
<1>6. \A r \in Requests : Calls(r)'
  BY <1>1, CallsHold
<1> QED
  BY <1>1, <1>5, <1>6, NothingMoves, RolesHold, BusinessesHold, AssignedHold, AccessHolds, MembersHold, CreditsHold

-----------------------------------------------------------------------------
(***************************************************************************)
(* The steps of credits.                                                   *)
(***************************************************************************)
LedgerType == [id : Finished, to : Practitioners, amount : Amounts]
ClientType == [id : Finished, active : BOOLEAN]

\* What a request is about to write is covered by what is in the ledger.
Reckons(v) ==
    v.step \in {"balance", "allocate"} =>
        /\ v.to \in Practitioners /\ v.amount \in Amounts
        /\ v.allocated \in Nat /\ v.allocated + v.amount <= Purchased
        /\ v.allocated <= Sum(ledger)
        /\ v.step = "allocate" => Covered(v.to, v.total)

LEMMA CreditsGo ==
  ASSUME TenancyInv, NEW r \in Requests, CreditsNext(r)
  PROVE  \E v : /\ Moves(r, v) /\ Reckons(v) /\ ~At(r, "entry") /\ v # New
                /\ v.step \in {"balance", "allocate", "client", "done"}
<1> USE StepsDiffer, AtIsInService DEF TenancyInv
<1>1. TakenUp(r) => ~At(r, "entry")
  BY DEF TakenUp, At
<1>2. ASSUME NEW p \in Practitioners, NEW n \in Amounts, Allocate(r, p, n)
      PROVE  \E v : /\ Moves(r, v) /\ Reckons(v) /\ ~At(r, "entry") /\ v # New
                    /\ v.step \in {"balance", "allocate", "client", "done"}
  <2> DEFINE v == [step |-> "balance", to |-> p, amount |-> n, allocated |-> allocated]
  <2>1. Moves(r, v) /\ ~At(r, "entry") /\ n <= Purchased - allocated
    BY <1>1, <1>2 DEF Allocate, Moves
  <2>2. v.step = "balance" /\ v.to = p /\ v.amount = n /\ v.allocated = allocated
    OBVIOUS
  <2> HIDE DEF v
  <2>3. allocated \in Nat /\ allocated <= Sum(ledger) /\ n \in Nat /\ Purchased \in Nat
    BY CreditsAssumption DEF CreditsInv
  <2>4. Reckons(v)
    BY <2>1, <2>2, <2>3 DEF Reckons
  <2> QED
    BY <2>1, <2>2, <2>4
<1>3. CASE ReadBalance(r)
  <2> DEFINE v == [step |-> "allocate", to |-> req[r].to, amount |-> req[r].amount,
                   allocated |-> req[r].allocated, total |-> total[req[r].to]]
  <2>1. Moves(r, v) /\ ~At(r, "entry") /\ At(r, "balance")
    BY <1>3 DEF ReadBalance, Moves, At
  <2>2. /\ v.step = "allocate" /\ v.to = req[r].to /\ v.amount = req[r].amount
        /\ v.allocated = req[r].allocated /\ v.total = total[req[r].to]
    OBVIOUS
  <2> HIDE DEF v
  <2>3. Reckons(v)
    BY <2>1, <2>2 DEF Reckons, Calls, Allocates, CreditsInv
  <2> QED
    BY <2>1, <2>2, <2>3
<1>4. CASE CommitAllocation(r) \/ InsertClient(r) \/ \E c \in clients : UpdateClient(r, c)
  <2>1. Moves(r, Done) /\ ~At(r, "entry")
    BY <1>1, <1>4 DEF CommitAllocation, InsertClient, UpdateClient, Whole, Ends, Moves, At
  <2> QED
    BY <2>1 DEF Reckons
<1>5. CASE AddClient(r)
  <2>1. Moves(r, [step |-> "client"]) /\ ~At(r, "entry")
    BY <1>1, <1>5 DEF AddClient, Moves
  <2> QED
    BY <2>1 DEF Reckons
<1> QED
  BY <1>2, <1>3, <1>4, <1>5 DEF CreditsNext

\* The rows of the clients change, and those of the ledger do not.
LEMMA ClientsChange ==
  ASSUME CreditsInv, Finished \subseteq Finished', UNCHANGED <<allocated, total, ledger>>,
         IsFiniteSet(clients'), OneOfEachId(clients'), clients' \subseteq ClientType'
  PROVE  CreditsInv'
<1>1. ledger' \subseteq LedgerType' /\ \A p, n : Covered(p, n) => Covered(p, n)'
  BY DEF CreditsInv, Covered, LedgerOf, LedgerType
<1> QED
  BY <1>1 DEF CreditsInv, ClientType, LedgerType, OneOfEachId

LEMMA AllocationCommitted ==
  ASSUME TenancyInv, NEW r \in Requests, NEW v, Moves(r, v), CommitAllocation(r)
  PROVE  CreditsInv' /\ LedgerGrows /\ SumsAreNumbers
<1> USE DEF TenancyInv
<1>1. Finished \subseteq Finished' /\ r \notin Finished /\ r \in Finished'
  BY MovesEffect DEF CommitAllocation, Ends, Goes, Served, Finished
<1>2. PICK to \in Practitioners, amount \in Amounts :
          /\ to = req[r].to /\ amount = req[r].amount
          /\ req[r].allocated \in Nat /\ req[r].allocated + amount <= Purchased
          /\ req[r].allocated <= Sum(ledger)
          /\ Covered(to, req[r].total)
  BY DEF CommitAllocation, Calls, Allocates
<1> DEFINE row == [id |-> r, to |-> to, amount |-> amount]
<1> DEFINE sum == (IF req[r].total = None THEN 0 ELSE req[r].total) + amount
<1>3. /\ allocated' = req[r].allocated + amount /\ total' = [total EXCEPT ![to] = sum]
      /\ ledger' = ledger \union {row} /\ UNCHANGED clients
  BY <1>2 DEF CommitAllocation
<1>4. row.id = r /\ row.to = to /\ row.amount = amount /\ row \in LedgerType' /\ amount \in Nat
  BY <1>1, CreditsAssumption DEF LedgerType
<1> HIDE DEF row
<1>5. IsFiniteSet(ledger) /\ OneOfEachId(ledger) /\ ledger \subseteq LedgerType
  BY DEF CreditsInv, LedgerType
<1>6. \A x \in ledger : x.id # row.id
  BY <1>1, <1>4, <1>5 DEF LedgerType
<1>7. IsFiniteSet(ledger') /\ OneOfEachId(ledger') /\ row \notin ledger /\ ledger' \subseteq LedgerType'
  BY <1>1, <1>3, <1>4, <1>5, <1>6, IdsStayOne, Added DEF LedgerType
<1>8. Sum(ledger) \in Nat /\ Sum(ledger') = Sum(ledger) + amount /\ Sum(ledger') \in Nat
  <2>1. Rows(ledger)
    BY LedgerRows
  <2>2. Sum(ledger) \in Nat /\ Sum(ledger \union {row}) = Sum(ledger) + row.amount
    BY <1>4, <1>7, <2>1, SumAdds
  <2> QED
    BY <1>3, <1>4, <2>2
<1>9. ASSUME NEW p \in Practitioners
      PROVE  /\ Sum(LedgerOf(p)) \in Nat /\ Sum(LedgerOf(p)') \in Nat
             /\ p = to => Sum(LedgerOf(p)') = Sum(LedgerOf(p)) + amount
             /\ p # to => Sum(LedgerOf(p)') = Sum(LedgerOf(p))
  <2>1. Rows(LedgerOf(p)) /\ row \notin LedgerOf(p)
    BY <1>7, LedgerRows DEF LedgerOf
  <2>2. Sum(LedgerOf(p)) \in Nat /\ Sum(LedgerOf(p) \union {row}) = Sum(LedgerOf(p)) + row.amount
    BY <1>4, <2>1, SumAdds
  <2>3. LedgerOf(p)' = IF p = to THEN LedgerOf(p) \union {row} ELSE LedgerOf(p)
    BY <1>3, <1>4 DEF LedgerOf
  <2> QED
    BY <1>4, <2>2, <2>3
<1>10. LedgerGrows /\ SumsAreNumbers
  <2>1. Sum(ledger) <= Sum(ledger')
    BY <1>4, <1>8
  <2>2. \A p \in Practitioners : Sum(LedgerOf(p)) <= Sum(LedgerOf(p)')
    BY <1>4, <1>9
  <2> QED
    BY <1>8, <1>9, <2>1, <2>2 DEF LedgerGrows, SumsAreNumbers
<1>11. allocated' \in Nat /\ allocated' <= Purchased /\ allocated' <= Sum(ledger')
  BY <1>2, <1>3, <1>4, <1>8
<1>12. sum \in Nat /\ sum <= Sum(LedgerOf(to)')
  <2>1. /\ Sum(LedgerOf(to)) \in Nat /\ Sum(LedgerOf(to)') = Sum(LedgerOf(to)) + amount
    BY <1>9
  <2>2. CASE req[r].total = None
    BY <1>4, <2>1, <2>2
  <2>3. CASE req[r].total # None
    <3>1. req[r].total \in Nat /\ req[r].total <= Sum(LedgerOf(to))
      BY <1>2, <2>3 DEF Covered
    <3> QED
      BY <1>4, <2>1, <2>3, <3>1
  <2> QED
    BY <2>2, <2>3
<1> HIDE DEF sum
<1>13. DOMAIN total' = Practitioners /\ \A p \in Practitioners : Covered(p, total[p])'
  <2>1. DOMAIN total = Practitioners /\ DOMAIN total' = Practitioners
    BY <1>3 DEF CreditsInv
  <2>2. ASSUME NEW p \in Practitioners PROVE total'[p] # None => total'[p] \in Nat /\ total'[p] <= Sum(LedgerOf(p)')
    <3>1. CASE p = to
      <4>1. total'[p] = sum
        BY <1>3, <2>1, <3>1
      <4> QED
        BY <1>12, <3>1, <4>1
    <3>2. CASE p # to
      <4>1. total'[p] = total[p]
        BY <1>3, <2>1, <3>2
      <4>2. Sum(LedgerOf(p)') = Sum(LedgerOf(p))
        BY <1>9, <3>2
      <4> QED
        BY <4>1, <4>2 DEF CreditsInv, Covered
    <3> QED
      BY <3>1, <3>2
  <2> QED
    BY <2>1, <2>2 DEF Covered
<1>14. clients' \subseteq ClientType' /\ IsFiniteSet(clients') /\ OneOfEachId(clients')
  BY <1>1, <1>3 DEF CreditsInv, ClientType, OneOfEachId
<1>15. CreditsInv'
  BY <1>7, <1>11, <1>13, <1>14 DEF CreditsInv, LedgerType, ClientType
<1> QED
  BY <1>10, <1>15

LEMMA CreditsChange ==
  ASSUME TenancyInv, NEW r \in Requests, NEW v, Moves(r, v), CreditsNext(r)
  PROVE  CreditsInv' /\ LedgerGrows /\ SumsAreNumbers
<1> USE DEF TenancyInv
<1>1. Finished \subseteq Finished' /\ r \notin Finished /\ (Ends(r) => r \in Finished')
  BY MovesEffect DEF Ends, Goes, Served, Finished
<1>2. IsFiniteSet(clients) /\ OneOfEachId(clients) /\ clients \subseteq ClientType
  BY DEF CreditsInv, ClientType
<1>3. CASE (\E p \in Practitioners, n \in Amounts : Allocate(r, p, n)) \/ ReadBalance(r) \/ AddClient(r)
  <2>1. UNCHANGED creditVars /\ UNCHANGED ledger
    BY <1>3 DEF Allocate, ReadBalance, AddClient, creditVars
  <2> QED
    BY <2>1, CreditsAside, LedgerStays
<1>4. CASE InsertClient(r)
  <2> DEFINE row == [id |-> r, active |-> TRUE]
  <2>1. clients' = clients \union {row} /\ UNCHANGED <<allocated, total, ledger>>
    BY <1>4 DEF InsertClient
  <2>2. r \in Finished'
    BY <1>1, <1>4 DEF InsertClient
  <2>3. row.id = r /\ row \in ClientType' /\ clients \subseteq ClientType'
    BY <1>1, <1>2, <2>2 DEF ClientType
  <2>4. \A c \in clients : c.id # row.id
    BY <1>1, <1>2 DEF ClientType
  <2> HIDE DEF row
  <2>5. IsFiniteSet(clients') /\ OneOfEachId(clients') /\ clients' \subseteq ClientType'
    BY <1>2, <2>1, <2>3, <2>4, IdsStayOne, Added
  <2>6. CreditsInv'
    BY <1>1, <2>1, <2>5, ClientsChange
  <2> QED
    BY <2>1, <2>6, LedgerStays
<1>5. ASSUME NEW c \in clients, UpdateClient(r, c) PROVE CreditsInv' /\ LedgerGrows /\ SumsAreNumbers
  <2> DEFINE row == [c EXCEPT !.active = ~@]
  <2>1. clients' = (clients \ {c}) \union {row} /\ UNCHANGED <<allocated, total, ledger>>
    BY <1>5 DEF UpdateClient
  <2>2. row.id = c.id /\ row \in ClientType' /\ clients \subseteq ClientType'
    BY <1>1, <1>2 DEF ClientType
  <2> HIDE DEF row
  <2>3. IsFiniteSet(clients') /\ OneOfEachId(clients') /\ clients' \subseteq ClientType'
    BY <1>2, <2>1, <2>2, IdsStayOne, Replaced
  <2>4. CreditsInv'
    BY <1>1, <2>1, <2>3, ClientsChange
  <2> QED
    BY <2>1, <2>4, LedgerStays
<1> QED
  BY <1>3, <1>4, <1>5, AllocationCommitted DEF CreditsNext

LEMMA CreditsStep ==
  ASSUME TenancyInv, NEW r \in Requests, CreditsNext(r), UNCHANGED <<roleVars, orgVars, licenses>>
  PROVE  TenancyInv'
<1> USE DEF TenancyInv
<1>1. PICK v : /\ Moves(r, v) /\ Reckons(v) /\ ~At(r, "entry") /\ v # New
               /\ v.step \in {"balance", "allocate", "client", "done"}
  BY CreditsGo
<1>2. UNCHANGED <<org, biz>> /\ UNCHANGED assigned /\ UNCHANGED access /\ UNCHANGED members
  BY DEF orgVars
<1>3. UNCHANGED roles /\ UNCHANGED roleVars
  BY DEF roleVars
<1>4. CreditsInv' /\ LedgerGrows /\ SumsAreNumbers
  BY <1>1, CreditsChange
<1>5. RolesInv' /\ BusinessesInv' /\ AssignedInv' /\ AccessInv' /\ LicensesInv'
  BY <1>1, <1>2, <1>3, RolesAside, BusinessesAside, AssignedAside, AccessAside, LicensesAside
<1>6. MembersInv' /\ RolesGrow
  BY <1>1, <1>2, <1>3, RolesStay, MembersAside
<1>7. req'[r] = v
  BY <1>1, MovesEffect
<1>8. Allocates(r)'
  <2> SUFFICES ASSUME v.step \in {"balance", "allocate"}
               PROVE  /\ v.to \in Practitioners /\ v.amount \in Amounts
                      /\ v.allocated \in Nat /\ v.allocated + v.amount <= Purchased
                      /\ v.allocated <= Sum(ledger')
                      /\ v.step = "allocate" => Covered(v.to, v.total)'
    BY <1>7 DEF Allocates, At, Covered, LedgerOf
  <2>1. /\ v.to \in Practitioners /\ v.amount \in Amounts
        /\ v.allocated \in Nat /\ v.allocated + v.amount <= Purchased
        /\ v.allocated <= Sum(ledger)
        /\ v.step = "allocate" => Covered(v.to, v.total)
    BY <1>1 DEF Reckons
  <2>2. v.allocated <= Sum(ledger')
    BY <1>4, <2>1 DEF LedgerGrows, SumsAreNumbers
  <2>3. v.step = "allocate" => Covered(v.to, v.total)'
    BY <1>4, <2>1 DEF Covered, LedgerGrows, SumsAreNumbers
  <2> QED
    BY <2>1, <2>2, <2>3
<1>9. Calls(r)'
  BY <1>1, <1>7, <1>8 DEF Calls, MakesRole, Invites, Assigns, Gives, At
<1> QED
  BY <1>1, <1>4, <1>5, <1>6, <1>9, Together

-----------------------------------------------------------------------------
(***************************************************************************)
(* The invariant.                                                          *)
(***************************************************************************)
LEMMA TenancyInit == Init => TenancyInv
<1> SUFFICES ASSUME Init PROVE TenancyInv
  OBVIOUS
<1> USE DEF Init
<1>1. /\ InService = {} /\ Finished = {} /\ \A s : s # "new" => AtStep(s) = {}
      /\ \A r, s : r \in Requests /\ s # "new" => ~At(r, s)
  BY StepsDiffer DEF InService, Finished, AtStep, At
<1>2. IsFiniteSet({}) /\ Cardinality({}) = 0 /\ \A x : IsFiniteSet({x})
  BY FS_EmptySet, FS_Singleton
<1>3. Served
  BY <1>1, <1>2, RequestsAssumption DEF Served
<1>4. \A r \in Requests : Calls(r)
  BY <1>1 DEF Calls, MakesRole, Invites, Assigns, Gives, Allocates
<1>5. RolesInv
  <2> DEFINE row == [id |-> Seeded, named |-> TRUE, deleted |-> FALSE]
  <2>1. (roles = {} \/ roles = {row}) /\ grants = {}
    BY DEF RolesInit
  <2>2. row.id = Seeded /\ row \in [id : Requests \union {Seeded}, named : BOOLEAN, deleted : BOOLEAN]
    OBVIOUS
  <2> HIDE DEF row
  <2>3. IsFiniteSet(roles) /\ OneOfEachId(roles)
    BY <1>2, <2>1 DEF OneOfEachId
  <2> QED
    BY <2>1, <2>2, <2>3 DEF RolesInv
<1>6. BusinessesInv
  <2> DEFINE row == Business(First)
  <2>1. /\ (org.state = "none" /\ biz = {}) \/ (org.state = "live" /\ biz = {row})
        /\ org \in [state : {"none", "live", "deleted"}, onboarded : BOOLEAN]
    <3>1. CASE org = [state |-> "none", onboarded |-> FALSE] /\ biz = {}
      BY <3>1
    <3>2. CASE org = [state |-> "live", onboarded |-> FALSE] /\ biz = {row}
      BY <3>2
    <3> QED
      BY <3>1, <3>2 DEF OrganizationsInit
  <2>2. row \in [id : Finished \union {First}, live : BOOLEAN, onboarded : BOOLEAN]
    BY DEF Business
  <2> HIDE DEF row
  <2>3. IsFiniteSet(biz) /\ OneOfEachId(biz)
    BY <1>2, <2>1 DEF OneOfEachId
  <2> QED
    BY <1>1, <2>1, <2>2, <2>3 DEF BusinessesInv
<1>7. AssignedInv
  <2>1. assigned = {} /\ \A a : RowsOf(a) = {} /\ Assigning(a) = {}
    BY <1>1 DEF OrganizationsInit, RowsOf, Assigning
  <2> QED
    BY <1>2, <2>1, RequestsAssumption DEF AssignedInv, OneOfEachId
<1>8. AccessInv
  <2>1. access = {} /\ \A b, a : AccessOf(b, a) = {} /\ Giving(b, a) = {}
    BY <1>1 DEF OrganizationsInit, AccessOf, Giving
  <2> QED
    BY <1>2, <2>1, RequestsAssumption DEF AccessInv
<1>9. MembersInv
  <2>1. members = {} /\ Checked = {} /\ Checking = {}
    BY <1>1 DEF OrganizationsInit, Checked, Checking
  <2> QED
    BY <1>2, <2>1, RequestsAssumption DEF MembersInv, OneOfEachId
<1>10. LicensesInv
  BY <1>2 DEF LicensesInit, LicensesInv, OneOfEachId
<1>11. CreditsInv
  <2>1. Sum(ledger) \in Nat /\ ledger = {}
    BY <1>2, SumRecurs DEF CreditsInit, Rows
  <2>2. \A p \in Practitioners : total[p] = None
    BY DEF CreditsInit
  <2> QED
    BY <1>2, <2>1, <2>2, CreditsAssumption DEF CreditsInit, CreditsInv, OneOfEachId, Covered
<1> QED
  BY <1>3, <1>4, <1>5, <1>6, <1>7, <1>8, <1>9, <1>10, <1>11 DEF TenancyInv

\* A commit that fails undoes what the request has added.
LEMMA RollbackStep ==
  ASSUME TenancyInv, NEW r \in Requests, RolledBack(r), UNCHANGED <<roleVars, orgVars, licenses, creditVars>>
  PROVE  TenancyInv'
<1> USE DEF TenancyInv
<1>1. Moves(r, Done) /\ Done # New /\ Done.step = "done"
  BY StepsDiffer DEF RolledBack, Ends, Moves
<1>2. UNCHANGED <<org, biz>> /\ UNCHANGED assigned /\ UNCHANGED access /\ UNCHANGED members
  BY DEF orgVars
<1>3. UNCHANGED roles /\ UNCHANGED ledger /\ UNCHANGED roleVars /\ UNCHANGED creditVars
  BY DEF roleVars, creditVars
<1>4. RolesInv' /\ BusinessesInv' /\ AssignedInv' /\ AccessInv' /\ LicensesInv' /\ CreditsInv'
  BY <1>1, <1>2, <1>3, RolesAside, BusinessesAside, AssignedAside, AccessAside, LicensesAside, CreditsAside
<1>5. RolesGrow /\ LedgerGrows /\ SumsAreNumbers
  BY <1>3, RolesStay, LedgerStays
<1>6. MembersInv'
  BY <1>1, <1>2, <1>5, MembersAside
<1>7. Calls(r)'
  BY <1>1, MovesEffect DEF Calls, MakesRole, Invites, Assigns, Gives, Allocates, At
<1> QED
  BY <1>1, <1>4, <1>5, <1>6, <1>7, Together

LEMMA OrganizationsSplit ==
  ASSUME NEW r, OrganizationsNext(r)
  PROVE  BusinessesNext(r) \/ AssignedNext(r) \/ AccessNext(r) \/ MembersNext(r)
BY DEF OrganizationsNext, BusinessesNext, AssignedNext, AccessNext, MembersNext

LEMMA TenancyNext == TenancyInv /\ [Next]_vars => TenancyInv'
<1> SUFFICES ASSUME TenancyInv, [Next]_vars PROVE TenancyInv'
  OBVIOUS
<1>1. ASSUME NEW r \in Requests, RolesNext(r), UNCHANGED <<orgVars, licenses, creditVars>> PROVE TenancyInv'
  BY <1>1, RolesStep
<1>2. ASSUME NEW r \in Requests, OrganizationsNext(r), UNCHANGED <<roleVars, licenses, creditVars>> PROVE TenancyInv'
  BY <1>2, OrganizationsSplit, BusinessesStep, AssignedStep, AccessStep, MembersStep
<1>3. ASSUME NEW r \in Requests, LicensesNext(r), UNCHANGED <<roleVars, orgVars, creditVars>> PROVE TenancyInv'
  BY <1>3, LicensesStep
<1>4. ASSUME NEW r \in Requests, CreditsNext(r), UNCHANGED <<roleVars, orgVars, licenses>> PROVE TenancyInv'
  BY <1>4, CreditsStep
<1>5. ASSUME NEW r \in Requests, RolledBack(r), UNCHANGED <<roleVars, orgVars, licenses, creditVars>> PROVE TenancyInv'
  BY <1>5, RollbackStep
<1>6. CASE UsersNext /\ UNCHANGED <<roleVars, licenses, creditVars>>
  BY <1>6, UsersStep
<1>7. CASE TimeNext /\ UNCHANGED <<roleVars, orgVars, creditVars>>
  BY <1>7, TimeStep
<1>8. CASE UNCHANGED vars
  <2>1. UNCHANGED <<req, roleVars>> /\ UNCHANGED <<req, org, biz>> /\ UNCHANGED <<req, assigned>>
        /\ UNCHANGED <<req, access>> /\ UNCHANGED <<req, members, roles>> /\ UNCHANGED <<req, licenses>>
        /\ UNCHANGED <<req, creditVars>> /\ UNCHANGED <<req, roles, ledger>>
    BY <1>8 DEF vars, roleVars, orgVars, creditVars
  <2>2. \A r \in Requests : Calls(r)'
    BY <2>1, CallsHold DEF TenancyInv
  <2> QED
    BY <2>1, <2>2, NothingMoves, RolesHold, BusinessesHold, AssignedHold, AccessHolds, MembersHold,
       LicensesHold, CreditsHold DEF TenancyInv
<1> QED
  BY <1>1, <1>2, <1>3, <1>4, <1>5, <1>6, <1>7, <1>8 DEF Next

LEMMA TenancyHolds == Spec => []TenancyInv
BY TenancyInit, TenancyNext, PTL DEF Spec

-----------------------------------------------------------------------------
(***************************************************************************)
(* What it says.                                                           *)
(***************************************************************************)
\* The distributor never allocates more than was bought, and no balance is more
\* than the transactions account for, although each is computed from a row read
\* earlier and written as a value: overlapping allocations lose one another's
\* amounts, and never add to them.
THEOREM LedgerCovers == Spec => []LedgerCoversTotals
<1>1. TenancyInv => LedgerCoversTotals
  BY DEF TenancyInv, CreditsInv, LedgerCoversTotals, Covered, LedgerOf
<1> QED
  BY <1>1, TenancyHolds, PTL

\* The agents and the administrators of an organization, of which no row is
\* there to be counted by a table of its own.
LEMMA OverlapsOnly == TenancyInv => AssignmentsOverlapOnly /\ OneAdminUnlessOverlapped
<1> SUFFICES ASSUME TenancyInv PROVE AssignmentsOverlapOnly /\ OneAdminUnlessOverlapped
  OBVIOUS
<1> USE DEF TenancyInv
<1>1. ASSUME NEW a \in Agents PROVE OneAssignment(a)!Exceeded
  <2>1. Cardinality(RowsOf(a)) + Cardinality(Assigning(a)) <= 1 - 1 + Threads
    BY <1>1, RequestsAssumption DEF AssignedInv
  <2>2. OneAssignment(a)!Cardinality(Assigning(a)) = Cardinality(Assigning(a))
    BY DEF OneAssignment!Cardinality, Cardinality
  <2> QED
    BY <2>1, <2>2 DEF OneAssignment!Exceeded, Assigning
<1>2. ASSUME NEW a \in Agents, NEW b \in biz PROVE OneAccess(b.id, a)!Exceeded
  <2>1. b.id \in Requests \union {First}
    BY DEF BusinessesInv, Finished
  <2>2. Cardinality(AccessOf(b.id, a)) + Cardinality(Giving(b.id, a)) <= 1 - 1 + Threads
    BY <2>1, RequestsAssumption DEF AccessInv
  <2>3. OneAccess(b.id, a)!Cardinality(Giving(b.id, a)) = Cardinality(Giving(b.id, a))
    BY DEF OneAccess!Cardinality, Cardinality
  <2> QED
    BY <2>2, <2>3 DEF OneAccess!Exceeded, Giving
<1>3. ASSUME NEW x \in assigned PROVE Cardinality(x.tones) <= Threads
  <2>1. Cardinality(x.tones \ {}) + Cardinality(Unseeing(x, {})) <= Threads
    BY DEF AssignedInv, TonesOverlap
  <2>2. x.tones \ {} = x.tones /\ Cardinality(x.tones) \in Nat /\ Cardinality(Unseeing(x, {})) \in Nat
    BY FinishedFinite, InServiceOf, InServiceFinite, Smaller DEF AssignedInv, Unseeing, Replacing
  <2> QED
    BY <2>1, <2>2, RequestsAssumption
<1>4. OneAdminUnlessOverlapped
  <2>1. Checking \subseteq InService /\ IsFiniteSet(Checked)
    BY InServiceOf, Smaller DEF Checked, Checking, MembersInv
  <2>2. Cardinality(Checked) \in Nat /\ Cardinality(Checking) \in Nat
    BY <2>1, FS_CardinalityType, InServiceFinite, Smaller
  <2>3. Cardinality(roles) <= 1 => Cardinality(Checked) <= Threads
    BY <2>2, RequestsAssumption DEF MembersInv
  <2> QED
    BY <2>3 DEF OneAdminUnlessOverlapped, Checked
<1> QED
  BY <1>1, <1>2, <1>3, <1>4 DEF AssignmentsOverlapOnly

-----------------------------------------------------------------------------
(***************************************************************************)
(* The limits. To those who have passed the check of one, the steps of all *)
(* others are a stutter, or a commit that is given up.                     *)
(***************************************************************************)
LEMMA OthersLeave ==
  ASSUME TenancyInv, NEW r \in Requests, NEW s \in {"business", "license", "client", "grant"},
         \/ RolesNext(r) /\ s # "grant"
         \/ BusinessesNext(r) /\ s # "business"
         \/ AssignedNext(r) \/ AccessNext(r) \/ MembersNext(r)
         \/ LicensesNext(r) /\ s # "license"
         \/ CreditsNext(r) /\ s # "client"
         \/ RolledBack(r)
  PROVE  AtStep(s)' = AtStep(s) \ {r}
<1> USE StepsDiffer DEF TenancyInv
<1>1. ASSUME \E v : Moves(r, v) /\ v.step # s PROVE AtStep(s)' = AtStep(s) \ {r}
  BY <1>1, MovesEffect
<1>2. CASE RolesNext(r) /\ s # "grant"
  <2>1. \E v : Moves(r, v) /\ v.step \in {"makeRole", "grant", "done", "profile", "role"}
    BY <1>2, RolesGo DEF Calls
  <2> QED
    BY <1>1, <1>2, <2>1
<1>3. CASE BusinessesNext(r) /\ s # "business"
  <2>1. \E v : Moves(r, v) /\ v.step \in {"business", "done"}
    BY <1>3, BusinessesGo
  <2> QED
    BY <1>1, <1>3, <2>1
<1>4. CASE AssignedNext(r)
  BY <1>1, <1>4, AssignedGo
<1>5. CASE AccessNext(r)
  BY <1>1, <1>5, AccessGo
<1>6. CASE MembersNext(r)
  BY <1>1, <1>6, MembersGo DEF Intends
<1>7. CASE LicensesNext(r) /\ s # "license"
  <2>1. \E v : Moves(r, v) /\ v.step \in {"license", "done"}
    BY <1>7, LicensesGo
  <2> QED
    BY <1>1, <1>7, <2>1
<1>8. CASE CreditsNext(r) /\ s # "client"
  <2>1. \E v : Moves(r, v) /\ v.step \in {"balance", "allocate", "client", "done"}
    BY <1>8, CreditsGo
  <2> QED
    BY <1>1, <1>8, <2>1
<1>9. CASE RolledBack(r)
  <2>1. Moves(r, Done) /\ Done.step # s
    BY <1>9 DEF RolledBack, Ends, Moves
  <2> QED
    BY <1>1, <2>1
<1> QED
  BY <1>2, <1>3, <1>4, <1>5, <1>6, <1>7, <1>8, <1>9

\* A request that passes a check is one more, and there was a thread for it.
LEMMA Passes ==
  ASSUME Served, NEW r \in Requests, TakenUp(r), NEW s, s # "new", s # "done"
  PROVE  /\ r \notin AtStep(s) /\ Cardinality(AtStep(s)) < Threads
         /\ \A v : Goes(r, v) /\ v.step = s => AtStep(s)' = AtStep(s) \union {r}
         /\ \A v : Goes(r, v) /\ v.step # s => AtStep(s)' = AtStep(s)
<1>1. r \notin AtStep(s)
  BY StepsDiffer DEF AtStep, At, TakenUp
<1>2. Cardinality(AtStep(s)) < Threads
  <2>1. AtStep(s) \subseteq InService
    BY InServiceOf
  <2>2. Cardinality(AtStep(s)) \in Nat /\ Cardinality(AtStep(s)) <= Cardinality(InService) /\ Cardinality(InService) \in Nat
    BY <2>1, InServiceFinite, Smaller
  <2> QED
    BY <2>2, RequestsAssumption DEF TakenUp
<1>3. \A v : Goes(r, v) => AtStep(s)' = IF v.step = s THEN AtStep(s) \union {r} ELSE AtStep(s) \ {r}
  BY MovesEffect DEF Moves
<1> QED
  BY <1>1, <1>2, <1>3

LEMMA SameTable == \A S : /\ TwoBusinesses!Cardinality(S) = Cardinality(S)
                          /\ OneLicense!Cardinality(S) = Cardinality(S)
                          /\ OneClient!Cardinality(S) = Cardinality(S)
                          /\ OneGrant!Cardinality(S) = Cardinality(S)
BY DEF TwoBusinesses!Cardinality, OneLicense!Cardinality, OneClient!Cardinality, OneGrant!Cardinality, Cardinality

(***************************************************************************)
(* Two businesses.                                                         *)
(***************************************************************************)
LEMMA LiveCounted ==
  ASSUME TenancyInv
  PROVE  IsFiniteSet(LiveBusinesses) /\ Cardinality(LiveBusinesses) \in Nat
BY Smaller DEF LiveBusinesses, TenancyInv, BusinessesInv

LEMMA BusinessesRefine ==
  ASSUME TenancyInv, TenancyInv', NEW r \in Requests, BusinessesNext(r)
  PROVE  [TwoBusinesses!Next]_TwoBusinesses!vars
<1> USE StepsDiffer DEF TenancyInv
<1> DEFINE rows == Cardinality(LiveBusinesses)
           passed == AtStep("business")
<1>1. IsFiniteSet(LiveBusinesses) /\ rows \in Nat /\ IsFiniteSet(LiveBusinesses') /\ rows' \in Nat
  BY LiveCounted, Smaller DEF LiveBusinesses, BusinessesInv
<1>2. Whole(r) => passed' = passed
  BY Passes DEF Whole, Ends
<1>3. CASE CreateOrganization(r)
  <2>1. rows = 0 /\ passed = {} /\ passed' = passed
    BY <1>2, <1>3, FS_EmptySet DEF CreateOrganization, BusinessesInv, LiveBusinesses
  <2>2. rows' \in 1..2
    <3>1. biz' = LiveBusinesses' /\ (biz' = {Business(r)} \/ biz' = {Business(r)} \union {Business(First)})
      BY <1>3 DEF CreateOrganization, LiveBusinesses, Business
    <3>2. Cardinality({Business(r)}) = 1 /\ IsFiniteSet({Business(r)})
      BY FS_Singleton
    <3>3. Cardinality({Business(r)} \union {Business(First)}) \in 1..2
      <4>1. PICK S : S = {Business(r)}
        OBVIOUS
      <4>2. PICK x : x = Business(First)
        OBVIOUS
      <4>3. Cardinality(S \union {x}) = IF x \in S THEN Cardinality(S) ELSE Cardinality(S) + 1
        BY <3>2, <4>1, FS_AddElement
      <4>4. Cardinality(S) = 1
        BY <3>2, <4>1
      <4>5. Cardinality(S \union {x}) \in 1..2
        BY <4>3, <4>4
      <4> QED
        BY <4>1, <4>2, <4>5
    <3> QED
      BY <3>1, <3>2, <3>3
  <2> QED
    BY <2>1, <2>2 DEF TwoBusinesses!Next, TwoBusinesses!Fill
<1>4. CASE UpdateOrganization(r) \/ DeleteOrganization(r)
  <2>1. passed' = passed /\ rows' = rows
    BY <1>2, <1>4 DEF UpdateOrganization, DeleteOrganization, LiveBusinesses
  <2> QED
    BY <2>1 DEF TwoBusinesses!vars
<1>5. CASE CreateBusiness(r)
  <2>1. rows' = rows /\ rows < 2 /\ TakenUp(r) /\ Goes(r, [step |-> "business"])
    BY <1>5 DEF CreateBusiness, orgVars, LiveBusinesses
  <2>2. r \notin passed /\ Cardinality(passed) < Threads /\ passed' = passed \union {r}
    BY <2>1, Passes
  <2> QED
    BY <2>1, <2>2, SameTable DEF TwoBusinesses!Next, TwoBusinesses!Pass
<1>6. CASE InsertBusiness(r)
  <2>1. Moves(r, Done) /\ r \in passed /\ biz' = biz \union {Business(r)}
    BY <1>6, AtIsInService DEF InsertBusiness, Ends, Moves, AtStep
  <2>2. passed' = passed \ {r} /\ r \notin Finished /\ r # First
    BY <2>1, MovesEffect, FirstAssumption
  <2>3. Business(r) \notin biz /\ Business(r).live
    BY <2>2 DEF Business, BusinessesInv
  <2>4. LiveBusinesses' = LiveBusinesses \union {Business(r)} /\ Business(r) \notin LiveBusinesses
    BY <2>1, <2>3 DEF LiveBusinesses
  <2>5. rows' = rows + 1
    BY <1>1, <2>4, Added
  <2> QED
    BY <2>1, <2>2, <2>5 DEF TwoBusinesses!Next, TwoBusinesses!Insert
<1>7. ASSUME NEW b \in biz, UpdateBusiness(r, b) PROVE [TwoBusinesses!Next]_TwoBusinesses!vars
  <2> DEFINE c == [b EXCEPT !.onboarded = TRUE]
  <2>1. passed' = passed /\ biz' = (biz \ {b}) \union {c} /\ b.live
    BY <1>2, <1>7 DEF UpdateBusiness
  <2>2. c.id = b.id /\ c.live
    BY <2>1 DEF BusinessesInv
  <2> HIDE DEF c
  <2>3. c \notin biz \ {b}
    BY <2>2 DEF BusinessesInv, OneOfEachId
  <2>4. LiveBusinesses' = (LiveBusinesses \ {b}) \union {c} /\ b \in LiveBusinesses /\ c \notin LiveBusinesses \ {b}
    BY <2>1, <2>2, <2>3 DEF LiveBusinesses
  <2>5. rows' = rows
    BY <1>1, <2>4, Replaced
  <2> QED
    BY <2>1, <2>5 DEF TwoBusinesses!vars
<1>8. ASSUME NEW b \in biz, DeleteBusiness(r, b) PROVE [TwoBusinesses!Next]_TwoBusinesses!vars
  <2> DEFINE c == [b EXCEPT !.live = FALSE]
  <2>1. passed' = passed /\ biz' = (biz \ {b}) \union {c} /\ b.live
    BY <1>2, <1>8 DEF DeleteBusiness
  <2>2. ~c.live
    BY DEF BusinessesInv
  <2> HIDE DEF c
  <2>3. LiveBusinesses' = LiveBusinesses \ {b} /\ b \in LiveBusinesses
    BY <2>1, <2>2 DEF LiveBusinesses
  <2>4. rows' < rows
    BY <1>1, <2>3, FS_RemoveElement
  <2> QED
    BY <1>1, <2>1, <2>4 DEF TwoBusinesses!Next, TwoBusinesses!Remove
<1> QED
  BY <1>3, <1>4, <1>5, <1>6, <1>7, <1>8 DEF BusinessesNext

LEMMA NoBusinessMoves ==
  ASSUME UNCHANGED biz, NEW r \in Requests,
         AtStep("business")' = AtStep("business") \ {r} \/ AtStep("business")' = AtStep("business")
  PROVE  [TwoBusinesses!Next]_TwoBusinesses!vars
<1>1. Cardinality(LiveBusinesses)' = Cardinality(LiveBusinesses)
  BY DEF LiveBusinesses
<1>2. CASE r \in AtStep("business") /\ AtStep("business")' = AtStep("business") \ {r}
  BY <1>1, <1>2 DEF TwoBusinesses!Next, TwoBusinesses!GiveUp
<1>3. CASE AtStep("business")' = AtStep("business")
  BY <1>1, <1>3 DEF TwoBusinesses!vars
<1> QED
  BY <1>2, <1>3

(***************************************************************************)
(* One license that counts, of those nobody has edited.                    *)
(***************************************************************************)
Counting == {l \in licenses : Counts(l) /\ ~l.edited}

LEMMA NoLicenseMoves ==
  ASSUME UNCHANGED licenses, NEW r \in Requests,
         AtStep("license")' = AtStep("license") \ {r} \/ AtStep("license")' = AtStep("license")
  PROVE  [OneLicense!Next]_OneLicense!vars
<1> DEFINE rows == Cardinality({l \in licenses : Counts(l) /\ ~l.edited})
<1>1. rows' = rows
  BY DEF Counts
<1>2. CASE r \in AtStep("license") /\ AtStep("license")' = AtStep("license") \ {r}
  BY <1>1, <1>2 DEF OneLicense!Next, OneLicense!GiveUp
<1>3. CASE AtStep("license")' = AtStep("license")
  BY <1>1, <1>3 DEF OneLicense!vars
<1> QED
  BY <1>2, <1>3

\* A license that has been edited or is over is none of those.
LEMMA NoMoreCounting ==
  ASSUME TenancyInv, TenancyInv', NEW l \in licenses, NEW n, n.edited \/ n.over,
         licenses' = (licenses \ {l}) \union {n}, AtStep("license")' = AtStep("license")
  PROVE  [OneLicense!Next]_OneLicense!vars
<1>1. Counting' = Counting \ {l}
  BY DEF Counting, Counts
<1>2. IsFiniteSet(Counting)
  BY Smaller DEF Counting, TenancyInv, LicensesInv
<1>3. CASE l \in Counting
  <2>1. Cardinality(Counting') \in Nat /\ Cardinality(Counting') < Cardinality(Counting)
    BY <1>1, <1>2, <1>3, OneLess
  <2> QED
    BY <2>1 DEF Counting, OneLicense!Next, OneLicense!Remove
<1>4. CASE l \notin Counting
  <2>1. Cardinality(Counting') = Cardinality(Counting)
    BY <1>1, <1>4
  <2> QED
    BY <2>1 DEF Counting, OneLicense!vars
<1> QED
  BY <1>3, <1>4

LEMMA LicensesRefine ==
  ASSUME TenancyInv, TenancyInv', NEW r \in Requests, LicensesNext(r)
  PROVE  [OneLicense!Next]_OneLicense!vars
<1> USE StepsDiffer DEF TenancyInv
<1>1. IsFiniteSet(Counting)
  BY Smaller DEF Counting, LicensesInv
<1>2. CASE CreateLicense(r)
  <2>1. Counting = {} /\ Counting' = Counting /\ TakenUp(r) /\ Goes(r, [step |-> "license"])
    BY <1>2 DEF CreateLicense, Counting, Counts
  <2>2. /\ r \notin AtStep("license") /\ Cardinality(AtStep("license")) < Threads
        /\ AtStep("license")' = AtStep("license") \union {r}
    BY <2>1, Passes
  <2>3. Cardinality(Counting) = 0 /\ Cardinality(Counting') = Cardinality(Counting)
    BY <2>1, FS_EmptySet
  <2>4. OneLicense!Cardinality(AtStep("license")) < Threads
    BY <2>2, SameTable
  <2>5. OneLicense!Pass(r)
    BY <2>2, <2>3, <2>4 DEF Counting, OneLicense!Pass
  <2> QED
    BY <2>5 DEF OneLicense!Next
<1>3. CASE InsertLicense(r)
  <2>1. PICK over \in BOOLEAN : licenses' = licenses \union {[License(r) EXCEPT !.over = over]}
    BY <1>3 DEF InsertLicense
  <2> DEFINE n == [License(r) EXCEPT !.over = over]
  <2>2. Moves(r, Done) /\ r \in AtStep("license")
    BY <1>3, AtIsInService DEF InsertLicense, Ends, Moves, AtStep
  <2>3. AtStep("license")' = AtStep("license") \ {r} /\ r \notin Finished
    BY <2>2, MovesEffect
  <2>4. n.id = r /\ n.active /\ n.over = over /\ ~n.edited
    BY DEF License
  <2> HIDE DEF n
  <2>5. n \notin licenses
    BY <2>3, <2>4 DEF LicensesInv
  <2>6. CASE over
    <3>1. Counting' = Counting
      BY <2>1, <2>4, <2>6 DEF Counting, Counts, n
    <3>2. Cardinality(Counting') = Cardinality(Counting)
      BY <3>1
    <3> QED
      BY <2>2, <2>3, <3>2 DEF Counting, OneLicense!Next, OneLicense!GiveUp
  <2>7. CASE ~over
    <3>1. Counting' = Counting \union {n} /\ n \notin Counting
      BY <2>1, <2>4, <2>5, <2>7 DEF Counting, Counts, n
    <3>2. Cardinality(Counting') = Cardinality(Counting) + 1
      BY <1>1, <3>1, Added
    <3> QED
      BY <2>2, <2>3, <3>2 DEF Counting, OneLicense!Next, OneLicense!Insert
  <2> QED
    BY <2>6, <2>7
<1>4. ASSUME NEW l \in licenses, UpdateLicense(r, l) PROVE [OneLicense!Next]_OneLicense!vars
  <2>1. PICK active \in BOOLEAN, over \in BOOLEAN :
            licenses' = (licenses \ {l}) \union {[id |-> l.id, active |-> active, over |-> over, edited |-> TRUE]}
    BY <1>4 DEF UpdateLicense
  <2>2. AtStep("license")' = AtStep("license")
    BY <1>4, Passes DEF UpdateLicense, Whole, Ends
  <2> QED
    BY <2>1, <2>2, NoMoreCounting
<1> QED
  BY <1>2, <1>3, <1>4 DEF LicensesNext

(***************************************************************************)
(* One row for a client, one for a permission of a role.                   *)
(***************************************************************************)
LEMMA NoClientMoves ==
  ASSUME UNCHANGED clients, NEW r \in Requests,
         AtStep("client")' = AtStep("client") \ {r} \/ AtStep("client")' = AtStep("client")
  PROVE  [OneClient!Next]_OneClient!vars
<1>1. CASE r \in AtStep("client") /\ AtStep("client")' = AtStep("client") \ {r}
  BY <1>1 DEF OneClient!Next, OneClient!GiveUp
<1>2. CASE AtStep("client")' = AtStep("client")
  BY <1>2 DEF OneClient!vars
<1> QED
  BY <1>1, <1>2

LEMMA ClientsRefine ==
  ASSUME TenancyInv, TenancyInv', NEW r \in Requests, CreditsNext(r)
  PROVE  [OneClient!Next]_OneClient!vars
<1> USE StepsDiffer DEF TenancyInv
<1>1. IsFiniteSet(clients) /\ OneOfEachId(clients) /\ clients \subseteq ClientType
  BY DEF CreditsInv, ClientType
<1>2. CASE (\E p \in Practitioners, n \in Amounts : Allocate(r, p, n)) \/ ReadBalance(r) \/ CommitAllocation(r)
  <2>1. UNCHANGED clients
    BY <1>2 DEF Allocate, ReadBalance, CommitAllocation, creditVars
  <2>2. \E v : Moves(r, v) /\ v.step # "client"
    <3>1. ASSUME NEW p \in Practitioners, NEW n \in Amounts, Allocate(r, p, n)
          PROVE  \E v : Moves(r, v) /\ v.step # "client"
      BY <3>1 DEF Allocate, Moves
    <3>2. CASE ReadBalance(r)
      BY <3>2, AtIsInService DEF ReadBalance, Moves
    <3>3. CASE CommitAllocation(r)
      BY <3>3, AtIsInService DEF CommitAllocation, Ends, Moves
    <3> QED
      BY <1>2, <3>1, <3>2, <3>3
  <2>3. AtStep("client")' = AtStep("client") \ {r}
    BY <2>2, MovesEffect
  <2> QED
    BY <2>1, <2>3, NoClientMoves
<1>3. CASE AddClient(r)
  <2>1. clients = {} /\ UNCHANGED clients /\ TakenUp(r) /\ Goes(r, [step |-> "client"])
    BY <1>3 DEF AddClient, creditVars
  <2>2. /\ r \notin AtStep("client") /\ Cardinality(AtStep("client")) < Threads
        /\ AtStep("client")' = AtStep("client") \union {r}
    BY <2>1, Passes
  <2>3. Cardinality(clients) = 0 /\ Cardinality(clients') = Cardinality(clients)
    BY <2>1, FS_EmptySet
  <2> QED
    BY <2>2, <2>3, SameTable DEF OneClient!Next, OneClient!Pass
<1>4. CASE InsertClient(r)
  <2> DEFINE row == [id |-> r, active |-> TRUE]
  <2>1. Moves(r, Done) /\ r \in AtStep("client") /\ clients' = clients \union {row}
    BY <1>4, AtIsInService DEF InsertClient, Ends, Moves, AtStep
  <2>2. AtStep("client")' = AtStep("client") \ {r} /\ r \notin Finished
    BY <2>1, MovesEffect
  <2>3. row \notin clients
    BY <1>1, <2>2 DEF ClientType
  <2> HIDE DEF row
  <2>4. Cardinality(clients') = Cardinality(clients) + 1
    BY <1>1, <2>1, <2>3, Added
  <2> QED
    BY <2>1, <2>2, <2>4 DEF OneClient!Next, OneClient!Insert
<1>5. ASSUME NEW c \in clients, UpdateClient(r, c) PROVE [OneClient!Next]_OneClient!vars
  <2> DEFINE row == [c EXCEPT !.active = ~@]
  <2>1. clients' = (clients \ {c}) \union {row} /\ AtStep("client")' = AtStep("client")
    BY <1>5, Passes DEF UpdateClient, Whole, Ends
  <2>2. row.id = c.id
    BY <1>1 DEF ClientType
  <2> HIDE DEF row
  <2>3. row \notin clients \ {c}
    BY <1>1, <2>2 DEF OneOfEachId
  <2>4. Cardinality(clients') = Cardinality(clients)
    BY <1>1, <2>1, <2>3, Replaced
  <2> QED
    BY <2>1, <2>4 DEF OneClient!vars
<1> QED
  BY <1>2, <1>3, <1>4, <1>5 DEF CreditsNext

LEMMA NoGrantMoves ==
  ASSUME UNCHANGED grants, NEW r \in Requests,
         AtStep("grant")' = AtStep("grant") \ {r} \/ AtStep("grant")' = AtStep("grant")
  PROVE  [OneGrant!Next]_OneGrant!vars
<1>1. CASE r \in AtStep("grant") /\ AtStep("grant")' = AtStep("grant") \ {r}
  BY <1>1 DEF OneGrant!Next, OneGrant!GiveUp
<1>2. CASE AtStep("grant")' = AtStep("grant")
  BY <1>2 DEF OneGrant!vars
<1> QED
  BY <1>1, <1>2

LEMMA GrantsRefine ==
  ASSUME TenancyInv, TenancyInv', NEW r \in Requests, RolesNext(r)
  PROVE  [OneGrant!Next]_OneGrant!vars
<1> USE StepsDiffer DEF TenancyInv
<1>1. grants \subseteq Finished /\ IsFiniteSet(grants)
  BY FinishedFinite DEF RolesInv
<1>2. CASE MakeRole(r) \/ LookUpRole(r) \/ CreateRole(r) \/ \E x \in roles : UpdateRole(r, x) \/ DeleteRole(r, x)
  <2>1. UNCHANGED grants
    BY <1>2 DEF MakeRole, LookUpRole, CreateRole, UpdateRole, DeleteRole, roleVars
  <2>2. \E v : Moves(r, v) /\ v.step # "grant"
    <3>1. CASE MakeRole(r)
      BY <3>1, AtIsInService DEF MakeRole, Moves, Calls, MakesRole, Promotes, Changes
    <3>2. CASE LookUpRole(r)
      <4> DEFINE v == IF Named = {} THEN [step |-> "makeRole", next |-> Done] ELSE Done
      <4>1. Moves(r, v) /\ v.step # "grant"
        BY <3>2 DEF LookUpRole, WithRole, Moves
      <4> QED
        BY <4>1
    <3>3. CASE Whole(r)
      BY <3>3 DEF Whole, Ends, Moves
    <3> QED
      BY <1>2, <3>1, <3>2, <3>3 DEF CreateRole, UpdateRole, DeleteRole
  <2>3. AtStep("grant")' = AtStep("grant") \ {r}
    BY <2>2, MovesEffect
  <2> QED
    BY <2>1, <2>3, NoGrantMoves
<1>3. CASE AssignPermission(r)
  <2>1. grants = {} /\ UNCHANGED grants /\ TakenUp(r) /\ Goes(r, [step |-> "grant"])
    BY <1>3 DEF AssignPermission, roleVars
  <2>2. /\ r \notin AtStep("grant") /\ Cardinality(AtStep("grant")) < Threads
        /\ AtStep("grant")' = AtStep("grant") \union {r}
    BY <2>1, Passes
  <2>3. Cardinality(grants) = 0 /\ Cardinality(grants') = Cardinality(grants)
    BY <2>1, FS_EmptySet
  <2> QED
    BY <2>2, <2>3, SameTable DEF OneGrant!Next, OneGrant!Pass
<1>4. CASE Grant(r)
  <2>1. Moves(r, Done) /\ r \in AtStep("grant") /\ grants' = grants \union {r}
    BY <1>4, AtIsInService DEF Grant, Ends, Moves, AtStep
  <2>2. AtStep("grant")' = AtStep("grant") \ {r} /\ r \notin grants
    BY <1>1, <2>1, MovesEffect
  <2>3. Cardinality(grants') = Cardinality(grants) + 1
    BY <1>1, <2>1, <2>2, Added
  <2> QED
    BY <2>1, <2>2, <2>3 DEF OneGrant!Next, OneGrant!Insert
<1>5. ASSUME NEW g \in grants, RemovePermission(r, g) PROVE [OneGrant!Next]_OneGrant!vars
  <2>1. grants' = grants \ {g} /\ AtStep("grant")' = AtStep("grant")
    BY <1>5, Passes DEF RemovePermission, Whole, Ends
  <2>2. Cardinality(grants \ {g}) \in Nat /\ Cardinality(grants \ {g}) < Cardinality(grants)
    BY <1>1, OneLess
  <2> QED
    BY <2>1, <2>2 DEF OneGrant!Next, OneGrant!Remove
<1> QED
  BY <1>2, <1>3, <1>4, <1>5 DEF RolesNext

(***************************************************************************)
(* Every step, to each of the four.                                        *)
(***************************************************************************)
Refines ==
    /\ [TwoBusinesses!Next]_TwoBusinesses!vars
    /\ [OneLicense!Next]_OneLicense!vars
    /\ [OneClient!Next]_OneClient!vars
    /\ [OneGrant!Next]_OneGrant!vars

LEMMA LimitsInit == Init => TwoBusinesses!Init /\ OneLicense!Init /\ OneClient!Init /\ OneGrant!Init
<1> SUFFICES ASSUME Init PROVE TwoBusinesses!Init /\ OneLicense!Init /\ OneClient!Init /\ OneGrant!Init
  OBVIOUS
<1>1. \A s : s # "new" => AtStep(s) = {}
  BY StepsDiffer DEF Init, AtStep, At
<1>2. Cardinality({}) = 0 /\ \A x : Cardinality({x}) = 1
  BY FS_EmptySet, FS_Singleton
<1>3. Cardinality(LiveBusinesses) \in 0..2
  <2>1. biz = {} \/ biz = {Business(First)}
    BY DEF Init, OrganizationsInit
  <2>2. LiveBusinesses = biz
    BY <2>1 DEF LiveBusinesses, Business
  <2> QED
    BY <1>2, <2>1, <2>2
<1>4. {l \in licenses : Counts(l) /\ ~l.edited} = {} /\ clients = {} /\ grants = {}
  BY DEF Init, LicensesInit, CreditsInit, RolesInit
<1>5. /\ Cardinality({l \in licenses : Counts(l) /\ ~l.edited}) \in 0..1
      /\ Cardinality(clients) \in 0..1 /\ Cardinality(grants) \in 0..1
  BY <1>2, <1>4
<1>6. AtStep("business") = {} /\ AtStep("license") = {} /\ AtStep("client") = {} /\ AtStep("grant") = {}
  BY <1>1
<1> QED
  BY <1>3, <1>5, <1>6 DEF TwoBusinesses!Init, OneLicense!Init, OneClient!Init, OneGrant!Init

\* What leaves a table and those who have passed its check alone.
LEMMA NothingRefines ==
  ASSUME req' = req
  PROVE  /\ UNCHANGED biz => [TwoBusinesses!Next]_TwoBusinesses!vars
         /\ UNCHANGED licenses => [OneLicense!Next]_OneLicense!vars
         /\ UNCHANGED clients => [OneClient!Next]_OneClient!vars
         /\ UNCHANGED grants => [OneGrant!Next]_OneGrant!vars
<1>1. \A s : AtStep(s)' = AtStep(s)
  BY NothingMoves
<1>2. UNCHANGED biz => Cardinality(LiveBusinesses)' = Cardinality(LiveBusinesses)
  BY DEF LiveBusinesses
<1>3. UNCHANGED licenses => Cardinality({l \in licenses : Counts(l) /\ ~l.edited})' =
                            Cardinality({l \in licenses : Counts(l) /\ ~l.edited})
  BY DEF Counts
<1> QED
  BY <1>1, <1>2, <1>3 DEF TwoBusinesses!vars, OneLicense!vars, OneClient!vars, OneGrant!vars

LEMMA TimeRefines ==
  ASSUME TenancyInv, TenancyInv', TimeNext
  PROVE  [OneLicense!Next]_OneLicense!vars
<1>1. PICK l \in licenses : licenses' = (licenses \ {l}) \union {[l EXCEPT !.over = TRUE]}
  BY DEF TimeNext, LicenseEnds
<1>2. [l EXCEPT !.over = TRUE].over
  BY DEF TenancyInv, LicensesInv
<1>3. AtStep("license")' = AtStep("license")
  BY NothingMoves DEF TimeNext
<1> QED
  BY <1>1, <1>2, <1>3, NoMoreCounting

LEMMA LimitsNext == TenancyInv /\ TenancyInv' /\ [Next]_vars => Refines
<1> SUFFICES ASSUME TenancyInv, TenancyInv', [Next]_vars PROVE Refines
  OBVIOUS
<1> USE DEF Refines
<1>1. ASSUME NEW r \in Requests, RolesNext(r), UNCHANGED <<orgVars, licenses, creditVars>> PROVE Refines
  <2>1. UNCHANGED biz /\ UNCHANGED licenses /\ UNCHANGED clients
    BY <1>1 DEF orgVars, creditVars
  <2>2. /\ AtStep("business")' = AtStep("business") \ {r}
        /\ AtStep("license")' = AtStep("license") \ {r}
        /\ AtStep("client")' = AtStep("client") \ {r}
    BY <1>1, OthersLeave
  <2> QED
    BY <1>1, <2>1, <2>2, GrantsRefine, NoBusinessMoves, NoLicenseMoves, NoClientMoves
<1>2. ASSUME NEW r \in Requests, OrganizationsNext(r), UNCHANGED <<roleVars, licenses, creditVars>> PROVE Refines
  <2>1. UNCHANGED grants /\ UNCHANGED licenses /\ UNCHANGED clients
    BY <1>2 DEF roleVars, creditVars
  <2>2. /\ AtStep("grant")' = AtStep("grant") \ {r}
        /\ AtStep("license")' = AtStep("license") \ {r}
        /\ AtStep("client")' = AtStep("client") \ {r}
    BY <1>2, OthersLeave, OrganizationsSplit
  <2>3. [TwoBusinesses!Next]_TwoBusinesses!vars
    <3>1. CASE BusinessesNext(r)
      BY <3>1, BusinessesRefine
    <3>2. CASE AssignedNext(r) \/ AccessNext(r) \/ MembersNext(r)
      <4>1. UNCHANGED biz
        BY <3>2 DEF AssignedNext, AssignAgent, CommitAssignment, RemoveAgent, AccessNext, GiveAccess, InsertAccess,
                    RemoveAccess, MembersNext, InvitePromoted, InviteAdmin, CreateProfile, CreateEntry,
                    ChangeUserRole, CommitRole, orgVars
      <4>2. AtStep("business")' = AtStep("business") \ {r}
        BY <3>2, OthersLeave
      <4> QED
        BY <4>1, <4>2, NoBusinessMoves
    <3> QED
      BY <1>2, <3>1, <3>2, OrganizationsSplit
  <2> QED
    BY <2>1, <2>2, <2>3, NoGrantMoves, NoLicenseMoves, NoClientMoves
<1>3. ASSUME NEW r \in Requests, LicensesNext(r), UNCHANGED <<roleVars, orgVars, creditVars>> PROVE Refines
  <2>1. UNCHANGED biz /\ UNCHANGED grants /\ UNCHANGED clients
    BY <1>3 DEF orgVars, roleVars, creditVars
  <2>2. /\ AtStep("business")' = AtStep("business") \ {r}
        /\ AtStep("grant")' = AtStep("grant") \ {r}
        /\ AtStep("client")' = AtStep("client") \ {r}
    BY <1>3, OthersLeave
  <2> QED
    BY <1>3, <2>1, <2>2, LicensesRefine, NoBusinessMoves, NoGrantMoves, NoClientMoves
<1>4. ASSUME NEW r \in Requests, CreditsNext(r), UNCHANGED <<roleVars, orgVars, licenses>> PROVE Refines
  <2>1. UNCHANGED biz /\ UNCHANGED grants /\ UNCHANGED licenses
    BY <1>4 DEF orgVars, roleVars
  <2>2. /\ AtStep("business")' = AtStep("business") \ {r}
        /\ AtStep("grant")' = AtStep("grant") \ {r}
        /\ AtStep("license")' = AtStep("license") \ {r}
    BY <1>4, OthersLeave
  <2> QED
    BY <1>4, <2>1, <2>2, ClientsRefine, NoBusinessMoves, NoGrantMoves, NoLicenseMoves
<1>5. ASSUME NEW r \in Requests, RolledBack(r), UNCHANGED <<roleVars, orgVars, licenses, creditVars>> PROVE Refines
  <2>1. UNCHANGED biz /\ UNCHANGED grants /\ UNCHANGED licenses /\ UNCHANGED clients
    BY <1>5 DEF orgVars, roleVars, creditVars
  <2>2. /\ AtStep("business")' = AtStep("business") \ {r}
        /\ AtStep("grant")' = AtStep("grant") \ {r}
        /\ AtStep("license")' = AtStep("license") \ {r}
        /\ AtStep("client")' = AtStep("client") \ {r}
    BY <1>5, OthersLeave
  <2> QED
    BY <2>1, <2>2, NoBusinessMoves, NoGrantMoves, NoLicenseMoves, NoClientMoves
<1>6. CASE UsersNext /\ UNCHANGED <<roleVars, licenses, creditVars>>
  <2>1. UNCHANGED req /\ UNCHANGED biz /\ UNCHANGED grants /\ UNCHANGED licenses /\ UNCHANGED clients
    BY <1>6 DEF UsersNext, Accept, DeleteUser, roleVars, creditVars
  <2> QED
    BY <2>1, NothingRefines
<1>7. CASE TimeNext /\ UNCHANGED <<roleVars, orgVars, creditVars>>
  <2>1. UNCHANGED req /\ UNCHANGED biz /\ UNCHANGED grants /\ UNCHANGED clients
    BY <1>7 DEF TimeNext, roleVars, orgVars, creditVars
  <2> QED
    BY <1>7, <2>1, NothingRefines, TimeRefines
<1>8. CASE UNCHANGED vars
  <2>1. UNCHANGED req /\ UNCHANGED biz /\ UNCHANGED grants /\ UNCHANGED licenses /\ UNCHANGED clients
    BY <1>8 DEF vars, roleVars, orgVars, creditVars
  <2> QED
    BY <2>1, NothingRefines
<1> QED
  BY <1>1, <1>2, <1>3, <1>4, <1>5, <1>6, <1>7, <1>8 DEF Next

\* Each table whose limit only its handlers check behaves as CheckThenInsert
\* says, whatever all the other requests do; and what has no row of its own to
\* count (the assignments of an agent, the access of a business, the tones of an
\* assignment, the administrators of the organization) is exceeded by requests
\* that overlapped, and by no others.
THEOREM LimitsKept == Spec => LimitsAreChecked
<1>1. Spec => TwoBusinesses!Spec
  BY LimitsInit, LimitsNext, TenancyHolds, PTL DEF Spec, Refines, TwoBusinesses!Spec
<1>2. Spec => OneLicense!Spec
  BY LimitsInit, LimitsNext, TenancyHolds, PTL DEF Spec, Refines, OneLicense!Spec
<1>3. Spec => OneClient!Spec
  BY LimitsInit, LimitsNext, TenancyHolds, PTL DEF Spec, Refines, OneClient!Spec
<1>4. Spec => OneGrant!Spec
  BY LimitsInit, LimitsNext, TenancyHolds, PTL DEF Spec, Refines, OneGrant!Spec
<1>5. Spec => [](AssignmentsOverlapOnly /\ OneAdminUnlessOverlapped)
  BY OverlapsOnly, TenancyHolds, PTL
<1> QED
  BY <1>1, <1>2, <1>3, <1>4, <1>5 DEF LimitsAreChecked

(***************************************************************************)
(* What CheckThenInsert promises.                                          *)
(***************************************************************************)
\* A step of a table with any limit: n rows and those in A become k rows and
\* those in B.
LEMMA OverlapCounts ==
  ASSUME NEW limit \in Nat, NEW n \in Nat, NEW A, IsFiniteSet(A), NEW k, NEW B,
         n + Cardinality(A) <= limit - 1 + Threads,
         \/ n = 0 /\ A = {} /\ k \in 1..limit /\ B = A
         \/ \E r : r \notin A /\ n < limit /\ Cardinality(A) < Threads /\ B = A \union {r} /\ k = n
         \/ \E r : r \in A /\ B = A \ {r} /\ k \in {n, n + 1}
         \/ k \in Nat /\ k < n /\ B = A
         \/ k = n /\ B = A
  PROVE  k + Cardinality(B) <= limit - 1 + Threads
<1> USE RequestsAssumption
<1>1. Cardinality(A) \in Nat
  BY FS_CardinalityType
<1>2. CASE n = 0 /\ A = {} /\ k \in 1..limit /\ B = A
  BY <1>2, FS_EmptySet
<1>3. ASSUME NEW r, r \notin A, n < limit, Cardinality(A) < Threads, B = A \union {r}, k = n
      PROVE  k + Cardinality(B) <= limit - 1 + Threads
  <2>1. Cardinality(B) = Cardinality(A) + 1
    BY <1>3, Added
  <2> QED
    BY <1>1, <1>3, <2>1
<1>4. ASSUME NEW r, r \in A, B = A \ {r}, k \in {n, n + 1}
      PROVE  k + Cardinality(B) <= limit - 1 + Threads
  <2>1. Cardinality(B) = Cardinality(A) - 1
    BY <1>4, OneLess
  <2> QED
    BY <1>1, <1>4, <2>1
<1>5. CASE k \in Nat /\ k < n /\ B = A
  BY <1>1, <1>5
<1> QED
  BY <1>1, <1>2, <1>3, <1>4, <1>5

LimitsExceeded ==
    /\ TwoBusinesses!Exceeded
    /\ OneLicense!Exceeded
    /\ OneClient!Exceeded
    /\ OneGrant!Exceeded

LEMMA TablesCounted ==
  ASSUME TenancyInv
  PROVE  /\ \A s \in {"business", "license", "client", "grant"} : IsFiniteSet(AtStep(s))
         /\ Cardinality(LiveBusinesses) \in Nat
         /\ Cardinality({l \in licenses : Counts(l) /\ ~l.edited}) \in Nat
         /\ Cardinality(clients) \in Nat
         /\ Cardinality(grants) \in Nat
<1>1. \A s \in {"business", "license", "client", "grant"} : IsFiniteSet(AtStep(s))
  BY InServiceOf, InServiceFinite, Smaller
<1>2. IsFiniteSet(licenses) /\ IsFiniteSet(clients) /\ IsFiniteSet(grants)
  BY FinishedFinite DEF TenancyInv, LicensesInv, CreditsInv, RolesInv
<1>3. {l \in licenses : Counts(l) /\ ~l.edited} \subseteq licenses
  OBVIOUS
<1> QED
  BY <1>1, <1>2, <1>3, LiveCounted, Smaller

\* The limits are exceeded by requests that overlapped alone, and by at most one
\* row for each thread but one: the rows and those about to add one are together
\* at most Limit - 1 + Threads, however many requests there are.
THEOREM OverlapExceeds == Spec => []LimitsExceeded
<1>1. Init => LimitsExceeded
  <2> SUFFICES ASSUME Init PROVE LimitsExceeded
    OBVIOUS
  <2>1. \A s : s # "new" => AtStep(s) = {}
    BY StepsDiffer DEF Init, AtStep, At
  <2>2. AtStep("business") = {} /\ AtStep("license") = {} /\ AtStep("client") = {} /\ AtStep("grant") = {}
    BY <2>1
  <2>3. /\ Cardinality(LiveBusinesses) \in 0..2 /\ Cardinality(clients) \in 0..1 /\ Cardinality(grants) \in 0..1
        /\ Cardinality({l \in licenses : Counts(l) /\ ~l.edited}) \in 0..1
    BY LimitsInit DEF TwoBusinesses!Init, OneLicense!Init, OneClient!Init, OneGrant!Init
  <2> QED
    BY <2>2, <2>3, SameTable, FS_EmptySet, RequestsAssumption
       DEF LimitsExceeded, TwoBusinesses!Exceeded, OneLicense!Exceeded, OneClient!Exceeded, OneGrant!Exceeded
<1>2. TenancyInv /\ Refines /\ LimitsExceeded => LimitsExceeded'
  <2> SUFFICES ASSUME TenancyInv, Refines, LimitsExceeded PROVE LimitsExceeded'
    OBVIOUS
  <2>1. TwoBusinesses!Exceeded'
    BY TablesCounted, SameTable, OverlapCounts, RequestsAssumption
       DEF Refines, LimitsExceeded, TwoBusinesses!Exceeded, TwoBusinesses!Next, TwoBusinesses!vars, TwoBusinesses!Fill,
           TwoBusinesses!Pass, TwoBusinesses!Insert, TwoBusinesses!GiveUp, TwoBusinesses!Remove
  <2>2. OneLicense!Exceeded'
    BY TablesCounted, SameTable, OverlapCounts, RequestsAssumption
       DEF Refines, LimitsExceeded, OneLicense!Exceeded, OneLicense!Next, OneLicense!vars, OneLicense!Fill,
           OneLicense!Pass, OneLicense!Insert, OneLicense!GiveUp, OneLicense!Remove
  <2>3. OneClient!Exceeded'
    BY TablesCounted, SameTable, OverlapCounts, RequestsAssumption
       DEF Refines, LimitsExceeded, OneClient!Exceeded, OneClient!Next, OneClient!vars, OneClient!Fill,
           OneClient!Pass, OneClient!Insert, OneClient!GiveUp, OneClient!Remove
  <2>4. OneGrant!Exceeded'
    BY TablesCounted, SameTable, OverlapCounts, RequestsAssumption
       DEF Refines, LimitsExceeded, OneGrant!Exceeded, OneGrant!Next, OneGrant!vars, OneGrant!Fill,
           OneGrant!Pass, OneGrant!Insert, OneGrant!GiveUp, OneGrant!Remove
  <2> QED
    BY <2>1, <2>2, <2>3, <2>4 DEF LimitsExceeded
<1> QED
  BY <1>1, <1>2, LimitsNext, TenancyHolds, PTL DEF Spec
=============================================================================
