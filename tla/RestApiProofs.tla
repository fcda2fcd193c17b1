---------------------------- MODULE RestApiProofs ----------------------------
(***************************************************************************)
(* Proofs about the REST interface. The parts share the table of the       *)
(* requests, so that each has an invariant of its own, an induction step for *)
(* what its handlers do, and the lemma that what they do to the table keeps *)
(* the requests in service at most Threads. The last section puts the parts *)
(* together: the part a behaviour follows keeps its invariant, and the others *)
(* stay as they began.                                                     *)
(***************************************************************************)
EXTENDS RestApi, FiniteSetTheorems, TLAPS

(***************************************************************************)
(* The table of the requests.                                              *)
(***************************************************************************)
\* The table of the requests has an entry for each, and no more of them are in
\* service than there are threads.
Served ==
    /\ DOMAIN req = Requests
    /\ Cardinality(InService) <= Threads

\* What happens to the table: a request in service goes on, or a new one is taken up.
OneGoes == \E r \in Requests : \E v : Goes(r, v) /\ (TakenUp(r) \/ r \in InService)

\* Only the entry of the request changes.
LEMMA GoesEffect ==
  ASSUME DOMAIN req = Requests, NEW r \in Requests, NEW v, Goes(r, v)
  PROVE  /\ DOMAIN req' = Requests
         /\ req'[r] = v
         /\ \A q \in Requests : q # r => req'[q] = req[q]
BY DEF Goes

LEMMA StepsDiffer == New # Done /\ New.step = "new" /\ Done.step = "done"
BY DEF New, Done

\* Requests at a step of their handlers are in service.
LEMMA AtIsInService ==
  ASSUME NEW r \in Requests, NEW s, At(r, s), s # "new", s # "done"
  PROVE  r \in InService
BY StepsDiffer DEF At, InService

LEMMA InServiceFinite == IsFiniteSet(InService) /\ Cardinality(InService) \in Nat
BY RequestsAssumption, FS_Subset, FS_CardinalityType DEF InService

\* Whoever is in service is one of at most Threads.
LEMMA AtMostThreads ==
  ASSUME Served, NEW A, A \subseteq InService
  PROVE  IsFiniteSet(A) /\ Cardinality(A) \in Nat /\ Cardinality(A) <= Threads
<1>1. IsFiniteSet(A) /\ Cardinality(A) \in Nat /\ Cardinality(A) <= Cardinality(InService)
  BY InServiceFinite, FS_Subset, FS_CardinalityType
<1> QED
  BY <1>1, InServiceFinite, RequestsAssumption DEF Served

\* While a request is being taken up, there is still a thread for it.
LEMMA OneMoreThanInService ==
  ASSUME NEW r \in Requests, TakenUp(r), NEW A, A \subseteq InService \union {r}
  PROVE  IsFiniteSet(A) /\ Cardinality(A) \in Nat /\ Cardinality(A) <= Threads
<1>1. IsFiniteSet(InService \union {r})
      /\ Cardinality(InService \union {r}) \in {Cardinality(InService), Cardinality(InService) + 1}
  BY InServiceFinite, FS_AddElement
<1>2. IsFiniteSet(A) /\ Cardinality(A) \in Nat /\ Cardinality(A) <= Cardinality(InService \union {r})
  BY <1>1, FS_Subset, FS_CardinalityType
<1>3. Cardinality(InService) < Threads
  BY DEF TakenUp
<1> QED
  BY <1>1, <1>2, <1>3, InServiceFinite, RequestsAssumption

LEMMA ServedNext == Served /\ (OneGoes \/ UNCHANGED req) => Served'
<1>1. ASSUME Served, NEW r \in Requests, NEW v, Goes(r, v), TakenUp(r) \/ r \in InService
      PROVE  Served'
  <2>1. DOMAIN req' = Requests /\ InService' \subseteq InService \union {r}
    BY <1>1, GoesEffect DEF InService, Served
  <2>2. CASE TakenUp(r)
    BY <2>1, <2>2, OneMoreThanInService DEF Served
  <2>3. CASE r \in InService
    BY <2>1, <2>3, <1>1, AtMostThreads DEF Served
  <2> QED
    BY <1>1, <2>2, <2>3
<1>2. Served /\ UNCHANGED req => Served'
  BY DEF Served, InService
<1> QED
  BY <1>1, <1>2 DEF OneGoes

LEMMA DoneStays ==
  ASSUME Served, NEW r \in Requests, NEW v, Goes(r, v), TakenUp(r) \/ r \in InService
  PROVE  \A q \in Requests : req[q] = Done => req'[q] = Done
BY GoesEffect, StepsDiffer DEF Served, TakenUp, InService

LEMMA Fewer ==
  ASSUME NEW B, IsFiniteSet(B), Cardinality(B) <= Threads, NEW A, A \subseteq B
  PROVE  Cardinality(A) <= Threads
BY FS_Subset, FS_CardinalityType, RequestsAssumption

\* Records that differ have different ids: they are no more than the ids.
LEMMA ById ==
  ASSUME NEW A, IsFiniteSet(A),
         NEW S, \A x \in S : x.id \in A, \A x, y \in S : x.id = y.id => x = y
  PROVE  IsFiniteSet(S) /\ Cardinality(S) <= Cardinality(A)
<1> DEFINE id == [x \in S |-> x.id]
<1>1. id \in Injection(S, A)
  BY DEF Injection, IsInjective
<1> QED
  BY <1>1, FS_Injection

LEMMA ByIdBounded ==
  ASSUME NEW A, IsFiniteSet(A), Cardinality(A) <= Threads,
         NEW S, \A x \in S : x.id \in A, \A x, y \in S : x.id = y.id => x = y
  PROVE  Cardinality(S) <= Threads
<1>1. IsFiniteSet(S) /\ Cardinality(S) <= Cardinality(A)
  BY ById
<1> QED
  BY <1>1, FS_CardinalityType, RequestsAssumption

-----------------------------------------------------------------------------
(***************************************************************************)
(* The password that is kept twice.                                        *)
(***************************************************************************)
PasswordsInv ==
    /\ rowPassword = acknowledged
    /\ alone \subseteq Writing
    /\ \A r \in alone : Writing = {r} /\ poolPassword = req[r].password
    /\ PasswordsAgree

LEMMA PasswordsStart ==
  ASSUME req = [r \in Requests |-> New], PasswordsInit
  PROVE  PasswordsInv
BY StepsDiffer DEF PasswordsInit, PasswordsInv, PasswordsAgree, Writing, AtStep, At

LEMMA PasswordsServe == ASSUME PasswordsNext PROVE OneGoes \/ UNCHANGED req
<1>1. ASSUME NEW r \in Requests, NEW p, ResetPassword(r, p) \/ \E c \in PasswordSet : ChangePassword(r, c, p)
      PROVE  OneGoes
  BY <1>1 DEF ResetPassword, ChangePassword, OneGoes
<1>2. ASSUME NEW r \in Requests,
             RequestPasswordReset(r) \/ AdminSetUserPassword(r) \/ UpdateUserPassword(r) \/ PasswordFails(r)
      PROVE  OneGoes
  BY <1>2, AtIsInService
     DEF RequestPasswordReset, AdminSetUserPassword, UpdateUserPassword, PasswordFails, OneGoes,
         Whole, Ends, RolledBack
<1> QED
  BY <1>1, <1>2 DEF PasswordsNext, SetActive

LEMMA PasswordsStep ==
  ASSUME Served, PasswordsInv, PasswordsNext
  PROVE  PasswordsInv'
<1> USE DEF PasswordsInv, PasswordsAgree
<1>1. ASSUME NEW r \in Requests, NEW v, Goes(r, v), r \notin Writing, v.step # "set_row",
             UNCHANGED <<poolPassword, rowPassword, acknowledged, alone, mixed>>
      PROVE  PasswordsInv'
  <2>1. Writing' = Writing /\ \A q \in alone : req'[q] = req[q]
    BY <1>1, GoesEffect DEF Served, Writing, AtStep, At
  <2> QED
    BY <1>1, <2>1
<1>2. ASSUME NEW r \in Requests, NEW p,
             RequestPasswordReset(r) \/ ResetPassword(r, p) \/ \E c \in PasswordSet : ChangePassword(r, c, p)
      PROVE  PasswordsInv'
  <2>1. TakenUp(r) /\ r \notin Writing
    BY <1>2, StepsDiffer DEF RequestPasswordReset, ResetPassword, ChangePassword, Whole, TakenUp,
       Writing, AtStep, At
  <2>2. \E v : Goes(r, v) /\ v.step # "set_row"
    BY <1>2, StepsDiffer DEF RequestPasswordReset, ResetPassword, ChangePassword, Whole, Ends, ToPool
  <2> QED
    BY <1>1, <1>2, <2>1, <2>2
       DEF RequestPasswordReset, ResetPassword, ChangePassword, passwordVars
<1>3. ASSUME NEW r \in Requests, AdminSetUserPassword(r) PROVE PasswordsInv'
  <2> DEFINE v == [step |-> "set_row", password |-> req[r].password]
  <2>1. Goes(r, v) /\ v.step = "set_row"
    BY <1>3 DEF AdminSetUserPassword
  <2>2. Writing' = Writing \union {r} /\ req'[r] = v
    BY <2>1, GoesEffect DEF Served, Writing, AtStep, At
  <2> QED
    BY <1>3, <2>2 DEF AdminSetUserPassword
<1>4. ASSUME NEW r \in Requests, UpdateUserPassword(r) PROVE PasswordsInv'
  <2>1. Writing' = Writing \ {r} /\ r \in Writing /\ \A q \in alone \ {r} : req'[q] = req[q]
    BY <1>4, GoesEffect, StepsDiffer DEF UpdateUserPassword, Served, Writing, AtStep, At, Ends
  <2> QED
    BY <1>4, <2>1 DEF UpdateUserPassword
<1>5. ASSUME NEW r \in Requests, PasswordFails(r) PROVE PasswordsInv'
  <2>1. Writing' = Writing \ {r} /\ \A q \in alone \ {r} : req'[q] = req[q]
    BY <1>5, GoesEffect, StepsDiffer DEF PasswordFails, Served, Writing, AtStep, At, Ends, RolledBack
  <2>2. r \in Writing <=> At(r, "set_row")
    BY DEF Writing, AtStep
  <2> QED
    BY <1>5, <2>1, <2>2 DEF PasswordFails
<1>6. ASSUME SetActive PROVE PasswordsInv'
  BY <1>6 DEF SetActive, Writing, AtStep, At
<1> QED
  BY <1>2, <1>3, <1>4, <1>5, <1>6 DEF PasswordsNext

-----------------------------------------------------------------------------
(***************************************************************************)
(* Logins with another provider.                                           *)
(***************************************************************************)
\* Of each provider there is one identity at most, and what the logins
\* carry are identities.
SocialTyped ==
    /\ unsettled \in BOOLEAN
    /\ identities \subseteq Identities
    /\ user \in Identities \union {None}
    /\ \A i, j \in identities : i.provider = j.provider => i = j
    /\ \A r \in LoggingIn : req[r].who \in [provider : Providers, sub : Subs]
    /\ \A r \in AtStep("look_up") : req[r].found \in Identities \union {None}

\* Unless the row was purged during a login: Cognito has the identity of the row,
\* a login that has found a row has found this one, what it deletes is
\* of another provider, and what it will create a row for is there.
Settled ==
    /\ user # None => user \in identities
    /\ \A r \in AtStep("look_up") : req[r].found # None => req[r].found = user
    /\ \A r \in AtStep("delete") : user # None /\ user.provider # req[r].who.provider
    /\ \A r \in AtStep("create") : user = None => req[r].who \in identities

SocialInv ==
    /\ SocialTyped
    /\ ~unsettled => Settled
    /\ TokensNameUser

LEMMA SocialStart ==
  ASSUME req = [r \in Requests |-> New], SocialInit
  PROVE  SocialInv
<1>1. AtStep("find") = {} /\ AtStep("look_up") = {} /\ AtStep("create") = {} /\ AtStep("delete") = {}
  BY StepsDiffer DEF AtStep, At
<1> QED
  BY <1>1 DEF SocialInit, SocialInv, SocialTyped, Settled, TokensNameUser, LoggingIn, Identities

LEMMA LoggingInServed == LoggingIn \subseteq InService
BY AtIsInService DEF LoggingIn, AtStep

LEMMA SocialServe == ASSUME SocialNext PROVE OneGoes \/ UNCHANGED req
<1>1. ASSUME NEW r \in Requests, NEW p \in Providers, Authorize(r, p)
      PROVE  OneGoes
  BY <1>1 DEF Authorize, OneGoes
<1>2. ASSUME NEW r \in Requests, At(r, "find") \/ At(r, "look_up") \/ At(r, "create") \/ At(r, "delete"),
             NEW v, Goes(r, v)
      PROVE  OneGoes
  BY <1>2, AtIsInService DEF OneGoes
<1>3. ASSUME NEW r \in Requests,
             FindUser(r) \/ LookUpIdentity(r) \/ DeleteIdentity(r) \/ CreateSocialUser(r)
      PROVE  OneGoes
  BY <1>2, <1>3 DEF FindUser, LookUpIdentity, DeleteIdentity, CreateSocialUser, Ends
<1>4. ASSUME NEW r \in Requests, SocialFails(r)
      PROVE  OneGoes
  BY <1>4 DEF SocialFails, RolledBack, Ends, OneGoes
<1> QED
  BY <1>1, <1>3, <1>4 DEF SocialNext, PurgeUser

\* The requests at each step of a login after one of them has gone on.
LEMMA LoginGoes ==
  ASSUME Served, NEW r \in Requests, NEW v, Goes(r, v)
  PROVE  /\ req'[r] = v
         /\ \A q \in Requests : q # r => req'[q] = req[q]
         /\ \A s \in {"find", "look_up", "create", "delete"} :
               AtStep(s)' = IF v.step = s THEN AtStep(s) \union {r} ELSE AtStep(s) \ {r}
BY GoesEffect DEF Served, AtStep, At

LEMMA SocialStep ==
  ASSUME Served, SocialInv, SocialNext
  PROVE  SocialInv'
<1> USE SocialAssumption DEF SocialInv, SocialTyped, Settled, TokensNameUser
<1>0. AtStep("find") \subseteq LoggingIn /\ AtStep("look_up") \subseteq LoggingIn
      /\ AtStep("create") \subseteq LoggingIn /\ AtStep("delete") \subseteq LoggingIn
      /\ LoggingIn \subseteq Requests
  BY DEF LoggingIn, AtStep
<1>a. ASSUME NEW r \in Requests, NEW s, At(r, s), s \in {"find", "look_up", "create", "delete"}
      PROVE  r \in AtStep(s) /\ r \in LoggingIn
  BY <1>a DEF LoggingIn, AtStep
<1>1. ASSUME NEW r \in Requests, NEW p \in Providers, Authorize(r, p) PROVE SocialInv'
  <2>1. PICK i \in [provider : {p}, sub : Subs] :
           /\ i \in identities \/ \A j \in identities : j.provider # p
           /\ identities' = identities \union {i}
           /\ Goes(r, [step |-> "find", who |-> i])
    BY <1>1 DEF Authorize
  <2>2. i \in [provider : Providers, sub : Subs] /\ i \in Identities /\ i.provider = p
    BY <2>1 DEF Identities
  <2>3. /\ \A q \in LoggingIn' : q # r => q \in LoggingIn
        /\ \A s \in {"look_up", "create", "delete"} : AtStep(s)' = AtStep(s) \ {r}
        /\ req'[r].who = i /\ \A q \in Requests : q # r => req'[q] = req[q]
    BY <2>1, LoginGoes DEF LoggingIn
  <2>4. UNCHANGED <<user, handed, unsettled>>
    BY <1>1 DEF Authorize
  <2>5. \A j, k \in identities' : j.provider = k.provider => j = k
    BY <2>1, <2>2
  <2>6. SocialTyped'
    BY <1>0, <2>1, <2>2, <2>3, <2>4, <2>5 DEF LoggingIn
  <2> QED
    BY <1>0, <2>1, <2>3, <2>4, <2>6
<1>2. ASSUME NEW r \in Requests, FindUser(r) PROVE SocialInv'
  <2>0. PICK found \in {user, None} : Goes(r, [step |-> "look_up", who |-> req[r].who, found |-> found])
    BY <1>2 DEF FindUser
  <2> DEFINE v == [step |-> "look_up", who |-> req[r].who, found |-> found]
  <2>1. Goes(r, v) /\ r \in LoggingIn /\ UNCHANGED socialVars
    BY <1>2, <1>a, <2>0 DEF FindUser
  <2>2. /\ LoggingIn' = LoggingIn
        /\ AtStep("look_up")' = AtStep("look_up") \union {r}
        /\ \A s \in {"create", "delete"} : AtStep(s)' = AtStep(s) \ {r}
        /\ req'[r] = v /\ \A q \in Requests : q # r => req'[q] = req[q]
    BY <2>1, LoginGoes DEF LoggingIn
  <2> QED
    BY <1>0, <2>1, <2>2 DEF socialVars
<1>b. ASSUME NEW r \in Requests, Goes(r, Done)
      PROVE  /\ LoggingIn' \subseteq LoggingIn /\ r \notin LoggingIn'
             /\ \A s \in {"find", "look_up", "create", "delete"} : AtStep(s)' = AtStep(s) \ {r}
             /\ \A q \in Requests : q # r => req'[q] = req[q]
  BY <1>b, LoginGoes, StepsDiffer DEF LoggingIn
<1>3. ASSUME NEW r \in Requests, LookUpIdentity(r) PROVE SocialInv'
  <2> DEFINE who == req[r].who  found == req[r].found
  <2>0. r \in LoggingIn /\ r \in AtStep("look_up") /\ UNCHANGED <<identities, user, unsettled>>
        /\ who \in [provider : Providers, sub : Subs]
    BY <1>3, <1>a DEF LookUpIdentity
  <2>1. CASE Ends(r) /\ UNCHANGED handed
    BY <1>0, <1>b, <2>0, <2>1 DEF Ends
  <2>2. CASE who \in identities /\ found = None /\ UNCHANGED handed
             /\ Goes(r, [step |-> "create", who |-> who])
    <3>1. /\ LoggingIn' = LoggingIn
          /\ AtStep("create")' = AtStep("create") \union {r}
          /\ \A s \in {"look_up", "delete"} : AtStep(s)' = AtStep(s) \ {r}
          /\ req'[r].who = who /\ \A q \in Requests : q # r => req'[q] = req[q]
      BY <2>0, <2>2, LoginGoes DEF LoggingIn
    <3> QED
      BY <1>0, <2>0, <2>2, <3>1
  <2>3. CASE who \in identities /\ found # None /\ found.provider = who.provider
             /\ Ends(r) /\ HandTokens(who, found)
    <3>1. ~unsettled => found = user /\ user \in identities /\ who = user
      BY <2>0, <2>3
    <3>2. ~unsettled' => handed'.sub = handed'.user
      BY <2>0, <2>3, <3>1 DEF HandTokens
    <3> HIDE DEF who, found
    <3> QED
      BY <1>0, <1>b, <2>0, <2>3, <3>2 DEF Ends
  <2>4. CASE who \in identities /\ found # None /\ found.provider # who.provider
             /\ Goes(r, [step |-> "delete", who |-> who]) /\ UNCHANGED handed
    <3>1. /\ LoggingIn' = LoggingIn
          /\ AtStep("delete")' = AtStep("delete") \union {r}
          /\ \A s \in {"look_up", "create"} : AtStep(s)' = AtStep(s) \ {r}
          /\ req'[r].who = who /\ \A q \in Requests : q # r => req'[q] = req[q]
      BY <2>0, <2>4, LoginGoes DEF LoggingIn
    <3> QED
      BY <1>0, <2>0, <2>4, <3>1
  <2> QED
    BY <1>3, <2>1, <2>2, <2>3, <2>4 DEF LookUpIdentity
<1>4. ASSUME NEW r \in Requests, DeleteIdentity(r) PROVE SocialInv'
  BY <1>0, <1>4, <1>a, <1>b DEF DeleteIdentity, Ends
<1>5. ASSUME NEW r \in Requests, CreateSocialUser(r) PROVE SocialInv'
  <2>1. r \in LoggingIn /\ r \in AtStep("create") /\ Ends(r)
        /\ user = None /\ user' = req[r].who /\ UNCHANGED <<identities, unsettled>>
        /\ handed' = [sub |-> req[r].who.sub, user |-> req[r].who.sub]
    BY <1>5, <1>a DEF CreateSocialUser, HandTokens
  <2>2. req[r].who \in Identities
    BY <2>1 DEF Identities
  <2> QED
    BY <1>0, <1>b, <2>1, <2>2 DEF Ends
<1>6. ASSUME NEW r \in Requests, SocialFails(r) PROVE SocialInv'
  BY <1>0, <1>6, <1>b DEF SocialFails, RolledBack, Ends, socialVars
<1>7. ASSUME PurgeUser PROVE SocialInv'
  <2>1. LoggingIn' = LoggingIn /\ UNCHANGED <<req, handed>>
        /\ \A s \in {"find", "look_up", "create", "delete"} : AtStep(s)' = AtStep(s)
    BY <1>7 DEF PurgeUser, LoggingIn, AtStep, At
  <2>2. unsettled' \in BOOLEAN /\ (~unsettled' => ~unsettled /\ LoggingIn = {})
    BY <1>7 DEF PurgeUser
  <2>3. SocialTyped'
    BY <1>7, <2>1, <2>2 DEF PurgeUser
  <2> QED
    BY <1>0, <1>7, <2>1, <2>2, <2>3 DEF PurgeUser
<1> QED
  BY <1>1, <1>2, <1>3, <1>4, <1>5, <1>6, <1>7 DEF SocialNext

-----------------------------------------------------------------------------
(***************************************************************************)
(* The cache of the ids of users.                                          *)
(***************************************************************************)
\* An id read before a time may have ceased to be one only later.
StillAt(i, t) == gone[i] = None \/ t <= gone[i]

\* An id is that of one row at most, and that of none once it is gone.
UsersDistinct ==
    /\ clock \in Nat
    /\ users \in [Emails -> UserIds \union {None}]
    /\ gone \in [UserIds -> Nat \union {None}]
    /\ \A e, f \in Emails : users[e] # None /\ users[e] = users[f] => e = f
    /\ \A e \in Emails : users[e] # None => gone[users[e]] = None

\* What is kept was true when it was looked for, and is kept no longer than the
\* time to live from then.
CacheInv ==
    /\ UsersDistinct
    /\ DOMAIN cache = Emails
    /\ \A e \in Emails : cache[e] = None \/
          /\ cache[e].sub \in UserIds
          /\ cache[e].expires \in Nat
          /\ cache[e].expires <= clock + Ttl
          /\ gone[cache[e].sub] = None \/ cache[e].expires <= gone[cache[e].sub] + Ttl
    /\ \A r \in AtStep("query") \union AtStep("keep") :
          req[r].email \in Emails /\ req[r].since \in Nat /\ req[r].since <= clock
    /\ \A r \in AtStep("keep") : req[r].sub \in UserIds /\ StillAt(req[r].sub, req[r].since)
    /\ served # None =>
          /\ served.sub \in UserIds /\ served.at \in Nat /\ served.at <= clock
          /\ gone[served.sub] = None \/ served.at < gone[served.sub] + Ttl

LEMMA CacheFresh == ASSUME CacheInv PROVE ServedFresh
BY DEF CacheInv, ServedFresh

LEMMA CacheStart ==
  ASSUME req = [r \in Requests |-> New], CacheInit
  PROVE  CacheInv
<1>1. AtStep("query") = {} /\ AtStep("keep") = {}
  BY StepsDiffer DEF AtStep, At
<1> QED
  BY <1>1 DEF CacheInit, CacheInv, UsersDistinct

LEMMA CacheServe == ASSUME CacheNext PROVE OneGoes \/ UNCHANGED req
<1>1. ASSUME NEW r \in Requests, NEW e \in Emails, VerifyToken(r, e)
      PROVE  OneGoes
  BY <1>1 DEF VerifyToken, OneGoes, Ends
<1>2. ASSUME NEW r \in Requests, QueryUser(r) \/ Keep(r) \/ CacheFails(r)
      PROVE  OneGoes
  BY <1>2, AtIsInService DEF QueryUser, Keep, CacheFails, RolledBack, Ends, OneGoes
<1> QED
  BY <1>1, <1>2 DEF CacheNext, Remove, Create, Wait

LEMMA CacheGoes ==
  ASSUME Served, NEW r \in Requests, NEW v, Goes(r, v)
  PROVE  /\ req'[r] = v
         /\ \A q \in Requests : q # r => req'[q] = req[q]
         /\ \A s \in {"query", "keep"} :
               AtStep(s)' = IF v.step = s THEN AtStep(s) \union {r} ELSE AtStep(s) \ {r}
BY GoesEffect DEF Served, AtStep, At

LEMMA CacheStep ==
  ASSUME Served, CacheInv, CacheNext
  PROVE  CacheInv'
<1> USE CacheAssumption DEF CacheInv, UsersDistinct, StillAt
<1>0. AtStep("query") \subseteq Requests /\ AtStep("keep") \subseteq Requests
  BY DEF AtStep
<1>a. ASSUME NEW r \in Requests, Goes(r, Done)
      PROVE  /\ \A s \in {"query", "keep"} : AtStep(s)' = AtStep(s) \ {r}
             /\ \A q \in Requests : q # r => req'[q] = req[q]
  BY <1>a, CacheGoes, StepsDiffer
<1>1. ASSUME NEW r \in Requests, NEW e \in Emails, VerifyToken(r, e) PROVE CacheInv'
  <2> DEFINE v == [step |-> "query", email |-> e, since |-> clock]
  <2>0. UNCHANGED <<clock, users, gone, cache>>
    BY <1>1 DEF VerifyToken
  <2>1. CASE /\ e \in Cached /\ cache[e].expires > clock
             /\ Ends(r) /\ served' = [sub |-> cache[e].sub, at |-> clock]
    BY <1>0, <1>a, <2>0, <2>1 DEF Ends, Cached
  <2>2. CASE Goes(r, v) /\ UNCHANGED served
    <3>1. /\ AtStep("query")' = AtStep("query") \union {r}
          /\ AtStep("keep")' = AtStep("keep") \ {r}
          /\ req'[r] = v /\ \A q \in Requests : q # r => req'[q] = req[q]
      BY <2>2, CacheGoes
    <3> QED
      BY <1>0, <2>0, <2>2, <3>1
  <2> QED
    BY <1>1, <2>1, <2>2 DEF VerifyToken
<1>2. ASSUME NEW r \in Requests, QueryUser(r) PROVE CacheInv'
  <2> DEFINE v == [step |-> "keep", email |-> req[r].email,
                   sub |-> users[req[r].email], since |-> req[r].since]
  <2>0. UNCHANGED cacheVars /\ r \in AtStep("query")
    BY <1>2 DEF QueryUser, AtStep
  <2>1. CASE Ends(r)
    BY <1>0, <1>a, <2>0, <2>1 DEF Ends, cacheVars
  <2>2. CASE users[req[r].email] # None /\ Goes(r, v)
    <3>1. /\ AtStep("query")' = AtStep("query") \ {r}
          /\ AtStep("keep")' = AtStep("keep") \union {r}
          /\ req'[r] = v /\ \A q \in Requests : q # r => req'[q] = req[q]
      BY <2>2, CacheGoes
    <3>2. v.email \in Emails /\ v.sub \in UserIds /\ gone[v.sub] = None
          /\ v.since \in Nat /\ v.since <= clock
      BY <2>0, <2>2
    <3> HIDE DEF v
    <3> QED
      BY <1>0, <2>0, <3>1, <3>2 DEF cacheVars
  <2> QED
    BY <1>2, <2>1, <2>2 DEF QueryUser
<1>3. ASSUME NEW r \in Requests, Keep(r) PROVE CacheInv'
  <2>0. r \in AtStep("keep") /\ Ends(r) /\ UNCHANGED <<clock, users, gone>>
        /\ served' = [sub |-> req[r].sub, at |-> req[r].since]
    BY <1>3 DEF Keep, AtStep
  <2>1. /\ DOMAIN cache' = Emails
        /\ cache'[req[r].email] = [sub |-> req[r].sub, expires |-> req[r].since + Ttl]
        /\ \A e \in Emails : e # req[r].email => cache'[e] \in {None, cache[e]}
    <3>1. PICK d \in Dropped : cache' =
            [[e \in Emails |-> IF e \in d THEN None ELSE cache[e]]
                EXCEPT ![req[r].email] = [sub |-> req[r].sub, expires |-> req[r].since + Ttl]]
      BY <1>3 DEF Keep
    <3>2. req[r].email \in Emails
      BY <2>0
    <3> QED
      BY <3>1, <3>2
  <2>2. req[r].since + Ttl \in Nat /\ req[r].since + Ttl <= clock + Ttl
        /\ req[r].email \in Emails /\ req[r].sub \in UserIds
        /\ (gone[req[r].sub] = None \/ req[r].since + Ttl <= gone[req[r].sub] + Ttl)
        /\ (gone[req[r].sub] = None \/ req[r].since < gone[req[r].sub] + Ttl)
    BY <2>0
  <2> QED
    BY <1>0, <1>a, <2>0, <2>1, <2>2 DEF Ends
<1>4. ASSUME NEW r \in Requests, CacheFails(r) PROVE CacheInv'
  BY <1>0, <1>4, <1>a DEF CacheFails, RolledBack, Ends, cacheVars
<1>b. ASSUME UNCHANGED req PROVE \A s \in {"query", "keep"} : AtStep(s)' = AtStep(s)
  BY <1>b DEF AtStep, At
<1>5. ASSUME NEW e \in Emails, Remove(e) PROVE CacheInv'
  <2>1. users[e] \in UserIds /\ gone[users[e]] = None /\ clock' = clock
        /\ UNCHANGED <<req, cache, served>>
    BY <1>5 DEF Remove
  <2>2. gone' \in [UserIds -> Nat \union {None}]
        /\ \A i \in UserIds : gone'[i] = IF i = users[e] THEN clock ELSE gone[i]
    BY <1>5, <2>1 DEF Remove
  <2>3. users' \in [Emails -> UserIds \union {None}]
        /\ \A f \in Emails : users'[f] = IF f = e THEN None ELSE users[f]
    BY <1>5 DEF Remove
  <2>4. UsersDistinct'
    BY <2>1, <2>2, <2>3
  <2> QED
    BY <1>b, <2>1, <2>2, <2>4
<1>6. ASSUME NEW e \in Emails, NEW i \in UserIds, Create(e, i) PROVE CacheInv'
  BY <1>6, <1>b DEF Create
<1>7. ASSUME Wait PROVE CacheInv'
  BY <1>7, <1>b, <1>0 DEF Wait
<1> QED
  BY <1>1, <1>2, <1>3, <1>4, <1>5, <1>6, <1>7 DEF CacheNext

-----------------------------------------------------------------------------
(***************************************************************************)
(* The cache of the configuration of a speech provider.                    *)
(***************************************************************************)
\* A configuration read at a time was replaced no earlier, if it was.
ReadAt(c, t) ==
    /\ c \in 0..config /\ t \in Nat /\ t <= uptime
    /\ replaced[c] = None \/ t <= replaced[c]

\* The configurations were replaced one after the other. The copy and what a
\* resolution has read were in force at the time they carry, and what was
\* resolved less than the time to live before.
VoiceInv ==
    /\ uptime \in Nat
    /\ config \in 1..MaxConfigs
    /\ DOMAIN replaced = 0..MaxConfigs
    /\ \A c \in 0..MaxConfigs : replaced[c] = None \/ (replaced[c] \in Nat /\ replaced[c] <= uptime)
    /\ \A c \in config..MaxConfigs : replaced[c] = None
    /\ ReadAt(loaded.config, loaded.at) /\ ReadAt(loaded.config, loaded.read)
    /\ \A r \in AtStep("load") : req[r].at \in Nat /\ req[r].at <= uptime
    /\ \A r \in AtStep("loaded") : ReadAt(req[r].config, req[r].at)
    /\ resolved # None =>
          /\ resolved.config \in 0..config /\ resolved.at \in Nat /\ resolved.at <= uptime
          /\ \/ replaced[resolved.config] = None
             \/ resolved.at < replaced[resolved.config] + ConfigTtl

\* Only one resolution is loading, what it reads is no earlier than the copy, and
\* the copy no earlier than what was used last.
ForwardInv ==
    /\ \A p, q \in Resolving : p = q
    /\ \A r \in AtStep("loaded") : loaded.config <= req[r].config
    /\ resolved # None => resolved.config <= loaded.config

LEMMA VoiceFresh == ASSUME VoiceInv PROVE ConfigFresh
BY DEF VoiceInv, ConfigFresh

LEMMA VoiceStart ==
  ASSUME req = [r \in Requests |-> New], VoiceInit
  PROVE  VoiceInv /\ ForwardInv
<1>1. AtStep("load") = {} /\ AtStep("loaded") = {}
  BY StepsDiffer DEF AtStep, At
<1> QED
  BY <1>1, VoiceAssumption DEF VoiceInit, VoiceInv, ForwardInv, Resolving, ReadAt

LEMMA VoiceServe == ASSUME VoiceNext PROVE OneGoes \/ UNCHANGED req
<1>1. ASSUME NEW r \in Requests, Resolve(r) \/ UpdateVoiceConfig(r)
      PROVE  OneGoes
  BY <1>1 DEF Resolve, UpdateVoiceConfig, OneGoes, Ends
<1>2. ASSUME NEW r \in Requests, ReadConfig(r) \/ KeepConfig(r) \/ LoadFails(r) \/ Invalidate(r)
      PROVE  OneGoes
  BY <1>2, AtIsInService DEF ReadConfig, KeepConfig, LoadFails, Invalidate, RolledBack, Ends, OneGoes
<1> QED
  BY <1>1, <1>2 DEF VoiceNext, Elapse

LEMMA VoiceGoes ==
  ASSUME Served, NEW r \in Requests, NEW v, Goes(r, v)
  PROVE  /\ req'[r] = v
         /\ \A q \in Requests : q # r => req'[q] = req[q]
         /\ \A s \in {"load", "loaded"} :
               AtStep(s)' = IF v.step = s THEN AtStep(s) \union {r} ELSE AtStep(s) \ {r}
BY GoesEffect DEF Served, AtStep, At

LEMMA VoiceStep ==
  ASSUME Served, VoiceInv, VoiceNext
  PROVE  VoiceInv'
<1> USE VoiceAssumption DEF VoiceInv, ReadAt
<1>0. AtStep("load") \subseteq Requests /\ AtStep("loaded") \subseteq Requests
  BY DEF AtStep
<1>a. ASSUME NEW r \in Requests, NEW v, Goes(r, v), v.step \notin {"load", "loaded"}
      PROVE  /\ \A s \in {"load", "loaded"} : AtStep(s)' = AtStep(s) \ {r}
             /\ \A q \in Requests : q # r => req'[q] = req[q]
  BY <1>a, VoiceGoes
<1>b. ASSUME NEW r \in Requests, Ends(r)
      PROVE  /\ \A s \in {"load", "loaded"} : AtStep(s)' = AtStep(s) \ {r}
             /\ \A q \in Requests : q # r => req'[q] = req[q]
  BY <1>b, <1>a, StepsDiffer DEF Ends
<1>1. ASSUME NEW r \in Requests, Resolve(r) PROVE VoiceInv'
  <2> DEFINE v == [step |-> "load", at |-> uptime]
  <2>0. UNCHANGED <<uptime, config, replaced, loaded>>
    BY <1>1 DEF Resolve
  <2>1. CASE uptime - loaded.at < ConfigTtl /\ Ends(r) /\ Uses(loaded.config, uptime)
    <3>1. resolved'.config = loaded.config /\ resolved'.at = uptime
      BY <2>1 DEF Uses
    <3>2. replaced[loaded.config] = None \/ uptime < replaced[loaded.config] + ConfigTtl
      BY <2>1
    <3>3. \A q \in (AtStep("load") \union AtStep("loaded"))' :
             q \in AtStep("load") \union AtStep("loaded") /\ req'[q] = req[q]
      BY <1>0, <1>b, <2>1
    <3>4. AtStep("load")' \subseteq AtStep("load") /\ AtStep("loaded")' \subseteq AtStep("loaded")
      BY <1>b, <2>1
    <3> QED
      BY <2>0, <3>1, <3>2, <3>3, <3>4
  <2>2. CASE Goes(r, v) /\ UNCHANGED resolved
    <3>1. /\ AtStep("load")' = AtStep("load") \union {r}
          /\ AtStep("loaded")' = AtStep("loaded") \ {r}
          /\ req'[r] = v /\ \A q \in Requests : q # r => req'[q] = req[q]
      BY <2>2, VoiceGoes
    <3> QED
      BY <1>0, <2>0, <2>2, <3>1
  <2> QED
    BY <1>1, <2>1, <2>2 DEF Resolve
<1>2. ASSUME NEW r \in Requests, ReadConfig(r) PROVE VoiceInv'
  <2> DEFINE v == [step |-> "loaded", at |-> req[r].at, config |-> config]
  <2>1. UNCHANGED voiceVars /\ r \in AtStep("load") /\ Goes(r, v)
    BY <1>2 DEF ReadConfig, AtStep
  <2>2. /\ AtStep("load")' = AtStep("load") \ {r}
        /\ AtStep("loaded")' = AtStep("loaded") \union {r}
        /\ req'[r] = v /\ \A q \in Requests : q # r => req'[q] = req[q]
    BY <2>1, VoiceGoes
  <2> QED
    BY <1>0, <2>1, <2>2 DEF voiceVars
<1>3. ASSUME NEW r \in Requests, KeepConfig(r) PROVE VoiceInv'
  <2>1. r \in AtStep("loaded") /\ Ends(r) /\ UNCHANGED <<uptime, config, replaced>>
        /\ loaded' = [config |-> req[r].config, at |-> req[r].at, read |-> req[r].at]
        /\ resolved' = [config |-> req[r].config, at |-> req[r].at]
    BY <1>3 DEF KeepConfig, AtStep, Uses
  <2>2. ReadAt(req[r].config, req[r].at)
    BY <2>1
  <2>3. ReadAt(loaded'.config, loaded'.at) /\ ReadAt(loaded'.config, loaded'.read)
    BY <2>1, <2>2
  <2>4. \/ replaced[resolved'.config] = None
        \/ resolved'.at < replaced[resolved'.config] + ConfigTtl
    BY <2>1, <2>2
  <2> QED
    BY <1>0, <1>b, <2>1, <2>2, <2>3, <2>4
<1>4. ASSUME NEW r \in Requests, LoadFails(r) PROVE VoiceInv'
  <2>1. Ends(r) /\ UNCHANGED <<uptime, config, replaced, loaded>>
        /\ resolved' = [config |-> loaded.config, at |-> loaded.read]
    BY <1>4 DEF LoadFails, Uses
  <2>2. \/ replaced[loaded.config] = None
        \/ loaded.read < replaced[loaded.config] + ConfigTtl
    OBVIOUS
  <2> QED
    BY <1>0, <1>b, <2>1, <2>2
<1>5. ASSUME NEW r \in Requests, UpdateVoiceConfig(r) PROVE VoiceInv'
  <2>1. /\ \A s \in {"load", "loaded"} : AtStep(s)' = AtStep(s) \ {r}
        /\ \A q \in Requests : q # r => req'[q] = req[q]
    BY <1>5, <1>a DEF UpdateVoiceConfig
  <2>2. config' = config + 1 /\ config' \in 1..MaxConfigs /\ config \in 0..MaxConfigs
        /\ UNCHANGED <<uptime, loaded, resolved>>
    BY <1>5 DEF UpdateVoiceConfig
  <2>3. DOMAIN replaced' = 0..MaxConfigs
        /\ \A c \in 0..MaxConfigs : replaced'[c] = IF c = config THEN uptime ELSE replaced[c]
    BY <1>5, <2>2 DEF UpdateVoiceConfig
  <2>4. /\ \A c \in 0..MaxConfigs : replaced'[c] = None \/ (replaced'[c] \in Nat /\ replaced'[c] <= uptime)
        /\ \A c \in config'..MaxConfigs : replaced'[c] = None
    BY <2>2, <2>3
  <2>5. ASSUME NEW c \in 0..config, NEW t \in Nat, t <= uptime, replaced[c] = None \/ t <= replaced[c]
        PROVE  c \in 0..config' /\ (replaced'[c] = None \/ t <= replaced'[c])
    <3>1. c \in 0..MaxConfigs /\ c \in 0..config'
      BY <2>2
    <3> QED
      BY <2>3, <2>5, <3>1
  <2>6. ReadAt(loaded.config, loaded.at)' /\ ReadAt(loaded.config, loaded.read)'
    BY <2>2, <2>5
  <2>7. ASSUME NEW q \in AtStep("loaded")' PROVE ReadAt(req[q].config, req[q].at)'
    <3>1. q \in AtStep("loaded") /\ req'[q] = req[q]
      BY <1>0, <2>1
    <3> QED
      BY <2>2, <2>5, <3>1
  <2>8. \A q \in AtStep("load")' : req'[q].at \in Nat /\ req'[q].at <= uptime
    BY <1>0, <2>1
  <2>9. resolved' # None =>
          /\ resolved'.config \in 0..config' /\ resolved'.at \in Nat /\ resolved'.at <= uptime
          /\ \/ replaced'[resolved'.config] = None
             \/ resolved'.at < replaced'[resolved'.config] + ConfigTtl
    <3>1. resolved # None => resolved.config \in 0..MaxConfigs /\ resolved.config \in 0..config'
      BY <2>2
    <3> QED
      BY <2>2, <2>3, <3>1
  <2> QED
    BY <2>2, <2>3, <2>4, <2>6, <2>7, <2>8, <2>9
<1>6. ASSUME NEW r \in Requests, Invalidate(r) PROVE VoiceInv'
  <2>1. loaded'.config = loaded.config /\ loaded'.at = 0 /\ loaded'.read = loaded.read
    BY <1>6 DEF Invalidate
  <2> QED
    BY <1>0, <1>6, <1>b, <2>1 DEF Invalidate
<1>7. ASSUME Elapse PROVE VoiceInv'
  <2>1. AtStep("load")' = AtStep("load") /\ AtStep("loaded")' = AtStep("loaded")
    BY <1>7 DEF Elapse, AtStep, At
  <2> QED
    BY <1>7, <1>0, <2>1 DEF Elapse
<1> QED
  BY <1>1, <1>2, <1>3, <1>4, <1>5, <1>6, <1>7 DEF VoiceNext

LEMMA ForwardStep ==
  ASSUME Served, VoiceInv, ForwardInv, VoiceNext
  PROVE  ForwardInv' /\ (resolved # None /\ resolved' # resolved => resolved'.config >= resolved.config)
<1> USE DEF ForwardInv, Resolving
<1> DEFINE Goal == ForwardInv' /\ (resolved # None /\ resolved' # resolved => resolved'.config >= resolved.config)
<1>0. /\ AtStep("load") \subseteq Requests /\ AtStep("loaded") \subseteq Requests
      /\ loaded.config \in 0..config /\ config \in Nat
      /\ resolved # None => resolved.config \in 0..config
      /\ \A r \in AtStep("loaded") : req[r].config \in 0..config
  BY DEF AtStep, VoiceInv, ReadAt
<1>b. ASSUME NEW r \in Requests, NEW v, Goes(r, v), v.step \notin {"load", "loaded"}
      PROVE  /\ \A s \in {"load", "loaded"} : AtStep(s)' = AtStep(s) \ {r}
             /\ \A q \in Requests : q # r => req'[q] = req[q]
  BY <1>b, VoiceGoes
<1>c. Done.step \notin {"load", "loaded"}
  BY StepsDiffer
\* Whoever ends takes the copy, which stays.
<1>d. ASSUME NEW r \in Requests, Ends(r), UNCHANGED loaded, resolved'.config = loaded.config PROVE Goal
  BY <1>0, <1>b, <1>c, <1>d DEF Ends
<1>e. ASSUME NEW r \in Requests, NEW v, Goes(r, v), v.step \notin {"load", "loaded"},
             loaded'.config = loaded.config, UNCHANGED resolved
      PROVE  Goal
  BY <1>0, <1>b, <1>e
<1>1. ASSUME NEW r \in Requests, Resolve(r) PROVE Goal
  <2>1. CASE Ends(r) /\ Uses(loaded.config, uptime)
    BY <1>1, <1>d, <2>1 DEF Resolve, Uses
  <2>2. CASE Goes(r, [step |-> "load", at |-> uptime]) /\ UNCHANGED resolved
    <3>1. /\ AtStep("load")' = AtStep("load") \union {r}
          /\ AtStep("loaded")' = AtStep("loaded") \ {r}
          /\ \A q \in Requests : q # r => req'[q] = req[q]
      BY <2>2, VoiceGoes
    <3>2. Resolving = {} /\ UNCHANGED loaded
      BY <1>1 DEF Resolve
    <3> QED
      BY <2>2, <3>1, <3>2
  <2> QED
    BY <1>1, <2>1, <2>2 DEF Resolve
<1>2. ASSUME NEW r \in Requests, ReadConfig(r) PROVE Goal
  <2>1. /\ UNCHANGED voiceVars /\ r \in AtStep("load")
        /\ Goes(r, [step |-> "loaded", at |-> req[r].at, config |-> config])
    BY <1>2 DEF ReadConfig, AtStep
  <2>2. /\ AtStep("load")' = AtStep("load") \ {r}
        /\ AtStep("loaded")' = AtStep("loaded") \union {r}
        /\ req'[r].config = config /\ \A q \in Requests : q # r => req'[q] = req[q]
    BY <2>1, VoiceGoes
  <2> QED
    BY <1>0, <2>1, <2>2 DEF voiceVars
<1>3. ASSUME NEW r \in Requests, KeepConfig(r) PROVE Goal
  <2>1. /\ r \in AtStep("loaded") /\ Ends(r)
        /\ loaded'.config = req[r].config /\ resolved'.config = req[r].config
    BY <1>3 DEF KeepConfig, AtStep, Uses
  <2>2. Resolving' = {}
    BY <1>b, <1>c, <2>1 DEF Ends
  <2>3. resolved # None => req[r].config >= resolved.config
    BY <1>0, <2>1
  <2> QED
    BY <1>0, <2>1, <2>2, <2>3
<1>4. ASSUME NEW r \in Requests, LoadFails(r) PROVE Goal
  BY <1>4, <1>d DEF LoadFails, Uses
<1>5. ASSUME NEW r \in Requests, UpdateVoiceConfig(r) PROVE Goal
  BY <1>5, <1>e DEF UpdateVoiceConfig
<1>6. ASSUME NEW r \in Requests, Invalidate(r) PROVE Goal
  BY <1>6, <1>c, <1>e DEF Invalidate, Ends
<1>7. ASSUME Elapse PROVE Goal
  BY <1>7 DEF Elapse, AtStep, At
<1> QED
  BY <1>1, <1>2, <1>3, <1>4, <1>5, <1>6, <1>7 DEF VoiceNext

-----------------------------------------------------------------------------
(***************************************************************************)
(* Corrections, and the template of an active prompt.                      *)
(***************************************************************************)
Correction == [id : Requests, agent : BOOLEAN, status : {"pending", "approved", "rejected"}]

\* A draft has no late edits, and only a template that is there is being edited.
ModerationInv ==
    /\ corrections \subseteq Correction
    /\ \A r \in AtStep("review") : req[r].verdict \in {"approved", "rejected"}
    /\ ApprovedIsRemembered
    /\ template \in Templates \/ (template = None /\ AtStep("text") = {})
    /\ template \in Templates /\ template.status = "draft" => template.late = {}
    /\ LateEditsOverlapOnly

\* One step of the handlers of this part.
ModerationMoves ==
    \E r \in Requests : ModerationNext(r) \/ (RolledBack(r) /\ UNCHANGED moderationVars)

LEMMA ModerationStart ==
  ASSUME req = [r \in Requests |-> New], ModerationInit
  PROVE  ModerationInv
<1>1. AtStep("review") = {} /\ AtStep("text") = {}
  BY StepsDiffer DEF AtStep, At
<1> QED
  BY <1>1, TemplatesAssumption DEF ModerationInit, ModerationInv, ApprovedIsRemembered, LateEditsOverlapOnly, Templates

LEMMA ModerationServe == ASSUME ModerationMoves PROVE OneGoes \/ UNCHANGED req
<1>1. ASSUME NEW r \in Requests,
             \/ CreateFeedback(r) \/ \E c \in corrections : ReviewCorrection(r, c)
             \/ CreatePrompt(r) \/ UpdatePrompt(r) \/ ActivatePrompt(r)
             \/ CreateIssue(r) \/ \E i \in issues : UpdateIssueStatus(r, i)
      PROVE  OneGoes
  BY <1>1 DEF CreateFeedback, ReviewCorrection, CreatePrompt, UpdatePrompt, ActivatePrompt,
     CreateIssue, UpdateIssueStatus, Whole, Ends, OneGoes
<1>2. ASSUME NEW r \in Requests, NEW s, At(r, s), s \notin {"new", "done"}, NEW v, Goes(r, v)
      PROVE  OneGoes
  BY <1>2, AtIsInService DEF OneGoes
<1>3. ASSUME NEW r \in Requests,
             \/ CommitReview(r) \/ CommitPrompt(r) \/ InsertAttachment(r) \/ AnswerIssue(r)
             \/ CommitStatus(r) \/ \E f \in Files : UploadFile(r, f)
      PROVE  OneGoes
  BY <1>2, <1>3 DEF CommitReview, CommitPrompt, InsertAttachment, AnswerIssue, CommitStatus,
     UploadFile, Ends
<1>4. ASSUME NEW r \in Requests, RolledBack(r) PROVE OneGoes
  BY <1>4 DEF RolledBack, Ends, OneGoes
<1> QED
  BY <1>1, <1>3, <1>4 DEF ModerationMoves, ModerationNext

LEMMA ModerationGoes ==
  ASSUME Served, NEW r \in Requests, NEW v, Goes(r, v)
  PROVE  /\ req'[r] = v
         /\ \A q \in Requests : q # r => req'[q] = req[q]
         /\ \A s \in {"review", "text"} :
               AtStep(s)' = IF v.step = s THEN AtStep(s) \union {r} ELSE AtStep(s) \ {r}
BY GoesEffect DEF Served, AtStep, At

\* What the edits under way are does not grow unless an edit begins.
LEMMA EditsShrink ==
  ASSUME Served, template # None, template.status = "active", LateEditsOverlapOnly,
         AtStep("text")' \subseteq AtStep("text") \union template.late,
         template'.late \subseteq AtStep("text") \union template.late,
         template \in Templates
  PROVE  Cardinality(template'.late \union AtStep("text")') < Threads
<1> DEFINE Before == template.late \union AtStep("text")
           After  == template'.late \union AtStep("text")'
<1>1. Before \subseteq Requests /\ After \subseteq Before
  BY DEF Templates, AtStep
<1>2. IsFiniteSet(Before) /\ IsFiniteSet(After)
      /\ Cardinality(Before) \in Nat /\ Cardinality(After) \in Nat
      /\ Cardinality(After) <= Cardinality(Before)
  BY <1>1, RequestsAssumption, FS_Subset, FS_CardinalityType
<1>3. Cardinality(Before) < Threads
  BY DEF LateEditsOverlapOnly
<1> QED
  BY <1>2, <1>3, RequestsAssumption

LEMMA ModerationStep ==
  ASSUME Served, ModerationInv, ModerationMoves
  PROVE  ModerationInv'
<1> USE TemplatesAssumption
<1>0. AtStep("review") \subseteq Requests /\ AtStep("text") \subseteq Requests
  BY DEF AtStep
\* A step that does not concern the template, nor begin a review.
<1>a. ASSUME UNCHANGED template, AtStep("text")' \subseteq AtStep("text")
      PROVE  LateEditsOverlapOnly' /\ (template \in Templates \/ (template = None /\ AtStep("text") = {}))'
  <2>1. ASSUME template # None, template.status = "active"
        PROVE  Cardinality(template.late \union AtStep("text")') < Threads
    BY <1>a, <2>1, EditsShrink DEF ModerationInv
  <2> QED
    BY <1>a, <2>1 DEF ModerationInv, LateEditsOverlapOnly
<1>b. ASSUME UNCHANGED <<corrections, memories, template>>, AtStep("text")' \subseteq AtStep("text"),
             \A r \in AtStep("review")' : req'[r].verdict \in {"approved", "rejected"}
      PROVE  ModerationInv'
  BY <1>a, <1>b DEF ModerationInv, ApprovedIsRemembered
<1>c. ASSUME NEW r \in Requests, NEW v, Goes(r, v), v.step \notin {"text", "review"}
      PROVE  /\ AtStep("text")' = AtStep("text") \ {r}
             /\ \A q \in AtStep("review")' : req'[q].verdict \in {"approved", "rejected"}
  BY <1>0, <1>c, ModerationGoes DEF ModerationInv
<1>d. ASSUME NEW r \in Requests, TakenUp(r) PROVE r \notin AtStep("text")
  BY <1>d, StepsDiffer DEF TakenUp, AtStep, At
<1>1. ASSUME NEW r \in Requests, CreateFeedback(r) PROVE ModerationInv'
  <2>1. PICK agent \in BOOLEAN :
           corrections' = corrections \union {[id |-> r, agent |-> agent, status |-> "pending"]}
    BY <1>1 DEF CreateFeedback
  <2>2. corrections' \subseteq Correction /\ UNCHANGED <<memories, template>>
    BY <1>1, <2>1 DEF CreateFeedback, ModerationInv, Correction
  <2>3. ApprovedIsRemembered'
    BY <2>1, <2>2 DEF ModerationInv, ApprovedIsRemembered
  <2>4. /\ AtStep("text")' = AtStep("text") \ {r}
        /\ \A q \in AtStep("review")' : req'[q].verdict \in {"approved", "rejected"}
    BY <1>1, <1>c, StepsDiffer DEF CreateFeedback, Whole, Ends
  <2> QED
    BY <1>a, <2>2, <2>3, <2>4 DEF ModerationInv
<1>2. ASSUME NEW r \in Requests, NEW c \in corrections, ReviewCorrection(r, c) PROVE ModerationInv'
  <2>1. PICK verdict \in {"approved", "rejected"} :
           Goes(r, [step |-> "review", of |-> c.id, read |-> c.status, verdict |-> verdict])
    BY <1>2 DEF ReviewCorrection
  <2>2. /\ AtStep("text")' \subseteq AtStep("text")
        /\ \A q \in AtStep("review")' : req'[q].verdict \in {"approved", "rejected"}
    BY <1>0, <2>1, ModerationGoes DEF ModerationInv
  <2> QED
    BY <1>2, <1>b, <2>2 DEF ReviewCorrection, moderationVars
<1>3. ASSUME NEW r \in Requests, CommitReview(r) PROVE ModerationInv'
  <2> DEFINE Reviewed(c) == IF c.id = req[r].of
                            THEN [c EXCEPT !.status = Written(@, req[r].read, req[r].verdict)] ELSE c
  <2>1. /\ corrections' = {Reviewed(c) : c \in corrections}
        /\ memories' = memories \union
              {[id |-> r, of |-> c.id] : c \in {x \in corrections :
                  x.id = req[r].of /\ x.agent /\ req[r].verdict = "approved"}}
        /\ UNCHANGED template /\ r \in AtStep("review") /\ Goes(r, Done)
    BY <1>3 DEF CommitReview, AtStep, Ends
  <2>2. req[r].verdict \in {"approved", "rejected"}
    BY <2>1 DEF ModerationInv
  <2>3. ASSUME NEW c \in corrections
        PROVE  /\ Reviewed(c) \in Correction
               /\ Reviewed(c).id = c.id /\ Reviewed(c).agent = c.agent
               /\ Reviewed(c).status = "approved" =>
                     c.status = "approved" \/ (c.id = req[r].of /\ req[r].verdict = "approved")
    <3>1. c \in Correction
      BY DEF ModerationInv
    <3>2. Written(c.status, req[r].read, req[r].verdict) \in {c.status, req[r].verdict}
      BY DEF Written
    <3> QED
      BY <2>2, <3>1, <3>2 DEF Correction
  <2>4. ASSUME NEW c \in corrections, Reviewed(c).status = "approved", c.agent
        PROVE  \E m \in memories' : m.of = c.id
    <3>1. CASE c.status = "approved"
      BY <2>1, <2>4, <3>1 DEF ModerationInv, ApprovedIsRemembered
    <3>2. CASE c.id = req[r].of /\ req[r].verdict = "approved"
      <4>1. [id |-> r, of |-> c.id] \in memories'
        BY <2>1, <2>4, <3>2
      <4> QED
        BY <4>1
    <3> QED
      BY <2>3, <2>4, <3>1, <3>2
  <2>5. corrections' \subseteq Correction /\ ApprovedIsRemembered'
    <3> HIDE DEF Reviewed
    <3> QED
      BY <2>1, <2>3, <2>4 DEF ApprovedIsRemembered
  <2>6. /\ AtStep("text")' = AtStep("text") \ {r}
        /\ \A q \in AtStep("review")' : req'[q].verdict \in {"approved", "rejected"}
    BY <2>1, <1>c, StepsDiffer
  <2> QED
    BY <1>a, <2>1, <2>5, <2>6 DEF ModerationInv
<1>e. ASSUME UNCHANGED <<corrections, memories>>,
             \A q \in AtStep("review")' : req'[q].verdict \in {"approved", "rejected"},
             template' \in Templates, template'.status = "draft" => template'.late = {},
             template'.status = "active" => Cardinality(template'.late \union AtStep("text")') < Threads
      PROVE  ModerationInv'
  BY <1>e DEF ModerationInv, ApprovedIsRemembered, LateEditsOverlapOnly
<1>4. ASSUME NEW r \in Requests, CreatePrompt(r) PROVE ModerationInv'
  <2>1. template' = [status |-> "draft", text |-> r, late |-> {}] /\ UNCHANGED <<corrections, memories>>
    BY <1>4 DEF CreatePrompt
  <2>2. template' \in Templates /\ template'.status = "draft" /\ template'.late = {}
    BY <2>1 DEF Templates
  <2> QED
    BY <1>4, <1>c, <1>e, <2>1, <2>2, StepsDiffer DEF CreatePrompt, Whole, Ends
<1>5. ASSUME NEW r \in Requests, UpdatePrompt(r) PROVE ModerationInv'
  <2>1. template \in Templates /\ template.status = "draft" /\ UNCHANGED moderationVars
    BY <1>5 DEF UpdatePrompt, ModerationInv
  <2>2. \A q \in AtStep("review")' : req'[q].verdict \in {"approved", "rejected"}
    BY <1>0, <1>5, ModerationGoes DEF UpdatePrompt, ModerationInv
  <2> QED
    BY <1>e, <2>1, <2>2 DEF moderationVars, ModerationInv
<1>6. ASSUME NEW r \in Requests, CommitPrompt(r) PROVE ModerationInv'
  <2>1. r \in AtStep("text") /\ Goes(r, Done) /\ template \in Templates
        /\ UNCHANGED <<corrections, memories>>
    BY <1>6 DEF CommitPrompt, ModerationInv, Ends, AtStep
  <2>2. /\ template'.status = template.status
        /\ template'.late = IF template.status = "draft" THEN template.late ELSE template.late \union {r}
        /\ template' \in Templates
    BY <1>6, <2>1 DEF CommitPrompt, Templates
  <2>3. /\ AtStep("text")' = AtStep("text") \ {r}
        /\ \A q \in AtStep("review")' : req'[q].verdict \in {"approved", "rejected"}
    BY <2>1, <1>c, StepsDiffer
  <2>4. ASSUME template.status = "active"
        PROVE  Cardinality(template'.late \union AtStep("text")') < Threads
    <3>1. CASE template # None
      BY <2>1, <2>2, <2>3, <2>4, <3>1, EditsShrink DEF ModerationInv
    <3>2. CASE template = None
      BY <2>1, <3>2, TemplatesAssumption
    <3> QED
      BY <3>1, <3>2
  <2> QED
    BY <1>e, <2>1, <2>2, <2>3, <2>4 DEF ModerationInv, Templates
<1>7. ASSUME NEW r \in Requests, ActivatePrompt(r) PROVE ModerationInv'
  <2>1. TakenUp(r) /\ Goes(r, Done) /\ template \in Templates /\ template # None
        /\ UNCHANGED <<corrections, memories>>
    BY <1>7 DEF ActivatePrompt, ModerationInv, Ends, Whole
  <2>2. /\ template'.status = "active" /\ template'.late = template.late
        /\ template' \in Templates
    BY <1>7, <2>1 DEF ActivatePrompt, Templates
  <2>3. /\ AtStep("text")' = AtStep("text") \ {r}
        /\ \A q \in AtStep("review")' : req'[q].verdict \in {"approved", "rejected"}
    BY <2>1, <1>c, StepsDiffer
  <2>4. CASE template.status = "active"
    BY <1>e, <2>1, <2>2, <2>3, <2>4, EditsShrink DEF ModerationInv
  <2>5. CASE template.status = "draft"
    <3>1. AtStep("text")' \subseteq InService
      BY <2>3, AtIsInService DEF AtStep
    <3>2. Cardinality(AtStep("text")') \in Nat /\ Cardinality(AtStep("text")') <= Cardinality(InService)
      BY <3>1, InServiceFinite, FS_Subset, FS_CardinalityType
    <3>3. Cardinality(AtStep("text")') < Threads
      BY <2>1, <3>2, InServiceFinite, RequestsAssumption DEF TakenUp
    <3>4. template'.late \union AtStep("text")' = AtStep("text")'
      BY <2>1, <2>2, <2>5 DEF ModerationInv
    <3> QED
      BY <1>e, <2>1, <2>2, <2>3, <3>3, <3>4
  <2> QED
    BY <2>1, <2>4, <2>5 DEF Templates
<1>8. ASSUME NEW r \in Requests,
             \/ CreateIssue(r) \/ InsertAttachment(r) \/ AnswerIssue(r) \/ CommitStatus(r)
             \/ \E f \in Files : UploadFile(r, f)
             \/ \E i \in issues : UpdateIssueStatus(r, i)
             \/ RolledBack(r) /\ UNCHANGED moderationVars
      PROVE  ModerationInv'
  <2>1. \E v : Goes(r, v) /\ v.step \notin {"text", "review"}
    <3>1. CASE AnswerIssue(r) \/ CommitStatus(r) \/ RolledBack(r)
      BY <3>1, StepsDiffer DEF AnswerIssue, CommitStatus, RolledBack, Ends
    <3>2. CASE CreateIssue(r)
      <4>1. PICK files \in SUBSET Files : Goes(r, [step |-> "files", left |-> files])
        BY <3>2 DEF CreateIssue
      <4> QED
        BY <4>1
    <3>3. CASE InsertAttachment(r)
      BY <3>3 DEF InsertAttachment
    <3>4. ASSUME NEW f \in Files, UploadFile(r, f) PROVE \E v : Goes(r, v) /\ v.step \notin {"text", "review"}
      BY <3>4 DEF UploadFile
    <3>5. ASSUME NEW i \in issues, UpdateIssueStatus(r, i) PROVE \E v : Goes(r, v) /\ v.step \notin {"text", "review"}
      <4>1. PICK new \in {"open", "resolved", "closed"} :
               Goes(r, [step |-> "status", of |-> i.id, read |-> i.status, new |-> new])
        BY <3>5 DEF UpdateIssueStatus
      <4> QED
        BY <4>1
    <3> QED
      BY <1>8, <3>1, <3>2, <3>3, <3>4, <3>5
  <2>2. UNCHANGED <<corrections, memories, template>>
    BY <1>8 DEF CreateIssue, InsertAttachment, AnswerIssue, CommitStatus, UploadFile,
       UpdateIssueStatus, moderationVars
  <2> QED
    BY <1>b, <1>c, <2>1, <2>2
<1> QED
  BY <1>1, <1>2, <1>3, <1>4, <1>5, <1>6, <1>7, <1>8 DEF ModerationMoves, ModerationNext

-----------------------------------------------------------------------------
(***************************************************************************)
(* Categories, agents, prompts and preferences.                            *)
(***************************************************************************)
Ids == Requests \union {Seeded}
Agent == [id : Ids, cat : Ids, named : BOOLEAN, touched : BOOLEAN, active : BOOLEAN,
          prompts : SUBSET Requests]
Making == AtStep("name") \union AtStep("agent")
Updating == AtStep("prompt") \union AtStep("edit")

\* Rows belong to requests that have committed, agents have ids of their own, and
\* an update is about an agent that is there.
SettingsTyped ==
    /\ categories \subseteq [id : Requests, looked : BOOLEAN]
    /\ \A c \in categories : req[c.id] = Done
    /\ agents \subseteq Agent
    /\ \A a \in agents : a.id # Seeded => req[a.id] = Done
    /\ \A a, b \in agents : a.id = b.id => a = b
    /\ pref \in Preferences \union {None}
    /\ \A r \in Making : req[r].cat \in Requests
    /\ \A r \in Updating : req[r].cat \in Requests \union {None} /\ \E a \in agents : a.id = req[r].agent
    /\ \A r \in AtStep("tones") : req[r].new \in BOOLEAN /\ (~req[r].new => pref # None)

LEMMA FoundTyped ==
  ASSUME SettingsTyped, NEW r \in Requests, NEW cat \in Found(r)
  PROVE  cat \in Requests
BY DEF SettingsTyped, Found

LEMMA CategoryTyped ==
  ASSUME SettingsTyped, NEW r \in Requests, NEW looked \in BOOLEAN,
         categories' \subseteq categories \union {[id |-> r, looked |-> looked]}
  PROVE  /\ categories' \subseteq [id : Requests, looked : BOOLEAN]
         /\ \A c \in categories' : c \in categories \/ c.id = r
<1> DEFINE new == [id |-> r, looked |-> looked]
<1>1. new \in [id : Requests, looked : BOOLEAN] /\ new.id = r
  OBVIOUS
<1>2. \A c \in categories : c \in [id : Requests, looked : BOOLEAN]
  BY DEF SettingsTyped
<1> HIDE DEF new
<1>3. categories' \subseteq categories \union {new}
  BY DEF new
<1> QED
  BY <1>1, <1>2, <1>3

LEMMA WithCategoryTyped ==
  ASSUME SettingsTyped, NEW r \in Requests, NEW cat, WithCategory(cat, r)
  PROVE  /\ categories' \subseteq [id : Requests, looked : BOOLEAN]
         /\ \A c \in categories' : c \in categories \/ c.id = r
<1>1. categories' \subseteq categories \union {[id |-> r, looked |-> TRUE]}
  BY DEF WithCategory
<1> QED
  BY <1>1, CategoryTyped

LEMMA SettingsGoes ==
  ASSUME Served, NEW r \in Requests, NEW v, Goes(r, v)
  PROVE  /\ req'[r] = v
         /\ \A q \in Requests : q # r => req'[q] = req[q]
         /\ \A s \in {"name", "agent", "prompt", "edit", "tones"} :
               AtStep(s)' = IF v.step = s THEN AtStep(s) \union {r} ELSE AtStep(s) \ {r}
BY GoesEffect DEF Served, AtStep, At

\* What an update makes of its agent.
LEMMA Edited ==
  ASSUME SettingsTyped, NEW r \in Requests, EditAgent(r)
  PROVE  \E a \in agents, b \in Agent :
            /\ a.id = req[r].agent /\ b.id = a.id
            /\ agents' = (agents \ {a}) \union {b}
            /\ b.named /\ ~b.touched => a.named /\ ~a.touched /\ b.cat = a.cat
            /\ b.prompts = IF req[r].add THEN a.prompts \union {r} ELSE a.prompts
<1>1. PICK a \in agents : \E named \in {a.named, TRUE, FALSE}, enabled \in {a.active, TRUE, FALSE} :
          /\ a.id = req[r].agent
          /\ agents' = (agents \ {a}) \union
                {[a EXCEPT !.named = named,
                           !.cat = IF req[r].cat = None THEN @ ELSE req[r].cat,
                           !.touched = @ \/ (named /\ ~a.named) \/ req[r].cat # None,
                           !.active = enabled,
                           !.prompts = IF req[r].add THEN @ \union {r} ELSE @]}
  BY DEF EditAgent
<1>2. PICK named \in {a.named, TRUE, FALSE}, enabled \in {a.active, TRUE, FALSE} :
          /\ a.id = req[r].agent
          /\ agents' = (agents \ {a}) \union
                {[a EXCEPT !.named = named,
                           !.cat = IF req[r].cat = None THEN @ ELSE req[r].cat,
                           !.touched = @ \/ (named /\ ~a.named) \/ req[r].cat # None,
                           !.active = enabled,
                           !.prompts = IF req[r].add THEN @ \union {r} ELSE @]}
  BY <1>1
<1> DEFINE b == [a EXCEPT !.named = named,
                           !.cat = IF req[r].cat = None THEN @ ELSE req[r].cat,
                           !.touched = @ \/ (named /\ ~a.named) \/ req[r].cat # None,
                           !.active = enabled,
                           !.prompts = IF req[r].add THEN @ \union {r} ELSE @]
<1>3. a \in Agent /\ req[r].cat \in Requests \union {None}
  BY DEF SettingsTyped, Updating, EditAgent, AtStep
<1>4. /\ b.id = a.id /\ b.cat = (IF req[r].cat = None THEN a.cat ELSE req[r].cat)
      /\ b.named = named /\ b.touched = (a.touched \/ (named /\ ~a.named) \/ req[r].cat # None)
      /\ b.prompts = IF req[r].add THEN a.prompts \union {r} ELSE a.prompts
  BY <1>3 DEF Agent
<1>5. b \in Agent
  BY <1>3, <1>2 DEF Agent, Ids
<1>6. b.named /\ ~b.touched => a.named /\ ~a.touched /\ b.cat = a.cat
  BY <1>3, <1>4 DEF Agent
<1> HIDE DEF b
<1>7. agents' = (agents \ {a}) \union {b} /\ a.id = req[r].agent
  BY <1>2 DEF b
<1> QED
  BY <1>4, <1>5, <1>6, <1>7

LEMMA Deactivated ==
  ASSUME SettingsTyped, NEW r \in Requests, NEW a \in agents, DeactivateAgent(r, a)
  PROVE  \E b \in Agent :
            /\ b.id = a.id /\ b.named = a.named /\ b.touched = a.touched /\ b.cat = a.cat
            /\ b.prompts = a.prompts
            /\ agents' = (agents \ {a}) \union {b}
<1> DEFINE b == [a EXCEPT !.active = FALSE]
<1>1. a \in Agent
  BY DEF SettingsTyped
<1>2. /\ b \in Agent
      /\ b.id = a.id /\ b.named = a.named /\ b.touched = a.touched /\ b.cat = a.cat
      /\ b.prompts = a.prompts
  BY <1>1 DEF Agent
<1>3. agents' = (agents \ {a}) \union {b}
  BY DEF DeactivateAgent
<1> HIDE DEF b
<1> QED
  BY <1>2, <1>3

\* An agent that takes the place of one with its id leaves the ids as they are.
LEMMA Exchanged ==
  ASSUME SettingsTyped, NEW a \in agents, NEW b \in Agent, b.id = a.id,
         agents' = (agents \ {a}) \union {b}
  PROVE  /\ agents' \subseteq Agent
         /\ \A x, y \in agents' : x.id = y.id => x = y
         /\ {x.id : x \in agents'} = {x.id : x \in agents}
BY DEF SettingsTyped

SettingsMoves ==
    \E r \in Requests : SettingsNext(r) \/ (RolledBack(r) /\ UNCHANGED settingVars)

\* Each step of a handler, by what it does to the table of the requests.
LEMMA SettingsGo ==
  ASSUME NEW r \in Requests, SettingsNext(r) \/ RolledBack(r)
  PROVE  (TakenUp(r) \/ r \in InService) /\ \E v : Goes(r, v)
<1>1. CASE \/ CreateAgent(r) \/ \E a \in agents : UpdateAgent(r, a) \/ DeactivateAgent(r, a)
           \/ CreateCategory(r) \/ SetPreference(r)
  BY <1>1 DEF CreateAgent, UpdateAgent, DeactivateAgent, CreateCategory, SetPreference, Whole, Ends
<1>2. CASE CheckName(r) \/ InsertAgent(r) \/ ReadPrompt(r) \/ EditAgent(r) \/ CommitPreference(r)
  BY <1>2, AtIsInService DEF CheckName, InsertAgent, ReadPrompt, EditAgent, CommitPreference, Ends
<1>3. CASE RolledBack(r)
  BY <1>3 DEF RolledBack, Ends
<1> QED
  BY <1>1, <1>2, <1>3 DEF SettingsNext

LEMMA SettingsServe == ASSUME SettingsMoves PROVE OneGoes \/ UNCHANGED req
BY SettingsGo DEF SettingsMoves, OneGoes

Looked == {c \in categories : c.looked}
\* Those who look for a category, found none, and will make one.
NewCategory == {r \in Making \union Updating : req[r].cat = r}
CategoryHolders == {c.id : c \in Looked} \union NewCategory

LEMMA CategoriesStep ==
  ASSUME Served, SettingsTyped, Cardinality(CategoryHolders) <= Threads, SettingsMoves
  PROVE  Cardinality(CategoryHolders') <= Threads
<1> USE DEF CategoryHolders, NewCategory, Looked, Making, Updating
<1>0. CategoryHolders \subseteq Requests /\ IsFiniteSet(CategoryHolders)
  BY RequestsAssumption, FS_Subset DEF SettingsTyped, AtStep
<1>1. ASSUME CategoryHolders' \subseteq CategoryHolders PROVE Cardinality(CategoryHolders') <= Threads
  BY <1>0, <1>1, Fewer
\* A request is taken up and looks for a category.
<1>2. ASSUME NEW r \in Requests, TakenUp(r), NEW v, Goes(r, v), NEW cat \in Found(r) \union {None},
             v.step \in {"name", "prompt"}, v.cat = cat, UNCHANGED categories
      PROVE  Cardinality(CategoryHolders') <= Threads
  <2>1. NewCategory' \subseteq NewCategory \union {q \in {r} : cat = r}
    <3>1. req'[r] = v /\ \A q \in Requests : q # r => req'[q] = req[q]
      BY <1>2, SettingsGoes
    <3>2. \A q \in (Making \union Updating)' : q \in Requests /\ (q # r => q \in Making \union Updating)
      BY <1>2, SettingsGoes DEF AtStep
    <3> QED
      BY <1>2, <3>1, <3>2
  <2>2. CASE cat = r
    <3>1. categories = {}
      BY <1>2, <2>2, StepsDiffer, RequestsAssumption DEF Found, SettingsTyped, TakenUp
    <3>2. CategoryHolders' \subseteq InService \union {r}
      BY <1>2, <2>1, <3>1, AtIsInService DEF AtStep
    <3> QED
      BY <1>2, <3>2, OneMoreThanInService
  <2>3. CASE cat # r
    BY <1>1, <1>2, <2>1, <2>3
  <2> QED
    BY <2>2, <2>3
<1>3. ASSUME NEW r \in Requests, CreateAgent(r) PROVE Cardinality(CategoryHolders') <= Threads
  <2>1. PICK cat \in Found(r) : Goes(r, [step |-> "name", cat |-> cat])
    BY <1>3 DEF CreateAgent
  <2> QED
    BY <1>2, <1>3, <2>1 DEF CreateAgent, settingVars
<1>4. ASSUME NEW r \in Requests, NEW a \in agents, UpdateAgent(r, a)
      PROVE  Cardinality(CategoryHolders') <= Threads
  <2>1. PICK cat \in Found(r) \union {None} : Goes(r, [step |-> "prompt", agent |-> a.id, cat |-> cat])
    BY <1>4 DEF UpdateAgent
  <2> QED
    BY <1>2, <1>4, <2>1 DEF UpdateAgent, settingVars
\* The category is inserted, if it is new.
<1>5. ASSUME NEW r \in Requests, InsertAgent(r) \/ EditAgent(r) PROVE Cardinality(CategoryHolders') <= Threads
  <2>1. r \in Making \union Updating /\ Goes(r, Done) /\ WithCategory(req[r].cat, r)
    BY <1>5 DEF InsertAgent, EditAgent, Ends, AtStep
  <2>2. NewCategory' = NewCategory \ {r}
    BY <2>1, SettingsGoes, StepsDiffer DEF AtStep
  <2>3. \A c \in Looked' : c \in Looked \/ (c.id = r /\ req[r].cat = r)
    BY <2>1 DEF WithCategory
  <2>4. CategoryHolders' \subseteq CategoryHolders
    BY <2>1, <2>2, <2>3
  <2> QED
    BY <1>1, <2>4
\* A step that goes on with the category it has, or ends.
<1>6. ASSUME NEW r \in Requests, NEW v, Goes(r, v), UNCHANGED Looked,
             v.step \in {"name", "agent", "prompt", "edit"} =>
                v.cat = req[r].cat /\ r \in Making \union Updating
      PROVE  Cardinality(CategoryHolders') <= Threads
  <2>1. CategoryHolders' \subseteq CategoryHolders
    BY <1>6, SettingsGoes DEF AtStep
  <2> QED
    BY <1>1, <2>1
<1>7. ASSUME NEW r \in Requests,
             \/ \E a \in agents : DeactivateAgent(r, a)
             \/ SetPreference(r) \/ CommitPreference(r)
             \/ RolledBack(r) /\ UNCHANGED settingVars
      PROVE  Cardinality(CategoryHolders') <= Threads
  <2>1. UNCHANGED Looked /\ \E v : Goes(r, v) /\ v.step \notin {"name", "agent", "prompt", "edit"}
    BY <1>7, StepsDiffer DEF DeactivateAgent, SetPreference, CommitPreference, RolledBack,
       Whole, Ends, settingVars
  <2> QED
    BY <1>6, <2>1
<1>8. ASSUME NEW r \in Requests, CheckName(r) \/ ReadPrompt(r) PROVE Cardinality(CategoryHolders') <= Threads
  <2>1. r \in Making \union Updating /\ UNCHANGED Looked
    BY <1>8 DEF CheckName, ReadPrompt, AtStep, settingVars
  <2>2. \E v : Goes(r, v) /\ (v = Done \/ v.cat = req[r].cat)
    <3>1. CASE CheckName(r)
      BY <3>1 DEF CheckName
    <3>2. CASE ReadPrompt(r)
      BY <3>2 DEF ReadPrompt
    <3> QED
      BY <1>8, <3>1, <3>2
  <2> QED
    BY <1>6, <2>1, <2>2, StepsDiffer
<1>9. ASSUME NEW r \in Requests, CreateCategory(r) PROVE Cardinality(CategoryHolders') <= Threads
  <2>1. Goes(r, Done) /\ Looked' = Looked
    BY <1>9 DEF CreateCategory, Whole, Ends
  <2> QED
    BY <1>6, <2>1, StepsDiffer
<1> QED
  BY <1>3, <1>4, <1>5, <1>7, <1>8, <1>9 DEF SettingsMoves, SettingsNext

Untouched(c) == {a \in NamedIn(c) : ~a.touched}
\* The agents of the name that were created in a category, and those that
\* will be: nobody was there when they looked.
NameHolders(c) == {a.id : a \in Untouched(c)} \union {r \in AtStep("agent") : req[r].cat = c}
NamesBounded == \A c \in Ids : Cardinality(NameHolders(c)) <= Threads

LEMMA IdsFinite == IsFiniteSet(Ids)
BY RequestsAssumption, FS_AddElement DEF Ids

LEMMA NamesStep ==
  ASSUME Served, SettingsTyped, NamesBounded, SettingsMoves
  PROVE  NamesBounded'
<1>0. \A c : NameHolders(c) \subseteq Ids /\ IsFiniteSet(NameHolders(c))
  <2> SUFFICES ASSUME NEW c PROVE NameHolders(c) \subseteq Ids /\ IsFiniteSet(NameHolders(c))
    OBVIOUS
  <2>1. NameHolders(c) \subseteq Ids
    BY DEF SettingsTyped, AtStep, Ids, Agent, NameHolders, Untouched, NamedIn
  <2> QED
    BY <2>1, IdsFinite, FS_Subset
<1>1. ASSUME \A c \in Ids : NameHolders(c)' \subseteq NameHolders(c) PROVE NamesBounded'
  <2>1. ASSUME NEW c \in Ids PROVE Cardinality(NameHolders(c)') <= Threads
    <3>1. IsFiniteSet(NameHolders(c)) /\ Cardinality(NameHolders(c)) <= Threads
      BY <1>0 DEF NamesBounded
    <3>2. NameHolders(c)' \subseteq NameHolders(c)
      BY <1>1
    <3> QED
      BY <3>1, <3>2, Fewer
  <2> QED
    BY <2>1 DEF NamesBounded
<1> USE DEF NamesBounded, NameHolders, Untouched, NamedIn
<1>2. ASSUME NEW r \in Requests, CheckName(r) PROVE NamesBounded'
  <2>1. CASE Goes(r, Done)
    <3>1. AtStep("agent")' = AtStep("agent") \ {r} /\ \A q \in Requests : q # r => req'[q] = req[q]
      BY <2>1, SettingsGoes, StepsDiffer
    <3> QED
      BY <1>1, <1>2, <3>1 DEF CheckName, settingVars, AtStep
  <2>2. CASE NamedIn(req[r].cat) = {} /\ Goes(r, [step |-> "agent", cat |-> req[r].cat])
    <3>1. /\ AtStep("agent")' = AtStep("agent") \union {r}
          /\ \A q \in Requests : q # r => req'[q] = req[q]
          /\ req'[r].cat = req[r].cat
      BY <2>2, SettingsGoes
    <3>2. AtStep("agent") \union {r} \subseteq InService
      BY <1>2, AtIsInService DEF AtStep, CheckName
    <3>3. ASSUME NEW c \in Ids PROVE Cardinality(NameHolders(c)') <= Threads
      <4>1. CASE c = req[r].cat
        <5>1. NameHolders(c)' \subseteq InService
          BY <1>2, <2>2, <3>1, <3>2, <4>1 DEF CheckName, settingVars
        <5> QED
          BY <5>1, AtMostThreads
      <4>2. CASE c # req[r].cat
        <5>0. agents' = agents
          BY <1>2 DEF CheckName, settingVars
        <5>1. AtStep("agent") \subseteq Requests
          BY DEF AtStep
        <5>2. ASSUME NEW q \in AtStep("agent") \union {r}, req'[q].cat = c
              PROVE  q \in AtStep("agent") /\ req[q].cat = c
          <6>1. q # r
            BY <3>1, <4>2, <5>2
          <6> QED
            BY <5>1, <5>2, <3>1, <6>1
        <5>3. NameHolders(c)' \subseteq NameHolders(c)
          BY <3>1, <5>0, <5>2
        <5> QED
          BY <1>0, <5>3, Fewer
      <4> QED
        BY <4>1, <4>2
    <3> QED
      BY <3>3
  <2> QED
    BY <1>2, <2>1, <2>2 DEF CheckName
<1>3. ASSUME NEW r \in Requests, InsertAgent(r) PROVE NamesBounded'
  <2> DEFINE new == [id |-> r, cat |-> req[r].cat, named |-> TRUE, touched |-> FALSE,
                     active |-> TRUE, prompts |-> {r}]
  <2>1. agents' = agents \union {new} /\ r \in AtStep("agent") /\ Goes(r, Done)
    BY <1>3 DEF InsertAgent, AtStep, Ends
  <2>2. AtStep("agent")' = AtStep("agent") \ {r} /\ \A q \in Requests : q # r => req'[q] = req[q]
    BY <2>1, SettingsGoes, StepsDiffer
  <2>3. new.id = r /\ new.cat = req[r].cat
    OBVIOUS
  <2> HIDE DEF new
  <2>4. \A c \in Ids : NameHolders(c)' \subseteq NameHolders(c)
    BY <2>1, <2>2, <2>3 DEF AtStep
  <2> QED
    BY <1>1, <2>4
\* An agent is exchanged for one that is not more of the name and category.
<1>4. ASSUME NEW r \in Requests, NEW v, Goes(r, v), v.step # "agent",
             UNCHANGED agents \/ \E a \in agents, b \in Agent :
                /\ b.id = a.id /\ agents' = (agents \ {a}) \union {b}
                /\ b.named /\ ~b.touched => a.named /\ ~a.touched /\ b.cat = a.cat
      PROVE  NamesBounded'
  <2>1. AtStep("agent")' = AtStep("agent") \ {r} /\ \A q \in Requests : q # r => req'[q] = req[q]
    BY <1>4, SettingsGoes
  <2>2. \A x \in agents' : x.named /\ ~x.touched =>
           \E y \in agents : y.id = x.id /\ y.named /\ ~y.touched /\ y.cat = x.cat
    BY <1>4
  <2>3. \A c \in Ids : NameHolders(c)' \subseteq NameHolders(c)
    BY <2>1, <2>2 DEF AtStep
  <2> QED
    BY <1>1, <2>3
<1>5. ASSUME NEW r \in Requests, EditAgent(r) PROVE NamesBounded'
  <2>1. Goes(r, Done)
    BY <1>5 DEF EditAgent, Ends
  <2> QED
    BY <1>4, <1>5, <2>1, Edited, StepsDiffer
<1>6. ASSUME NEW r \in Requests, NEW a \in agents, DeactivateAgent(r, a) PROVE NamesBounded'
  <2>1. Goes(r, Done)
    BY <1>6 DEF DeactivateAgent, Whole, Ends
  <2> QED
    BY <1>4, <1>6, <2>1, Deactivated, StepsDiffer
<1>7. ASSUME NEW r \in Requests,
             \/ CreateAgent(r) \/ \E a \in agents : UpdateAgent(r, a)
             \/ ReadPrompt(r) \/ CreateCategory(r)
             \/ SetPreference(r) \/ CommitPreference(r)
             \/ RolledBack(r) /\ UNCHANGED settingVars
      PROVE  NamesBounded'
  <2>1. UNCHANGED agents
    BY <1>7 DEF CreateAgent, UpdateAgent, ReadPrompt, CreateCategory, SetPreference,
       CommitPreference, settingVars
  <2>2. \E v : Goes(r, v) /\ v.step # "agent"
    <3>1. CASE CreateAgent(r)
      BY <3>1 DEF CreateAgent
    <3>2. CASE \E a \in agents : UpdateAgent(r, a)
      BY <3>2 DEF UpdateAgent
    <3>3. CASE ReadPrompt(r)
      BY <3>3 DEF ReadPrompt
    <3>4. CASE SetPreference(r)
      BY <3>4 DEF SetPreference
    <3>5. CASE CreateCategory(r) \/ CommitPreference(r) \/ RolledBack(r)
      BY <3>5, StepsDiffer DEF CreateCategory, CommitPreference, RolledBack, Whole, Ends
    <3> QED
      BY <1>7, <3>1, <3>2, <3>3, <3>4, <3>5
  <2> QED
    BY <1>4, <2>1, <2>2
<1> QED
  BY <1>2, <1>3, <1>5, <1>6, <1>7 DEF SettingsMoves, SettingsNext

\* The prompts of an agent, and those that will be added because it had none.
PromptHolders(a) == a.prompts \union {r \in AtStep("edit") : req[r].add /\ req[r].agent = a.id}
PromptsBounded == \A a \in agents : Cardinality(PromptHolders(a)) <= Threads

LEMMA PromptsStep ==
  ASSUME Served, SettingsTyped, PromptsBounded, SettingsMoves
  PROVE  PromptsBounded'
<1> USE DEF PromptsBounded, PromptHolders
<1>0. \A a \in agents : a \in Agent /\ IsFiniteSet(PromptHolders(a))
  <2> SUFFICES ASSUME NEW a \in agents PROVE a \in Agent /\ IsFiniteSet(PromptHolders(a))
    OBVIOUS
  <2>1. PromptHolders(a) \subseteq Requests /\ a \in Agent
    BY DEF SettingsTyped, AtStep, Agent
  <2> QED
    BY <2>1, RequestsAssumption, FS_Subset
<1>1. ASSUME NEW a \in agents, NEW b, PromptHolders(b)' \subseteq PromptHolders(a)
      PROVE  Cardinality(PromptHolders(b)') <= Threads
  BY <1>0, <1>1, Fewer
\* A step after which each agent has been there before, with all its prompts.
<1>2. ASSUME NEW r \in Requests, NEW v, Goes(r, v), v.step # "edit",
             UNCHANGED agents \/ \E a \in agents, b \in Agent :
                /\ b.id = a.id /\ agents' = (agents \ {a}) \union {b}
                /\ b.prompts \subseteq a.prompts \union
                      {q \in {r} : r \in AtStep("edit") /\ req[r].agent = a.id /\ req[r].add}
      PROVE  PromptsBounded'
  <2>1. AtStep("edit")' = AtStep("edit") \ {r} /\ \A q \in Requests : q # r => req'[q] = req[q]
    BY <1>2, SettingsGoes
  <2>2. ASSUME NEW b \in agents' PROVE \E a \in agents : PromptHolders(b)' \subseteq PromptHolders(a)
    <3>1. PICK a \in agents : /\ b.id = a.id
              /\ b.prompts \subseteq a.prompts \union
                    {q \in {r} : r \in AtStep("edit") /\ req[r].agent = a.id /\ req[r].add}
      BY <1>2, <2>2
    <3>2. PromptHolders(b)' \subseteq PromptHolders(a)
      BY <2>1, <3>1 DEF AtStep
    <3> QED
      BY <3>2
  <2> QED
    BY <1>1, <2>2
<1>3. ASSUME NEW r \in Requests, ReadPrompt(r) PROVE PromptsBounded'
  <2>1. PICK given \in BOOLEAN, a \in agents :
          /\ a.id = req[r].agent
          /\ Goes(r, [step |-> "edit", agent |-> a.id, cat |-> req[r].cat,
                      add |-> given /\ a.prompts = {}])
    BY <1>3 DEF ReadPrompt
  <2>2. /\ AtStep("edit")' = AtStep("edit") \union {r}
        /\ \A q \in Requests : q # r => req'[q] = req[q]
        /\ req'[r].agent = a.id /\ req'[r].add = (given /\ a.prompts = {})
    BY <2>1, SettingsGoes
  <2>3. AtStep("edit") \union {r} \subseteq InService /\ agents' = agents
    BY <1>3, AtIsInService DEF AtStep, ReadPrompt, settingVars
  <2>4. ASSUME NEW b \in agents PROVE Cardinality(PromptHolders(b)') <= Threads
    <3>1. CASE b = a /\ a.prompts = {}
      <4>1. PromptHolders(b)' \subseteq InService
        BY <2>2, <2>3, <3>1
      <4> QED
        BY <4>1, AtMostThreads
    <3>2. CASE b # a \/ a.prompts # {}
      <4>1. b = a \/ b.id # a.id
        BY DEF SettingsTyped
      <4>2. PromptHolders(b)' \subseteq PromptHolders(b)
        BY <2>1, <2>2, <3>2, <4>1 DEF AtStep
      <4> QED
        BY <1>1, <4>2
    <3> QED
      BY <3>1, <3>2
  <2> QED
    BY <2>3, <2>4
<1>4. ASSUME NEW r \in Requests, InsertAgent(r) PROVE PromptsBounded'
  <2>0. \E new : /\ agents' = agents \union {new}
                 /\ new.id = r /\ new.prompts = {r}
    <3> DEFINE new == [id |-> r, cat |-> req[r].cat, named |-> TRUE, touched |-> FALSE,
                       active |-> TRUE, prompts |-> {r}]
    <3>1. agents' = agents \union {new} /\ new.id = r /\ new.prompts = {r}
      BY <1>4 DEF InsertAgent
    <3> QED
      BY <3>1
  <2>3. PICK new : /\ agents' = agents \union {new}
                   /\ new.id = r /\ new.prompts = {r}
    BY <2>0
  <2>1. agents' = agents \union {new} /\ Goes(r, Done) /\ At(r, "agent")
    BY <1>4, <2>3 DEF InsertAgent, Ends
  <2>2. AtStep("edit")' = AtStep("edit") \ {r} /\ \A q \in Requests : q # r => req'[q] = req[q]
    BY <2>1, SettingsGoes, StepsDiffer
  <2>4. ASSUME NEW b \in agents PROVE Cardinality(PromptHolders(b)') <= Threads
    <3>1. PromptHolders(b)' \subseteq PromptHolders(b)
      BY <2>2 DEF AtStep
    <3> QED
      BY <1>1, <3>1
  <2>5. Cardinality(PromptHolders(new)') <= Threads
    <3>1. r \in InService
      BY <2>1, AtIsInService
    <3>2. \A a \in agents : a.id # r
      BY <2>1, StepsDiffer, SeededAgentAssumption DEF SettingsTyped, At
    <3>3. \A q \in AtStep("edit") : req[q].agent # r
      BY <3>2 DEF SettingsTyped, Updating
    <3>4. PromptHolders(new)' \subseteq InService
      BY <2>2, <2>3, <3>1, <3>3 DEF AtStep
    <3> QED
      BY <3>4, AtMostThreads
  <2> QED
    BY <2>1, <2>4, <2>5
<1>5. ASSUME NEW r \in Requests, EditAgent(r) PROVE PromptsBounded'
  <2>1. Goes(r, Done) /\ r \in AtStep("edit")
    BY <1>5 DEF EditAgent, Ends, AtStep
  <2>2. PICK a \in agents, b \in Agent :
            /\ a.id = req[r].agent /\ b.id = a.id
            /\ agents' = (agents \ {a}) \union {b}
            /\ b.prompts = IF req[r].add THEN a.prompts \union {r} ELSE a.prompts
    BY <1>5, Edited
  <2>3. b.prompts \subseteq a.prompts \union
            {q \in {r} : r \in AtStep("edit") /\ req[r].agent = a.id /\ req[r].add}
    BY <2>1, <2>2
  <2> QED
    BY <1>2, <2>1, <2>2, <2>3, StepsDiffer
<1>6. ASSUME NEW r \in Requests, NEW a \in agents, DeactivateAgent(r, a) PROVE PromptsBounded'
  <2>1. Goes(r, Done)
    BY <1>6 DEF DeactivateAgent, Whole, Ends
  <2>2. PICK b \in Agent : b.id = a.id /\ b.prompts = a.prompts /\ agents' = (agents \ {a}) \union {b}
    BY <1>6, Deactivated
  <2> QED
    BY <1>2, <2>1, <2>2, StepsDiffer
<1>7. ASSUME NEW r \in Requests,
             \/ CreateAgent(r) \/ \E a \in agents : UpdateAgent(r, a)
             \/ CheckName(r) \/ CreateCategory(r)
             \/ SetPreference(r) \/ CommitPreference(r)
             \/ RolledBack(r) /\ UNCHANGED settingVars
      PROVE  PromptsBounded'
  <2>1. UNCHANGED agents
    BY <1>7 DEF CreateAgent, UpdateAgent, CheckName, CreateCategory, SetPreference,
       CommitPreference, settingVars
  <2>2. \E v : Goes(r, v) /\ v.step # "edit"
    <3>1. CASE CreateAgent(r)
      BY <3>1 DEF CreateAgent
    <3>2. CASE \E a \in agents : UpdateAgent(r, a)
      BY <3>2 DEF UpdateAgent
    <3>3. CASE CheckName(r)
      <4>1. Goes(r, Done) \/ Goes(r, [step |-> "agent", cat |-> req[r].cat])
        BY <3>3 DEF CheckName
      <4> QED
        BY <4>1, StepsDiffer
    <3>4. CASE SetPreference(r)
      BY <3>4 DEF SetPreference
    <3>5. CASE CreateCategory(r) \/ CommitPreference(r) \/ RolledBack(r)
      BY <3>5, StepsDiffer DEF CreateCategory, CommitPreference, RolledBack, Whole, Ends
    <3> QED
      BY <1>7, <3>1, <3>2, <3>3, <3>4, <3>5
  <2> QED
    BY <1>2, <2>1, <2>2
<1> QED
  BY <1>3, <1>4, <1>5, <1>6, <1>7 DEF SettingsMoves, SettingsNext

\* Whoever will replace tones other than these.
Replacing(S) == {r \in AtStep("tones") : ~req[r].new /\ req[r].old \intersect S = {}}
TonesBounded ==
    pref # None => \A S \in SUBSET pref.tones : S # {} => Cardinality(S \union Replacing(S)) <= Threads

LEMMA TonesStep ==
  ASSUME Served, SettingsTyped, TonesBounded, SettingsMoves
  PROVE  TonesBounded'
<1>0. ASSUME pref # None, NEW S \in SUBSET pref.tones
      PROVE  IsFiniteSet(S \union Replacing(S))
  <2>1. S \union Replacing(S) \subseteq Requests
    BY <1>0 DEF SettingsTyped, Preferences, Replacing, AtStep
  <2> QED
    BY <2>1, RequestsAssumption, FS_Subset
\* What is held by some of the tones after the step was held by some before.
<1>1. ASSUME NEW T, NEW S, pref # None, S \in SUBSET pref.tones, S # {}, T \subseteq S \union Replacing(S)
      PROVE  Cardinality(T) <= Threads
  BY <1>0, <1>1, Fewer DEF TonesBounded
<1>2. ASSUME NEW r \in Requests, NEW v, Goes(r, v), UNCHANGED pref,
             v.step = "tones" => (v.new \/ (pref # None /\ v.old = pref.tones))
      PROVE  TonesBounded'
  <2>1. /\ req'[r] = v
        /\ \A q \in Requests : q # r => req'[q] = req[q]
        /\ \A q \in AtStep("tones")' : q \in Requests /\ (q # r => q \in AtStep("tones"))
        /\ r \in AtStep("tones")' => v.step = "tones"
    BY <1>2, SettingsGoes, StepsDiffer DEF AtStep
  <2>2. ASSUME pref # None, NEW S \in SUBSET pref.tones, S # {}
        PROVE  Cardinality(S \union Replacing(S)') <= Threads
    <3>1. \A q \in Replacing(S)' : q \in Replacing(S)
      BY <1>2, <2>1, <2>2 DEF Replacing
    <3> QED
      BY <1>1, <2>2, <3>1
  <2> QED
    BY <1>2, <2>2 DEF TonesBounded, Replacing
<1>3. ASSUME NEW r \in Requests, SetPreference(r) PROVE TonesBounded'
  <2> DEFINE v == [step |-> "tones", new |-> pref = None,
                   old |-> IF pref = None THEN {} ELSE pref.tones]
  <2>1. Goes(r, v) /\ UNCHANGED pref
    BY <1>3 DEF SetPreference, settingVars
  <2>2. v.new = (pref = None) /\ (pref # None => v.old = pref.tones)
    OBVIOUS
  <2> HIDE DEF v
  <2> QED
    BY <1>2, <2>1, <2>2
<1>4. ASSUME NEW r \in Requests, CommitPreference(r) PROVE TonesBounded'
  <2>1. PICK chosen \in {{}, {r}} :
          pref' = [voice |-> r,
                   tones |-> IF req[r].new THEN chosen
                             ELSE (pref.tones \ req[r].old) \union chosen]
    BY <1>4 DEF CommitPreference
  <2>2. /\ r \in AtStep("tones") /\ Goes(r, Done)
        /\ (req[r].new => pref = None) /\ (~req[r].new => pref # None)
    BY <1>4 DEF CommitPreference, AtStep, Ends, SettingsTyped
  <2>3. /\ \A q \in AtStep("tones")' : q \in AtStep("tones") /\ q # r
        /\ \A q \in AtStep("tones") : q # r => req'[q] = req[q]
    BY <2>2, SettingsGoes, StepsDiffer DEF AtStep
  <2>4. AtStep("tones") \subseteq InService
    BY AtIsInService DEF AtStep
  <2>5. ASSUME NEW S \in SUBSET pref'.tones, S # {}
        PROVE  Cardinality(S \union Replacing(S)') <= Threads
    <3> DEFINE Old == S \ {r}
    <3>1. \A q \in Replacing(S)' : q \in AtStep("tones") /\ q # r /\ q \in Replacing(Old)
      BY <2>3 DEF Replacing
    <3>2. CASE Old = {}
      <4>1. S \union Replacing(S)' \subseteq InService
        BY <2>2, <2>4, <3>1, <3>2
      <4> QED
        BY <4>1, AtMostThreads
    <3>3. CASE Old # {}
      <4>1. ~req[r].new /\ Old \subseteq pref.tones \ req[r].old /\ pref # None
        BY <2>1, <2>2, <3>3
      <4>2. r \in Replacing(Old)
        BY <2>2, <4>1 DEF Replacing
      <4>3. S \union Replacing(S)' \subseteq Old \union Replacing(Old)
        BY <3>1, <4>2
      <4> HIDE DEF Old
      <4> QED
        BY <1>1, <3>3, <4>1, <4>3
    <3> QED
      BY <3>2, <3>3
  <2> QED
    BY <2>5 DEF TonesBounded, Replacing
<1>5. ASSUME NEW r \in Requests,
             \/ CreateAgent(r) \/ \E a \in agents : UpdateAgent(r, a) \/ DeactivateAgent(r, a)
             \/ CheckName(r) \/ InsertAgent(r) \/ ReadPrompt(r) \/ EditAgent(r) \/ CreateCategory(r)
             \/ RolledBack(r) /\ UNCHANGED settingVars
      PROVE  TonesBounded'
  <2>1. UNCHANGED pref
    BY <1>5 DEF CreateAgent, UpdateAgent, DeactivateAgent, CheckName, InsertAgent, ReadPrompt, EditAgent,
       CreateCategory, settingVars
  <2>2. \E v : Goes(r, v) /\ v.step # "tones"
    <3>1. CASE CreateAgent(r)
      BY <3>1 DEF CreateAgent
    <3>2. CASE \E a \in agents : UpdateAgent(r, a)
      BY <3>2 DEF UpdateAgent
    <3>3. CASE CheckName(r)
      <4>1. Goes(r, Done) \/ Goes(r, [step |-> "agent", cat |-> req[r].cat])
        BY <3>3 DEF CheckName
      <4> QED
        BY <4>1, StepsDiffer
    <3>4. CASE ReadPrompt(r)
      BY <3>4 DEF ReadPrompt
    <3>5. CASE InsertAgent(r) \/ EditAgent(r) \/ CreateCategory(r) \/ RolledBack(r)
               \/ \E a \in agents : DeactivateAgent(r, a)
      BY <3>5, StepsDiffer DEF InsertAgent, EditAgent, CreateCategory, DeactivateAgent, RolledBack, Whole, Ends
    <3> QED
      BY <1>5, <3>1, <3>2, <3>3, <3>4, <3>5
  <2> QED
    BY <1>2, <2>1, <2>2
<1> QED
  BY <1>3, <1>4, <1>5 DEF SettingsMoves, SettingsNext

LEMMA SettingsTypedStep ==
  ASSUME Served, SettingsTyped, SettingsMoves
  PROVE  SettingsTyped'
<1> USE DEF SettingsTyped, Making, Updating
<1>0. ASSUME NEW r \in Requests, NEW v, Goes(r, v), TakenUp(r) \/ r \in InService,
             pref' \in Preferences \union {None}, pref # None => pref' # None,
             agents' \subseteq Agent, \A x, y \in agents' : x.id = y.id => x = y,
             {a.id : a \in agents} \subseteq {a.id : a \in agents'},
             categories' \subseteq [id : Requests, looked : BOOLEAN],
             \A c \in categories' : c \in categories \/ (c.id = r /\ v = Done),
             \A a \in agents' : a.id \in {b.id : b \in agents} \/ (a.id = r /\ v = Done),
             v.step \in {"name", "agent"} => v.cat \in Requests,
             v.step \in {"prompt", "edit"} =>
                v.cat \in Requests \union {None} /\ v.agent \in {a.id : a \in agents},
             v.step = "tones" => v.new \in BOOLEAN /\ (~v.new => pref # None)
      PROVE  SettingsTyped'
  <2>1. /\ req'[r] = v
        /\ \A q \in Requests : q # r => req'[q] = req[q]
    BY <1>0, SettingsGoes
  <2>2. \A q \in Requests : req[q] = Done => req'[q] = Done
    BY <1>0, DoneStays
  <2>3. \A c \in categories' : req'[c.id] = Done
    BY <1>0, <2>1, <2>2
  <2>4. \A a \in agents' : a.id # Seeded => req'[a.id] = Done
    <3> SUFFICES ASSUME NEW a \in agents', a.id # Seeded PROVE req'[a.id] = Done
      OBVIOUS
    <3>1. CASE a.id = r /\ v = Done
      BY <2>1, <3>1
    <3>2. CASE a.id \in {b.id : b \in agents}
      BY <1>0, <2>2, <3>2 DEF Agent, Ids
    <3> QED
      BY <1>0, <3>1, <3>2
  <2>5. \A q \in Making' : req'[q].cat \in Requests
    BY <1>0, <2>1, SettingsGoes DEF AtStep
  <2>6. \A q \in Updating' : req'[q].cat \in Requests \union {None} /\ req'[q].agent \in {a.id : a \in agents}
    BY <1>0, <2>1, SettingsGoes DEF AtStep
  <2>7. \A q \in AtStep("tones")' : req'[q].new \in BOOLEAN /\ (~req'[q].new => pref' # None)
    BY <1>0, <2>1, SettingsGoes DEF AtStep
  <2>8. \A q \in Updating' : \E a \in agents' : a.id = req'[q].agent
    BY <1>0, <2>6
  <2> QED
    BY <1>0, <2>3, <2>4, <2>5, <2>6, <2>7, <2>8
<1>1. ASSUME NEW r \in Requests, NEW v, Goes(r, v), TakenUp(r) \/ r \in InService, UNCHANGED settingVars,
             v.step \in {"name", "agent"} => v.cat \in Requests,
             v.step \in {"prompt", "edit"} =>
                v.cat \in Requests \union {None} /\ v.agent \in {a.id : a \in agents},
             v.step = "tones" => v.new \in BOOLEAN /\ (~v.new => pref # None)
      PROVE  SettingsTyped'
  <2>1. \A a \in agents : a.id \in {b.id : b \in agents}
    OBVIOUS
  <2> QED
    BY <1>0, <1>1, <2>1 DEF settingVars
<1>2. ASSUME NEW r \in Requests, CreateAgent(r) PROVE SettingsTyped'
  <2>1. PICK cat \in Found(r) : Goes(r, [step |-> "name", cat |-> cat])
    BY <1>2 DEF CreateAgent
  <2> QED
    BY <1>1, <1>2, <2>1, FoundTyped DEF CreateAgent
<1>3. ASSUME NEW r \in Requests, NEW a \in agents, UpdateAgent(r, a) PROVE SettingsTyped'
  <2>1. PICK cat \in Found(r) \union {None} : Goes(r, [step |-> "prompt", agent |-> a.id, cat |-> cat])
    BY <1>3 DEF UpdateAgent
  <2> QED
    BY <1>1, <1>3, <2>1, FoundTyped DEF UpdateAgent
<1>4. ASSUME NEW r \in Requests, CheckName(r) PROVE SettingsTyped'
  <2>1. Goes(r, Done) \/ Goes(r, [step |-> "agent", cat |-> req[r].cat])
    BY <1>4 DEF CheckName
  <2>2. r \in InService /\ req[r].cat \in Requests
    BY <1>4, AtIsInService DEF CheckName, AtStep
  <2> QED
    BY <1>1, <1>4, <2>1, <2>2, StepsDiffer DEF CheckName
<1>5. ASSUME NEW r \in Requests, ReadPrompt(r) PROVE SettingsTyped'
  <2>1. PICK given \in BOOLEAN, a \in agents :
          /\ a.id = req[r].agent
          /\ Goes(r, [step |-> "edit", agent |-> a.id, cat |-> req[r].cat,
                      add |-> given /\ a.prompts = {}])
    BY <1>5 DEF ReadPrompt
  <2>2. r \in InService /\ req[r].cat \in Requests \union {None}
    BY <1>5, AtIsInService DEF ReadPrompt, AtStep
  <2> QED
    BY <1>1, <1>5, <2>1, <2>2 DEF ReadPrompt
<1>6. ASSUME NEW r \in Requests, SetPreference(r) PROVE SettingsTyped'
  <2>1. Goes(r, [step |-> "tones", new |-> pref = None,
                 old |-> IF pref = None THEN {} ELSE pref.tones])
    BY <1>6 DEF SetPreference
  <2> QED
    BY <1>1, <1>6, <2>1 DEF SetPreference
<1>7. ASSUME NEW r \in Requests, RolledBack(r), UNCHANGED settingVars PROVE SettingsTyped'
  BY <1>1, <1>7, StepsDiffer DEF RolledBack, Ends
\* Steps that end with a commit.
<1>8. ASSUME NEW r \in Requests, InsertAgent(r) PROVE SettingsTyped'
  <2> DEFINE new == [id |-> r, cat |-> req[r].cat, named |-> TRUE, touched |-> FALSE,
                     active |-> TRUE, prompts |-> {r}]
  <2>1. /\ agents' = agents \union {new} /\ Goes(r, Done) /\ At(r, "agent")
        /\ WithCategory(req[r].cat, r) /\ UNCHANGED pref
    BY <1>8 DEF InsertAgent, Ends
  <2>2. new \in Agent /\ new.id = r
    BY <2>1 DEF AtStep, Agent, Ids
  <2> HIDE DEF new
  <2>3. r \in InService /\ req[r] # Done
    BY <2>1, AtIsInService, StepsDiffer DEF At
  <2>4. \A a \in agents : a.id # r
    BY <2>3, SeededAgentAssumption
  <2>5. categories' \subseteq [id : Requests, looked : BOOLEAN]
        /\ \A c \in categories' : c \in categories \/ c.id = r
    BY <2>1, WithCategoryTyped
  <2> QED
    BY <1>0, <2>1, <2>2, <2>3, <2>4, <2>5, StepsDiffer
<1>9. ASSUME NEW r \in Requests, EditAgent(r) PROVE SettingsTyped'
  <2>1. /\ Goes(r, Done) /\ At(r, "edit")
        /\ WithCategory(req[r].cat, r) /\ UNCHANGED pref
    BY <1>9 DEF EditAgent, Ends
  <2>2. \E a \in agents, b \in Agent : b.id = a.id /\ agents' = (agents \ {a}) \union {b}
    <3>1. SettingsTyped
      OBVIOUS
    <3> HIDE DEF SettingsTyped
    <3> QED
      BY <1>9, <3>1, Edited
  <2>3. /\ agents' \subseteq Agent
        /\ \A x, y \in agents' : x.id = y.id => x = y
        /\ {x.id : x \in agents'} = {x.id : x \in agents}
    BY <2>2, Exchanged
  <2>4. r \in InService
    BY <2>1, AtIsInService
  <2>5. categories' \subseteq [id : Requests, looked : BOOLEAN]
        /\ \A c \in categories' : c \in categories \/ c.id = r
    BY <2>1, WithCategoryTyped
  <2>6. \A x \in agents' : x.id \in {y.id : y \in agents}
    BY <2>3
  <2> QED
    BY <1>0, <2>1, <2>3, <2>4, <2>5, <2>6, StepsDiffer
<1>10. ASSUME NEW r \in Requests, NEW a \in agents, DeactivateAgent(r, a) PROVE SettingsTyped'
  <2>1. Goes(r, Done) /\ TakenUp(r) /\ UNCHANGED <<categories, pref>>
    BY <1>10 DEF DeactivateAgent, Whole, Ends
  <2>2. PICK b \in Agent : b.id = a.id /\ agents' = (agents \ {a}) \union {b}
    BY <1>10, Deactivated
  <2>3. /\ agents' \subseteq Agent
        /\ \A x, y \in agents' : x.id = y.id => x = y
        /\ {x.id : x \in agents'} = {x.id : x \in agents}
    BY <2>2, Exchanged
  <2>4. \A x \in agents' : x.id \in {y.id : y \in agents}
    BY <2>3
  <2> QED
    BY <1>0, <2>1, <2>3, <2>4, StepsDiffer
<1>11. ASSUME NEW r \in Requests, CreateCategory(r) PROVE SettingsTyped'
  <2>1. Goes(r, Done) /\ TakenUp(r) /\ UNCHANGED <<agents, pref>>
        /\ categories' = categories \union {[id |-> r, looked |-> FALSE]}
    BY <1>11 DEF CreateCategory, Whole, Ends
  <2>2. categories' \subseteq [id : Requests, looked : BOOLEAN]
        /\ \A c \in categories' : c \in categories \/ c.id = r
    BY <2>1, CategoryTyped
  <2>3. \A a \in agents : a.id \in {b.id : b \in agents}
    OBVIOUS
  <2> QED
    BY <1>0, <2>1, <2>2, <2>3, StepsDiffer
<1>12. ASSUME NEW r \in Requests, CommitPreference(r) PROVE SettingsTyped'
  <2>1. Goes(r, Done) /\ r \in AtStep("tones") /\ r \in InService /\ UNCHANGED <<categories, agents>>
    BY <1>12, AtIsInService DEF CommitPreference, Ends, AtStep
  <2>2. PICK chosen \in {{}, {r}} :
          pref' = [voice |-> r,
                   tones |-> IF req[r].new THEN chosen
                             ELSE (pref.tones \ req[r].old) \union chosen]
    BY <1>12 DEF CommitPreference
  <2>3. req[r].new \in BOOLEAN /\ (~req[r].new => pref \in Preferences)
    BY <2>1
  <2>4. pref' \in Preferences
    BY <2>2, <2>3 DEF Preferences
  <2>5. \A a \in agents : a.id \in {b.id : b \in agents}
    OBVIOUS
  <2> QED
    BY <1>0, <2>1, <2>4, <2>5, StepsDiffer, PreferencesAssumption
<1> QED
  BY <1>2, <1>3, <1>4, <1>5, <1>6, <1>7, <1>8, <1>9, <1>10, <1>11, <1>12 DEF SettingsMoves, SettingsNext

SettingsInv ==
    /\ SettingsTyped
    /\ Cardinality(CategoryHolders) <= Threads
    /\ NamesBounded
    /\ PromptsBounded
    /\ TonesBounded

LEMMA SettingsStep ==
  ASSUME Served, SettingsInv, SettingsMoves
  PROVE  SettingsInv'
BY SettingsTypedStep, CategoriesStep, NamesStep, PromptsStep, TonesStep DEF SettingsInv

LEMMA SettingsStart ==
  ASSUME req = [r \in Requests |-> New], SettingsInit
  PROVE  SettingsInv
<1>1. \A s \in {"name", "agent", "prompt", "edit", "tones"} : AtStep(s) = {}
  BY StepsDiffer DEF AtStep, At
<1>2. Cardinality({}) = 0 /\ 0 <= Threads
  BY FS_EmptySet, RequestsAssumption
<1>3. SettingsTyped
  BY <1>1 DEF SettingsInit, SettingsTyped, Agent, Ids, Making, Updating
<1>4. CategoryHolders = {}
  BY <1>1 DEF SettingsInit, CategoryHolders, Looked, NewCategory, Making, Updating
<1>5. \A c : NameHolders(c) = {}
  BY <1>1 DEF SettingsInit, NameHolders, Untouched, NamedIn
<1>6. \A a \in agents : PromptHolders(a) = {}
  BY <1>1 DEF SettingsInit, PromptHolders
<1> QED
  BY <1>2, <1>3, <1>4, <1>5, <1>6 DEF SettingsInv, NamesBounded, PromptsBounded, TonesBounded, SettingsInit

\* What the holders are bounded by bounds the rows.
LEMMA SettingsBounded == ASSUME SettingsInv PROVE DuplicatesOverlapOnly
<1> USE DEF SettingsInv
<1>1. Cardinality({c \in categories : c.looked}) <= Threads
  <2>1. CategoryHolders \subseteq Requests /\ IsFiniteSet(CategoryHolders)
    BY RequestsAssumption, FS_Subset
       DEF SettingsTyped, AtStep, CategoryHolders, NewCategory, Looked, Making, Updating
  <2>2. \A x \in Looked : x.id \in CategoryHolders
    BY DEF CategoryHolders
  <2>3. \A x, y \in Looked : x.id = y.id => x = y
    BY DEF Looked, SettingsTyped
  <2>4. Cardinality(Looked) <= Threads
    BY <2>1, <2>2, <2>3, ByIdBounded
  <2> QED
    BY <2>4 DEF Looked
<1>2. ASSUME NEW c \in {a.cat : a \in agents}
      PROVE  Cardinality({a \in NamedIn(c) : ~a.touched}) <= Threads
  <2>1. c \in Ids
    BY DEF SettingsTyped, Agent
  <2>2. NameHolders(c) \subseteq Ids /\ IsFiniteSet(NameHolders(c))
    <3>1. NameHolders(c) \subseteq Ids
      BY DEF SettingsTyped, AtStep, Ids, Agent, NameHolders, Untouched, NamedIn
    <3> QED
      BY <3>1, IdsFinite, FS_Subset
  <2>3. \A x \in Untouched(c) : x.id \in NameHolders(c)
    BY DEF NameHolders
  <2>4. \A x, y \in Untouched(c) : x.id = y.id => x = y
    BY DEF Untouched, NamedIn, SettingsTyped
  <2>5. Cardinality(Untouched(c)) <= Threads
    BY <2>1, <2>2, <2>3, <2>4, ByIdBounded DEF NamesBounded
  <2> QED
    BY <2>5 DEF Untouched
<1>3. ASSUME NEW a \in agents PROVE Cardinality(a.prompts) <= Threads
  <2>1. PromptHolders(a) \subseteq Requests /\ IsFiniteSet(PromptHolders(a))
    BY RequestsAssumption, FS_Subset DEF SettingsTyped, AtStep, Agent, PromptHolders
  <2>2. a.prompts \subseteq PromptHolders(a) /\ Cardinality(PromptHolders(a)) <= Threads
    BY DEF PromptHolders, PromptsBounded
  <2> QED
    BY <2>1, <2>2, Fewer
<1>4. ASSUME pref # None PROVE Cardinality(pref.tones) <= Threads
  <2>1. CASE pref.tones = {}
    BY <2>1, FS_EmptySet, RequestsAssumption
  <2>2. CASE pref.tones # {}
    <3> DEFINE Held == pref.tones \union Replacing(pref.tones)
    <3>1. Held \subseteq Requests
      BY <1>4 DEF SettingsTyped, Preferences, Replacing, AtStep
    <3>2. IsFiniteSet(Held) /\ Cardinality(Held) <= Threads /\ pref.tones \subseteq Held
      BY <1>4, <2>2, <3>1, RequestsAssumption, FS_Subset DEF TonesBounded
    <3> HIDE DEF Held
    <3> QED
      BY <3>2, Fewer
  <2> QED
    BY <2>1, <2>2
<1> QED
  BY <1>1, <1>2, <1>3, <1>4 DEF DuplicatesOverlapOnly

-----------------------------------------------------------------------------
(***************************************************************************)
(* Conversations and the messages of a device.                             *)
(***************************************************************************)
LEMMA ApiGoes ==
  ASSUME Served, NEW r \in Requests, NEW v, Goes(r, v)
  PROVE  /\ req'[r] = v
         /\ \A q \in Requests : q # r => req'[q] = req[q]
         /\ \A s \in {"start", "device"} :
               AtStep(s)' = IF v.step = s THEN AtStep(s) \union {r} ELSE AtStep(s) \ {r}
BY GoesEffect DEF Served, AtStep, At

(***************************************************************************)
(* Conversations.                                                          *)
(***************************************************************************)
Conversation == [id : Requests, looked : BOOLEAN, size : Nat, live : BOOLEAN]

\* Each conversation has the name of the request that made it.
ConvsTyped ==
    /\ convs \in Seq(Conversation)
    /\ \A i, j \in 1..Len(convs) : convs[i].id = convs[j].id => i = j
    /\ \A i \in 1..Len(convs) : req[convs[i].id] = Done

\* Those that have looked, found no empty conversation and will make one.
Starting    == {r \in AtStep("start") : req[r].looked}
StartsTyped == \A r \in AtStep("start") : req[r].looked \in BOOLEAN

LEMMA StartingGoes ==
  ASSUME Served, NEW r \in Requests, NEW v, Goes(r, v)
  PROVE  /\ v.step # "start" \/ v.looked = FALSE => Starting' \subseteq Starting
         /\ Starting' \subseteq Starting \union {r}
<1>1. /\ req'[r] = v /\ \A q \in Requests : q # r => req'[q] = req[q]
      /\ AtStep("start")' = IF v.step = "start" THEN AtStep("start") \union {r} ELSE AtStep("start") \ {r}
      /\ AtStep("start") \subseteq Requests
  BY ApiGoes DEF AtStep
<1> QED
  BY <1>1 DEF Starting

LEMMA StartsStep ==
  ASSUME Served, StartsTyped, ApiNext
  PROVE  StartsTyped'
<1>1. ASSUME NEW r \in Requests, NEW v, Goes(r, v), v.step # "start" \/ v.looked \in BOOLEAN
      PROVE  StartsTyped'
  <2>1. /\ req'[r] = v /\ \A q \in Requests : q # r => req'[q] = req[q]
        /\ AtStep("start")' = IF v.step = "start" THEN AtStep("start") \union {r} ELSE AtStep("start") \ {r}
        /\ AtStep("start") \subseteq Requests
    BY <1>1, ApiGoes DEF AtStep
  <2> QED
    BY <1>1, <2>1 DEF StartsTyped
<1>2. ASSUME NEW r \in Requests, StartSession(r) PROVE StartsTyped'
  <2>1. PICK looked \in BOOLEAN : Goes(r, [step |-> "start", looked |-> looked])
    BY <1>2 DEF StartSession
  <2> QED
    BY <1>1, <2>1
<1>3. ASSUME NEW r \in Requests,
             \/ CreateConversation(r) \/ StartConversation(r) \/ \E c \in All : Rename(r, c) \/ SoftDelete(r, c)
             \/ InsertMessage(r) \/ RolledBack(r)
      PROVE  StartsTyped'
  <2>1. Goes(r, Done)
    BY <1>3 DEF CreateConversation, StartConversation, Rename, SoftDelete, InsertMessage, RolledBack, Whole, Ends
  <2> QED
    BY <1>1, <2>1, StepsDiffer
<1>4. ASSUME NEW r \in Requests, AddToDevice(r) PROVE StartsTyped'
  BY <1>1, <1>4 DEF AddToDevice
<1>5. ASSUME UNCHANGED req PROVE StartsTyped'
  BY <1>5 DEF StartsTyped, AtStep, At
<1> QED
  BY <1>2, <1>3, <1>4, <1>5 DEF ApiNext, AddMessage, OpenConversation, LoadMore

LEMMA InConvs ==
  ASSUME ConvsTyped, NEW i \in 1..Len(convs)
  PROVE  convs[i] \in Conversation /\ convs[i].id \in Requests /\ req[convs[i].id] = Done
<1>1. convs[i] \in Conversation
  BY DEF ConvsTyped
<1> QED
  BY <1>1 DEF ConvsTyped, Conversation

LEMMA AllTyped ==
  ASSUME ConvsTyped
  PROVE  /\ All \subseteq Conversation
         /\ \A c, d \in All : c.id = d.id => c = d
         /\ \A c \in All : req[c.id] = Done
BY DEF ConvsTyped, All

LEMMA Prepended ==
  ASSUME Served, ConvsTyped, NEW r \in Requests, Goes(r, Done), TakenUp(r) \/ r \in InService, req[r] # Done,
         NEW c \in Conversation, c.id = r, convs' = <<c>> \o convs
  PROVE  ConvsTyped' /\ Len(convs') = Len(convs) + 1 /\ All' = All \union {c}
<1>1. convs \in Seq(Conversation) /\ Len(convs) \in Nat
  BY DEF ConvsTyped
<1>2. convs' \in Seq(Conversation) /\ Len(convs') = Len(convs) + 1
  BY <1>1
<1>3. \A i \in 1..Len(convs') : convs'[i] = IF i = 1 THEN c ELSE convs[i - 1]
  BY <1>1
<1>4. req'[r] = Done /\ \A q \in Requests : req[q] = Done => req'[q] = Done
  BY ApiGoes, DoneStays
<1>5. \A i \in 1..Len(convs) : convs[i] \in Conversation /\ convs[i].id # r /\ convs[i].id \in Requests
  BY InConvs
<1>6. ConvsTyped'
  <2>1. \A i, j \in 1..Len(convs') : convs'[i].id = convs'[j].id => i = j
    <3>1. \A i \in 1..Len(convs') : i = 1 \/ (i - 1 \in 1..Len(convs) /\ convs'[i] = convs[i - 1])
      BY <1>1, <1>2, <1>3
    <3>2. convs'[1] = c
      BY <1>1, <1>2, <1>3
    <3>3. \A k, l \in 1..Len(convs) : convs[k].id = convs[l].id => k = l
      BY DEF ConvsTyped
    <3> SUFFICES ASSUME NEW i \in 1..Len(convs'), NEW j \in 1..Len(convs'), convs'[i].id = convs'[j].id
                 PROVE  i = j
      OBVIOUS
    <3>4. CASE i # 1 /\ j # 1
      <4>1. i - 1 = j - 1
        BY <3>1, <3>3, <3>4
      <4> QED
        BY <1>1, <1>2, <4>1
    <3>5. CASE i = 1 /\ j # 1
      BY <1>5, <3>1, <3>2, <3>5
    <3>6. CASE i # 1 /\ j = 1
      BY <1>5, <3>1, <3>2, <3>6
    <3> QED
      BY <3>4, <3>5, <3>6
  <2>2. \A i \in 1..Len(convs') : req'[convs'[i].id] = Done
    <3>1. \A i \in 1..Len(convs) : req'[convs[i].id] = Done
      BY <1>4, InConvs
    <3>2. \A i \in 1..Len(convs') : convs'[i] = c \/ (i - 1 \in 1..Len(convs) /\ convs'[i] = convs[i - 1])
      BY <1>1, <1>2, <1>3
    <3> QED
      BY <1>4, <3>1, <3>2
  <2> QED
    BY <1>2, <2>1, <2>2 DEF ConvsTyped
<1>7. All' = All \union {c}
  <2>1. \A i \in 1..Len(convs) : convs'[i + 1] = convs[i] /\ i + 1 \in 1..Len(convs')
    BY <1>1, <1>2, <1>3
  <2>2. DOMAIN convs = 1..Len(convs) /\ DOMAIN convs' = 1..Len(convs')
    BY <1>1, <1>2
  <2>3. convs'[1] = c /\ 1 \in 1..Len(convs')
    BY <1>1, <1>2, <1>3
  <2>4. \A i \in 1..Len(convs') : i = 1 \/ (i - 1 \in 1..Len(convs) /\ convs'[i] = convs[i - 1])
    BY <1>1, <1>2, <1>3
  <2>5. All \union {c} \subseteq All'
    <3>1. c \in All'
      BY <2>2, <2>3 DEF All
    <3>2. ASSUME NEW i \in 1..Len(convs) PROVE convs[i] \in All'
      <4>1. convs'[i + 1] = convs[i] /\ i + 1 \in DOMAIN convs'
        BY <2>1, <2>2
      <4> QED
        BY <4>1 DEF All
    <3> QED
      BY <2>2, <3>1, <3>2 DEF All
  <2>6. All' \subseteq All \union {c}
    BY <2>2, <2>3, <2>4 DEF All
  <2> QED
    BY <2>5, <2>6
<1> QED
  BY <1>2, <1>6, <1>7

LEMMA MovedToFront ==
  ASSUME ConvsTyped, \A q \in Requests : req[q] = Done => req'[q] = Done,
         NEW c \in All, NEW d \in Conversation, d.id = c.id, convs' = Updated(c, d)
  PROVE  ConvsTyped' /\ Len(convs') = Len(convs) /\ All' = (All \ {c}) \union {d}
<1> DEFINE n == Len(convs)  p == Place(c)
<1>1. convs \in Seq(Conversation) /\ n \in Nat /\ DOMAIN convs = 1..n
  BY DEF ConvsTyped
<1>2. p \in 1..n /\ convs[p] = c
  BY <1>1 DEF All, Place
<1>3. convs' = [i \in 1..n |-> IF i = 1 THEN d ELSE IF i <= p THEN convs[i - 1] ELSE convs[i]]
  BY <1>1 DEF Updated
<1>4. \A i \in 1..n : convs[i] \in Conversation /\ convs[i].id \in Requests
  BY InConvs
<1>5. convs' \in Seq(Conversation) /\ Len(convs') = n
  <2>1. \A i \in 1..n : convs'[i] \in Conversation
    BY <1>1, <1>2, <1>3, <1>4
  <2>2. convs' \in [1..n -> Conversation]
    BY <1>3, <2>1
  <2> QED
    BY <1>1, <2>2
\* Where the conversation at a place comes from.
<1> DEFINE From(i) == IF i = 1 THEN p ELSE IF i <= p THEN i - 1 ELSE i
<1>6. \A i \in 1..n : From(i) \in 1..n /\ convs'[i].id = convs[From(i)].id
                      /\ (i # 1 => From(i) # p /\ convs'[i] = convs[From(i)])
  BY <1>1, <1>2, <1>3
<1>7. \A i, j \in 1..n : From(i) = From(j) => i = j
  BY <1>1, <1>2
<1>8. convs'[1] = d /\ 1 \in 1..n
  BY <1>1, <1>2, <1>3
<1>9. \A k \in 1..n : k # p => \E i \in 1..n : i # 1 /\ From(i) = k
  <2> SUFFICES ASSUME NEW k \in 1..n, k # p PROVE \E i \in 1..n : i # 1 /\ From(i) = k
    OBVIOUS
  <2>1. CASE k < p
    <3>1. k + 1 \in 1..n /\ k + 1 # 1 /\ From(k + 1) = k
      BY <1>1, <1>2, <2>1
    <3> QED
      BY <3>1
  <2>2. CASE k > p
    <3>1. k # 1 /\ From(k) = k
      BY <1>1, <1>2, <2>2
    <3> QED
      BY <3>1
  <2> QED
    BY <1>1, <1>2, <2>1, <2>2
<1> HIDE DEF From, p
<1>10. ConvsTyped'
  <2>1. \A i, j \in 1..n : convs'[i].id = convs'[j].id => i = j
    <3> SUFFICES ASSUME NEW i \in 1..n, NEW j \in 1..n, convs'[i].id = convs'[j].id
                 PROVE  i = j
      OBVIOUS
    <3>1. From(i) \in 1..n /\ From(j) \in 1..n /\ convs[From(i)].id = convs[From(j)].id
      BY <1>6
    <3>2. From(i) = From(j)
      BY <3>1 DEF ConvsTyped
    <3> QED
      BY <1>7, <3>2
  <2>2. \A i \in 1..n : req'[convs'[i].id] = Done
    BY <1>4, <1>6 DEF ConvsTyped
  <2> QED
    BY <1>5, <2>1, <2>2 DEF ConvsTyped
<1>11. \A i \in 1..n : i # p => convs[i] # c
  BY <1>2 DEF ConvsTyped
<1>12. DOMAIN convs' = 1..n
  BY <1>3
<1>13. All' \subseteq (All \ {c}) \union {d}
  BY <1>1, <1>6, <1>8, <1>11, <1>12 DEF All
<1>14. (All \ {c}) \union {d} \subseteq All'
  <2>1. ASSUME NEW e \in All \ {c} PROVE e \in All'
    <3>1. PICK k \in 1..n : e = convs[k] /\ k # p
      BY <1>1, <1>2, <2>1 DEF All
    <3>2. PICK i \in 1..n : i # 1 /\ From(i) = k
      BY <1>9, <3>1
    <3> QED
      BY <1>6, <1>12, <3>1, <3>2 DEF All
  <2> QED
    BY <1>8, <1>12, <2>1 DEF All
<1> QED
  BY <1>5, <1>10, <1>13, <1>14

\* What a step leaves of the conversations: each is there, as long as before or
\* longer, and one may have come, that of a request which had not ended.
LEMMA ConvsChange ==
  ASSUME Served, ConvsTyped, StartsTyped, ApiNext
  PROVE  /\ ConvsTyped' /\ Len(convs) <= Len(convs')
         /\ \A d \in All' : \/ \E c \in All : /\ d.id = c.id /\ d.looked = c.looked
                                             /\ c.size <= d.size /\ (d.live => c.live)
                            \/ d.id \in Requests /\ req[d.id] # Done /\ (d.looked => d.id \in Starting)
         /\ \A c \in All : \E d \in All' : d.id = c.id
<1> DEFINE Comes(d) == d.id \in Requests /\ req[d.id] # Done /\ (d.looked => d.id \in Starting)
           Stays(c, d) == d.id = c.id /\ d.looked = c.looked /\ c.size <= d.size /\ (d.live => c.live)
           Goal == /\ ConvsTyped' /\ Len(convs) <= Len(convs')
                   /\ \A d \in All' : (\E c \in All : Stays(c, d)) \/ Comes(d)
                   /\ \A c \in All : \E d \in All' : d.id = c.id
<1>0. /\ \A c \in All : c \in Conversation /\ c.size \in Nat /\ c.size <= c.size /\ c.looked \in BOOLEAN
                        /\ c.live \in BOOLEAN
      /\ Len(convs) \in Nat
  BY AllTyped DEF Conversation, ConvsTyped
<1>1. ASSUME NEW r \in Requests, Goes(r, Done), TakenUp(r) \/ r \in InService, req[r] # Done,
             NEW looked \in BOOLEAN, looked => r \in Starting, convs' = <<Conv(r, looked)>> \o convs
      PROVE  Goal
  <2> DEFINE new == Conv(r, looked)
  <2>1. new \in Conversation /\ new.id = r /\ new.looked = looked
    BY DEF Conv, Conversation
  <2> HIDE DEF new
  <2>2. convs' = <<new>> \o convs
    BY <1>1 DEF new
  <2>3. ConvsTyped' /\ Len(convs') = Len(convs) + 1 /\ All' = All \union {new}
    BY <1>1, <2>1, <2>2, Prepended
  <2> QED
    BY <1>0, <1>1, <2>1, <2>3
<1>2. ASSUME \A q \in Requests : req[q] = Done => req'[q] = Done,
             NEW c \in All, NEW d \in Conversation, Stays(c, d), convs' = Updated(c, d)
      PROVE  Goal
  <2>1. ConvsTyped' /\ Len(convs') = Len(convs) /\ All' = (All \ {c}) \union {d}
    BY <1>2, MovedToFront
  <2> QED
    BY <1>0, <1>2, <2>1
<1>3. ASSUME \A q \in Requests : req[q] = Done => req'[q] = Done, convs' = convs
      PROVE  Goal
  <2>1. ConvsTyped'
    <3>1. \A i \in 1..Len(convs) : req'[convs[i].id] = Done
      BY <1>3, InConvs
    <3> QED
      BY <1>3, <3>1 DEF ConvsTyped
  <2>2. All' = All
    BY <1>3 DEF All
  <2> QED
    BY <1>0, <1>3, <2>1, <2>2
<1>a. ASSUME NEW r \in Requests, TakenUp(r) \/ r \in InService, NEW v, Goes(r, v)
      PROVE  \A q \in Requests : req[q] = Done => req'[q] = Done
  BY <1>a, DoneStays
<1>4. ASSUME NEW r \in Requests, CreateConversation(r) PROVE Goal
  BY <1>4, <1>1, StepsDiffer DEF CreateConversation, Whole, Ends, TakenUp
<1>5. ASSUME NEW r \in Requests, StartConversation(r) PROVE Goal
  <2>1. r \in InService /\ r \in AtStep("start") /\ req[r] # Done
    BY <1>5, AtIsInService, StepsDiffer DEF StartConversation, AtStep, InService
  <2>2. req[r].looked \in BOOLEAN /\ (req[r].looked => r \in Starting)
    BY <2>1 DEF StartsTyped, Starting
  <2> QED
    BY <1>5, <1>1, <2>1, <2>2 DEF StartConversation, Ends
<1>6. ASSUME NEW r \in Requests, NEW c \in All, Rename(r, c) PROVE Goal
  BY <1>0, <1>2, <1>6, <1>a DEF Rename, Whole, Ends
<1>7. ASSUME NEW r \in Requests, NEW c \in All, SoftDelete(r, c) PROVE Goal
  <2> DEFINE d == [c EXCEPT !.live = FALSE]
  <2>1. d \in Conversation /\ Stays(c, d)
    BY <1>0, AllTyped DEF Conversation
  <2>2. convs' = Updated(c, d) /\ TakenUp(r) /\ Goes(r, Done)
    BY <1>7 DEF SoftDelete, Whole, Ends
  <2> HIDE DEF d
  <2> QED
    BY <1>2, <1>a, <2>1, <2>2
<1>8. ASSUME NEW c \in All, AddMessage(c) PROVE Goal
  <2> DEFINE d == [c EXCEPT !.size = @ + 1]
  <2>1. d \in Conversation /\ Stays(c, d)
    BY <1>0, AllTyped DEF Conversation
  <2>2. convs' = Updated(c, d) /\ UNCHANGED req
    BY <1>8 DEF AddMessage
  <2> HIDE DEF d
  <2> QED
    BY <1>2, <2>1, <2>2
<1>9. ASSUME NEW r \in Requests, StartSession(r) \/ AddToDevice(r) \/ InsertMessage(r)
                                \/ (RolledBack(r) /\ UNCHANGED apiVars)
      PROVE  Goal
  <2>1. (TakenUp(r) \/ r \in InService) /\ convs' = convs /\ \E v : Goes(r, v)
    BY <1>9, AtIsInService DEF StartSession, AddToDevice, InsertMessage, RolledBack, Ends, apiVars
  <2> QED
    BY <1>3, <1>a, <2>1
<1>10. ASSUME LoadMore \/ \E c \in All : \E newest \in BOOLEAN : OpenConversation(c, newest)
       PROVE  Goal
  BY <1>3, <1>10 DEF LoadMore, OpenConversation
<1>11. Goal
  BY <1>4, <1>5, <1>6, <1>7, <1>8, <1>9, <1>10 DEF ApiNext
<1> QED
  BY <1>11

(***************************************************************************)
(* Empty conversations.                                                    *)
(***************************************************************************)
Empty == {c \in All : c.looked /\ c.live /\ c.size = 0}
\* The conversations made after a look that nobody has used, and those that will
\* be made, since there was none.
EmptyHolders == {c.id : c \in Empty} \union Starting
EmptyBounded == Len(convs) <= Window => Cardinality(EmptyHolders) <= Threads

LEMMA EmptyFinite == ASSUME ConvsTyped PROVE EmptyHolders \subseteq Requests /\ IsFiniteSet(EmptyHolders)
<1>1. EmptyHolders \subseteq Requests
  BY AllTyped DEF EmptyHolders, Empty, Starting, AtStep, Conversation
<1> QED
  BY <1>1, RequestsAssumption, FS_Subset

\* As long as all conversations are in the window, a live one is looked at.
LEMMA AllRecent ==
  ASSUME ConvsTyped, Len(convs) <= Window, NEW c \in All, c.live
  PROVE  c \in Recent
<1>1. Len(convs) \in Nat /\ DOMAIN convs = 1..Len(convs)
  BY DEF ConvsTyped
<1>2. PICK i \in 1..Len(convs) : c = convs[i]
  BY <1>1 DEF All
<1>3. IsFiniteSet(1..i) /\ Cardinality(1..i) = i
  BY <1>1, <1>2, FS_Interval
<1>4. LiveUpTo(i) \subseteq 1..i
  BY DEF LiveUpTo
<1>5. Cardinality(LiveUpTo(i)) \in Nat /\ Cardinality(LiveUpTo(i)) <= i
  BY <1>3, <1>4, FS_Subset, FS_CardinalityType
<1>6. Cardinality(LiveUpTo(i)) <= Window
  BY <1>1, <1>2, <1>5, ChatApiAssumption
<1> QED
  BY <1>1, <1>2, <1>6 DEF Recent

LEMMA EmptyStep ==
  ASSUME Served, ConvsTyped, StartsTyped, EmptyBounded, ApiNext
  PROVE  EmptyBounded'
<1>0. Len(convs) \in Nat /\ Len(convs') \in Nat /\ Len(convs) <= Len(convs')
  BY ConvsChange DEF ConvsTyped
<1>1. ASSUME Starting' \subseteq Starting PROVE EmptyBounded'
  <2>1. ASSUME NEW d \in Empty' PROVE d.id \in EmptyHolders
    <3>1. d \in All' /\ d.looked /\ d.live /\ d.size = 0
      BY <2>1 DEF Empty
    <3>2. CASE d.id \in Starting
      BY <3>2 DEF EmptyHolders
    <3>3. CASE \E c \in All : /\ d.id = c.id /\ d.looked = c.looked
                               /\ c.size <= d.size /\ (d.live => c.live)
      <4>1. PICK c \in All : /\ d.id = c.id /\ d.looked = c.looked
                              /\ c.size <= d.size /\ (d.live => c.live)
        BY <3>3
      <4>2. c.size \in Nat
        BY AllTyped DEF Conversation
      <4>3. c \in Empty
        BY <3>1, <4>1, <4>2 DEF Empty
      <4> QED
        BY <4>1, <4>3 DEF EmptyHolders
    <3> QED
      BY <3>1, <3>2, <3>3, ConvsChange
  <2>2. EmptyHolders' \subseteq EmptyHolders
    BY <1>1, <2>1 DEF EmptyHolders
  <2>3. IsFiniteSet(EmptyHolders)
    BY EmptyFinite
  <2> QED
    BY <1>0, <2>2, <2>3, Fewer, ChatApiAssumption DEF EmptyBounded
<1>2. ASSUME NEW r \in Requests, NEW v, Goes(r, v), v.step # "start" \/ v.looked = FALSE PROVE EmptyBounded'
  BY <1>1, <1>2, StartingGoes
<1>3. ASSUME NEW r \in Requests, StartSession(r) PROVE EmptyBounded'
  <2>0. PICK looked \in BOOLEAN : /\ looked => ~\E c \in Recent : c.size = 0
                                  /\ Goes(r, [step |-> "start", looked |-> looked])
    BY <1>3 DEF StartSession
  <2>1. convs' = convs /\ TakenUp(r)
    BY <1>3 DEF StartSession, apiVars
  <2>2. CASE ~looked
    BY <1>2, <2>0, <2>2
  <2>3. ASSUME looked, Len(convs) <= Window PROVE Cardinality(EmptyHolders') <= Threads
    <3>1. Empty = {}
      BY <2>0, <2>3, AllRecent DEF Empty
    <3>2. Empty' = Empty
      BY <2>1 DEF Empty, All
    <3>3. Starting \subseteq InService
      BY AtIsInService DEF Starting, AtStep
    <3>4. EmptyHolders' \subseteq InService \union {r}
      BY <2>0, <3>1, <3>2, <3>3, StartingGoes DEF EmptyHolders
    <3> QED
      BY <2>1, <3>4, OneMoreThanInService
  <2> QED
    BY <2>1, <2>2, <2>3 DEF EmptyBounded
<1>4. ASSUME NEW r \in Requests,
             \/ CreateConversation(r) \/ StartConversation(r) \/ \E c \in All : Rename(r, c) \/ SoftDelete(r, c)
             \/ InsertMessage(r) \/ RolledBack(r)
      PROVE  EmptyBounded'
  <2>1. Goes(r, Done)
    BY <1>4 DEF CreateConversation, StartConversation, Rename, SoftDelete, InsertMessage, RolledBack, Whole, Ends
  <2> QED
    BY <1>2, <2>1, StepsDiffer
<1>5. ASSUME NEW r \in Requests, AddToDevice(r) PROVE EmptyBounded'
  BY <1>2, <1>5 DEF AddToDevice
<1>6. ASSUME UNCHANGED req PROVE EmptyBounded'
  BY <1>1, <1>6 DEF Starting, AtStep, At
<1> QED
  BY <1>3, <1>4, <1>5, <1>6 DEF ApiNext, AddMessage, OpenConversation, LoadMore

\* Who holds an empty conversation and who will are different requests.
LEMMA EmptyOverlapOnly ==
  ASSUME ConvsTyped, EmptyBounded
  PROVE  EmptyConversationsOverlapOnly
<1> DEFINE Held == {c.id : c \in Empty}
<1>1. Held \intersect Starting = {}
  BY AllTyped, StepsDiffer DEF Empty, Starting, AtStep, At
<1>2. IsFiniteSet(Held) /\ IsFiniteSet(Starting)
  BY EmptyFinite, FS_Subset DEF EmptyHolders
<1>3. Cardinality(EmptyHolders) = Cardinality(Held) + Cardinality(Starting)
  <2>1. Cardinality(Held \intersect Starting) = 0
    BY <1>1, FS_EmptySet
  <2>2. Cardinality(Held) \in Nat /\ Cardinality(Starting) \in Nat
    BY <1>2, FS_CardinalityType
  <2>3. EmptyHolders = Held \union Starting
    BY DEF EmptyHolders
  <2> HIDE DEF Held
  <2>4. Cardinality(Held \union Starting)
           = Cardinality(Held) + Cardinality(Starting) - Cardinality(Held \intersect Starting)
    BY <1>2, FS_Union
  <2> QED
    BY <2>1, <2>2, <2>3, <2>4
<1>4. IsFiniteSet(Empty) /\ Cardinality(Empty) <= Cardinality(Held)
  <2>1. \A c \in Empty : c.id \in Held
    OBVIOUS
  <2>2. \A c, d \in Empty : c.id = d.id => c = d
    BY AllTyped DEF Empty
  <2> HIDE DEF Held
  <2> QED
    BY <1>2, <2>1, <2>2, ById
<1>5. Cardinality(Empty) \in Nat /\ Cardinality(Held) \in Nat /\ Cardinality(Starting) \in Nat
  BY <1>2, <1>4, FS_CardinalityType
<1> HIDE DEF Held
<1>6. Len(convs) <= Window => Cardinality(Empty) + Cardinality(Starting) <= 1 - 1 + Threads
  BY <1>3, <1>4, <1>5, RequestsAssumption DEF EmptyBounded
<1>7. OneEmpty!Cardinality(Starting) = Cardinality(Starting)
  BY DEF OneEmpty!Cardinality, Cardinality
<1> QED
  BY <1>6, <1>7 DEF EmptyConversationsOverlapOnly, OneEmpty!Exceeded, Empty, Starting

(***************************************************************************)
(* Paging.                                                                 *)
(***************************************************************************)
\* How many messages come before one in the order of the pages.
Rank(c, newest, s) == IF newest THEN c.size - s ELSE s - 1

\* Of the messages there were, the first so many have been shown.
ShownUpTo(c, newest, wanted, seen, n) == \A s \in wanted : Rank(c, newest, s) < n => s \in seen

\* What was there is there, what comes before the next page has been shown, and
\* without a next page nothing is left.
ScrollInv ==
    scroll # None =>
        /\ scroll.newest \in BOOLEAN /\ scroll.page \in Nat \ {0} /\ scroll.more \in BOOLEAN
        /\ \E c \in All : c.id = scroll.conv
        /\ \A c \in All : c.id = scroll.conv =>
              /\ scroll.wanted \subseteq 1..c.size
              /\ ShownUpTo(c, scroll.newest, scroll.wanted, scroll.seen, Offset(scroll.page + 1))
        /\ ~scroll.more => scroll.wanted \subseteq scroll.seen

LEMMA ScrolledThrough == ASSUME ScrollInv PROVE ScrollComplete
BY DEF ScrollInv, ScrollComplete

LEMMA OffsetGrows ==
  ASSUME NEW page \in Nat \ {0}
  PROVE  Offset(page) \in Nat /\ Offset(page + 1) = Offset(page) + PageSize /\ Offset(1) = 0
<1>1. page - 1 \in Nat /\ PageSize \in Nat
  BY ChatApiAssumption
<1>2. (page - 1) * PageSize \in Nat
  BY <1>1
<1>3. page * PageSize = (page - 1) * PageSize + PageSize
  BY <1>1
<1>4. page + 1 - 1 = page /\ (1 - 1) * PageSize = 0
  BY <1>1
<1> QED
  BY <1>2, <1>3, <1>4 DEF Offset

\* A page that is read shows the messages of its ranks, and there is no next one
\* only when the conversation ends with it.
\* What a page leaves behind: all that is wanted of the pages so far has been
\* shown, and when there is no next page all of it; or it had no messages.
WellRead(c, newest, page, wanted, read) ==
    /\ read.conv = c.id /\ read.newest = newest /\ read.page = page /\ read.wanted = wanted
    /\ read.more \in BOOLEAN
    /\ ShownUpTo(c, newest, wanted, read.seen, Offset(page + 1))
    /\ ~read.more => wanted \subseteq read.seen

LEMMA PageRead ==
  ASSUME NEW c \in Conversation, NEW newest \in BOOLEAN, NEW page \in Nat \ {0},
         NEW wanted \in SUBSET (1..c.size), NEW seen,
         ShownUpTo(c, newest, wanted, seen, Offset(page)),
         NEW read, read = ReadPage(c, newest, page, wanted, seen), read # None
  PROVE  WellRead(c, newest, page, wanted, read)
<1> USE DEF WellRead
<1> DEFINE rows == Rows(c, newest, Offset(page), Fetch)
           shown == Rows(c, newest, Offset(page), PageSize)
           from == Offset(page)
<1>1. from \in Nat /\ Offset(page + 1) = from + PageSize /\ PageSize \in Nat /\ PageSize >= 1
  BY OffsetGrows, ChatApiAssumption
<1>2. c.size \in Nat
  BY DEF Conversation
<1>3. /\ rows = {s \in 1..c.size : Rank(c, newest, s) \in from .. from + PageSize}
      /\ shown = {s \in 1..c.size : Rank(c, newest, s) \in from .. from + PageSize - 1}
  <2>1. Fetch = PageSize + 1 /\ from + (PageSize + 1) - 1 = from + PageSize
    BY <1>1 DEF Fetch
  <2> QED
    BY <2>1 DEF Rows, Rank
<1>4. ASSUME NEW s \in wanted PROVE Rank(c, newest, s) \in Nat /\ Rank(c, newest, s) < c.size /\ s \in 1..c.size
  BY <1>2 DEF Rank
<1> HIDE DEF rows, shown, from
<1>5. ASSUME NEW s \in wanted, Rank(c, newest, s) < Offset(page + 1)
      PROVE  s \in seen \union (rows \intersect shown)
  <2>1. CASE Rank(c, newest, s) < from
    BY <2>1 DEF from, ShownUpTo
  <2>2. CASE ~(Rank(c, newest, s) < from)
    <3>1. Rank(c, newest, s) \in from .. from + PageSize - 1 /\ Rank(c, newest, s) \in from .. from + PageSize
      BY <1>1, <1>4, <1>5, <2>2
    <3> QED
      BY <1>3, <1>4, <3>1
  <2> QED
    BY <2>1, <2>2
\* If the conversation went on, the row that tells would have been fetched.
<1>6. ASSUME c.size > from + PageSize PROVE Cardinality(rows) > PageSize
  <2> DEFINE first == IF newest THEN c.size - from - PageSize ELSE from + 1
             all == first .. first + PageSize
  <2>1. first \in Nat /\ first >= 1 /\ first + PageSize <= c.size /\ first + PageSize \in Nat
    BY <1>1, <1>2, <1>6
  <2>2. \A s \in all : s \in 1..c.size /\ Rank(c, newest, s) \in from .. from + PageSize
    BY <1>1, <1>2, <2>1 DEF Rank
  <2>3. all \subseteq rows
    BY <1>3, <2>2
  <2>4. Cardinality(all) = PageSize + 1
    <3> DEFINE last == first + PageSize
    <3>1. first \in Int /\ last \in Int /\ first <= last /\ last - first = PageSize
      BY <1>1, <2>1
    <3>2. all = first .. last
      OBVIOUS
    <3> HIDE DEF first, last, all
    <3>3. Cardinality(first .. last) = last - first + 1
      BY <3>1, FS_Interval
    <3> QED
      BY <3>1, <3>2, <3>3
  <2>5. IsFiniteSet(rows) /\ Cardinality(rows) \in Nat
    <3>1. rows \subseteq 1..c.size
      BY <1>3
    <3>2. IsFiniteSet(1..c.size)
      BY <1>2, FS_Interval
    <3> QED
      BY <3>1, <3>2, FS_Subset, FS_CardinalityType
  <2> HIDE DEF all, first
  <2>6. Cardinality(all) <= Cardinality(rows)
    BY <2>3, <2>5, FS_Subset
  <2> QED
    BY <1>1, <2>4, <2>5, <2>6
<1>7. ASSUME ~(Cardinality(rows) > PageSize) PROVE wanted \subseteq seen \union (rows \intersect shown)
  <2>1. ~(c.size > from + PageSize)
    BY <1>6, <1>7
  <2>2. \A s \in wanted : Rank(c, newest, s) < Offset(page + 1)
    BY <1>1, <1>2, <1>4, <2>1
  <2> QED
    BY <1>5, <2>2
<1>8. /\ read.conv = c.id /\ read.newest = newest /\ read.page = page /\ read.wanted = wanted
      /\ read.more = (Cardinality(rows) > PageSize) /\ read.seen = seen \union (rows \intersect shown)
  BY DEF ReadPage, Nothing, rows, shown
<1>9. read.more \in BOOLEAN
  BY <1>8
<1>10. ShownUpTo(c, newest, wanted, read.seen, Offset(page + 1))
  BY <1>5, <1>8 DEF ShownUpTo
<1>11. ~read.more => wanted \subseteq read.seen
  BY <1>7, <1>8
<1> QED
  BY <1>8, <1>9, <1>10, <1>11

LEMMA ScrollStep ==
  ASSUME Served, ConvsTyped, StartsTyped, ScrollInv, ApiNext
  PROVE  ScrollInv'
<1> USE DEF ScrollInv
\* Messages that come only move the pages away from the beginning.
<1>1. ASSUME UNCHANGED scroll PROVE ScrollInv'
  <2> SUFFICES ASSUME scroll # None PROVE ScrollInv'
    BY <1>1
  <2>1. PICK b \in All : b.id = scroll.conv
    OBVIOUS
  <2>2. \E c \in All' : c.id = scroll.conv
    BY <2>1, ConvsChange
  <2>3. ASSUME NEW d \in All', d.id = scroll.conv
        PROVE  /\ scroll.wanted \subseteq 1..d.size
               /\ ShownUpTo(d, scroll.newest, scroll.wanted, scroll.seen, Offset(scroll.page + 1))
    <3>1. req[d.id] = Done
      BY <2>1, <2>3, AllTyped
    <3>2. PICK c \in All : /\ d.id = c.id /\ d.looked = c.looked
                            /\ c.size <= d.size /\ (d.live => c.live)
      BY <2>3, <3>1, ConvsChange
    <3>3. c.size \in Nat /\ d.size \in Nat
      <4>1. ConvsTyped'
        BY ConvsChange
      <4>2. All' \subseteq Conversation
        BY <4>1 DEF ConvsTyped, All
      <4> QED
        BY <3>2, <4>2, AllTyped DEF Conversation
    <3>4. scroll.wanted \subseteq 1..c.size
      BY <2>3, <3>2
    <3>5. ASSUME NEW s \in scroll.wanted, Rank(d, scroll.newest, s) < Offset(scroll.page + 1)
          PROVE  s \in scroll.seen
      <4>1. s \in 1..c.size
        BY <3>4
      <4>2. Offset(scroll.page + 1) \in Nat
        BY OffsetGrows
      <4>3. Rank(c, scroll.newest, s) < Offset(scroll.page + 1)
        BY <3>2, <3>3, <3>5, <4>1, <4>2 DEF Rank
      <4> QED
        BY <2>3, <3>2, <4>1, <4>3 DEF ShownUpTo
    <3>6. scroll.wanted \subseteq 1..d.size
      BY <3>2, <3>3, <3>4
    <3> QED
      BY <2>3, <3>2, <3>5, <3>6 DEF ShownUpTo
  <2> QED
    BY <1>1, <2>2, <2>3
<1>2. ASSUME NEW c \in All, NEW newest \in BOOLEAN, NEW page \in Nat \ {0},
             NEW wanted \in SUBSET (1..c.size), NEW seen,
             ShownUpTo(c, newest, wanted, seen, Offset(page)),
             scroll' \in {ReadPage(c, newest, page, wanted, seen), Nothing}, UNCHANGED convs
      PROVE  ScrollInv'
  <2>1. c \in Conversation /\ \A d \in All : d.id = c.id => d = c
    BY AllTyped
  <2>2. All' = All
    BY <1>2 DEF All
  <2>0. CASE scroll' = None
    BY <2>0
  <2>3. ASSUME scroll' # None
        PROVE
        /\ scroll'.conv = c.id /\ scroll'.newest = newest /\ scroll'.page = page /\ scroll'.wanted = wanted
        /\ scroll'.more \in BOOLEAN
        /\ ShownUpTo(c, newest, wanted, scroll'.seen, Offset(page + 1))
        /\ ~scroll'.more => wanted \subseteq scroll'.seen
    <3> HIDE DEF ScrollInv
    <3>1. c \in Conversation
      BY <2>1
    <3>2. scroll' = ReadPage(c, newest, page, wanted, seen)
      BY <1>2, <2>3 DEF Nothing
    <3>3. WellRead(c, newest, page, wanted, scroll')
      BY <1>2, <2>3, <3>1, <3>2, PageRead
    <3> QED
      BY <3>3 DEF WellRead
  <2> QED
    BY <1>2, <2>0, <2>1, <2>2, <2>3
<1>3. ASSUME NEW c \in All, NEW newest \in BOOLEAN, OpenConversation(c, newest) PROVE ScrollInv'
  <2>1. ShownUpTo(c, newest, 1..c.size, {}, Offset(1))
    <3>1. c.size \in Nat
      BY AllTyped DEF Conversation
    <3>2. Offset(1) = 0
      BY OffsetGrows
    <3> QED
      BY <3>1, <3>2 DEF Rank, ShownUpTo
  <2>2. scroll' \in {ReadPage(c, newest, 1, 1..c.size, {}), Nothing} /\ UNCHANGED convs /\ 1 \in Nat \ {0}
    BY <1>3 DEF OpenConversation
  <2> HIDE DEF ScrollInv
  <2> QED
    BY <1>2, <2>1, <2>2
<1>4. ASSUME LoadMore PROVE ScrollInv'
  <2>1. PICK c \in All :
          /\ c.id = scroll.conv
          /\ scroll' \in {ReadPage(c, scroll.newest, scroll.page + 1, scroll.wanted, scroll.seen), Nothing}
    BY <1>4 DEF LoadMore
  <2>2. scroll # None /\ UNCHANGED convs
    BY <1>4 DEF LoadMore
  <2>3. scroll.page + 1 \in Nat \ {0} /\ scroll.newest \in BOOLEAN /\ scroll.wanted \in SUBSET (1..c.size)
    BY <2>1, <2>2
  <2>4. ShownUpTo(c, scroll.newest, scroll.wanted, scroll.seen, Offset(scroll.page + 1))
    BY <2>1, <2>2
  <2> HIDE DEF ScrollInv
  <2> QED
    BY <1>2, <2>1, <2>2, <2>3, <2>4
<1>5. ASSUME ~LoadMore, ~\E c \in All : \E newest \in BOOLEAN : OpenConversation(c, newest)
      PROVE  UNCHANGED scroll
  BY <1>5 DEF ApiNext, CreateConversation, StartSession, StartConversation, Rename, SoftDelete,
     AddToDevice, InsertMessage, AddMessage, apiVars
<1> QED
  BY <1>1, <1>3, <1>4, <1>5

(***************************************************************************)
(* The numbers of a device's messages.                                     *)
(***************************************************************************)
Numbers == {m.seq : m \in device}
\* The messages of a number, and those that will be, since it was the next.
NumberHolders(n) == {m.id : m \in {x \in device : x.seq = n}} \union {r \in AtStep("device") : req[r].last + 1 = n}

\* The numbers are 1 to the last one, and what a request has read is one of
\* them, or 0.
DeviceInv ==
    /\ device \subseteq [id : Requests, seq : Nat]
    /\ \A m \in device : req[m.id] = Done
    /\ \A m, k \in device : m.id = k.id => m = k
    /\ \E last \in Nat : Numbers = 1..last
    /\ \A r \in AtStep("device") : req[r].last \in Numbers \union {0}
    /\ \A n \in Nat : Cardinality(NumberHolders(n)) <= Threads

LEMMA LastIsGreatest ==
  ASSUME NEW last \in Nat, Numbers = 1..last
  PROVE  LastNumber = last
<1>1. CASE device = {}
  <2>1. last = 0
    BY <1>1 DEF Numbers
  <2> QED
    BY <1>1, <2>1 DEF LastNumber
<1>2. CASE device # {}
  <2>1. last \in Numbers
    BY <1>2 DEF Numbers
  <2>2. \A m \in device : m.seq \in 1..last
    BY DEF Numbers
  <2>3. \E n \in Numbers : \A m \in device : m.seq <= n
    BY <2>1, <2>2
  <2>4. PICK n \in Numbers : n = LastNumber /\ \A m \in device : m.seq <= n
    BY <1>2, <2>3 DEF LastNumber, Numbers
  <2>5. \E m \in device : m.seq = last
    BY <2>1 DEF Numbers
  <2>6. last <= n /\ n \in 1..last
    BY <2>4, <2>5
  <2> QED
    BY <2>4, <2>6
<1> QED
  BY <1>1, <1>2

LEMMA DeviceStep ==
  ASSUME Served, DeviceInv, ApiNext
  PROVE  DeviceInv'
<1> USE DEF DeviceInv
<1>0. ASSUME NEW n \in Nat PROVE IsFiniteSet(NumberHolders(n)) /\ NumberHolders(n) \subseteq Requests
  <2>1. NumberHolders(n) \subseteq Requests
    BY DEF NumberHolders, AtStep
  <2> QED
    BY <2>1, RequestsAssumption, FS_Subset
<1>1. ASSUME UNCHANGED device, \A q \in AtStep("device")' : q \in AtStep("device") /\ req'[q] = req[q],
             \A q \in Requests : req[q] = Done => req'[q] = Done
      PROVE  DeviceInv'
  <2>1. ASSUME NEW n \in Nat PROVE Cardinality(NumberHolders(n)') <= Threads
    <3>1. NumberHolders(n)' \subseteq NumberHolders(n)
      BY <1>1 DEF NumberHolders
    <3>2. IsFiniteSet(NumberHolders(n)) /\ Cardinality(NumberHolders(n)) <= Threads
      BY <1>0
    <3> QED
      BY <3>1, <3>2, Fewer
  <2>2. Numbers' = Numbers
    BY <1>1 DEF Numbers
  <2> QED
    BY <1>1, <2>1, <2>2
<1>2. ASSUME NEW r \in Requests, NEW v, Goes(r, v), v.step # "device", TakenUp(r) \/ r \in InService,
             UNCHANGED device
      PROVE  DeviceInv'
  <2>1. \A q \in AtStep("device")' : q \in AtStep("device") /\ req'[q] = req[q]
    BY <1>2, ApiGoes DEF AtStep
  <2>2. \A q \in Requests : req[q] = Done => req'[q] = Done
    BY <1>2, DoneStays
  <2> HIDE DEF DeviceInv
  <2> QED
    BY <1>1, <1>2, <2>1, <2>2
<1>3. ASSUME NEW r \in Requests, AddToDevice(r) PROVE DeviceInv'
  <2>1. PICK last \in Nat : Numbers = 1..last
    OBVIOUS
  <2>2. Goes(r, [step |-> "device", last |-> last]) /\ TakenUp(r) /\ UNCHANGED device
    BY <1>3, <2>1, LastIsGreatest DEF AddToDevice, apiVars
  <2>3. /\ AtStep("device")' = AtStep("device") \union {r}
        /\ \A q \in Requests : q # r => req'[q] = req[q]
        /\ req'[r].last = last
    BY <2>2, ApiGoes
  <2>4. \A q \in Requests : req[q] = Done => req'[q] = Done
    BY <2>2, DoneStays
  <2>5. AtStep("device") \subseteq InService /\ AtStep("device") \subseteq Requests
    BY AtIsInService DEF AtStep
  <2>6. ASSUME NEW n \in Nat PROVE Cardinality(NumberHolders(n)') <= Threads
    <3>1. CASE n = last + 1
      <4>1. \A m \in device : m.seq # n
        BY <2>1, <3>1 DEF Numbers
      <4>2. NumberHolders(n)' \subseteq InService \union {r}
        BY <2>2, <2>3, <2>5, <4>1 DEF NumberHolders
      <4> QED
        BY <2>2, <4>2, OneMoreThanInService
    <3>2. CASE n # last + 1
      <4>1. \A q \in AtStep("device") \union {r} : req'[q].last + 1 = n => q \in AtStep("device") /\ req[q].last + 1 = n
        BY <2>3, <2>5, <3>2
      <4>2. NumberHolders(n)' \subseteq NumberHolders(n)
        BY <2>2, <2>3, <4>1 DEF NumberHolders
      <4>3. IsFiniteSet(NumberHolders(n)) /\ Cardinality(NumberHolders(n)) <= Threads
        BY <1>0
      <4> QED
        BY <4>2, <4>3, Fewer
    <3> QED
      BY <3>1, <3>2
  <2>7. Numbers' = Numbers
    BY <2>2 DEF Numbers
  <2>8. \A q \in AtStep("device")' : req'[q].last \in Numbers \union {0}
    <3>1. last \in Numbers \union {0}
      BY <2>1
    <3> QED
      BY <2>3, <2>5, <3>1
  <2> QED
    BY <2>1, <2>2, <2>4, <2>6, <2>7, <2>8
<1>4. ASSUME NEW r \in Requests, InsertMessage(r) PROVE DeviceInv'
  <2> DEFINE new == [id |-> r, seq |-> req[r].last + 1]
  <2>1. PICK last \in Nat : Numbers = 1..last
    OBVIOUS
  <2>2. r \in AtStep("device") /\ Goes(r, Done) /\ device' = device \union {new} /\ r \in InService
    BY <1>4, AtIsInService DEF InsertMessage, AtStep, Ends
  <2>3. req[r].last \in Nat /\ req[r].last + 1 \in 1..(last + 1)
    BY <2>1, <2>2
  <2>4. new \in [id : Requests, seq : Nat] /\ new.id = r /\ new.seq = req[r].last + 1
    BY <2>3
  <2> HIDE DEF new
  <2>5. /\ AtStep("device")' = AtStep("device") \ {r}
        /\ \A q \in Requests : q # r => req'[q] = req[q]
        /\ req'[r] = Done
    BY <2>2, ApiGoes, StepsDiffer
  <2>6. \A q \in Requests : req[q] = Done => req'[q] = Done
    BY <2>2, DoneStays
  <2>7. AtStep("device") \subseteq Requests /\ req[r] # Done
    BY <2>2, StepsDiffer DEF AtStep, At
  <2>8. \A m \in device : m.id # r
    BY <2>7
  <2>9. Numbers' = 1..last \/ Numbers' = 1..(last + 1)
    <3>1. Numbers' = Numbers \union {req[r].last + 1}
      BY <2>2, <2>4 DEF Numbers
    <3> QED
      BY <2>1, <2>3, <3>1
  <2>10. \A q \in AtStep("device")' : req'[q].last \in Numbers' \union {0}
    <3>1. Numbers \subseteq Numbers'
      BY <2>2 DEF Numbers
    <3> QED
      BY <2>5, <2>7, <3>1
  <2>11. ASSUME NEW n \in Nat PROVE Cardinality(NumberHolders(n)') <= Threads
    <3>1. \A q \in AtStep("device")' : req'[q].last + 1 = n => q \in AtStep("device") /\ req[q].last + 1 = n
      BY <2>5, <2>7
    <3>2. \A m \in device' : m.seq = n => m.id \in NumberHolders(n)
      BY <2>2, <2>4 DEF NumberHolders
    <3>3. NumberHolders(n)' \subseteq NumberHolders(n)
      BY <3>1, <3>2 DEF NumberHolders
    <3>4. IsFiniteSet(NumberHolders(n)) /\ Cardinality(NumberHolders(n)) <= Threads
      BY <1>0
    <3> QED
      BY <3>3, <3>4, Fewer
  <2>12. \A m \in device' : req'[m.id] = Done
    BY <2>2, <2>4, <2>5, <2>6
  <2>13. \A m, k \in device' : m.id = k.id => m = k
    BY <2>2, <2>4, <2>8
  <2>14. \E l \in Nat : Numbers' = 1..l
    BY <2>9
  <2> QED
    BY <2>2, <2>4, <2>10, <2>11, <2>12, <2>13, <2>14
<1>5. ASSUME NEW r \in Requests,
             \/ CreateConversation(r) \/ StartConversation(r) \/ StartSession(r)
             \/ \E c \in All : Rename(r, c) \/ SoftDelete(r, c)
             \/ RolledBack(r) /\ UNCHANGED apiVars
      PROVE  DeviceInv'
  <2>1. UNCHANGED device /\ (TakenUp(r) \/ r \in InService)
    BY <1>5, AtIsInService DEF CreateConversation, StartConversation, StartSession, Rename, SoftDelete,
       RolledBack, Whole, apiVars
  <2>2. \E v : Goes(r, v) /\ v.step # "device"
    <3>1. CASE StartSession(r)
      BY <3>1 DEF StartSession
    <3>2. CASE Goes(r, Done)
      BY <3>2, StepsDiffer
    <3> QED
      BY <1>5, <3>1, <3>2 DEF CreateConversation, StartConversation, Rename, SoftDelete, RolledBack, Whole, Ends
  <2> HIDE DEF DeviceInv
  <2> QED
    BY <1>2, <2>1, <2>2
<1>6. ASSUME UNCHANGED <<req, device>> PROVE DeviceInv'
  <2>1. AtStep("device")' = AtStep("device")
    BY <1>6 DEF AtStep, At
  <2> HIDE DEF DeviceInv
  <2> QED
    BY <1>1, <1>6, <2>1
<1> QED
  BY <1>3, <1>4, <1>5, <1>6 DEF ApiNext, AddMessage, OpenConversation, LoadMore

LEMMA NumbersAreDense == ASSUME DeviceInv PROVE NumbersDense
<1> USE DEF DeviceInv
<1>1. Numbers = 1..Cardinality(Numbers)
  <2>1. PICK last \in Nat : Numbers = 1..last
    OBVIOUS
  <2>2. Cardinality(1..last) = last
    BY FS_Interval
  <2> QED
    BY <2>1, <2>2
<1>2. ASSUME NEW n \in Numbers PROVE Cardinality({m \in device : m.seq = n}) <= Threads
  <2> DEFINE Of == {m \in device : m.seq = n}
  <2>0. n \in Nat
    BY DEF Numbers
  <2>1. NumberHolders(n) \subseteq Requests /\ Cardinality(NumberHolders(n)) <= Threads
    BY <2>0 DEF NumberHolders, AtStep
  <2>2. IsFiniteSet(NumberHolders(n)) /\ Cardinality(NumberHolders(n)) \in Nat
    BY <2>1, RequestsAssumption, FS_Subset, FS_CardinalityType
  <2>3. \A m \in Of : m.id \in NumberHolders(n)
    BY DEF NumberHolders
  <2>4. \A m, k \in Of : m.id = k.id => m = k
    OBVIOUS
  <2> HIDE DEF Of
  <2>5. IsFiniteSet(Of) /\ Cardinality(Of) <= Cardinality(NumberHolders(n))
    BY <2>2, <2>3, <2>4, ById
  <2>6. Cardinality(Of) <= Threads
    BY <2>1, <2>2, <2>5, FS_CardinalityType, RequestsAssumption
  <2> QED
    BY <2>6 DEF Of
<1> QED
  BY <1>1, <1>2 DEF NumbersDense, Numbers

ApiInv == ConvsTyped /\ StartsTyped /\ EmptyBounded /\ ScrollInv /\ DeviceInv

LEMMA ApiStep ==
  ASSUME Served, ApiInv, ApiNext
  PROVE  ApiInv'
BY ConvsChange, StartsStep, EmptyStep, ScrollStep, DeviceStep DEF ApiInv

LEMMA ApiStart ==
  ASSUME req = [r \in Requests |-> New], ApiInit
  PROVE  ApiInv
<1>1. AtStep("start") = {} /\ AtStep("device") = {}
  BY StepsDiffer DEF AtStep, At
<1>2. Cardinality({}) = 0 /\ 0 <= Threads
  BY FS_EmptySet, RequestsAssumption
<1>3. ConvsTyped /\ StartsTyped
  BY <1>1 DEF ApiInit, ConvsTyped, StartsTyped
<1>4. EmptyHolders = {}
  BY <1>1 DEF ApiInit, EmptyHolders, Empty, All, Starting
<1>5. \A n : NumberHolders(n) = {}
  BY <1>1 DEF ApiInit, NumberHolders
<1>6. EmptyBounded
  BY <1>2, <1>4 DEF EmptyBounded
<1>7. ScrollInv
  BY DEF ApiInit, ScrollInv
<1>8. DeviceInv
  <2>1. \E last \in Nat : Numbers = 1..last
    <3>1. Numbers = 1..0
      BY DEF ApiInit, Numbers
    <3> QED
      BY <3>1
  <2> QED
    BY <1>1, <1>2, <1>5, <2>1 DEF ApiInit, DeviceInv
<1> QED
  BY <1>3, <1>6, <1>7, <1>8 DEF ApiInv

LEMMA ApiServe == ASSUME ApiNext PROVE OneGoes \/ UNCHANGED req
<1>1. ASSUME NEW r \in Requests,
             \/ CreateConversation(r) \/ StartConversation(r) \/ StartSession(r)
             \/ \E c \in All : Rename(r, c) \/ SoftDelete(r, c)
             \/ AddToDevice(r) \/ InsertMessage(r) \/ RolledBack(r)
      PROVE  OneGoes
  BY <1>1, AtIsInService
     DEF CreateConversation, StartConversation, StartSession, Rename, SoftDelete, AddToDevice,
         InsertMessage, RolledBack, Whole, Ends, OneGoes
<1> QED
  BY <1>1 DEF ApiNext, AddMessage, OpenConversation, LoadMore

-----------------------------------------------------------------------------
(***************************************************************************)
(* The interface as a whole.                                               *)
(***************************************************************************)
RestInv ==
    /\ Served
    /\ IF followed = "chat" THEN ApiInv ELSE ApiInit
    /\ IF followed = "settings" THEN SettingsInv ELSE SettingsInit
    /\ IF followed = "moderation" THEN ModerationInv ELSE ModerationInit
    /\ IF followed = "passwords" THEN PasswordsInv ELSE PasswordsInit
    /\ IF followed = "social" THEN SocialInv ELSE SocialInit /\ user = None
    /\ IF followed = "subs" THEN CacheInv ELSE CacheInit
    /\ IF followed = "voice" THEN VoiceInv /\ ForwardInv ELSE VoiceInit

\* The next step of what is followed.
FollowedStep ==
    \/ followed = "chat" /\ ApiNext
    \/ followed = "settings" /\ SettingsMoves
    \/ followed = "moderation" /\ ModerationMoves
    \/ followed = "passwords" /\ PasswordsNext
    \/ followed = "social" /\ SocialNext
    \/ followed = "subs" /\ CacheNext
    \/ followed = "voice" /\ VoiceNext

LEMMA NextFollows ==
  ASSUME Next
  PROVE  /\ FollowedStep /\ followed' = followed
         /\ followed # "chat" => UNCHANGED apiVars
         /\ followed # "settings" => UNCHANGED settingVars
         /\ followed # "moderation" => UNCHANGED moderationVars
         /\ followed # "passwords" => UNCHANGED passwordVars
         /\ followed # "social" => UNCHANGED socialVars
         /\ followed # "subs" => UNCHANGED cacheVars
         /\ followed # "voice" => UNCHANGED voiceVars
BY DEF Next, Still, FollowedStep, SettingsMoves, ModerationMoves

LEMMA ServedStart == req = [r \in Requests |-> New] => Served
<1> SUFFICES ASSUME req = [r \in Requests |-> New] PROVE Served
  OBVIOUS
<1>1. InService = {}
  BY DEF InService
<1> QED
  BY <1>1, FS_EmptySet, RequestsAssumption DEF Served

LEMMA RestStart == Init => RestInv
BY ServedStart, ApiStart, SettingsStart, ModerationStart, PasswordsStart, SocialStart, CacheStart, VoiceStart
   DEF Init, RestInv

\* What is not followed is as it began.
LEMMA AsItBegan ==
  /\ ApiInit /\ UNCHANGED apiVars => ApiInit'
  /\ SettingsInit /\ UNCHANGED settingVars => SettingsInit'
  /\ ModerationInit /\ UNCHANGED moderationVars => ModerationInit'
  /\ PasswordsInit /\ UNCHANGED passwordVars => PasswordsInit'
  /\ SocialInit /\ user = None /\ UNCHANGED socialVars => (SocialInit /\ user = None)'
  /\ CacheInit /\ UNCHANGED cacheVars => CacheInit'
  /\ VoiceInit /\ UNCHANGED voiceVars => VoiceInit'
<1>1. ApiInit /\ UNCHANGED apiVars => ApiInit'
  BY DEF ApiInit, apiVars
<1>2. SettingsInit /\ UNCHANGED settingVars => SettingsInit'
  BY DEF SettingsInit, settingVars
<1>3. ModerationInit /\ UNCHANGED moderationVars => ModerationInit'
  BY DEF ModerationInit, moderationVars
<1>4. PasswordsInit /\ UNCHANGED passwordVars => PasswordsInit'
  BY DEF PasswordsInit, passwordVars
<1>5. SocialInit /\ user = None /\ UNCHANGED socialVars => (SocialInit /\ user = None)'
  BY DEF SocialInit, socialVars
<1>6. CacheInit /\ UNCHANGED cacheVars => CacheInit'
  BY DEF CacheInit, cacheVars
<1>7. VoiceInit /\ UNCHANGED voiceVars => VoiceInit'
  BY DEF VoiceInit, voiceVars
<1> QED
  BY <1>1, <1>2, <1>3, <1>4, <1>5, <1>6, <1>7

LEMMA RestStep == ASSUME RestInv, Next PROVE RestInv'
<1>1. Served /\ FollowedStep
  BY NextFollows DEF RestInv
<1>2. OneGoes \/ UNCHANGED req
  BY <1>1, ApiServe, SettingsServe, ModerationServe, PasswordsServe, SocialServe, CacheServe, VoiceServe
     DEF FollowedStep
<1>3. Served'
  BY <1>1, <1>2, ServedNext
<1>4. (IF followed = "chat" THEN ApiInv ELSE ApiInit)'
  BY NextFollows, AsItBegan, ApiStep DEF RestInv, FollowedStep
<1>5. (IF followed = "settings" THEN SettingsInv ELSE SettingsInit)'
  BY NextFollows, AsItBegan, SettingsStep DEF RestInv, FollowedStep
<1>6. (IF followed = "moderation" THEN ModerationInv ELSE ModerationInit)'
  BY NextFollows, AsItBegan, ModerationStep DEF RestInv, FollowedStep
<1>7. (IF followed = "passwords" THEN PasswordsInv ELSE PasswordsInit)'
  BY NextFollows, AsItBegan, PasswordsStep DEF RestInv, FollowedStep
<1>8. (IF followed = "social" THEN SocialInv ELSE SocialInit /\ user = None)'
  BY NextFollows, AsItBegan, SocialStep DEF RestInv, FollowedStep
<1>9. (IF followed = "subs" THEN CacheInv ELSE CacheInit)'
  BY NextFollows, AsItBegan, CacheStep DEF RestInv, FollowedStep
<1>10. (IF followed = "voice" THEN VoiceInv /\ ForwardInv ELSE VoiceInit)'
  BY NextFollows, AsItBegan, VoiceStep, ForwardStep DEF RestInv, FollowedStep
<1> QED
  BY <1>3, <1>4, <1>5, <1>6, <1>7, <1>8, <1>9, <1>10 DEF RestInv

\* A step that changes nothing of what the invariants speak of.
LEMMA RestStutters == ASSUME RestInv, UNCHANGED vars PROVE RestInv'
<1> USE DEF vars
<1>1. Served'
  BY DEF RestInv, Served, InService
<1>2. ApiInv => ApiInv'
  BY DEF apiVars, ApiInv, ConvsTyped, StartsTyped, EmptyBounded, EmptyHolders, Empty, Starting, ScrollInv,
     DeviceInv, Numbers, NumberHolders, AtStep, At, All, ShownUpTo, Rank
<1>3. SettingsInv => SettingsInv'
  BY DEF settingVars, SettingsInv, SettingsTyped, CategoryHolders, Looked, NewCategory, Making, Updating,
     NamesBounded, NameHolders, Untouched, NamedIn, PromptsBounded, PromptHolders, TonesBounded, Replacing, AtStep, At
<1>4. ModerationInv => ModerationInv'
  BY DEF moderationVars, ModerationInv, ApprovedIsRemembered, LateEditsOverlapOnly, AtStep, At
<1>5. PasswordsInv => PasswordsInv'
  BY DEF passwordVars, PasswordsInv, PasswordsAgree, Writing, AtStep, At
<1>6. SocialInv => SocialInv'
  BY DEF socialVars, SocialInv, SocialTyped, Settled, TokensNameUser, LoggingIn, AtStep, At
<1>7. CacheInv => CacheInv'
  BY DEF cacheVars, CacheInv, UsersDistinct, StillAt, AtStep, At
<1>8. VoiceInv /\ ForwardInv => VoiceInv' /\ ForwardInv'
  BY DEF voiceVars, VoiceInv, ForwardInv, Resolving, ReadAt, AtStep, At
<1> QED
  BY <1>1, <1>2, <1>3, <1>4, <1>5, <1>6, <1>7, <1>8, AsItBegan DEF RestInv

LEMMA RestKept == Spec => []RestInv
<1>1. RestInv /\ [Next]_vars => RestInv'
  BY RestStep, RestStutters
<1> QED
  BY RestStart, <1>1, PTL DEF Spec

\* What only the handlers keep unique, by a look before the insertion, is there
\* twice only when requests overlapped: the empty conversation that starting a
\* session hands out, unless the one there could not be looked for, the numbers
\* of a device's messages, categories, agents, prompts, tones, and the text of an
\* active template.
THEOREM UniquenessKept == Spec => []UniqueUnlessOverlapped
<1>1. RestInv => EmptyConversationsOverlapOnly /\ NumbersDense
  <2>1. CASE followed = "chat"
    BY <2>1, EmptyOverlapOnly, NumbersAreDense DEF RestInv, ApiInv
  <2>2. ASSUME RestInv, ApiInit PROVE EmptyConversationsOverlapOnly /\ NumbersDense
    <3>1. Starting \subseteq InService
      BY AtIsInService DEF Starting, AtStep
    <3>2. Cardinality(Starting) <= Threads /\ Cardinality(Starting) \in Nat
      BY <2>2, <3>1, AtMostThreads DEF RestInv
    <3>3. {c \in All : c.looked /\ c.live /\ c.size = 0} = {} /\ {m.seq : m \in device} = {}
      BY <2>2 DEF ApiInit, All
    <3>4. Cardinality({}) = 0 /\ {} = 1..0
      BY FS_EmptySet
    <3>5. OneEmpty!Cardinality(Starting) = Cardinality(Starting)
      BY DEF OneEmpty!Cardinality, Cardinality
    <3>6. EmptyConversationsOverlapOnly
      <4>1. Cardinality({c \in All : c.looked /\ c.live /\ c.size = 0}) = 0
        BY <3>3, <3>4
      <4>2. 0 + Cardinality(Starting) <= 1 - 1 + Threads
        BY <3>2, RequestsAssumption
      <4> QED
        BY <3>5, <4>1, <4>2 DEF EmptyConversationsOverlapOnly, OneEmpty!Exceeded, Starting
    <3>7. NumbersDense
      BY <3>3, <3>4 DEF NumbersDense
    <3> QED
      BY <3>6, <3>7
  <2> QED
    BY <2>1, <2>2 DEF RestInv
<1>2. RestInv => DuplicatesOverlapOnly
  <2>1. CASE followed = "settings"
    BY <2>1, SettingsBounded DEF RestInv
  <2>2. ASSUME SettingsInit PROVE DuplicatesOverlapOnly
    <3>1. Cardinality({}) = 0 /\ 0 <= Threads
      BY FS_EmptySet, RequestsAssumption
    <3> DEFINE seeded == [id |-> Seeded, cat |-> Seeded, named |-> FALSE, touched |-> FALSE,
                          active |-> TRUE, prompts |-> {}]
    <3>2. categories = {} /\ agents = {seeded} /\ pref = None
      BY <2>2 DEF SettingsInit
    <3>3. seeded.named = FALSE /\ seeded.prompts = {}
      OBVIOUS
    <3> HIDE DEF seeded
    <3>4. {c \in categories : c.looked} = {} /\ \A c : NamedIn(c) = {}
      BY <3>2, <3>3 DEF NamedIn
    <3> QED
      BY <3>1, <3>2, <3>3, <3>4 DEF DuplicatesOverlapOnly
  <2> QED
    BY <2>1, <2>2 DEF RestInv
<1>3. RestInv => LateEditsOverlapOnly
  BY DEF RestInv, ModerationInv, ModerationInit, LateEditsOverlapOnly
<1>4. RestInv => UniqueUnlessOverlapped
  BY <1>1, <1>2, <1>3 DEF UniqueUnlessOverlapped
<1> QED
  BY RestKept, <1>4, PTL

\* A client that loads pages until one with messages says there is no next has
\* been shown every message that was there when it began.
THEOREM ScrollsThrough == Spec => []ScrollComplete
<1>1. RestInv => ScrollComplete
  BY ScrolledThrough DEF RestInv, ApiInv, ApiInit, ScrollComplete
<1> QED
  BY RestKept, <1>1, PTL

\* A correction of an agent that is approved has a memory.
THEOREM ApprovalsRemembered == Spec => []ApprovedIsRemembered
<1>1. RestInv => ApprovedIsRemembered
  BY DEF RestInv, ModerationInv, ModerationInit, ApprovedIsRemembered
<1> QED
  BY RestKept, <1>1, PTL

\* Once no change is under way and none failed halfway, Cognito and the row have
\* the password that was acknowledged last.
THEOREM PasswordsKept == Spec => []PasswordsAgree
<1>1. RestInv => PasswordsAgree
  BY DEF RestInv, PasswordsInv, PasswordsInit, PasswordsAgree
<1> QED
  BY RestKept, <1>1, PTL

\* The tokens of a login with another provider carry the id of the row it was
\* answered for, unless the row was purged during a login.
THEOREM TokensKept == Spec => []TokensNameUser
<1>1. RestInv => TokensNameUser
  BY DEF RestInv, SocialInv, SocialInit, TokensNameUser
<1> QED
  BY RestKept, <1>1, PTL

\* What is served from a cache of the process was true less than its time to
\* live ago, or when the database last answered.
THEOREM CachesKept == Spec => []CachesFresh
<1>1. RestInv => ServedFresh
  BY CacheFresh DEF RestInv, CacheInit, ServedFresh
<1>2. RestInv => ConfigFresh
  BY VoiceFresh DEF RestInv, VoiceInit, ConfigFresh
<1>3. RestInv => CachesFresh
  BY <1>1, <1>2 DEF CachesFresh
<1> QED
  BY RestKept, <1>3, PTL

\* The configuration a speech provider is resolved from is never earlier than
\* the one used before.
THEOREM ResolvedForward == Spec => NeverBack
<1>1. RestInv /\ [Next]_vars => [resolved # None => resolved'.config >= resolved.config]_resolved
  <2> SUFFICES ASSUME RestInv, Next, resolved # None, resolved' # resolved
               PROVE  resolved'.config >= resolved.config
    BY DEF vars, voiceVars
  <2>1. followed = "voice" /\ FollowedStep
    BY NextFollows DEF voiceVars
  <2> QED
    BY <2>1, ForwardStep DEF RestInv, FollowedStep
<1> QED
  BY RestKept, <1>1, PTL DEF Spec, NeverBack
=============================================================================
