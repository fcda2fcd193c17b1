---------------------------- MODULE AccountsProofs ----------------------------
(***************************************************************************)
(* Proofs about Accounts, for any number of invitations, sign-ups and      *)
(* threads.  What the properties promise between requests is extended here *)
(* to every moment: what a request still owes stands for the mishap that   *)
(* would excuse it.  An account, a row and an invitation of a request are  *)
(* made at most once, so that whatever bears its name is older than what   *)
(* it does later.                                                          *)
(***************************************************************************)
EXTENDS Accounts, SequenceTheorems, TLAPS

-----------------------------------------------------------------------------
(* The inductive invariant.                                                *)

\* What a request is about to do, up to the account it makes and up to the row.
Unmade  == {"new", "lapse", "record", "create", "signup"}
Rowless == {"row", "signrow", "undo"}

Stages == Waiting \union Unmade \union Rowless \union
    {"mail", "delete", "drop", "choose", "wipe", "uncreate", "erase", "disable", "hide",
     "expire", "account", "password", "activate", "accepted", "verify", "editcheck",
     "edit", "flip"}

Invitations ==
    [id : Invites, status : {"pending", "expired", "accepted"}, old : BOOLEAN, mailed : BOOLEAN]

Records ==
    [stage : Stages, seen : Rows \union {None}, doomed : Nat, token : Invites \union {None},
     whose : Subs \union {None}, flag : BOOLEAN]

TypeOK ==
    /\ user \in Rows \union {None}
    /\ pool \in PoolAccounts \union {None}
    /\ inv \in Seq(Invitations)
    /\ req \in [Requests -> Records]
    /\ left \subseteq Mishaps \X Subs

\* A request that reads a row and acts on it later has read one.
HasSeen ==
    \A r \in Requests :
        /\ req[r].stage \in {"choose", "wipe", "uncreate", "erase", "disable", "hide",
                             "editcheck", "edit", "flip"} => req[r].seen # None
        /\ req[r].stage \in {"activate", "verify"} => req[r].whose # None

Seen(r, s)  == req[r].seen # None /\ req[r].seen.sub = s
RowOf(s)    == user # None /\ user.sub = s
PoolOf(s)   == pool # None /\ pool.sub = s

\* Before its account is made, and before its row is, nothing bears the name of
\* a request; nor does an invitation before it is recorded. Such a request is
\* served once.
MadeOnce ==
    /\ \A s \in Subs :
        /\ req[s].stage # "idle"
        /\ req[s].stage \in Unmade =>
              ~PoolOf(s) /\ ~RowOf(s) /\ \A r \in Requests : ~Seen(r, s) /\ req[r].whose # s
        /\ req[s].stage \in Rowless => ~RowOf(s) /\ \A r \in Requests : ~Seen(r, s)
    /\ \A k \in DOMAIN inv : req[inv[k].id].stage \notin {"new", "lapse", "record"}

\* Who is about to set is_email_verified has confirmed the account.
ConfirmedFirst ==
    \A r \in Requests, s \in Subs :
        req[r].stage \in {"activate", "verify"} /\ req[r].whose = s /\ PoolOf(s)
            => pool.state = "confirmed"

\* A deleted row has a disabled account, or somebody is about to disable it.
Disabled(s) == PoolOf(s) /\ pool.enabled => Left("enabled", s) \/ Left("overtaken", s)

DisabledFirst ==
    /\ \A s \in Subs : RowOf(s) /\ user.deleted =>
          \/ Disabled(s)
          \/ \E r \in Requests : req[r].stage = "flip" /\ ~req[r].flag /\ Seen(r, s)
    /\ \A r \in Requests, s \in Subs : req[r].stage = "hide" /\ Seen(r, s) => Disabled(s)

\* An account has its row, or is about to get it or to be deleted again.
AccountHasRow ==
    \A s \in Subs : PoolOf(s) /\ ~RowOf(s) =>
        Left("orphan", s) \/ Left("undeleted", s) \/ req[s].stage \in Rowless

\* A row has its account, or is about to be deleted.
RowHasAccount ==
    \A s \in Subs : RowOf(s) /\ ~PoolOf(s) =>
        \/ Left("halfwiped", s) \/ Left("overtaken", s)
        \/ \E r \in Requests : req[r].stage = "erase" /\ Seen(r, s)

\* Whose row is about to be made or deleted has an account, and has none.
AccountFirst ==
    /\ \A s \in Subs :
          req[s].stage \in {"row", "signrow"} => PoolOf(s) \/ Left("overtaken", s)
    /\ \A r \in Requests, s \in Subs :
          req[r].stage = "erase" /\ Seen(r, s) /\ PoolOf(s) => Left("undeleted", s)

Excused == \E s \in Subs, kind \in {"unsent", "halfwiped", "overtaken"} : Left(kind, s)

\* At most one request holds invitations, and only as many as there are.
OneLock ==
    /\ \A r \in Requests : req[r].doomed <= Len(inv)
    /\ \A r, q \in Requests : r = q \/ req[r].doomed = 0 \/ req[q].doomed = 0

Wiping(r) == req[r].stage \in {"uncreate", "erase"}

\* Without a row there is no invitation whose request is over. It is deleted with
\* the row, and one that was made after the deletion began cannot get a row before
\* the deletion ends. A clean-up deletes its own invitation.
InvitationHasRow ==
    /\ \A k \in DOMAIN inv :
          user = None /\ req[inv[k].id].stage \in {"mail", "done"} => Excused
    /\ \A r \in Requests : Wiping(r) /\ RowStands(r) =>
          \A k \in DOMAIN inv :
             k > req[r].doomed /\ req[inv[k].id].stage \in {"mail", "done"} => Excused
    /\ \A r \in Invites : Wiping(r) =>
          \A k \in DOMAIN inv : inv[k].id = r => k <= req[r].doomed

AccountsInv ==
    /\ TypeOK /\ HasSeen /\ MadeOnce
    /\ ConfirmedFirst /\ VerifiedIsConfirmed
    /\ DisabledFirst
    /\ AccountHasRow /\ RowHasAccount /\ AccountFirst
    /\ OneLock /\ InvitationHasRow

-----------------------------------------------------------------------------
(* What a step does to a request and to the invitations.                   *)

Others(r) == \A q \in Requests \ {r} : req'[q] = req[q]

\* What request r has read stays as it is.
SameReads(r) ==
    /\ req'[r].seen = req[r].seen /\ req'[r].doomed = req[r].doomed
    /\ req'[r].token = req[r].token /\ req'[r].whose = req[r].whose
    /\ req'[r].flag = req[r].flag

SameIds == DOMAIN inv' = DOMAIN inv /\ \A k \in DOMAIN inv : inv'[k].id = inv[k].id

LEMMA InvitationsOf ==
    ASSUME TypeOK
    PROVE  /\ Len(inv) \in Nat /\ DOMAIN inv = 1..Len(inv)
           /\ \A k \in DOMAIN inv :
                 /\ inv[k] \in Invitations
                 /\ inv[k].id \in Invites /\ inv[k].id \in Subs /\ inv[k].id \in Requests
<1>1. \A k \in DOMAIN inv : inv[k] \in Invitations
  BY DEF TypeOK
<1> QED  BY <1>1 DEF TypeOK, Invitations, Subs, Requests

LEMMA GoesOn ==
    ASSUME TypeOK, NEW r \in Requests, NEW t \in Stages, Goes(r, t)
    PROVE  /\ req' \in [Requests -> Records]
           /\ Others(r) /\ req'[r].stage = t /\ SameReads(r)
BY DEF TypeOK, Goes, Others, SameReads, Records

LEMMA EndsAs ==
    ASSUME TypeOK, NEW r \in Requests, NEW t \in Stages, req' = [req EXCEPT ![r] = Fresh(t)]
    PROVE  /\ req' \in [Requests -> Records]
           /\ Others(r) /\ req'[r] = Fresh(t)
BY DEF TypeOK, Others, Records, Fresh

LEMMA ReturnsTo ==
    ASSUME TypeOK, NEW r \in Requests, Returns(r)
    PROVE  /\ req' \in [Requests -> Records]
           /\ Others(r)
           /\ req'[r] = Fresh(IF r \in Workers THEN "idle" ELSE "done")
<1>1. "idle" \in Stages /\ "done" \in Stages
  BY DEF Stages, Waiting
<1> QED  BY <1>1, EndsAs DEF Returns

LEMMA StatusKeepsIds ==
    ASSUME TypeOK, NEW i, NEW status \in {"pending", "expired", "accepted"},
           StatusSet(i, status)
    PROVE  inv' \in Seq(Invitations) /\ SameIds
<1>1. /\ Len(inv) \in Nat /\ DOMAIN inv = 1..Len(inv)
      /\ \A k \in DOMAIN inv : inv[k] \in Invitations
  BY DEF TypeOK
<1>2. /\ DOMAIN inv' = 1..Len(inv)
      /\ \A k \in 1..Len(inv) : inv'[k] \in Invitations /\ inv'[k].id = inv[k].id
  BY <1>1 DEF StatusSet, Invitations
<1>3. inv' = [k \in 1..Len(inv) |-> inv'[k]]
  BY <1>1 DEF StatusSet
<1> QED  BY <1>1, <1>2, <1>3 DEF SameIds

-----------------------------------------------------------------------------
(* What keeps each part of the invariant: nothing that it speaks of is new *)
(* after the step, and what it allows is still there.                      *)

LEMMA LeftGrows ==
    ASSUME left \subseteq left'
    PROVE  /\ \A kind, s : Left(kind, s) => Left(kind, s)'
           /\ Excused => Excused'
BY DEF Left, Excused

MadeFrame ==
    /\ \A s \in Subs :
          /\ PoolOf(s)' => PoolOf(s)
          /\ RowOf(s)' => RowOf(s)
          /\ \A r \in Requests : Seen(r, s)' => Seen(r, s) \/ RowOf(s)
          /\ \A r \in Requests : req'[r].whose = s => req[r].whose = s \/ PoolOf(s)
          /\ req'[s].stage = "idle" => req[s].stage = "idle"
          /\ req'[s].stage \in Unmade => req[s].stage \in Unmade
          /\ req'[s].stage \in Rowless => req[s].stage \in Rowless
          /\ req'[s].stage \in {"new", "lapse", "record"} =>
                req[s].stage \in {"new", "lapse", "record"}
    /\ \A k \in DOMAIN inv' :
          \/ \E n \in DOMAIN inv : inv'[k].id = inv[n].id
          \/ req'[inv'[k].id].stage \notin {"new", "lapse", "record"}

LEMMA MadeKept ==
    ASSUME AccountsInv, MadeFrame
    PROVE  MadeOnce'
<1>1. ASSUME NEW s \in Subs, req'[s].stage \in Unmade
      PROVE  (~PoolOf(s) /\ ~RowOf(s) /\ \A q \in Requests : ~Seen(q, s) /\ req[q].whose # s)'
  <2>1. ~PoolOf(s) /\ ~RowOf(s) /\ \A q \in Requests : ~Seen(q, s) /\ req[q].whose # s
    BY <1>1 DEF AccountsInv, MadeOnce, MadeFrame
  <2> QED  BY <2>1 DEF MadeFrame
<1>2. ASSUME NEW s \in Subs, req'[s].stage \in Rowless
      PROVE  (~RowOf(s) /\ \A q \in Requests : ~Seen(q, s))'
  <2>1. ~RowOf(s) /\ \A q \in Requests : ~Seen(q, s)
    BY <1>2 DEF AccountsInv, MadeOnce, MadeFrame
  <2> QED  BY <2>1 DEF MadeFrame
<1>3. ASSUME NEW k \in DOMAIN inv'
      PROVE  req'[inv'[k].id].stage \notin {"new", "lapse", "record"}
  <2>1. \A n \in DOMAIN inv :
            inv[n].id \in Subs /\ req[inv[n].id].stage \notin {"new", "lapse", "record"}
    BY InvitationsOf DEF AccountsInv, MadeOnce
  <2> QED  BY <2>1 DEF MadeFrame
<1>4. \A s \in Subs : req'[s].stage # "idle"
  BY DEF AccountsInv, MadeOnce, MadeFrame
<1> QED  BY <1>1, <1>2, <1>3, <1>4 DEF MadeOnce

VerifiedFrame ==
    /\ left \subseteq left'
    /\ \A s \in Subs :
          /\ PoolOf(s)' => PoolOf(s) /\ (pool.state = "confirmed" => pool'.state = "confirmed")
          /\ RowOf(s)' /\ user'.verified => RowOf(s) /\ user.verified
    /\ \A r \in Requests :
          req'[r].stage \in {"activate", "verify"} =>
              req[r].stage \in {"activate", "verify"} /\ req'[r].whose = req[r].whose

\* VerifiedIsConfirmed in the form the proofs use.
VerifiedRow ==
    \A s \in Subs : RowOf(s) /\ user.verified /\ PoolOf(s) =>
        pool.state = "confirmed" \/ Left("crossed", s)

LEMMA VerifiedForm ==
    ASSUME TypeOK
    PROVE  VerifiedIsConfirmed <=> VerifiedRow
BY DEF TypeOK, VerifiedIsConfirmed, VerifiedRow, RowOf, PoolOf, Rows

LEMMA VerifiedKept ==
    ASSUME AccountsInv, TypeOK', VerifiedFrame
    PROVE  ConfirmedFirst' /\ VerifiedIsConfirmed'
<1>1. ConfirmedFirst'
  BY DEF AccountsInv, ConfirmedFirst, VerifiedFrame
<1>2. VerifiedRow
  BY VerifiedForm DEF AccountsInv
<1>3. VerifiedRow'
  BY <1>2, LeftGrows DEF VerifiedRow, VerifiedFrame
<1>4. (TypeOK => (VerifiedIsConfirmed <=> VerifiedRow))'
  BY VerifiedForm, PTL
<1> QED  BY <1>1, <1>3, <1>4

DisabledFrame ==
    /\ left \subseteq left'
    /\ \A s \in Subs :
          /\ PoolOf(s)' /\ pool'.enabled => PoolOf(s) /\ pool.enabled
          /\ RowOf(s)' /\ user'.deleted => RowOf(s) /\ user.deleted
    /\ \A r \in Requests, s \in Subs :
          /\ req'[r].stage = "hide" /\ Seen(r, s)' => req[r].stage = "hide" /\ Seen(r, s)
          /\ req[r].stage = "flip" /\ ~req[r].flag /\ Seen(r, s) =>
                req'[r].stage = "flip" /\ ~req'[r].flag /\ Seen(r, s)'

LEMMA DisabledKept ==
    ASSUME AccountsInv, DisabledFrame
    PROVE  DisabledFirst'
<1>1. \A s \in Subs : Disabled(s) => Disabled(s)'
  BY LeftGrows DEF Disabled, DisabledFrame
<1> QED  BY <1>1 DEF AccountsInv, DisabledFirst, DisabledFrame

PlacesFrame ==
    /\ left \subseteq left'
    /\ \A s \in Subs :
          /\ PoolOf(s)' <=> PoolOf(s)
          /\ RowOf(s)' <=> RowOf(s)
          /\ req[s].stage \in Rowless => req'[s].stage \in Rowless \/ Left("orphan", s)'
          /\ req'[s].stage \in {"row", "signrow"} => req[s].stage \in {"row", "signrow"}
    /\ \A r \in Requests, s \in Subs :
          /\ req'[r].stage = "erase" /\ Seen(r, s)' => req[r].stage = "erase" /\ Seen(r, s)
          /\ req[r].stage = "erase" /\ Seen(r, s) =>
                (req'[r].stage = "erase" /\ Seen(r, s)') \/ Left("halfwiped", s)'

LEMMA PlacesKept ==
    ASSUME AccountsInv, PlacesFrame
    PROVE  AccountHasRow' /\ RowHasAccount' /\ AccountFirst'
<1>1. AccountHasRow'
  BY LeftGrows DEF AccountsInv, AccountHasRow, PlacesFrame
<1>2. RowHasAccount'
  BY LeftGrows DEF AccountsInv, RowHasAccount, PlacesFrame
<1>3. AccountFirst'
  BY LeftGrows DEF AccountsInv, AccountFirst, PlacesFrame
<1> QED  BY <1>1, <1>2, <1>3

InvitesFrame ==
    /\ left \subseteq left'
    /\ SameIds
    /\ user' = None => user = None
    /\ \A r \in Requests : req'[r].doomed \in {req[r].doomed, 0}
    /\ \A r \in Invites : req'[r].stage \in {"mail", "done"} =>
          req[r].stage \in {"new", "lapse", "record", "mail", "done"} \/ Excused'
    /\ \A r \in Requests : Wiping(r)' =>
          Wiping(r) /\ req'[r].doomed = req[r].doomed /\ (RowStands(r)' => RowStands(r))

LEMMA InvitesKept ==
    ASSUME AccountsInv, TypeOK', InvitesFrame
    PROVE  OneLock' /\ InvitationHasRow'
<1>1. Excused => Excused'
  BY LeftGrows DEF InvitesFrame
<1>2. OneLock'
  <2>1. Len(inv') = Len(inv) /\ Len(inv) \in Nat
    BY DEF InvitesFrame, SameIds, AccountsInv, TypeOK
  <2> QED  BY <2>1 DEF AccountsInv, OneLock, InvitesFrame
<1>3. ASSUME NEW k \in DOMAIN inv, req'[inv[k].id].stage \in {"mail", "done"}
      PROVE  req[inv[k].id].stage \in {"mail", "done"} \/ Excused'
  <2>1. inv[k].id \in Invites /\ req[inv[k].id].stage \notin {"new", "lapse", "record"}
    BY InvitationsOf DEF AccountsInv, MadeOnce
  <2> QED  BY <1>3, <2>1 DEF InvitesFrame
<1>4. DOMAIN inv' = DOMAIN inv /\ \A k \in DOMAIN inv : inv'[k].id = inv[k].id
  BY DEF InvitesFrame, SameIds
<1>5. ASSUME NEW k \in DOMAIN inv, user' = None, req'[inv[k].id].stage \in {"mail", "done"}
      PROVE  Excused'
  BY <1>1, <1>3, <1>5 DEF AccountsInv, InvitationHasRow, InvitesFrame
<1>6. ASSUME NEW r \in Requests, Wiping(r)', RowStands(r)', NEW k \in DOMAIN inv,
             k > req'[r].doomed, req'[inv[k].id].stage \in {"mail", "done"}
      PROVE  Excused'
  <2>1. Wiping(r) /\ RowStands(r) /\ req'[r].doomed = req[r].doomed
    BY <1>6 DEF InvitesFrame
  <2> QED  BY <1>1, <1>3, <1>6, <2>1 DEF AccountsInv, InvitationHasRow
<1>7. ASSUME NEW r \in Invites, Wiping(r)', NEW k \in DOMAIN inv, inv[k].id = r
      PROVE  k <= req'[r].doomed
  <2>1. Wiping(r) /\ req'[r].doomed = req[r].doomed
    BY <1>7 DEF InvitesFrame, Requests
  <2> QED  BY <1>7, <2>1 DEF AccountsInv, InvitationHasRow
<1>8. InvitationHasRow'
  BY <1>4, <1>5, <1>6, <1>7 DEF InvitationHasRow
<1> QED  BY <1>2, <1>8

-----------------------------------------------------------------------------
(* The steps that change neither the row nor the account, and add no       *)
(* invitation.                                                             *)

\* Where such a step leads.
Plain == {"idle", "done", "lapse", "record", "signup", "delete", "drop", "choose", "wipe",
          "disable", "expire", "account", "password", "accepted", "editcheck", "edit", "undo"}

Ordinary(r) ==
    /\ user' = user /\ pool' = pool /\ left \subseteq left'
    /\ SameIds /\ Others(r)
    /\ req'[r].stage \in Plain
    /\ r \in Subs => req'[r].stage # "idle"
    /\ req'[r].seen \in {req[r].seen, user, None}
    /\ req'[r].whose \in {req[r].whose, None}
    /\ req'[r].doomed \in {req[r].doomed, 0}
    /\ req'[r].stage \in {"choose", "wipe", "disable", "editcheck", "edit"} => req'[r].seen # None
    /\ req'[r].stage \in {"lapse", "record"} => req[r].stage \in {"new", "lapse"}
    /\ req'[r].stage = "signup" => req[r].stage = "new"
    /\ req'[r].stage = "undo" => req[r].stage = "signrow"
    /\ req[r].stage \in Rowless => req'[r].stage = "undo" \/ Left("orphan", r)'
    /\ \A s : req[r].stage = "erase" /\ Seen(r, s) => Left("halfwiped", s)'
    /\ req[r].stage # "flip"
    /\ r \in Invites /\ req'[r].stage = "done" =>
          req[r].stage \in {"new", "lapse", "record", "mail"} \/ Excused'

LEMMA OrdinaryStep ==
    ASSUME AccountsInv, TypeOK', NEW r \in Requests, Ordinary(r)
    PROVE  AccountsInv'
<1>1. /\ \A s : RowOf(s)' <=> RowOf(s)
      /\ \A s : PoolOf(s)' <=> PoolOf(s)
      /\ \A q \in Requests : \A s : Seen(q, s)' => Seen(q, s) \/ RowOf(s)
      /\ \A q \in Requests : q # r => req'[q] = req[q]
  BY DEF Ordinary, RowOf, PoolOf, Seen, Others
<1>2. Subs \subseteq Requests /\ Invites \subseteq Requests /\ None \notin Subs
  BY ConstantsOK DEF Subs, Requests
<1>3. HasSeen'
  BY <1>1 DEF AccountsInv, HasSeen, Ordinary, Plain
<1>4. MadeFrame
  <2>1. \A q \in Requests, s \in Subs :
            req'[q].whose = s => req[q].whose = s
    BY <1>1, <1>2 DEF Ordinary
  <2>2. \A s \in Subs :
          /\ req'[s].stage = "idle" => req[s].stage = "idle"
          /\ req'[s].stage \in Unmade => req[s].stage \in Unmade
          /\ req'[s].stage \in Rowless => req[s].stage \in Rowless
          /\ req'[s].stage \in {"new", "lapse", "record"} =>
                req[s].stage \in {"new", "lapse", "record"}
    BY <1>1, <1>2 DEF Ordinary, Plain, Unmade, Rowless
  <2>3. \A k \in DOMAIN inv' : k \in DOMAIN inv /\ inv'[k].id = inv[k].id
    BY DEF Ordinary, SameIds
  <2> QED  BY <1>1, <2>1, <2>2, <2>3 DEF MadeFrame
<1>5. VerifiedFrame
  <2>1. \A q \in Requests : req'[q].stage \in {"activate", "verify"} => req'[q] = req[q]
    BY <1>1 DEF Ordinary, Plain
  <2> QED  BY <1>1, <2>1 DEF VerifiedFrame, Ordinary
<1>6. DisabledFrame
  <2>1. \A q \in Requests : \A s : req'[q].stage = "hide" /\ Seen(q, s)' =>
            req[q].stage = "hide" /\ Seen(q, s)
    BY <1>1 DEF Ordinary, Plain, Seen
  <2>2. \A q \in Requests : \A s : req[q].stage = "flip" /\ ~req[q].flag /\ Seen(q, s) =>
            req'[q].stage = "flip" /\ ~req'[q].flag /\ Seen(q, s)'
    BY <1>1 DEF Ordinary, Seen
  <2> QED  BY <1>1, <2>1, <2>2 DEF DisabledFrame, Ordinary
<1>7. PlacesFrame
  <2>1. \A s \in Subs : req[s].stage \in Rowless =>
            req'[s].stage \in Rowless \/ Left("orphan", s)'
    BY <1>1, <1>2 DEF Ordinary, Rowless
  <2>2. \A s \in Subs : req'[s].stage \in {"row", "signrow"} => req[s].stage \in {"row", "signrow"}
    BY <1>1, <1>2 DEF Ordinary, Plain
  <2>3. \A q \in Requests : \A s : req'[q].stage = "erase" /\ Seen(q, s)' =>
            req[q].stage = "erase" /\ Seen(q, s)
    BY <1>1 DEF Ordinary, Plain, Seen
  <2>4. \A q \in Requests : \A s : req[q].stage = "erase" /\ Seen(q, s) =>
            (req'[q].stage = "erase" /\ Seen(q, s)') \/ Left("halfwiped", s)'
    BY <1>1 DEF Ordinary, Seen
  <2> QED  BY <1>1, <2>1, <2>2, <2>3, <2>4 DEF PlacesFrame, Ordinary
<1>8. InvitesFrame
  <2>1. \A q \in Requests : Wiping(q)' => req'[q] = req[q] /\ Wiping(q)
    BY <1>1 DEF Ordinary, Plain, Wiping
  <2>2. \A q \in Requests : Wiping(q)' /\ RowStands(q)' => RowStands(q)
    BY <2>1 DEF Ordinary, RowStands
  <2>3. \A q \in Invites : req'[q].stage \in {"mail", "done"} =>
            req[q].stage \in {"new", "lapse", "record", "mail", "done"} \/ Excused'
    BY <1>1, <1>2 DEF Ordinary, Plain
  <2> QED  BY <1>1, <2>1, <2>2, <2>3 DEF InvitesFrame, Ordinary
<1> QED
  BY <1>3, <1>4, <1>5, <1>6, <1>7, <1>8, MadeKept, VerifiedKept, DisabledKept, PlacesKept,
     InvitesKept DEF AccountsInv

-----------------------------------------------------------------------------
(* One lemma for each action that is ordinary.                             *)

LEMMA LeavesMore ==
    ASSUME TypeOK, NEW things \in SUBSET (Mishaps \X Subs), Leaves(things)
    PROVE  /\ left \subseteq left' /\ left' \subseteq Mishaps \X Subs
           /\ \A kind, s : <<kind, s>> \in things => Left(kind, s)'
BY DEF TypeOK, Leaves, Left

LEMMA NothingLeft ==
    ASSUME TypeOK, UNCHANGED left
    PROVE  left \subseteq left' /\ left' \subseteq Mishaps \X Subs
BY DEF TypeOK

LEMMA SameTyped ==
    ASSUME TypeOK, UNCHANGED <<user, pool, inv>>, req' \in [Requests -> Records],
           left' \subseteq Mishaps \X Subs
    PROVE  TypeOK' /\ SameIds
BY DEF TypeOK, SameIds

LEMMA IdsTyped ==
    ASSUME TypeOK, UNCHANGED <<user, pool>>, inv' \in Seq(Invitations),
           req' \in [Requests -> Records], left' \subseteq Mishaps \X Subs
    PROVE  TypeOK'
BY DEF TypeOK

\* A request that ends has read nothing any more.
LEMMA Ended ==
    ASSUME TypeOK, NEW r \in Requests, Returns(r)
    PROVE  /\ req' \in [Requests -> Records]
           /\ Others(r)
           /\ req'[r].stage \in {"idle", "done"}
           /\ req'[r].seen = None /\ req'[r].whose = None /\ req'[r].doomed = 0
           /\ r \in Subs => req'[r].stage = "done"
           /\ r \in Workers => req'[r].stage = "idle"
<1>1. \A t : Fresh(t).stage = t /\ Fresh(t).seen = None /\ Fresh(t).whose = None /\ Fresh(t).doomed = 0
  BY DEF Fresh
<1> QED  BY <1>1, ReturnsTo, ConstantsOK DEF Subs

LEMMA InviteChecks == ASSUME AccountsInv, NEW r \in Invites, InviteCheck(r) PROVE AccountsInv'
<1>1. TypeOK /\ r \in Requests
  BY DEF AccountsInv, Requests
<1>2. left \subseteq left' /\ left' \subseteq Mishaps \X Subs
  BY <1>1, NothingLeft DEF InviteCheck
<1>3. CASE Goes(r, "record")
  <2>1. "record" \in Stages
    BY DEF Stages, Unmade
  <2>2. /\ req' \in [Requests -> Records]
        /\ Others(r) /\ req'[r].stage = "record" /\ SameReads(r)
    BY <1>1, <1>3, <2>1, GoesOn
  <2>3. TypeOK' /\ SameIds
    BY <1>1, <1>2, <2>2, SameTyped DEF InviteCheck
  <2>4. Ordinary(r)
    BY <1>2, <2>2, <2>3 DEF Ordinary, InviteCheck, SameReads, Plain, Rowless
  <2> QED  BY <1>1, <2>3, <2>4, OrdinaryStep
<1>4. CASE /\ inv # <<>>
           /\ req' = [req EXCEPT ![r].stage = "lapse", ![r].token = Last(inv).id]
  <2>1. "lapse" \in Stages /\ Last(inv).id \in Invites
    BY <1>1, <1>4, InvitationsOf DEF Stages, Unmade, Last
  <2>2. /\ req' \in [Requests -> Records] /\ Others(r)
        /\ req'[r].stage = "lapse" /\ req'[r].seen = req[r].seen
        /\ req'[r].whose = req[r].whose /\ req'[r].doomed = req[r].doomed
    BY <1>1, <1>4, <2>1 DEF TypeOK, Records, Others
  <2>3. TypeOK' /\ SameIds
    BY <1>1, <1>2, <2>2, SameTyped DEF InviteCheck
  <2>4. Ordinary(r)
    BY <1>2, <2>2, <2>3 DEF Ordinary, InviteCheck, Plain, Rowless
  <2> QED  BY <1>1, <2>3, <2>4, OrdinaryStep
<1>5. CASE Returns(r)
  <2>1. TypeOK' /\ SameIds
    BY <1>1, <1>2, <1>5, Ended, SameTyped DEF InviteCheck
  <2>2. Ordinary(r)
    BY <1>1, <1>2, <1>5, <2>1, Ended DEF Ordinary, InviteCheck, Plain, Rowless
  <2> QED  BY <1>1, <2>1, <2>2, OrdinaryStep
<1> QED  BY <1>3, <1>4, <1>5 DEF InviteCheck

LEMMA InviteLapses == ASSUME AccountsInv, NEW r \in Invites, InviteLapse(r) PROVE AccountsInv'
<1>1. TypeOK /\ r \in Requests
  BY DEF AccountsInv, Requests
<1>2. left \subseteq left' /\ left' \subseteq Mishaps \X Subs
  BY <1>1, NothingLeft DEF InviteLapse
<1>3. inv' \in Seq(Invitations) /\ SameIds
  BY <1>1, StatusKeepsIds DEF InviteLapse
<1>4. /\ req' \in [Requests -> Records] /\ Others(r)
      /\ req'[r].stage \in {"record", "done"}
      /\ req'[r].seen = None /\ req'[r].whose = None /\ req'[r].doomed = 0
  <2>1. CASE req' = [req EXCEPT ![r] = Fresh("record")]
    <3>1. "record" \in Stages
      BY DEF Stages, Unmade
    <3> QED  BY <1>1, <2>1, <3>1, EndsAs DEF Fresh
  <2>2. CASE Returns(r)
    BY <1>1, <2>2, Ended DEF Subs
  <2> QED  BY <2>1, <2>2 DEF InviteLapse
<1>5. TypeOK'
  BY <1>1, <1>2, <1>3, <1>4, IdsTyped DEF InviteLapse
<1>6. Ordinary(r)
  BY <1>2, <1>3, <1>4 DEF Ordinary, InviteLapse, Plain, Rowless
<1> QED  BY <1>1, <1>5, <1>6, OrdinaryStep

LEMMA InviteMails == ASSUME AccountsInv, NEW r \in Invites, InviteMail(r) PROVE AccountsInv'
<1>1. TypeOK /\ r \in Requests
  BY DEF AccountsInv, Requests
<1>2. left \subseteq left' /\ left' \subseteq Mishaps \X Subs
  BY <1>1, NothingLeft DEF InviteMail
<1>3. inv' \in Seq(Invitations) /\ SameIds
  <2>1. CASE inv' = [k \in DOMAIN inv |-> IF inv[k].id = r /\ inv[k].status = "pending"
                                          THEN [inv[k] EXCEPT !.mailed = TRUE] ELSE inv[k]]
    <3>1. /\ Len(inv) \in Nat /\ DOMAIN inv = 1..Len(inv)
          /\ \A k \in 1..Len(inv) : inv[k] \in Invitations
      BY <1>1, InvitationsOf
    <3>2. \A k \in 1..Len(inv) : inv'[k] \in Invitations /\ inv'[k].id = inv[k].id
      BY <2>1, <3>1 DEF Invitations
    <3>3. inv' = [k \in 1..Len(inv) |-> inv'[k]]
      BY <2>1, <3>1
    <3> QED  BY <3>1, <3>2, <3>3 DEF SameIds
  <2>2. CASE UNCHANGED inv
    BY <1>1, <2>2 DEF TypeOK, SameIds
  <2> QED  BY <2>1, <2>2 DEF InviteMail
<1>4. /\ req' \in [Requests -> Records] /\ Others(r)
      /\ req'[r].stage \in {"delete", "done"}
      /\ req'[r].seen \in {req[r].seen, None} /\ req'[r].whose \in {req[r].whose, None}
      /\ req'[r].doomed \in {req[r].doomed, 0}
  <2>1. CASE Goes(r, "delete")
    <3>1. "delete" \in Stages
      BY DEF Stages
    <3> QED  BY <1>1, <2>1, <3>1, GoesOn DEF SameReads
  <2>2. CASE Returns(r)
    BY <1>1, <2>2, Ended DEF Subs
  <2> QED  BY <2>1, <2>2 DEF InviteMail
<1>5. TypeOK'
  BY <1>1, <1>2, <1>3, <1>4, IdsTyped DEF InviteMail
<1>6. Ordinary(r)
  BY <1>2, <1>3, <1>4 DEF Ordinary, InviteMail, Plain, Rowless
<1> QED  BY <1>1, <1>5, <1>6, OrdinaryStep

LEMMA CleaningFails ==
    ASSUME TypeOK, NEW r \in Requests, Leaves(Unclean(r))
    PROVE  /\ left \subseteq left' /\ left' \subseteq Mishaps \X Subs
           /\ r \in Invites => Excused'
<1>1. Unclean(r) \in SUBSET (Mishaps \X Subs)
  BY DEF Unclean, Mishaps, Subs
<1>2. r \in Invites => <<"unsent", r>> \in Unclean(r) /\ r \in Subs
  BY DEF Unclean, Subs
<1>3. r \in Invites => Left("unsent", r)'
  BY <1>1, <1>2, LeavesMore
<1>4. r \in Invites => Excused'
  BY <1>2, <1>3 DEF Excused
<1> QED  BY <1>1, <1>4, LeavesMore

LEMMA DeleteAsks == ASSUME AccountsInv, NEW w \in Workers, DeleteAsk(w) PROVE AccountsInv'
<1>1. TypeOK /\ w \in Requests /\ w \notin Invites
  BY ConstantsOK DEF AccountsInv, Requests
<1>2. left \subseteq left' /\ left' \subseteq Mishaps \X Subs
  BY <1>1, NothingLeft DEF DeleteAsk
<1>3. PICK force \in BOOLEAN :
        req' = [req EXCEPT ![w].stage = "delete", ![w].flag = force]
  BY DEF DeleteAsk
<1>4. "delete" \in Stages
  BY DEF Stages
<1>5. /\ req' \in [Requests -> Records] /\ Others(w)
      /\ req'[w].stage = "delete" /\ req'[w].seen = req[w].seen
      /\ req'[w].whose = req[w].whose /\ req'[w].doomed = req[w].doomed
  BY <1>1, <1>3, <1>4 DEF TypeOK, Records, Others
<1>6. TypeOK' /\ SameIds
  BY <1>1, <1>2, <1>5, SameTyped DEF DeleteAsk
<1>7. Ordinary(w)
  BY <1>1, <1>2, <1>5, <1>6 DEF Ordinary, DeleteAsk, Plain, Rowless
<1> QED  BY <1>1, <1>6, <1>7, OrdinaryStep

LEMMA DeleteReads ==
    ASSUME AccountsInv, NEW r \in Invites \union Workers, DeleteRead(r)
    PROVE  AccountsInv'
<1>1. TypeOK /\ r \in Requests
  BY DEF AccountsInv, Requests
<1>2. CASE Returns(r) /\ Leaves(Unclean(r))
  <2>1. left \subseteq left' /\ left' \subseteq Mishaps \X Subs /\ (r \in Invites => Excused')
    BY <1>1, <1>2, CleaningFails
  <2>2. TypeOK' /\ SameIds
    BY <1>1, <1>2, <2>1, Ended, SameTyped DEF DeleteRead
  <2>3. Ordinary(r)
    BY <1>1, <1>2, <2>1, <2>2, Ended DEF Ordinary, DeleteRead, Plain, Rowless
  <2> QED  BY <1>1, <2>2, <2>3, OrdinaryStep
<1>3. CASE /\ Deletion(req[r].flag) # "refuse"
           /\ req' = [req EXCEPT ![r] = [Fresh(Deletion(req[r].flag)) EXCEPT !.seen = user]]
           /\ UNCHANGED left
  <2>1. left \subseteq left' /\ left' \subseteq Mishaps \X Subs
    BY <1>1, <1>3, NothingLeft
  <2>2. PICK t : t = Deletion(req[r].flag)
    OBVIOUS
  <2>3. t \in {"drop", "wipe", "disable", "choose"} /\ (t # "drop" => user # None)
    BY <1>3, <2>2 DEF Deletion
  <2>4. t \in Stages /\ user \in Rows \union {None}
    BY <1>1, <2>3 DEF Stages, TypeOK
  <2>5. /\ req' \in [Requests -> Records] /\ Others(r)
        /\ req'[r].stage = t /\ req'[r].seen = user
        /\ req'[r].whose = None /\ req'[r].doomed = 0
    BY <1>1, <1>3, <2>2, <2>4 DEF TypeOK, Records, Others, Fresh
  <2>6. TypeOK' /\ SameIds
    BY <1>1, <2>1, <2>5, SameTyped DEF DeleteRead
  <2>7. Ordinary(r)
    BY <2>1, <2>3, <2>5, <2>6 DEF Ordinary, DeleteRead, Plain, Rowless
  <2> QED  BY <1>1, <2>6, <2>7, OrdinaryStep
<1> QED  BY <1>2, <1>3 DEF DeleteRead

\* What a request needs to have read before it goes on to delete or to edit.
LEMMA ReadBefore ==
    ASSUME AccountsInv, NEW r \in Requests,
           req[r].stage \in {"choose", "wipe", "uncreate", "erase", "disable", "hide",
                             "editcheck", "edit", "flip"}
    PROVE  /\ req[r].seen \in Rows /\ req[r].seen.sub \in Subs
           /\ Seen(r, req[r].seen.sub)
<1>1. req[r].seen # None /\ req[r].seen \in Rows \union {None}
  BY DEF AccountsInv, HasSeen, TypeOK, Records
<1> QED  BY <1>1 DEF Seen, Rows

LEMMA DeleteChooses ==
    ASSUME AccountsInv, NEW r \in Invites \union Workers, DeleteChoose(r)
    PROVE  AccountsInv'
<1>1. TypeOK /\ r \in Requests /\ req[r].seen # None
  BY DEF AccountsInv, Requests, HasSeen, DeleteChoose
<1>2. CASE Goes(r, "wipe") /\ UNCHANGED left
  <2>1. left \subseteq left' /\ left' \subseteq Mishaps \X Subs
    BY <1>1, <1>2, NothingLeft
  <2>2. "wipe" \in Stages
    BY DEF Stages
  <2>3. /\ req' \in [Requests -> Records]
        /\ Others(r) /\ req'[r].stage = "wipe" /\ SameReads(r)
    BY <1>1, <1>2, <2>2, GoesOn
  <2>4. TypeOK' /\ SameIds
    BY <1>1, <2>1, <2>3, SameTyped DEF DeleteChoose
  <2>5. Ordinary(r)
    BY <1>1, <2>1, <2>3, <2>4 DEF Ordinary, DeleteChoose, SameReads, Plain, Rowless
  <2> QED  BY <1>1, <2>4, <2>5, OrdinaryStep
<1>3. CASE Returns(r) /\ Leaves(Unclean(r))
  <2>1. left \subseteq left' /\ left' \subseteq Mishaps \X Subs /\ (r \in Invites => Excused')
    BY <1>1, <1>3, CleaningFails
  <2>2. TypeOK' /\ SameIds
    BY <1>1, <1>3, <2>1, Ended, SameTyped DEF DeleteChoose
  <2>3. Ordinary(r)
    BY <1>1, <1>3, <2>1, <2>2, Ended DEF Ordinary, DeleteChoose, Plain, Rowless
  <2> QED  BY <1>1, <2>2, <2>3, OrdinaryStep
<1> QED  BY <1>2, <1>3 DEF DeleteChoose

LEMMA WipeRollsBack ==
    ASSUME AccountsInv, NEW r \in Invites \union Workers, WipeRollback(r)
    PROVE  AccountsInv'
<1>1. TypeOK /\ r \in Requests /\ req[r].stage = "erase"
  BY DEF AccountsInv, Requests, WipeRollback
<1>2. req[r].seen.sub \in Subs
  BY <1>1, ReadBefore
<1>3. PICK s \in Subs : s = req[r].seen.sub
  BY <1>2
<1>4. {<<"halfwiped", s>>} \in SUBSET (Mishaps \X Subs)
  BY DEF Mishaps
<1>5. /\ left \subseteq left' /\ left' \subseteq Mishaps \X Subs
      /\ Left("halfwiped", s)'
  BY <1>1, <1>3, <1>4, LeavesMore DEF WipeRollback
<1>6. Excused'
  BY <1>5 DEF Excused
<1>7. \A t : Seen(r, t) => Left("halfwiped", t)'
  BY <1>3, <1>5 DEF Seen
<1>8. TypeOK' /\ SameIds
  BY <1>1, <1>5, Ended, SameTyped DEF WipeRollback
<1>9. Ordinary(r)
  BY <1>1, <1>5, <1>6, <1>7, <1>8, Ended DEF Ordinary, WipeRollback, Plain, Rowless
<1> QED  BY <1>1, <1>8, <1>9, OrdinaryStep

LEMMA WorkerIs == ASSUME NEW w \in Workers PROVE w \in Requests /\ w \notin Invites /\ w \notin Subs
BY ConstantsOK DEF Requests, Subs

LEMMA AcceptsToken == ASSUME AccountsInv, NEW w \in Workers, AcceptToken(w) PROVE AccountsInv'
<1>1. TypeOK /\ w \in Requests /\ w \notin Invites
  BY WorkerIs DEF AccountsInv
<1>2. left \subseteq left' /\ left' \subseteq Mishaps \X Subs
  BY <1>1, NothingLeft DEF AcceptToken
<1>3. PICK k \in DOMAIN inv :
        req' = [req EXCEPT ![w].stage = IF inv[k].old THEN "expire" ELSE "account",
                           ![w].token = inv[k].id]
  BY DEF AcceptToken
<1>4. PICK t \in {"expire", "account"} : t = IF inv[k].old THEN "expire" ELSE "account"
  OBVIOUS
<1>5. t \in Stages /\ inv[k].id \in Invites
  BY <1>1, InvitationsOf DEF Stages
<1>6. /\ req' \in [Requests -> Records] /\ Others(w)
      /\ req'[w].stage = t /\ req'[w].seen = req[w].seen
      /\ req'[w].whose = req[w].whose /\ req'[w].doomed = req[w].doomed
  <2>1. PICK i : i = inv[k].id
    OBVIOUS
  <2>2. i \in Invites /\ req' = [req EXCEPT ![w] = [req[w] EXCEPT !.stage = t, !.token = i]]
    BY <1>3, <1>4, <1>5, <2>1
  <2>3. req[w] \in Records /\ [req[w] EXCEPT !.stage = t, !.token = i] \in Records
    BY <1>1, <1>5, <2>2 DEF TypeOK, Records
  <2>4. req' \in [Requests -> Records] /\ Others(w) /\ req'[w] = [req[w] EXCEPT !.stage = t, !.token = i]
    BY <1>1, <2>2, <2>3 DEF TypeOK, Others
  <2> QED
    BY <2>3, <2>4 DEF Records
<1>7. TypeOK' /\ SameIds
  BY <1>1, <1>2, <1>6, SameTyped DEF AcceptToken
<1>8. Ordinary(w)
  BY <1>1, <1>2, <1>4, <1>6, <1>7 DEF Ordinary, AcceptToken, Plain, Rowless
<1> QED  BY <1>1, <1>7, <1>8, OrdinaryStep

LEMMA AcceptsExpired == ASSUME AccountsInv, NEW w \in Workers, AcceptExpire(w) PROVE AccountsInv'
<1>1. TypeOK /\ w \in Requests /\ w \notin Invites
  BY WorkerIs DEF AccountsInv
<1>2. left \subseteq left' /\ left' \subseteq Mishaps \X Subs
  BY <1>1, NothingLeft DEF AcceptExpire
<1>3. inv' \in Seq(Invitations) /\ SameIds
  BY <1>1, StatusKeepsIds DEF AcceptExpire
<1>4. TypeOK'
  BY <1>1, <1>2, <1>3, Ended, IdsTyped DEF AcceptExpire
<1>5. Ordinary(w)
  BY <1>1, <1>2, <1>3, Ended DEF Ordinary, AcceptExpire, Plain, Rowless
<1> QED  BY <1>1, <1>4, <1>5, OrdinaryStep

LEMMA AcceptsAccount == ASSUME AccountsInv, NEW w \in Workers, AcceptAccount(w) PROVE AccountsInv'
<1>1. TypeOK /\ w \in Requests /\ w \notin Invites
  BY WorkerIs DEF AccountsInv
<1>2. left \subseteq left' /\ left' \subseteq Mishaps \X Subs
  BY <1>1, NothingLeft DEF AcceptAccount
<1>3. /\ req' \in [Requests -> Records] /\ Others(w)
      /\ req'[w].stage \in {"idle", "done", "accepted", "password"}
      /\ req'[w].seen \in {req[w].seen, None} /\ req'[w].whose \in {req[w].whose, None}
      /\ req'[w].doomed \in {req[w].doomed, 0}
  <2>1. CASE Returns(w)
    BY <1>1, <2>1, Ended
  <2>2. ASSUME NEW t \in {"accepted", "password"}, Goes(w, t)
        PROVE  /\ req' \in [Requests -> Records] /\ Others(w) /\ req'[w].stage = t /\ SameReads(w)
    <3>1. t \in Stages
      BY DEF Stages
    <3> QED  BY <1>1, <2>2, <3>1, GoesOn
  <2> QED  BY <2>1, <2>2 DEF AcceptAccount, SameReads
<1>4. TypeOK' /\ SameIds
  BY <1>1, <1>2, <1>3, SameTyped DEF AcceptAccount
<1>5. Ordinary(w)
  BY <1>1, <1>2, <1>3, <1>4, WorkerIs DEF Ordinary, AcceptAccount, Plain, Rowless
<1> QED  BY <1>1, <1>4, <1>5, OrdinaryStep

LEMMA MarksAccepted == ASSUME AccountsInv, NEW w \in Workers, MarkAccepted(w) PROVE AccountsInv'
<1>1. TypeOK /\ w \in Requests /\ w \notin Invites
  BY WorkerIs DEF AccountsInv
<1>2. left \subseteq left' /\ left' \subseteq Mishaps \X Subs
  BY <1>1, NothingLeft DEF MarkAccepted
<1>3. inv' \in Seq(Invitations) /\ SameIds
  <2>1. CASE StatusSet(req[w].token, "accepted")
    BY <1>1, <2>1, StatusKeepsIds
  <2>2. CASE UNCHANGED inv
    BY <1>1, <2>2 DEF TypeOK, SameIds
  <2> QED  BY <2>1, <2>2 DEF MarkAccepted
<1>4. TypeOK'
  BY <1>1, <1>2, <1>3, Ended, IdsTyped DEF MarkAccepted
<1>5. Ordinary(w)
  BY <1>1, <1>2, <1>3, Ended DEF Ordinary, MarkAccepted, Plain, Rowless
<1> QED  BY <1>1, <1>4, <1>5, OrdinaryStep

LEMMA EditReads == ASSUME AccountsInv, NEW w \in Workers, EditRead(w) PROVE AccountsInv'
<1>1. TypeOK /\ w \in Requests /\ w \notin Invites
  BY WorkerIs DEF AccountsInv
<1>2. left \subseteq left' /\ left' \subseteq Mishaps \X Subs
  BY <1>1, NothingLeft DEF EditRead
<1>3. PICK on \in BOOLEAN :
        req' = [req EXCEPT ![w].stage = "editcheck", ![w].seen = user, ![w].flag = on]
  BY DEF EditRead
<1>4. "editcheck" \in Stages /\ user \in Rows /\ user # None
  BY <1>1 DEF Stages, TypeOK, EditRead
<1>5. /\ req' \in [Requests -> Records] /\ Others(w)
      /\ req'[w].stage = "editcheck" /\ req'[w].seen = user
      /\ req'[w].whose = req[w].whose /\ req'[w].doomed = req[w].doomed
  <2> DEFINE k == [req[w] EXCEPT !.stage = "editcheck", !.seen = user, !.flag = on]
  <2>1. req' = [req EXCEPT ![w] = k]
    BY <1>3
  <2>2. req[w] \in Records
    BY <1>1 DEF TypeOK
  <2>3. /\ k \in Records /\ k.stage = "editcheck" /\ k.seen = user
        /\ k.whose = req[w].whose /\ k.doomed = req[w].doomed
    BY <1>4, <2>2 DEF Records
  <2> HIDE DEF k
  <2>4. req' \in [Requests -> Records] /\ Others(w) /\ req'[w] = k
    BY <1>1, <2>1, <2>3 DEF TypeOK, Others
  <2> QED
    BY <2>3, <2>4
<1>6. TypeOK' /\ SameIds
  BY <1>1, <1>2, <1>5, SameTyped DEF EditRead
<1>7. Ordinary(w)
  BY <1>1, <1>2, <1>4, <1>5, <1>6 DEF Ordinary, EditRead, Plain, Rowless
<1> QED  BY <1>1, <1>6, <1>7, OrdinaryStep

LEMMA EditChecks == ASSUME AccountsInv, NEW w \in Workers, EditCheck(w) PROVE AccountsInv'
<1>1. TypeOK /\ w \in Requests /\ w \notin Invites /\ req[w].seen # None
  BY WorkerIs DEF AccountsInv, HasSeen, EditCheck
<1>2. left \subseteq left' /\ left' \subseteq Mishaps \X Subs
  BY <1>1, NothingLeft DEF EditCheck
<1>3. CASE Goes(w, "edit")
  <2>1. "edit" \in Stages
    BY DEF Stages
  <2>2. /\ req' \in [Requests -> Records]
        /\ Others(w) /\ req'[w].stage = "edit" /\ SameReads(w)
    BY <1>1, <1>3, <2>1, GoesOn
  <2>3. TypeOK' /\ SameIds
    BY <1>1, <1>2, <2>2, SameTyped DEF EditCheck
  <2>4. Ordinary(w)
    BY <1>1, <1>2, <2>2, <2>3 DEF Ordinary, EditCheck, SameReads, Plain, Rowless
  <2> QED  BY <1>1, <2>3, <2>4, OrdinaryStep
<1>4. CASE Returns(w)
  <2>1. TypeOK' /\ SameIds
    BY <1>1, <1>2, <1>4, Ended, SameTyped DEF EditCheck
  <2>2. Ordinary(w)
    BY <1>1, <1>2, <1>4, <2>1, Ended DEF Ordinary, EditCheck, Plain, Rowless
  <2> QED  BY <1>1, <2>1, <2>2, OrdinaryStep
<1> QED  BY <1>3, <1>4 DEF EditCheck

LEMMA SignUpIs == ASSUME NEW s \in SignUps PROVE s \in Requests /\ s \in Subs /\ s \notin Invites
BY ConstantsOK DEF Requests, Subs

LEMMA SignUpChecks == ASSUME AccountsInv, NEW s \in SignUps, SignUpCheck(s) PROVE AccountsInv'
<1>1. TypeOK /\ s \in Requests /\ s \notin Invites
  BY SignUpIs DEF AccountsInv
<1>2. left \subseteq left' /\ left' \subseteq Mishaps \X Subs
  BY <1>1, NothingLeft DEF SignUpCheck
<1>3. CASE Goes(s, "signup")
  <2>1. "signup" \in Stages
    BY DEF Stages, Unmade
  <2>2. /\ req' \in [Requests -> Records]
        /\ Others(s) /\ req'[s].stage = "signup" /\ SameReads(s)
    BY <1>1, <1>3, <2>1, GoesOn
  <2>3. TypeOK' /\ SameIds
    BY <1>1, <1>2, <2>2, SameTyped DEF SignUpCheck
  <2>4. Ordinary(s)
    BY <1>1, <1>2, <2>2, <2>3 DEF Ordinary, SignUpCheck, SameReads, Plain, Rowless
  <2> QED  BY <1>1, <2>3, <2>4, OrdinaryStep
<1>4. CASE Returns(s)
  <2>1. TypeOK' /\ SameIds
    BY <1>1, <1>2, <1>4, Ended, SameTyped DEF SignUpCheck
  <2>2. Ordinary(s)
    BY <1>1, <1>2, <1>4, <2>1, Ended DEF Ordinary, SignUpCheck, Plain, Rowless
  <2> QED  BY <1>1, <2>1, <2>2, OrdinaryStep
<1> QED  BY <1>3, <1>4 DEF SignUpCheck

\* A step that only writes to an invitation.
LEMMA InvitationWritten ==
    ASSUME AccountsInv, UNCHANGED <<user, pool, req, left>>,
           inv' \in Seq(Invitations), SameIds
    PROVE  AccountsInv'
<1>1. TypeOK'
  BY DEF AccountsInv, TypeOK
<1>2. /\ \A s : (RowOf(s)' <=> RowOf(s)) /\ (PoolOf(s)' <=> PoolOf(s)) /\ (Disabled(s)' <=> Disabled(s))
      /\ \A r, s : Seen(r, s)' <=> Seen(r, s)
      /\ \A kind, s : Left(kind, s)' <=> Left(kind, s)
      /\ Excused' <=> Excused
      /\ \A r : (Wiping(r)' <=> Wiping(r)) /\ (RowStands(r)' <=> RowStands(r))
  BY DEF RowOf, PoolOf, Disabled, Seen, Left, Excused, Wiping, RowStands
<1>3. HasSeen'
  BY DEF AccountsInv, HasSeen
<1>4. MadeOnce'
  BY <1>2 DEF AccountsInv, MadeOnce, SameIds
<1>5. ConfirmedFirst' /\ VerifiedIsConfirmed'
  BY <1>2 DEF AccountsInv, ConfirmedFirst, VerifiedIsConfirmed
<1>6. DisabledFirst'
  BY <1>2 DEF AccountsInv, DisabledFirst
<1>7. AccountHasRow' /\ RowHasAccount' /\ AccountFirst'
  BY <1>2 DEF AccountsInv, AccountHasRow, RowHasAccount, AccountFirst
<1>8. OneLock'
  <2>1. Len(inv') = Len(inv)
    BY DEF SameIds, AccountsInv, TypeOK
  <2> QED  BY <2>1 DEF AccountsInv, OneLock
<1>9. InvitationHasRow'
  BY <1>2 DEF AccountsInv, InvitationHasRow, SameIds
<1> QED  BY <1>1, <1>3, <1>4, <1>5, <1>6, <1>7, <1>8, <1>9 DEF AccountsInv

LEMMA Resends == ASSUME AccountsInv, NEW w \in Workers, Resend(w) PROVE AccountsInv'
<1>1. PICK k \in DOMAIN inv, sent \in BOOLEAN :
        inv' = [inv EXCEPT ![k] = [id |-> @.id, status |-> "pending", old |-> FALSE,
                                   mailed |-> sent]]
  BY DEF Resend
<1>2. inv \in Seq(Invitations) /\ inv[k].id \in Invites
  BY InvitationsOf DEF AccountsInv, TypeOK
<1>3. inv' \in Seq(Invitations) /\ SameIds
  BY <1>1, <1>2 DEF SameIds, Invitations
<1> QED  BY <1>3, InvitationWritten DEF Resend

LEMMA Expires == ASSUME AccountsInv, Expire PROVE AccountsInv'
<1>1. PICK k \in DOMAIN inv : inv' = [inv EXCEPT ![k].old = TRUE]
  BY DEF Expire
<1>2. inv \in Seq(Invitations) /\ inv[k] \in Invitations
  BY InvitationsOf DEF AccountsInv, TypeOK
<1>3. PICK i \in Invitations : i = [inv[k] EXCEPT !.old = TRUE] /\ i.id = inv[k].id
  <2>1. ASSUME NEW j \in Invitations
        PROVE  /\ [j EXCEPT !.old = TRUE] \in Invitations
               /\ [j EXCEPT !.old = TRUE].id = j.id
    BY DEF Invitations
  <2> QED  BY <1>2, <2>1
<1>4. inv' = [inv EXCEPT ![k] = i]
  BY <1>1, <1>3
<1>5. inv' \in Seq(Invitations) /\ SameIds
  BY <1>2, <1>3, <1>4 DEF SameIds
<1> QED  BY <1>5, InvitationWritten DEF Expire

-----------------------------------------------------------------------------
(* The steps that change a place.                                          *)

LEMMA InSubs == Subs \subseteq Requests /\ Invites \subseteq Subs /\ None \notin Subs
BY ConstantsOK DEF Subs, Requests

\* What r has read, and what all others have, is unchanged by its step.
LEMMA ReadsStay ==
    ASSUME NEW r \in Requests, Others(r), req'[r].seen \in {req[r].seen, None}
    PROVE  \A q \in Requests : \A s : Seen(q, s)' => Seen(q, s)
BY DEF Seen, Others

LEMMA InviteRecords == ASSUME AccountsInv, NEW r \in Invites, InviteRecord(r) PROVE AccountsInv'
<1>1. TypeOK /\ r \in Requests /\ r \in Subs
  BY InSubs DEF AccountsInv, Requests
<1>2. CASE Returns(r) /\ UNCHANGED <<inv, left>>
  <2>1. left \subseteq left' /\ left' \subseteq Mishaps \X Subs
    BY <1>1, <1>2, NothingLeft
  <2>2. TypeOK' /\ SameIds
    BY <1>1, <1>2, <2>1, Ended, SameTyped DEF InviteRecord
  <2>3. Ordinary(r)
    BY <1>1, <1>2, <2>1, <2>2, Ended DEF Ordinary, InviteRecord, Plain, Rowless
  <2> QED  BY <1>1, <2>2, <2>3, OrdinaryStep
<1>3. ASSUME inv' = Append(inv, [id |-> r, status |-> "pending", old |-> FALSE, mailed |-> FALSE]),
             \/ Goes(r, "create") /\ UNCHANGED left
             \/ Returns(r) /\ Leaves({<<"unsent", r>>})
      PROVE  AccountsInv'
  <2>1. /\ req' \in [Requests -> Records] /\ Others(r)
        /\ left \subseteq left' /\ left' \subseteq Mishaps \X Subs
        /\ req'[r].seen \in {req[r].seen, None} /\ req'[r].whose \in {req[r].whose, None}
        /\ req'[r].doomed \in {req[r].doomed, 0}
        /\ req'[r].stage = "create" \/ (req'[r].stage = "done" /\ Excused')
    <3>1. CASE Goes(r, "create") /\ UNCHANGED left
      <4>1. "create" \in Stages
        BY DEF Stages, Unmade
      <4> QED  BY <1>1, <3>1, <4>1, GoesOn, NothingLeft DEF SameReads
    <3>2. CASE Returns(r) /\ Leaves({<<"unsent", r>>})
      <4>1. {<<"unsent", r>>} \in SUBSET (Mishaps \X Subs)
        BY <1>1 DEF Mishaps
      <4>2. left \subseteq left' /\ left' \subseteq Mishaps \X Subs /\ Left("unsent", r)'
        BY <1>1, <3>2, <4>1, LeavesMore
      <4> QED  BY <1>1, <3>2, <4>2, Ended DEF Excused
    <3> QED  BY <1>3, <3>1, <3>2
  <2>2. /\ Len(inv) \in Nat /\ DOMAIN inv' = 1..(Len(inv) + 1) /\ DOMAIN inv = 1..Len(inv)
        /\ Len(inv') = Len(inv) + 1
        /\ \A k \in DOMAIN inv : inv'[k] = inv[k]
        /\ inv'[Len(inv) + 1].id = r
        /\ inv' \in Seq(Invitations)
    BY <1>1, <1>3 DEF TypeOK, Invitations
  <2>3. UNCHANGED <<user, pool>> /\ req[r].stage = "record"
    BY DEF InviteRecord
  <2>4. TypeOK'
    BY <1>1, <2>1, <2>2, <2>3, IdsTyped
  <2>5. /\ \A s : (RowOf(s)' <=> RowOf(s)) /\ (PoolOf(s)' <=> PoolOf(s))
        /\ \A q \in Requests : q # r => req'[q] = req[q]
        /\ \A q \in Requests : \A s : Seen(q, s)' => Seen(q, s)
    BY <1>1, <2>1, <2>3, ReadsStay DEF RowOf, PoolOf, Others
  <2>6. HasSeen'
    BY <2>1, <2>5 DEF AccountsInv, HasSeen
  <2>7. MadeFrame
    <3>1. \A q \in Requests, s \in Subs : req'[q].whose = s => req[q].whose = s
      BY <2>1, <2>5, InSubs
    <3>2. \A k \in DOMAIN inv' :
            \/ k \in DOMAIN inv /\ inv'[k].id = inv[k].id
            \/ inv'[k].id = r
      BY <2>2
    <3> QED  BY <1>1, <2>1, <2>3, <2>5, <3>1, <3>2, InSubs DEF MadeFrame, Unmade, Rowless
  <2>8. VerifiedFrame
    BY <2>1, <2>3, <2>5 DEF VerifiedFrame
  <2>9. DisabledFrame
    <3>1. \A q \in Requests : \A s : req[q].stage = "flip" /\ ~req[q].flag /\ Seen(q, s) =>
              req'[q].stage = "flip" /\ ~req'[q].flag /\ Seen(q, s)'
      BY <2>3, <2>5 DEF Seen
    <3> QED  BY <2>1, <2>3, <2>5, <3>1 DEF DisabledFrame
  <2>10. PlacesFrame
    <3>1. \A q \in Requests : \A s : req[q].stage = "erase" /\ Seen(q, s) =>
              req'[q].stage = "erase" /\ Seen(q, s)'
      BY <2>3, <2>5 DEF Seen
    <3> QED  BY <2>1, <2>3, <2>5, <3>1, InSubs DEF PlacesFrame, Rowless
  <2>11. OneLock'
    <3>1. \A q \in Requests : req[q].doomed \in Nat /\ req'[q].doomed \in {req[q].doomed, 0}
      BY <1>1, <2>1, <2>5 DEF TypeOK, Records
    <3> QED  BY <2>2, <3>1 DEF AccountsInv, OneLock
  <2>12. InvitationHasRow'
    <3>1. /\ Excused => Excused'
          /\ \A q \in Requests : Wiping(q)' => Wiping(q) /\ req'[q] = req[q] /\ q # r
          /\ \A q \in Requests : Wiping(q)' /\ RowStands(q)' => RowStands(q)
      BY <2>1, <2>3, <2>5, LeftGrows DEF Wiping, RowStands
    <3>2. ASSUME NEW k \in DOMAIN inv', req'[inv'[k].id].stage \in {"mail", "done"}, ~Excused'
          PROVE  k \in DOMAIN inv /\ inv'[k] = inv[k] /\ req[inv[k].id].stage \in {"mail", "done"}
      <4>1. k # Len(inv) + 1
        BY <2>1, <2>2, <3>2
      <4>2. k \in DOMAIN inv /\ inv'[k] = inv[k] /\ inv[k].id \in Requests
        BY <1>1, <2>2, <4>1, InvitationsOf
      <4>3. inv[k].id # r
        BY <2>3, <4>2 DEF AccountsInv, MadeOnce
      <4> QED  BY <2>5, <3>2, <4>2, <4>3
    <3>3. \A k \in DOMAIN inv', q \in Invites : inv'[k].id = q /\ q # r =>
              k \in DOMAIN inv /\ inv[k].id = q
      BY <2>2
    <3>4. ASSUME NEW k \in DOMAIN inv', user' = None, req'[inv'[k].id].stage \in {"mail", "done"}
          PROVE  Excused'
      BY <2>3, <3>1, <3>2, <3>4 DEF AccountsInv, InvitationHasRow
    <3>5. ASSUME NEW q \in Requests, Wiping(q)', RowStands(q)', NEW k \in DOMAIN inv',
                 k > req'[q].doomed, req'[inv'[k].id].stage \in {"mail", "done"}
          PROVE  Excused'
      BY <3>1, <3>2, <3>5 DEF AccountsInv, InvitationHasRow
    <3>6. ASSUME NEW q \in Invites, Wiping(q)', NEW k \in DOMAIN inv', inv'[k].id = q
          PROVE  k <= req'[q].doomed
      BY <3>1, <3>3, <3>6, InSubs DEF AccountsInv, InvitationHasRow
    <3> QED  BY <3>4, <3>5, <3>6 DEF InvitationHasRow
  <2> QED
    BY <2>4, <2>6, <2>7, <2>8, <2>9, <2>10, <2>11, <2>12, MadeKept, VerifiedKept, DisabledKept,
       PlacesKept DEF AccountsInv
<1> QED  BY <1>2, <1>3 DEF InviteRecord

\* An account is made, by an invitation or a sign-up.
LEMMA AccountMade ==
    ASSUME AccountsInv, TypeOK', NEW r \in Subs,
           req[r].stage \in {"create", "signup"}, pool = None, PoolOf(r)',
           UNCHANGED <<user, inv>>, left \subseteq left', Others(r),
           req'[r].seen \in {req[r].seen, None}, req'[r].whose \in {req[r].whose, None},
           req'[r].doomed \in {req[r].doomed, 0},
           \/ req'[r].stage \in {"row", "signrow"}
           \/ r \in SignUps /\ req'[r].stage = "done" /\ Left("orphan", r)'
    PROVE  AccountsInv'
<1>1. r \in Requests /\ r \in Subs /\ TypeOK /\ (r \in SignUps => r \notin Invites)
  BY InSubs, ConstantsOK DEF AccountsInv
<1>2. /\ \A s : (RowOf(s)' <=> RowOf(s)) /\ ~PoolOf(s) /\ (PoolOf(s)' <=> s = r)
      /\ \A q \in Requests : q # r => req'[q] = req[q]
      /\ \A q \in Requests : \A s : Seen(q, s)' => Seen(q, s)
  BY <1>1, ReadsStay DEF RowOf, PoolOf, Others
<1>3. /\ ~RowOf(r) /\ \A q \in Requests : ~Seen(q, r) /\ req[q].whose # r
  BY DEF AccountsInv, MadeOnce, Unmade
<1>4. \A q \in Requests, s \in Subs : req'[q].whose = s => req[q].whose = s
  BY <1>2, InSubs
<1>5. HasSeen'
  BY <1>2 DEF AccountsInv, HasSeen
<1>6. MadeOnce'
  <2>1. ASSUME NEW s \in Subs, req'[s].stage \in Unmade
        PROVE  (~PoolOf(s) /\ ~RowOf(s) /\ \A q \in Requests : ~Seen(q, s) /\ req[q].whose # s)'
    <3>1. s # r
      BY <2>1 DEF Unmade
    <3>2. ~RowOf(s) /\ \A q \in Requests : ~Seen(q, s) /\ req[q].whose # s
      BY <1>2, <2>1, <3>1, InSubs DEF AccountsInv, MadeOnce
    <3> QED  BY <1>2, <1>4, <3>1, <3>2
  <2>2. ASSUME NEW s \in Subs, req'[s].stage \in Rowless
        PROVE  (~RowOf(s) /\ \A q \in Requests : ~Seen(q, s))'
    BY <1>2, <1>3, <2>2, InSubs DEF AccountsInv, MadeOnce
  <2>3. ASSUME NEW k \in DOMAIN inv
        PROVE  req'[inv[k].id].stage \notin {"new", "lapse", "record"}
    BY <1>1, <1>2, InvitationsOf DEF AccountsInv, MadeOnce
  <2>4. \A s \in Subs : req'[s].stage # "idle"
    BY <1>2, InSubs DEF AccountsInv, MadeOnce
  <2> QED  BY <2>1, <2>2, <2>3, <2>4 DEF MadeOnce
<1>7. ConfirmedFirst' /\ VerifiedIsConfirmed'
  <2>1. ConfirmedFirst'
    BY <1>2, <1>3, <1>4 DEF ConfirmedFirst
  <2>2. VerifiedRow'
    BY <1>2, <1>3 DEF VerifiedRow
  <2>3. (TypeOK => (VerifiedIsConfirmed <=> VerifiedRow))'
    BY VerifiedForm, PTL
  <2> QED  BY <2>1, <2>2, <2>3
<1>8. DisabledFirst'
  <2>1. \A s : s # r => Disabled(s)'
    BY <1>2 DEF Disabled
  <2> QED  BY <1>2, <1>3, <2>1 DEF DisabledFirst
<1>9. AccountHasRow'
  BY <1>1, <1>2 DEF AccountHasRow, Rowless
<1>10. RowHasAccount'
  <2>1. \A q \in Requests : \A s : req[q].stage = "erase" /\ Seen(q, s) =>
            req'[q].stage = "erase" /\ Seen(q, s)'
    BY <1>2 DEF Seen
  <2> QED  BY <1>2, <2>1, LeftGrows DEF AccountsInv, RowHasAccount
<1>11. AccountFirst'
  BY <1>1, <1>2, <1>3, InSubs, LeftGrows DEF AccountsInv, AccountFirst
<1>12. InvitesFrame
  <2>1. \A q \in Requests : Wiping(q)' => Wiping(q) /\ req'[q] = req[q]
    BY <1>2 DEF Wiping
  <2>2. \A q \in Requests : Wiping(q)' /\ RowStands(q)' => RowStands(q)
    BY <2>1 DEF RowStands
  <2> QED  BY <1>1, <1>2, <2>1, <2>2, InSubs DEF InvitesFrame, SameIds
<1> QED
  BY <1>5, <1>6, <1>7, <1>8, <1>9, <1>10, <1>11, <1>12, InvitesKept DEF AccountsInv

\* A row is made for the account.
LEMMA RowMade ==
    ASSUME AccountsInv, TypeOK', NEW r \in Subs,
           req[r].stage \in {"row", "signrow"}, user = None, user' = NewUser(r),
           UNCHANGED <<pool, inv, left>>, Others(r),
           req'[r].seen \in {req[r].seen, None}, req'[r].whose \in {req[r].whose, None},
           req'[r].doomed \in {req[r].doomed, 0},
           req'[r].stage \in {"mail", "done"}
    PROVE  AccountsInv'
<1>1. r \in Requests /\ TypeOK
  BY InSubs DEF AccountsInv
<1>2. /\ user' # None /\ user'.sub = r /\ ~user'.verified /\ ~user'.deleted
  <2>1. NewUser(r) \in Rows
    BY DEF NewUser, Rows
  <2> QED  BY <2>1, NoneAssumption DEF NewUser
<1>3. /\ \A s : (PoolOf(s)' <=> PoolOf(s)) /\ ~RowOf(s) /\ (RowOf(s)' <=> s = r)
      /\ \A q \in Requests : q # r => req'[q] = req[q]
      /\ \A q \in Requests : \A s : Seen(q, s)' => Seen(q, s)
  BY <1>1, <1>2, ReadsStay DEF RowOf, PoolOf, Others
<1>4. \A q \in Requests : ~Seen(q, r)
  BY DEF AccountsInv, MadeOnce, Rowless
<1>5. HasSeen'
  BY <1>3 DEF AccountsInv, HasSeen
<1>6. MadeOnce'
  <2>1. ASSUME NEW s \in Subs, req'[s].stage \in Unmade
        PROVE  (~PoolOf(s) /\ ~RowOf(s) /\ \A q \in Requests : ~Seen(q, s) /\ req[q].whose # s)'
    <3>1. s # r
      BY <2>1 DEF Unmade
    <3>2. ~PoolOf(s) /\ \A q \in Requests : ~Seen(q, s) /\ req[q].whose # s
      BY <1>3, <2>1, <3>1, InSubs DEF AccountsInv, MadeOnce
    <3>3. \A q \in Requests : req'[q].whose # s
      BY <1>3, <3>2, InSubs
    <3> QED  BY <1>3, <3>1, <3>2, <3>3
  <2>2. ASSUME NEW s \in Subs, req'[s].stage \in Rowless
        PROVE  (~RowOf(s) /\ \A q \in Requests : ~Seen(q, s))'
    <3>1. s # r
      BY <2>2 DEF Rowless
    <3> QED  BY <1>3, <2>2, <3>1, InSubs DEF AccountsInv, MadeOnce
  <2>3. ASSUME NEW k \in DOMAIN inv
        PROVE  req'[inv[k].id].stage \notin {"new", "lapse", "record"}
    BY <1>1, <1>3, InvitationsOf DEF AccountsInv, MadeOnce
  <2>4. \A s \in Subs : req'[s].stage # "idle"
    BY <1>3, InSubs DEF AccountsInv, MadeOnce
  <2> QED  BY <2>1, <2>2, <2>3, <2>4 DEF MadeOnce
<1>7. VerifiedFrame
  BY <1>2, <1>3 DEF VerifiedFrame
<1>8. DisabledFrame
  <2>1. \A q \in Requests : \A s : req[q].stage = "flip" /\ ~req[q].flag /\ Seen(q, s) =>
            req'[q].stage = "flip" /\ ~req'[q].flag /\ Seen(q, s)'
    BY <1>3 DEF Seen
  <2> QED  BY <1>2, <1>3, <2>1 DEF DisabledFrame
<1>9. AccountHasRow'
  <2>1. \A s \in Subs : s # r => req'[s] = req[s]
    BY <1>3, InSubs
  <2> QED  BY <1>3, <2>1, LeftGrows DEF AccountsInv, AccountHasRow
<1>10. RowHasAccount'
  BY <1>3, LeftGrows DEF AccountsInv, AccountFirst, RowHasAccount
<1>11. AccountFirst'
  BY <1>3, InSubs, LeftGrows DEF AccountsInv, AccountFirst
<1>12. OneLock'
  <2>1. \A q \in Requests : req[q].doomed \in Nat /\ req'[q].doomed \in {req[q].doomed, 0}
    BY <1>1, <1>3 DEF TypeOK, Records
  <2>2. Len(inv) \in Nat /\ inv' = inv
    BY <1>1, InvitationsOf
  <2> QED  BY <2>1, <2>2 DEF AccountsInv, OneLock
<1>13. InvitationHasRow'
  <2>1. \A q \in Requests : Wiping(q)' => Wiping(q) /\ req'[q] = req[q]
    BY <1>3 DEF Wiping
  <2>2. \A q \in Requests : ~(Wiping(q)' /\ RowStands(q)')
    <3> SUFFICES ASSUME NEW q \in Requests, Wiping(q)', RowStands(q)' PROVE FALSE
      OBVIOUS
    <3>1. req[q].seen # None /\ req[q].seen.sub = r
      BY <1>2, <2>1 DEF RowStands, Wiping, AccountsInv, HasSeen
    <3> QED  BY <1>4, <3>1 DEF Seen
  <2> QED  BY <1>2, <2>1, <2>2, InSubs DEF AccountsInv, InvitationHasRow
<1> QED
  BY <1>5, <1>6, <1>7, <1>8, <1>9, <1>10, <1>11, <1>12, <1>13, VerifiedKept, DisabledKept
     DEF AccountsInv

LEMMA AccountTyped ==
    ASSUME NEW r \in Subs, NEW t \in {"temporary", "unconfirmed"}, pool' = Account(r, t)
    PROVE  pool' \in PoolAccounts \union {None} /\ PoolOf(r)'
<1>1. Account(r, t) \in PoolAccounts /\ Account(r, t).sub = r
  BY DEF Account, PoolAccounts
<1> QED  BY <1>1, NoneAssumption DEF PoolOf

LEMMA RowTyped ==
    ASSUME NEW r \in Subs, user' = NewUser(r)
    PROVE  user' \in Rows \union {None}
BY DEF NewUser, Rows

LEMMA InviteCreates == ASSUME AccountsInv, NEW r \in Invites, InviteCreate(r) PROVE AccountsInv'
<1>1. TypeOK /\ r \in Requests /\ r \in Subs
  BY InSubs DEF AccountsInv
<1>2. left \subseteq left' /\ left' \subseteq Mishaps \X Subs
  BY <1>1, NothingLeft DEF InviteCreate
<1>3. CASE pool = None /\ pool' = Account(r, "temporary") /\ Goes(r, "row")
  <2>1. "row" \in Stages
    BY DEF Stages, Rowless
  <2>2. /\ req' \in [Requests -> Records]
        /\ Others(r) /\ req'[r].stage = "row" /\ SameReads(r)
    BY <1>1, <1>3, <2>1, GoesOn
  <2>3. pool' \in PoolAccounts \union {None} /\ PoolOf(r)'
    BY <1>1, <1>3, AccountTyped
  <2>4. TypeOK'
    BY <1>1, <1>2, <2>2, <2>3 DEF InviteCreate, TypeOK
  <2> QED
    BY <1>1, <1>2, <1>3, <2>2, <2>3, <2>4, AccountMade DEF InviteCreate, SameReads
<1>4. CASE Goes(r, "delete") /\ UNCHANGED pool
  <2>1. "delete" \in Stages
    BY DEF Stages
  <2>2. /\ req' \in [Requests -> Records]
        /\ Others(r) /\ req'[r].stage = "delete" /\ SameReads(r)
    BY <1>1, <1>4, <2>1, GoesOn
  <2>3. TypeOK' /\ SameIds
    BY <1>1, <1>2, <1>4, <2>2, SameTyped DEF InviteCreate
  <2>4. Ordinary(r)
    BY <1>1, <1>2, <1>4, <2>2, <2>3 DEF Ordinary, InviteCreate, SameReads, Plain, Rowless
  <2> QED  BY <1>1, <2>3, <2>4, OrdinaryStep
<1> QED  BY <1>3, <1>4 DEF InviteCreate

LEMMA InviteRows == ASSUME AccountsInv, NEW r \in Invites, InviteRow(r) PROVE AccountsInv'
<1>1. TypeOK /\ r \in Requests /\ r \in Subs
  BY InSubs DEF AccountsInv
<1>2. CASE user = None /\ user' = NewUser(r) /\ Goes(r, "mail") /\ UNCHANGED left
  <2>1. "mail" \in Stages
    BY DEF Stages
  <2>2. /\ req' \in [Requests -> Records]
        /\ Others(r) /\ req'[r].stage = "mail" /\ SameReads(r)
    BY <1>1, <1>2, <2>1, GoesOn
  <2>3. user' \in Rows \union {None}
    BY <1>1, <1>2, RowTyped
  <2>4. TypeOK'
    BY <1>1, <1>2, <2>2, <2>3 DEF InviteRow, TypeOK
  <2> QED  BY <1>1, <1>2, <2>2, <2>4, RowMade DEF InviteRow, SameReads
<1>3. CASE Goes(r, "delete") /\ Leaves({<<"orphan", r>>}) /\ UNCHANGED user
  <2>1. "delete" \in Stages /\ {<<"orphan", r>>} \in SUBSET (Mishaps \X Subs)
    BY <1>1 DEF Stages, Mishaps
  <2>2. /\ req' \in [Requests -> Records]
        /\ Others(r) /\ req'[r].stage = "delete" /\ SameReads(r)
    BY <1>1, <1>3, <2>1, GoesOn
  <2>3. left \subseteq left' /\ left' \subseteq Mishaps \X Subs /\ Left("orphan", r)'
    BY <1>1, <1>3, <2>1, LeavesMore
  <2>4. TypeOK' /\ SameIds
    BY <1>1, <1>3, <2>2, <2>3, SameTyped DEF InviteRow
  <2>5. Ordinary(r)
    BY <1>1, <1>3, <2>2, <2>3, <2>4 DEF Ordinary, InviteRow, SameReads, Plain, Rowless
  <2> QED  BY <1>1, <2>4, <2>5, OrdinaryStep
<1> QED  BY <1>2, <1>3 DEF InviteRow

LEMMA SignUpPools == ASSUME AccountsInv, NEW s \in SignUps, SignUpPool(s) PROVE AccountsInv'
<1>1. TypeOK /\ s \in Requests /\ s \in Subs /\ s \notin Invites
  BY SignUpIs DEF AccountsInv
<1>2. CASE /\ pool = None /\ pool' = Account(s, "unconfirmed")
           /\ \/ Goes(s, "signrow") /\ UNCHANGED left
              \/ Returns(s) /\ Leaves({<<"orphan", s>>})
  <2>1. "signrow" \in Stages /\ {<<"orphan", s>>} \in SUBSET (Mishaps \X Subs)
    BY <1>1 DEF Stages, Rowless, Mishaps
  <2>2. /\ req' \in [Requests -> Records] /\ Others(s)
        /\ left \subseteq left' /\ left' \subseteq Mishaps \X Subs
        /\ req'[s].seen \in {req[s].seen, None} /\ req'[s].whose \in {req[s].whose, None}
        /\ req'[s].doomed \in {req[s].doomed, 0}
        /\ req'[s].stage = "signrow" \/ (req'[s].stage = "done" /\ Left("orphan", s)')
    <3>1. CASE Goes(s, "signrow") /\ UNCHANGED left
      BY <1>1, <2>1, <3>1, GoesOn, NothingLeft DEF SameReads
    <3>2. CASE Returns(s) /\ Leaves({<<"orphan", s>>})
      BY <1>1, <2>1, <3>2, Ended, LeavesMore
    <3> QED  BY <1>2, <3>1, <3>2
  <2>3. pool' \in PoolAccounts \union {None} /\ PoolOf(s)'
    BY <1>1, <1>2, AccountTyped
  <2>4. TypeOK'
    BY <1>1, <2>2, <2>3 DEF SignUpPool, TypeOK
  <2> QED  BY <1>1, <1>2, <2>2, <2>3, <2>4, AccountMade DEF SignUpPool
<1>3. CASE Returns(s) /\ UNCHANGED <<pool, left>>
  <2>1. left \subseteq left' /\ left' \subseteq Mishaps \X Subs
    BY <1>1, <1>3, NothingLeft
  <2>2. TypeOK' /\ SameIds
    BY <1>1, <1>3, <2>1, Ended, SameTyped DEF SignUpPool
  <2>3. Ordinary(s)
    BY <1>1, <1>3, <2>1, <2>2, Ended DEF Ordinary, SignUpPool, Plain, Rowless
  <2> QED  BY <1>1, <2>2, <2>3, OrdinaryStep
<1> QED  BY <1>2, <1>3 DEF SignUpPool

LEMMA SignUpRows == ASSUME AccountsInv, NEW s \in SignUps, SignUpRow(s) PROVE AccountsInv'
<1>1. TypeOK /\ s \in Requests /\ s \in Subs /\ s \notin Invites
  BY SignUpIs DEF AccountsInv
<1>2. left \subseteq left' /\ left' \subseteq Mishaps \X Subs
  BY <1>1, NothingLeft DEF SignUpRow
<1>3. CASE user = None /\ user' = NewUser(s) /\ Returns(s)
  <2>1. user' \in Rows \union {None}
    BY <1>1, <1>3, RowTyped
  <2>2. TypeOK'
    BY <1>1, <1>2, <1>3, <2>1, Ended DEF SignUpRow, TypeOK
  <2> QED  BY <1>1, <1>3, <2>2, Ended, RowMade DEF SignUpRow
<1>4. CASE Goes(s, "undo") /\ UNCHANGED user
  <2>1. "undo" \in Stages
    BY DEF Stages, Rowless
  <2>2. /\ req' \in [Requests -> Records]
        /\ Others(s) /\ req'[s].stage = "undo" /\ SameReads(s)
    BY <1>1, <1>4, <2>1, GoesOn
  <2>3. TypeOK' /\ SameIds
    BY <1>1, <1>2, <1>4, <2>2, SameTyped DEF SignUpRow
  <2>4. Ordinary(s)
    BY <1>1, <1>2, <1>4, <2>2, <2>3 DEF Ordinary, SignUpRow, SameReads, Plain, Rowless
  <2> QED  BY <1>1, <2>3, <2>4, OrdinaryStep
<1> QED  BY <1>3, <1>4 DEF SignUpRow

-----------------------------------------------------------------------------
(* Deletions.                                                              *)

\* Who finds no invitation locked is the only one to lock any.
LEMMA NoneLocked ==
    ASSUME AccountsInv, Locked = {}
    PROVE  \A q \in Requests : req[q].doomed = 0
<1> SUFFICES ASSUME NEW q \in Requests PROVE req[q].doomed = 0
  OBVIOUS
<1>1. /\ req[q].doomed \in Nat /\ req[q].doomed <= Len(inv)
      /\ Len(inv) \in Nat /\ DOMAIN inv = 1..Len(inv)
  BY InvitationsOf DEF AccountsInv, OneLock, TypeOK, Records
<1>2. ASSUME req[q].doomed # 0 PROVE FALSE
  <2>1. 1 \in DOMAIN inv /\ 1 <= req[q].doomed
    BY <1>1, <1>2
  <2>2. inv[1].id \in Locked
    BY <2>1 DEF Locked
  <2> QED  BY <2>2
<1> QED  BY <1>2

LEMMA DeleteDrops ==
    ASSUME AccountsInv, NEW r \in Invites \union Workers, DeleteDrop(r)
    PROVE  AccountsInv'
<1>1. TypeOK /\ r \in Requests
  BY DEF AccountsInv, Requests
<1>2. left \subseteq left' /\ left' \subseteq Mishaps \X Subs
  BY <1>1, NothingLeft DEF DeleteDrop
<1>3. inv' = <<>> /\ UNCHANGED <<user, pool>> /\ req[r].stage = "drop"
  BY DEF DeleteDrop
<1>4. TypeOK'
  BY <1>1, <1>2, <1>3, Ended DEF DeleteDrop, TypeOK
<1>5. /\ Others(r) /\ req'[r].stage \in {"idle", "done"} /\ (r \in Subs => req'[r].stage = "done")
      /\ req'[r].seen = None /\ req'[r].whose = None /\ req'[r].doomed = 0
  BY <1>1, Ended DEF DeleteDrop
<1>6. /\ \A s : (RowOf(s)' <=> RowOf(s)) /\ (PoolOf(s)' <=> PoolOf(s))
      /\ \A q \in Requests : q # r => req'[q] = req[q]
      /\ \A q \in Requests : \A s : Seen(q, s)' => Seen(q, s)
  BY <1>1, <1>3, <1>5, ReadsStay DEF RowOf, PoolOf, Others
<1>7. HasSeen'
  BY <1>5, <1>6 DEF AccountsInv, HasSeen
<1>8. MadeFrame
  <2>1. \A q \in Requests, s \in Subs : req'[q].whose = s => req[q].whose = s
    BY <1>5, <1>6, InSubs
  <2> QED  BY <1>3, <1>5, <1>6, <2>1, InSubs DEF MadeFrame, Unmade, Rowless
<1>9. VerifiedFrame
  BY <1>2, <1>3, <1>5, <1>6 DEF VerifiedFrame
<1>10. DisabledFrame
  <2>1. \A q \in Requests : \A s : req[q].stage = "flip" /\ ~req[q].flag /\ Seen(q, s) =>
            req'[q].stage = "flip" /\ ~req'[q].flag /\ Seen(q, s)'
    BY <1>3, <1>6 DEF Seen
  <2> QED  BY <1>2, <1>3, <1>5, <1>6, <2>1 DEF DisabledFrame
<1>11. PlacesFrame
  <2>1. \A q \in Requests : \A s : req[q].stage = "erase" /\ Seen(q, s) =>
            req'[q].stage = "erase" /\ Seen(q, s)'
    BY <1>3, <1>6 DEF Seen
  <2> QED  BY <1>2, <1>3, <1>5, <1>6, <2>1, InSubs DEF PlacesFrame, Rowless
<1>12. OneLock'
  <2>1. \A q \in Requests : req[q].doomed = 0
    BY NoneLocked DEF DeleteDrop
  <2>2. \A q \in Requests : req'[q].doomed = 0
    BY <1>5, <1>6, <2>1
  <2> QED  BY <1>3, <2>2 DEF OneLock
<1>13. InvitationHasRow'
  BY <1>3 DEF InvitationHasRow
<1> QED
  BY <1>4, <1>7, <1>8, <1>9, <1>10, <1>11, <1>12, <1>13, MadeKept, VerifiedKept, DisabledKept,
     PlacesKept DEF AccountsInv

LEMMA Wipes == ASSUME AccountsInv, NEW r \in Invites \union Workers, Wipe(r) PROVE AccountsInv'
<1>1. TypeOK /\ r \in Requests
  BY DEF AccountsInv, Requests
<1>2. left \subseteq left' /\ left' \subseteq Mishaps \X Subs
  BY <1>1, NothingLeft DEF Wipe
<1>3. UNCHANGED <<user, pool, inv, left>> /\ req[r].stage = "wipe"
  BY DEF Wipe
<1>4. "uncreate" \in Stages /\ Len(inv) \in Nat
  BY <1>1, InvitationsOf DEF Stages
<1>5. /\ req' \in [Requests -> Records] /\ Others(r)
      /\ req'[r].stage = "uncreate" /\ req'[r].seen = req[r].seen
      /\ req'[r].whose = req[r].whose /\ req'[r].doomed = Len(inv)
  BY <1>1, <1>4 DEF TypeOK, Records, Others, Wipe
<1>6. TypeOK'
  BY <1>1, <1>2, <1>5, SameTyped DEF Wipe
<1>7. /\ \A s : (RowOf(s)' <=> RowOf(s)) /\ (PoolOf(s)' <=> PoolOf(s))
      /\ \A q \in Requests : q # r => req'[q] = req[q]
      /\ \A q \in Requests : \A s : Seen(q, s)' <=> Seen(q, s)
      /\ \A q \in Requests : req'[q].whose = req[q].whose
  BY <1>3, <1>5 DEF RowOf, PoolOf, Others, Seen
<1>8. HasSeen'
  BY <1>3, <1>5, <1>7 DEF AccountsInv, HasSeen
<1>9. MadeFrame
  BY <1>3, <1>5, <1>7, InSubs DEF MadeFrame, Unmade, Rowless
<1>10. VerifiedFrame
  BY <1>2, <1>3, <1>5, <1>7 DEF VerifiedFrame
<1>11. DisabledFrame
  BY <1>2, <1>3, <1>5, <1>7 DEF DisabledFrame
<1>12. PlacesFrame
  BY <1>2, <1>3, <1>5, <1>7, InSubs DEF PlacesFrame, Rowless
<1>13. \A q \in Requests : req[q].doomed = 0
  BY NoneLocked DEF Wipe
<1>14. OneLock'
  BY <1>3, <1>4, <1>5, <1>7, <1>13 DEF OneLock
<1>15. InvitationHasRow'
  <2>1. DOMAIN inv = 1..Len(inv) /\ \A k \in DOMAIN inv : inv[k].id \in Requests
    BY <1>1, InvitationsOf
  <2>2. \A k \in DOMAIN inv : req'[inv[k].id].stage \in {"mail", "done"} =>
            req[inv[k].id].stage \in {"mail", "done"}
    BY <1>5, <1>7, <2>1
  <2>3. \A q \in Requests : Wiping(q)' /\ q # r => Wiping(q)
    BY <1>7 DEF Wiping
  <2>4. \A q \in Requests : RowStands(q)' <=> RowStands(q)
    BY <1>3, <1>5, <1>7 DEF RowStands
  <2>5. Excused' <=> Excused
    BY <1>3 DEF Excused, Left
  <2>6. ASSUME NEW q \in Requests, Wiping(q)', RowStands(q)', NEW k \in DOMAIN inv,
               k > req'[q].doomed, req'[inv[k].id].stage \in {"mail", "done"}
        PROVE  Excused'
    <3>1. q # r
      BY <1>4, <1>5, <2>1, <2>6
    <3> QED  BY <1>7, <2>2, <2>3, <2>4, <2>5, <2>6, <3>1 DEF AccountsInv, InvitationHasRow
  <2>7. ASSUME NEW q \in Invites, Wiping(q)', NEW k \in DOMAIN inv, inv[k].id = q
        PROVE  k <= req'[q].doomed
    <3>1. CASE q = r
      BY <1>4, <1>5, <2>1, <3>1
    <3>2. CASE q # r
      BY <1>7, <2>3, <2>7, <3>2, InSubs DEF AccountsInv, InvitationHasRow
    <3> QED  BY <3>1, <3>2
  <2> QED  BY <1>3, <2>2, <2>5, <2>6, <2>7 DEF AccountsInv, InvitationHasRow
<1> QED
  BY <1>6, <1>8, <1>9, <1>10, <1>11, <1>12, <1>14, <1>15, MadeKept, VerifiedKept, DisabledKept,
     PlacesKept DEF AccountsInv

\* An account is deleted by the address, on behalf of a row or a sign-up.
LEMMA AccountDeleted ==
    ASSUME AccountsInv, TypeOK', NEW r \in Requests, NEW u \in Subs,
           PoolDeleted(u), UNCHANGED <<user, inv>>, Others(r),
           req'[r].seen \in {req[r].seen, None}, req'[r].whose \in {req[r].whose, None},
           \/ /\ req[r].stage = "uncreate" /\ req'[r].stage = "erase"
              /\ req'[r].seen = req[r].seen /\ req'[r].doomed = req[r].doomed
              /\ Seen(r, u)
           \/ /\ req[r].stage = "undo" /\ req'[r].stage = "done" /\ req'[r].doomed = 0
              /\ r = u /\ r \notin Invites
    PROVE  AccountsInv'
<1>1. TypeOK /\ pool \in PoolAccounts \union {None}
  BY DEF AccountsInv, TypeOK
<1>2. /\ left \subseteq left'
      /\ \/ pool' = None /\ \A s : PoolOf(s) /\ s # u => Left("overtaken", s)'
         \/ pool' = pool /\ \A s : PoolOf(s) => Left("undeleted", s)'
  <2>1. CASE /\ pool' = None
             /\ Leaves({<<"overtaken", s>> : s \in PoolSub \ {u}})
    <3>1. PoolSub \subseteq Subs /\ \A s : PoolOf(s) => s \in PoolSub
      BY <1>1 DEF PoolSub, PoolOf, PoolAccounts
    <3>2. {<<"overtaken", s>> : s \in PoolSub \ {u}} \in SUBSET (Mishaps \X Subs)
      BY <3>1 DEF Mishaps
    <3>3. left \subseteq left'
      BY <1>1, <2>1, <3>2, LeavesMore
    <3>4. \A s : PoolOf(s) /\ s # u => <<"overtaken", s>> \in {<<"overtaken", t>> : t \in PoolSub \ {u}}
      BY <3>1
    <3>5. \A s : PoolOf(s) /\ s # u => Left("overtaken", s)'
      BY <1>1, <2>1, <3>2, <3>4, LeavesMore
    <3> QED  BY <2>1, <3>3, <3>5
  <2>2. CASE pool # None /\ Leaves({<<"undeleted", pool.sub>>}) /\ UNCHANGED pool
    <3>1. {<<"undeleted", pool.sub>>} \in SUBSET (Mishaps \X Subs)
      BY <1>1, <2>2 DEF Mishaps, PoolAccounts
    <3>2. left \subseteq left' /\ Left("undeleted", pool.sub)'
      BY <1>1, <2>2, <3>1, LeavesMore
    <3>3. \A s : PoolOf(s) => Left("undeleted", s)'
      BY <2>2, <3>2 DEF PoolOf, Left
    <3> QED  BY <2>2, <3>2, <3>3
  <2> QED  BY <2>1, <2>2 DEF PoolDeleted
<1>3. /\ \A s : (RowOf(s)' <=> RowOf(s)) /\ (PoolOf(s)' => PoolOf(s))
      /\ \A q \in Requests : q # r => req'[q] = req[q]
      /\ \A q \in Requests : \A s : Seen(q, s)' => Seen(q, s)
  BY <1>2, ReadsStay DEF RowOf, PoolOf, Others
<1>4. HasSeen'
  BY <1>3 DEF AccountsInv, HasSeen
<1>5. MadeFrame
  <2>1. \A q \in Requests, s \in Subs : req'[q].whose = s => req[q].whose = s
    BY <1>3, InSubs
  <2> QED  BY <1>3, <2>1, InSubs DEF MadeFrame, Unmade, Rowless
<1>6. VerifiedFrame
  <2>1. pool' = None \/ pool' = pool
    BY <1>2
  <2>2. \A s : PoolOf(s)' => pool' = pool
    BY <2>1 DEF PoolOf
  <2> QED  BY <1>2, <1>3, <2>2 DEF VerifiedFrame
<1>7. DisabledFrame
  <2>1. \A q \in Requests : \A s : req[q].stage = "flip" /\ ~req[q].flag /\ Seen(q, s) =>
            req'[q].stage = "flip" /\ ~req'[q].flag /\ Seen(q, s)'
    BY <1>3 DEF Seen
  <2>2. \A s : PoolOf(s)' => pool' = pool
    BY <1>2 DEF PoolOf
  <2> QED  BY <1>2, <1>3, <2>1, <2>2 DEF DisabledFrame
<1>8. AccountHasRow'
  <2>1. CASE pool' = None
    BY <2>1 DEF AccountHasRow, PoolOf
  <2>2. CASE \A s : PoolOf(s) => Left("undeleted", s)'
    BY <1>3, <2>2 DEF AccountHasRow
  <2> QED  BY <1>2, <2>1, <2>2
<1>9. u \in Requests /\ (RowOf(u) => Seen(r, u) /\ req'[r].stage = "erase" /\ Seen(r, u)')
  BY InSubs DEF AccountsInv, MadeOnce, Rowless, Seen
<1>10. RowHasAccount'
  <2>1. \A q \in Requests : \A s : req[q].stage = "erase" /\ Seen(q, s) =>
            req'[q].stage = "erase" /\ Seen(q, s)'
    BY <1>3 DEF Seen
  <2>2. ASSUME NEW s \in Subs, RowOf(s)', ~PoolOf(s)', PoolOf(s)
        PROVE  Left("overtaken", s)' \/ \E q \in Requests : req'[q].stage = "erase" /\ Seen(q, s)'
    <3>1. pool' = None
      BY <1>2, <2>2 DEF PoolOf
    <3>2. CASE s = u
      BY <1>3, <1>9, <2>2, <3>2
    <3>3. CASE s # u
      <4>1. CASE \A t : PoolOf(t) /\ t # u => Left("overtaken", t)'
        BY <2>2, <3>3, <4>1
      <4>2. CASE pool' = pool
        BY <2>2, <3>1, <4>2 DEF PoolOf
      <4> QED  BY <1>2, <4>1, <4>2
    <3> QED  BY <3>2, <3>3
  <2> QED  BY <1>2, <1>3, <2>1, <2>2, LeftGrows DEF AccountsInv, RowHasAccount
<1>11. AccountFirst'
  <2>1. ASSUME NEW s \in Subs, req'[s].stage \in {"row", "signrow"}
        PROVE  PoolOf(s)' \/ Left("overtaken", s)'
    <3>1. s # r /\ req[s].stage \in {"row", "signrow"}
      BY <1>3, <2>1, InSubs
    <3>2. s # u
      BY <3>1 DEF AccountsInv, MadeOnce, Rowless
    <3>3. PoolOf(s) \/ Left("overtaken", s)
      BY <3>1 DEF AccountsInv, AccountFirst
    <3>4. pool' = pool => (PoolOf(s)' <=> PoolOf(s))
      BY DEF PoolOf
    <3> QED  BY <1>2, <3>2, <3>3, <3>4, LeftGrows
  <2>2. ASSUME NEW q \in Requests, NEW s \in Subs, req'[q].stage = "erase", Seen(q, s)', PoolOf(s)'
        PROVE  Left("undeleted", s)'
    <3>1. pool' # None
      BY <2>2 DEF PoolOf
    <3> QED  BY <1>2, <1>3, <2>2, <3>1
  <2> QED  BY <2>1, <2>2 DEF AccountFirst
<1>12. InvitesFrame
  <2>1. \A q \in Requests : Wiping(q)' =>
            Wiping(q) /\ req'[q].doomed = req[q].doomed /\ req'[q].seen = req[q].seen
    BY <1>3 DEF Wiping
  <2>2. \A q \in Requests : Wiping(q)' /\ RowStands(q)' => RowStands(q)
    BY <2>1 DEF RowStands
  <2> QED  BY <1>2, <1>3, <2>1, <2>2, InSubs DEF InvitesFrame, SameIds
<1> QED
  BY <1>4, <1>5, <1>6, <1>7, <1>8, <1>10, <1>11, <1>12, MadeKept, VerifiedKept, DisabledKept,
     InvitesKept DEF AccountsInv

LEMMA PoolDeletedTyped ==
    ASSUME TypeOK, NEW u \in Subs, PoolDeleted(u)
    PROVE  pool' \in PoolAccounts \union {None} /\ left' \subseteq Mishaps \X Subs
<1>1. PoolSub \subseteq Subs /\ (pool # None => pool.sub \in Subs)
  BY DEF PoolSub, TypeOK, PoolAccounts
<1>2. /\ {<<"overtaken", s>> : s \in PoolSub \ {u}} \in SUBSET (Mishaps \X Subs)
      /\ pool # None => {<<"undeleted", pool.sub>>} \in SUBSET (Mishaps \X Subs)
  BY <1>1 DEF Mishaps
<1> QED  BY <1>2, LeavesMore DEF PoolDeleted, TypeOK

LEMMA WipesPool == ASSUME AccountsInv, NEW r \in Invites \union Workers, WipePool(r) PROVE AccountsInv'
<1>1. TypeOK /\ r \in Requests /\ req[r].stage = "uncreate"
  BY DEF AccountsInv, Requests, WipePool
<1>2. PICK u \in Subs : u = req[r].seen.sub
  BY <1>1, ReadBefore
<1>3. Seen(r, u)
  BY <1>1, <1>2, ReadBefore
<1>4. "erase" \in Stages
  BY DEF Stages
<1>5. /\ req' \in [Requests -> Records]
      /\ Others(r) /\ req'[r].stage = "erase" /\ SameReads(r)
  BY <1>1, <1>4, GoesOn DEF WipePool
<1>6. PoolDeleted(u)
  BY <1>2 DEF WipePool
<1>7. TypeOK'
  BY <1>1, <1>5, <1>6, PoolDeletedTyped DEF TypeOK, WipePool
<1> QED  BY <1>1, <1>3, <1>5, <1>6, <1>7, AccountDeleted DEF WipePool, SameReads

LEMMA SignUpUndoes == ASSUME AccountsInv, NEW s \in SignUps, SignUpUndo(s) PROVE AccountsInv'
<1>1. TypeOK /\ s \in Requests /\ s \in Subs /\ s \notin Invites
  BY SignUpIs DEF AccountsInv
<1>2. TypeOK'
  BY <1>1, Ended, PoolDeletedTyped DEF TypeOK, SignUpUndo
<1> QED  BY <1>1, <1>2, Ended, AccountDeleted DEF SignUpUndo

\* The invitations that a committed deletion leaves: those after the ones it holds.
LEMMA CommitCuts ==
    ASSUME TypeOK, NEW d \in Nat, d <= Len(inv), inv' = SubSeq(inv, d + 1, Len(inv))
    PROVE  /\ inv' \in Seq(Invitations)
           /\ Len(inv') = Len(inv) - d /\ DOMAIN inv' = 1..(Len(inv) - d)
           /\ \A k \in DOMAIN inv' : k + d \in DOMAIN inv /\ inv'[k] = inv[k + d]
<1>1. inv \in Seq(Invitations) /\ Len(inv) \in Nat /\ DOMAIN inv = 1..Len(inv)
  BY DEF TypeOK
<1>2. d + 1 \in Int /\ Len(inv) \in Int /\ \A i \in (d + 1)..Len(inv) : inv[i] \in Invitations
  BY <1>1
<1>3. /\ inv' \in Seq(Invitations)
      /\ Len(inv') = IF d + 1 <= Len(inv) THEN Len(inv) - (d + 1) + 1 ELSE 0
      /\ \A i \in 1..(Len(inv) - (d + 1) + 1) : inv'[i] = inv[(d + 1) + i - 1]
  BY <1>2, SubSeqProperties
<1>4. Len(inv') = Len(inv) - d
  BY <1>1, <1>3
<1>5. DOMAIN inv' = 1..(Len(inv) - d)
  BY <1>3, <1>4
<1>6. \A k \in 1..(Len(inv) - d) : k + d \in 1..Len(inv) /\ inv'[k] = inv[k + d]
  BY <1>1, <1>3
<1> QED  BY <1>1, <1>3, <1>4, <1>5, <1>6

LEMMA WipesCommit ==
    ASSUME AccountsInv, NEW r \in Invites \union Workers, WipeCommit(r)
    PROVE  AccountsInv'
<1>1. TypeOK /\ r \in Requests /\ req[r].stage = "erase"
  BY DEF AccountsInv, Requests, WipeCommit
<1>2. PICK u \in Subs : u = req[r].seen.sub /\ Seen(r, u)
  BY <1>1, ReadBefore
<1>3. \/ /\ RowOf(u) /\ RowStands(r) /\ user' = None
      \/ /\ ~RowOf(u) /\ ~RowStands(r) /\ user' = user
  BY <1>2 DEF WipeCommit, RowStands, RowOf
<1>4. left \subseteq left' /\ left' \subseteq Mishaps \X Subs
  <2>1. Overtaken(r) \in SUBSET (Mishaps \X Subs)
    BY <1>1, <1>2 DEF Overtaken, RowStands, Mishaps
  <2> QED  BY <1>1, <2>1, LeavesMore DEF WipeCommit
<1>5. PICK d \in Nat : d = req[r].doomed /\ d <= Len(inv)
  BY <1>1 DEF AccountsInv, OneLock, TypeOK, Records
<1>6. /\ inv' \in Seq(Invitations)
      /\ Len(inv) \in Nat /\ Len(inv') = Len(inv) - d
      /\ \A k \in DOMAIN inv' :
            k \in Nat /\ k > 0 /\ k + d \in DOMAIN inv /\ inv'[k].id = inv[k + d].id
  <2>1. inv' = SubSeq(inv, d + 1, Len(inv))
    BY <1>5 DEF WipeCommit
  <2>2. /\ inv' \in Seq(Invitations) /\ Len(inv') = Len(inv) - d
        /\ DOMAIN inv' = 1..(Len(inv) - d)
        /\ \A k \in DOMAIN inv' : k + d \in DOMAIN inv /\ inv'[k] = inv[k + d]
    BY <1>1, <1>5, <2>1, CommitCuts
  <2>3. Len(inv) \in Nat
    BY <1>1, InvitationsOf
  <2>4. \A k \in DOMAIN inv' : k \in Nat /\ k > 0
    BY <2>2, <2>3
  <2> QED  BY <2>2, <2>3, <2>4
<1>7. /\ req' \in [Requests -> Records] /\ Others(r)
      /\ req'[r].stage \in {"idle", "done"} /\ (r \in Subs => req'[r].stage = "done")
      /\ req'[r].seen = None /\ req'[r].whose = None /\ req'[r].doomed = 0
  BY <1>1, Ended DEF WipeCommit
<1>8. TypeOK'
  BY <1>1, <1>3, <1>4, <1>6, <1>7 DEF WipeCommit, TypeOK
<1>9. /\ pool' = pool
      /\ \A s : (RowOf(s)' => RowOf(s) /\ user' = user) /\ (PoolOf(s)' <=> PoolOf(s))
      /\ \A q \in Requests : q # r => req'[q] = req[q]
      /\ \A q \in Requests : \A s : Seen(q, s)' => Seen(q, s)
  BY <1>1, <1>3, <1>7, ReadsStay DEF RowOf, PoolOf, Others, WipeCommit
<1>10. HasSeen'
  BY <1>7, <1>9 DEF AccountsInv, HasSeen
<1>11. MadeFrame
  <2>1. \A q \in Requests, s \in Subs : req'[q].whose = s => req[q].whose = s
    BY <1>7, <1>9, InSubs
  <2> QED  BY <1>6, <1>7, <1>9, <2>1, InSubs DEF MadeFrame, Unmade, Rowless
<1>12. VerifiedFrame
  BY <1>4, <1>7, <1>9 DEF VerifiedFrame
<1>13. DisabledFrame
  <2>1. \A q \in Requests : \A s : req[q].stage = "flip" /\ ~req[q].flag /\ Seen(q, s) =>
            req'[q].stage = "flip" /\ ~req'[q].flag /\ Seen(q, s)'
    BY <1>1, <1>9 DEF Seen
  <2> QED  BY <1>4, <1>7, <1>9, <2>1 DEF DisabledFrame
<1>14. AccountHasRow'
  <2>1. ASSUME NEW s \in Subs, PoolOf(s), RowOf(s), ~RowOf(s)'
        PROVE  Left("undeleted", s)
    <3>1. s = u
      BY <1>3, <2>1 DEF RowOf
    <3> QED  BY <1>1, <1>2, <2>1, <3>1 DEF AccountsInv, AccountFirst
  <2>2. \A s \in Subs : req[s].stage \in Rowless => req'[s].stage \in Rowless
    BY <1>1, <1>9, InSubs DEF Rowless
  <2> QED  BY <1>4, <1>9, <2>1, <2>2, LeftGrows DEF AccountsInv, AccountHasRow
<1>15. RowHasAccount'
  <2>1. ASSUME NEW s \in Subs, RowOf(s)', NEW q \in Requests, req[q].stage = "erase", Seen(q, s)
        PROVE  req'[q].stage = "erase" /\ Seen(q, s)'
    <3>1. RowOf(s) /\ ~RowOf(u)
      BY <1>3, <1>9, <2>1 DEF RowOf
    <3>2. q # r
      BY <1>2, <2>1, <3>1 DEF Seen
    <3> QED  BY <1>9, <2>1, <3>2 DEF Seen
  <2> QED  BY <1>4, <1>9, <2>1, LeftGrows DEF AccountsInv, RowHasAccount
<1>16. AccountFirst'
  <2>1. \A s \in Subs : req'[s].stage \in {"row", "signrow"} => req[s].stage \in {"row", "signrow"}
    BY <1>7, <1>9, InSubs
  <2>2. \A q \in Requests : req'[q].stage = "erase" => req[q].stage = "erase"
    BY <1>7, <1>9
  <2> QED  BY <1>4, <1>9, <2>1, <2>2, LeftGrows DEF AccountsInv, AccountFirst
<1>17. OneLock'
  <2>1. \A q \in Requests : req[q].doomed \in Nat /\ req[q].doomed <= Len(inv)
    BY <1>1 DEF AccountsInv, OneLock, TypeOK, Records
  <2>2. \A q \in Requests : req'[q].doomed \in {req[q].doomed, 0}
    BY <1>7, <1>9
  <2>3. \A q \in Requests : req'[q].doomed <= Len(inv')
    <3>1. CASE d = 0
      BY <1>6, <2>1, <2>2, <3>1
    <3>2. CASE d # 0
      <4>1. \A q \in Requests : q # r => req[q].doomed = 0
        BY <1>1, <1>5, <3>2 DEF AccountsInv, OneLock
      <4>2. \A q \in Requests : req'[q].doomed = 0
        BY <1>7, <1>9, <4>1
      <4> QED  BY <1>5, <1>6, <4>2
    <3> QED  BY <3>1, <3>2
  <2>4. \A p, q \in Requests : p = q \/ req'[p].doomed = 0 \/ req'[q].doomed = 0
    BY <2>2 DEF AccountsInv, OneLock
  <2> QED  BY <2>3, <2>4 DEF OneLock
<1>18. InvitationHasRow'
  <2>1. Excused => Excused'
    BY <1>4, LeftGrows
  <2>2. ASSUME NEW k \in DOMAIN inv'
        PROVE  /\ k + d \in DOMAIN inv /\ k + d > d /\ k + d >= k
               /\ inv'[k].id = inv[k + d].id /\ inv'[k].id # r
               /\ inv'[k].id \in Requests /\ req'[inv'[k].id] = req[inv[k + d].id]
    <3>1. /\ k \in Nat /\ k > 0 /\ k + d \in DOMAIN inv /\ inv'[k].id = inv[k + d].id
          /\ inv[k + d].id \in Invites /\ inv[k + d].id \in Requests
      BY <1>1, <1>6, InvitationsOf
    <3>2. k + d > d /\ k + d >= k /\ ~(k + d <= d)
      BY <3>1
    <3>3. inv[k + d].id # r
      BY <1>1, <1>5, <3>1, <3>2 DEF AccountsInv, InvitationHasRow, Wiping
    <3> QED  BY <1>9, <3>1, <3>2, <3>3
  <2>3. ASSUME NEW k \in DOMAIN inv', user' = None, req'[inv'[k].id].stage \in {"mail", "done"}
        PROVE  Excused'
    <3>1. CASE user = None
      BY <2>1, <2>2, <2>3, <3>1 DEF AccountsInv, InvitationHasRow
    <3>2. CASE user # None
      <4>1. RowStands(r) /\ Wiping(r)
        BY <1>1, <1>3, <2>3, <3>2 DEF Wiping
      <4> QED  BY <1>1, <1>5, <2>1, <2>2, <2>3, <4>1 DEF AccountsInv, InvitationHasRow
    <3> QED  BY <3>1, <3>2
  <2>4. \A q \in Requests : Wiping(q)' => q # r /\ Wiping(q) /\ req'[q] = req[q]
    BY <1>7, <1>9 DEF Wiping
  <2>5. ASSUME NEW q \in Requests, Wiping(q)', RowStands(q)', NEW k \in DOMAIN inv',
               k > req'[q].doomed, req'[inv'[k].id].stage \in {"mail", "done"}
        PROVE  Excused'
    <3>1. Wiping(q) /\ RowStands(q) /\ req'[q] = req[q]
      BY <1>3, <2>4, <2>5 DEF RowStands
    <3>2. k + d > req[q].doomed
      <4>1. req[q].doomed \in Nat /\ k \in Nat /\ k > req[q].doomed
        BY <1>1, <1>6, <2>5, <3>1 DEF TypeOK, Records
      <4> QED  BY <4>1
    <3> QED  BY <2>1, <2>2, <2>5, <3>1, <3>2 DEF AccountsInv, InvitationHasRow
  <2>6. ASSUME NEW q \in Invites, Wiping(q)', NEW k \in DOMAIN inv', inv'[k].id = q
        PROVE  k <= req'[q].doomed
    <3>1. q \in Requests /\ Wiping(q) /\ req'[q] = req[q]
      BY <2>4, <2>6, InSubs
    <3>2. k + d <= req[q].doomed
      BY <2>2, <2>6, <3>1 DEF AccountsInv, InvitationHasRow
    <3>3. req[q].doomed \in Nat /\ k \in Nat
      BY <1>1, <1>6, <3>1 DEF TypeOK, Records
    <3> QED  BY <3>1, <3>2, <3>3
  <2> QED  BY <2>3, <2>5, <2>6 DEF InvitationHasRow
<1> QED
  BY <1>8, <1>10, <1>11, <1>12, <1>13, <1>14, <1>15, <1>16, <1>17, <1>18, MadeKept,
     VerifiedKept, DisabledKept DEF AccountsInv

-----------------------------------------------------------------------------
(* The steps that change the account but not whose it is.                  *)

LEMMA SwitchTyped ==
    ASSUME TypeOK, NEW u \in Subs, NEW on \in BOOLEAN, PoolSwitched(u, on)
    PROVE  /\ pool' \in PoolAccounts \union {None}
           /\ left \subseteq left' /\ left' \subseteq Mishaps \X Subs
           /\ pool' = pool \/ (/\ PoolOf(u) /\ PoolOf(u)' /\ pool'.enabled = on
                               /\ pool'.state = pool.state)
           /\ ~on => \/ PoolOf(u)' => ~pool'.enabled
                     \/ Left("enabled", u)'
           /\ on => \/ pool' = pool
                    \/ Left("overtaken", u)'
                    \/ ~Hidden /\ \A q \in Requests : req[q].stage # "hide"
<1>1. /\ {<<"overtaken", u>>} \in SUBSET (Mishaps \X Subs)
      /\ {<<"enabled", u>>} \in SUBSET (Mishaps \X Subs)
      /\ {} \in SUBSET (Mishaps \X Subs)
  BY DEF Mishaps
<1>2. ASSUME NEW a \in PoolAccounts
      PROVE  /\ [a EXCEPT !.enabled = on] \in PoolAccounts
             /\ [a EXCEPT !.enabled = on].sub = a.sub
             /\ [a EXCEPT !.enabled = on].state = a.state
             /\ [a EXCEPT !.enabled = on].enabled = on
  BY DEF PoolAccounts
<1>3. pool \in PoolAccounts \union {None} /\ None \notin PoolAccounts
  BY NoneAssumption DEF TypeOK
<1>4. CASE /\ pool' = IF pool # None /\ pool.sub = u THEN [pool EXCEPT !.enabled = on] ELSE pool
           /\ Leaves(IF on /\ (Hidden \/ \E r \in Requests : req[r].stage = "hide")
                     THEN {<<"overtaken", u>>} ELSE {})
  <2>1. /\ left \subseteq left' /\ left' \subseteq Mishaps \X Subs
        /\ on /\ (Hidden \/ \E r \in Requests : req[r].stage = "hide") => Left("overtaken", u)'
    BY <1>1, <1>4, LeavesMore
  <2>2. CASE PoolOf(u)
    <3>1. pool \in PoolAccounts /\ pool' = [pool EXCEPT !.enabled = on]
      BY <1>3, <1>4, <2>2 DEF PoolOf
    <3>2. pool' \in PoolAccounts /\ pool'.sub = u /\ pool'.state = pool.state /\ pool'.enabled = on
      BY <1>2, <2>2, <3>1 DEF PoolOf
    <3>3. PoolOf(u)'
      BY <1>3, <3>2 DEF PoolOf
    <3> QED  BY <2>1, <2>2, <3>2, <3>3
  <2>3. CASE ~PoolOf(u)
    <3>1. pool' = pool
      BY <1>4, <2>3 DEF PoolOf
    <3>2. ~PoolOf(u)'
      BY <2>3, <3>1 DEF PoolOf
    <3> QED  BY <1>3, <2>1, <3>1, <3>2
  <2> QED  BY <2>2, <2>3
<1>5. CASE Leaves(IF on THEN {} ELSE {<<"enabled", u>>}) /\ UNCHANGED pool
  <2>1. /\ left \subseteq left' /\ left' \subseteq Mishaps \X Subs
        /\ ~on => Left("enabled", u)'
    BY <1>1, <1>5, LeavesMore
  <2> QED  BY <1>3, <1>5, <2>1
<1> QED  BY <1>4, <1>5 DEF PoolSwitched

\* Cognito is told to disable an account before its row is hidden, or to follow an edit.
LEMMA AccountSwitched ==
    ASSUME AccountsInv, TypeOK', NEW r \in Requests, NEW u \in Subs, NEW on \in BOOLEAN,
           PoolSwitched(u, on), UNCHANGED <<user, inv>>, Others(r), Seen(r, u),
           req'[r].seen \in {req[r].seen, None}, req'[r].whose \in {req[r].whose, None},
           req'[r].doomed \in {req[r].doomed, 0},
           \/ /\ req[r].stage = "disable" /\ req'[r].stage = "hide"
              /\ req'[r].seen = req[r].seen /\ ~on
           \/ /\ req[r].stage = "flip" /\ req'[r].stage = "idle" /\ on = req[r].flag
              /\ r \notin Subs
    PROVE  AccountsInv'
<1>1. /\ left \subseteq left'
      /\ pool' = pool \/ (/\ PoolOf(u) /\ PoolOf(u)' /\ pool'.enabled = on
                          /\ pool'.state = pool.state)
      /\ ~on => \/ PoolOf(u)' => ~pool'.enabled
                \/ Left("enabled", u)'
      /\ on => \/ pool' = pool
               \/ Left("overtaken", u)'
               \/ ~Hidden /\ \A q \in Requests : req[q].stage # "hide"
  BY SwitchTyped DEF AccountsInv
<1>2. /\ \A s : (RowOf(s)' <=> RowOf(s)) /\ (PoolOf(s)' <=> PoolOf(s))
      /\ \A q \in Requests : q # r => req'[q] = req[q]
      /\ \A q \in Requests : \A s : Seen(q, s)' => Seen(q, s)
      /\ \A s : Seen(r, s) => s = u
  BY <1>1, ReadsStay DEF RowOf, PoolOf, Others, Seen
<1>3. HasSeen'
  BY <1>2 DEF AccountsInv, HasSeen, Seen
<1>4. MadeFrame
  <2>1. \A q \in Requests, s \in Subs : req'[q].whose = s => req[q].whose = s
    BY <1>2, InSubs
  <2> QED  BY <1>2, <2>1, InSubs DEF MadeFrame, Unmade, Rowless
<1>5. VerifiedFrame
  <2>1. \A s : PoolOf(s)' => PoolOf(s) /\ pool'.state = pool.state
    BY <1>1, <1>2
  <2> QED  BY <1>1, <1>2, <2>1 DEF VerifiedFrame
<1>6. DisabledFirst'
  <2>1. ~on => Disabled(u)'
    BY <1>1 DEF Disabled
  <2>2. ASSUME NEW s \in Subs, Disabled(s), Hidden \/ \E q \in Requests : req[q].stage = "hide"
        PROVE  Disabled(s)'
    <3>1. CASE pool' = pool
      BY <1>1, <1>2, <2>2, <3>1, LeftGrows DEF Disabled
    <3>2. CASE s # u
      BY <1>1, <1>2, <2>2, <3>2, LeftGrows DEF Disabled, PoolOf
    <3>3. CASE s = u /\ pool' # pool /\ on
      BY <1>1, <2>2, <3>3 DEF Disabled
    <3> QED  BY <2>1, <3>1, <3>2, <3>3
  <2>3. ASSUME NEW s \in Subs, RowOf(s), user.deleted
        PROVE  \/ Disabled(s)'
               \/ \E q \in Requests : req'[q].stage = "flip" /\ ~req'[q].flag /\ Seen(q, s)'
    <3>1. Hidden
      BY <2>3 DEF Hidden, RowOf
    <3>2. CASE Disabled(s)
      BY <2>2, <3>1, <3>2
    <3>3. CASE req[r].stage = "flip" /\ ~req[r].flag /\ Seen(r, s)
      BY <1>2, <2>1, <3>3
    <3>4. CASE \E q \in Requests \ {r} : req[q].stage = "flip" /\ ~req[q].flag /\ Seen(q, s)
      BY <1>2, <3>4 DEF Seen
    <3> QED  BY <2>3, <3>2, <3>3, <3>4 DEF AccountsInv, DisabledFirst
  <2>4. ASSUME NEW q \in Requests, NEW s \in Subs, req'[q].stage = "hide", Seen(q, s)'
        PROVE  Disabled(s)'
    <3>1. CASE q = r
      BY <1>2, <2>1, <2>4, <3>1
    <3>2. CASE q # r
      <4>1. req[q].stage = "hide" /\ Seen(q, s)
        BY <1>2, <2>4, <3>2
      <4> QED  BY <2>2, <4>1 DEF AccountsInv, DisabledFirst
    <3> QED  BY <3>1, <3>2
  <2> QED  BY <1>2, <2>3, <2>4 DEF DisabledFirst
<1>7. PlacesFrame
  <2>1. \A q \in Requests : \A s : req[q].stage = "erase" /\ Seen(q, s) =>
            req'[q].stage = "erase" /\ Seen(q, s)'
    BY <1>2 DEF Seen
  <2> QED  BY <1>1, <1>2, <2>1, InSubs DEF PlacesFrame, Rowless
<1>8. InvitesFrame
  <2>1. \A q \in Requests : Wiping(q)' => Wiping(q) /\ req'[q] = req[q]
    BY <1>2 DEF Wiping
  <2>2. \A q \in Requests : Wiping(q)' /\ RowStands(q)' => RowStands(q)
    BY <2>1 DEF RowStands
  <2> QED  BY <1>1, <1>2, <2>1, <2>2, InSubs DEF InvitesFrame, SameIds
<1> QED
  BY <1>3, <1>4, <1>5, <1>6, <1>7, <1>8, MadeKept, VerifiedKept, PlacesKept, InvitesKept
  DEF AccountsInv

LEMMA Disables == ASSUME AccountsInv, NEW r \in Invites \union Workers, Disable(r) PROVE AccountsInv'
<1>1. TypeOK /\ r \in Requests /\ req[r].stage = "disable"
  BY DEF AccountsInv, Requests, Disable
<1>2. PICK u \in Subs : u = req[r].seen.sub /\ Seen(r, u)
  BY <1>1, ReadBefore
<1>3. PICK on \in BOOLEAN : on = FALSE
  OBVIOUS
<1>4. PoolSwitched(u, on)
  BY <1>2, <1>3 DEF Disable
<1>5. "hide" \in Stages
  BY DEF Stages
<1>6. /\ req' \in [Requests -> Records]
      /\ Others(r) /\ req'[r].stage = "hide" /\ SameReads(r)
  BY <1>1, <1>5, GoesOn DEF Disable
<1>7. TypeOK'
  BY <1>1, <1>4, <1>6, SwitchTyped DEF TypeOK, Disable
<1>8. UNCHANGED <<user, inv>>
  BY DEF Disable
<1> QED  BY <1>1, <1>2, <1>3, <1>4, <1>6, <1>7, <1>8, AccountSwitched DEF SameReads

LEMMA EditFlips == ASSUME AccountsInv, NEW w \in Workers, EditFlip(w) PROVE AccountsInv'
<1>1. TypeOK /\ w \in Requests /\ req[w].stage = "flip"
  BY WorkerIs DEF AccountsInv, EditFlip
<1>2. PICK u \in Subs : u = req[w].seen.sub /\ Seen(w, u)
  BY <1>1, ReadBefore
<1>3. PICK on \in BOOLEAN : on = req[w].flag
  BY <1>1 DEF TypeOK, Records
<1>4. PoolSwitched(u, on)
  BY <1>2, <1>3 DEF EditFlip
<1>5. /\ req' \in [Requests -> Records]
      /\ Others(w) /\ req'[w].stage = "idle"
      /\ req'[w].seen = None /\ req'[w].whose = None /\ req'[w].doomed = 0
  BY <1>1, Ended DEF EditFlip
<1>6. TypeOK'
  BY <1>1, <1>4, <1>5, SwitchTyped DEF TypeOK, EditFlip
<1>7. UNCHANGED <<user, inv>>
  BY DEF EditFlip
<1> QED  BY <1>1, <1>2, <1>3, <1>4, <1>5, <1>6, <1>7, WorkerIs, AccountSwitched

\* Cognito confirms the account, and its worker goes on to mark a row.
LEMMA AccountConfirmed ==
    ASSUME AccountsInv, NEW w \in Workers, req[w].stage \in {"password", "idle"},
           pool # None, pool' = [pool EXCEPT !.state = "confirmed"],
           NEW t \in {"activate", "verify"},
           req' = [req EXCEPT ![w].stage = t, ![w].whose = pool.sub],
           UNCHANGED <<user, inv, left>>
    PROVE  AccountsInv'
<1>1. TypeOK /\ w \in Requests /\ w \notin Invites /\ w \notin Subs
  BY WorkerIs DEF AccountsInv
<1>2. pool \in PoolAccounts /\ pool.sub \in Subs
  BY <1>1 DEF TypeOK, PoolAccounts
<1>3. ASSUME NEW a \in PoolAccounts
      PROVE  /\ [a EXCEPT !.state = "confirmed"] \in PoolAccounts
             /\ [a EXCEPT !.state = "confirmed"].sub = a.sub
             /\ [a EXCEPT !.state = "confirmed"].enabled = a.enabled
             /\ [a EXCEPT !.state = "confirmed"].state = "confirmed"
  BY DEF PoolAccounts
<1>4. /\ pool' \in PoolAccounts /\ pool'.sub = pool.sub /\ pool'.enabled = pool.enabled
      /\ pool'.state = "confirmed" /\ pool' # None
  BY <1>2, <1>3, NoneAssumption
<1>5. /\ req' \in [Requests -> Records] /\ Others(w)
      /\ req'[w].stage = t /\ req'[w].whose = pool.sub /\ req'[w].seen = req[w].seen
      /\ req'[w].doomed = req[w].doomed
  <2>1. t \in Stages
    BY DEF Stages
  <2> QED  BY <1>1, <1>2, <2>1 DEF TypeOK, Records, Others
<1>6. TypeOK'
  BY <1>1, <1>4, <1>5 DEF TypeOK
<1>7. /\ \A s : (RowOf(s)' <=> RowOf(s)) /\ (PoolOf(s)' <=> PoolOf(s))
      /\ \A q \in Requests : q # w => req'[q] = req[q]
      /\ \A q \in Requests : \A s : Seen(q, s)' <=> Seen(q, s)
      /\ \A q : req'[w].whose = q => PoolOf(q)
  BY <1>4, <1>5 DEF RowOf, PoolOf, Others, Seen
<1>8. HasSeen'
  BY <1>2, <1>5, <1>7, InSubs DEF AccountsInv, HasSeen
<1>9. MadeFrame
  <2>1. \A s \in Subs : req'[s] = req[s]
    BY <1>1, <1>7, InSubs
  <2>2. \A k \in DOMAIN inv' : \E n \in DOMAIN inv : inv'[k].id = inv[n].id
    OBVIOUS
  <2>3. \A q \in Requests, s \in Subs : req'[q].whose = s => req[q].whose = s \/ PoolOf(s)
    BY <1>7
  <2> QED  BY <1>7, <2>1, <2>2, <2>3 DEF MadeFrame
<1>10. ConfirmedFirst' /\ VerifiedIsConfirmed'
  BY <1>4 DEF ConfirmedFirst, VerifiedIsConfirmed
<1>11. DisabledFrame
  <2>1. \A q \in Requests : \A s : req[q].stage = "flip" /\ ~req[q].flag /\ Seen(q, s) =>
            req'[q].stage = "flip" /\ ~req'[q].flag /\ Seen(q, s)'
    BY <1>7 DEF Seen
  <2> QED  BY <1>4, <1>5, <1>7, <2>1 DEF DisabledFrame
<1>12. PlacesFrame
  BY <1>1, <1>5, <1>7, InSubs DEF PlacesFrame
<1>13. InvitesFrame
  <2>1. \A q \in Requests : Wiping(q)' => Wiping(q) /\ req'[q] = req[q]
    BY <1>5, <1>7 DEF Wiping
  <2>2. \A q \in Requests : Wiping(q)' /\ RowStands(q)' => RowStands(q)
    BY <2>1 DEF RowStands
  <2> QED  BY <1>1, <1>5, <1>7, <2>1, <2>2, InSubs DEF InvitesFrame, SameIds
<1> QED
  BY <1>6, <1>8, <1>9, <1>10, <1>11, <1>12, <1>13, MadeKept, DisabledKept, PlacesKept,
     InvitesKept DEF AccountsInv

LEMMA AcceptsPassword == ASSUME AccountsInv, NEW w \in Workers, AcceptPassword(w) PROVE AccountsInv'
<1>1. TypeOK /\ w \in Requests /\ w \notin Invites
  BY WorkerIs DEF AccountsInv
<1>2. CASE /\ pool # None /\ pool' = [pool EXCEPT !.state = "confirmed"]
           /\ req' = [req EXCEPT ![w].stage = "activate", ![w].whose = pool.sub]
  BY <1>2, AccountConfirmed DEF AcceptPassword
<1>3. CASE Returns(w) /\ UNCHANGED pool
  <2>1. left \subseteq left' /\ left' \subseteq Mishaps \X Subs
    BY <1>1, NothingLeft DEF AcceptPassword
  <2>2. TypeOK' /\ SameIds
    BY <1>1, <1>3, <2>1, Ended, SameTyped DEF AcceptPassword
  <2>3. Ordinary(w)
    BY <1>1, <1>3, <2>1, <2>2, Ended DEF Ordinary, AcceptPassword, Plain, Rowless
  <2> QED  BY <1>1, <2>2, <2>3, OrdinaryStep
<1> QED  BY <1>2, <1>3 DEF AcceptPassword

LEMMA VerifiesCode == ASSUME AccountsInv, NEW w \in Workers, VerifyCode(w) PROVE AccountsInv'
BY AccountConfirmed DEF VerifyCode

-----------------------------------------------------------------------------
(* The steps that change the row but not whose it is.                      *)

LEMMA RowWritten ==
    ASSUME AccountsInv, TypeOK', NEW r \in Requests, Others(r),
           user # None, user' # None, user'.sub = user.sub, UNCHANGED <<pool, inv>>,
           left \subseteq left',
           req[r].stage \in {"hide", "edit", "activate", "verify", "idle"},
           req'[r].stage \in {"idle", "done", "flip", "accepted"},
           r \in Subs => req'[r].stage # "idle",
           req'[r].stage = "flip" => req'[r].seen # None,
           req'[r].seen \in {req[r].seen, None}, req'[r].whose \in {req[r].whose, None},
           req'[r].doomed \in {req[r].doomed, 0},
           r \in Invites => Excused',
           ConfirmedFirst', VerifiedIsConfirmed', DisabledFirst'
    PROVE  AccountsInv'
<1>1. /\ \A s : (RowOf(s)' <=> RowOf(s)) /\ (PoolOf(s)' <=> PoolOf(s))
      /\ \A q \in Requests : q # r => req'[q] = req[q]
      /\ \A q \in Requests : \A s : Seen(q, s)' => Seen(q, s)
  BY ReadsStay DEF RowOf, PoolOf, Others
<1>2. HasSeen'
  BY <1>1 DEF AccountsInv, HasSeen
<1>3. MadeFrame
  <2>1. \A q \in Requests, s \in Subs : req'[q].whose = s => req[q].whose = s
    BY <1>1, InSubs
  <2>2. \A k \in DOMAIN inv' : \E n \in DOMAIN inv : inv'[k].id = inv[n].id
    OBVIOUS
  <2> QED  BY <1>1, <2>1, <2>2, InSubs DEF MadeFrame, Unmade, Rowless
<1>4. PlacesFrame
  <2>1. \A q \in Requests : \A s : req[q].stage = "erase" /\ Seen(q, s) =>
            req'[q].stage = "erase" /\ Seen(q, s)'
    BY <1>1 DEF Seen
  <2> QED  BY <1>1, <2>1, InSubs DEF PlacesFrame, Rowless
<1>5. InvitesFrame
  <2>1. \A q \in Requests : Wiping(q)' => Wiping(q) /\ req'[q] = req[q]
    BY <1>1 DEF Wiping
  <2>2. \A q \in Requests : Wiping(q)' /\ RowStands(q)' => RowStands(q)
    BY <2>1 DEF RowStands
  <2> QED  BY <1>1, <2>1, <2>2, InSubs DEF InvitesFrame, SameIds
<1> QED
  BY <1>2, <1>3, <1>4, <1>5, MadeKept, PlacesKept, InvitesKept DEF AccountsInv

\* A row is marked as verified and active, by the address.
LEMMA RowMarked ==
    ASSUME AccountsInv, NEW w \in Workers, RowActivated(w), UNCHANGED <<pool, inv>>,
           req[w].stage \in {"activate", "verify"},
           req' \in [Requests -> Records], Others(w),
           req'[w].stage \in {"idle", "accepted"}, req'[w].whose = None,
           req'[w].seen \in {req[w].seen, None}, req'[w].doomed \in {req[w].doomed, 0}
    PROVE  AccountsInv'
<1>1. TypeOK /\ w \in Requests /\ w \notin Invites /\ w \notin Subs
  BY WorkerIs DEF AccountsInv
<1>2. user \in Rows /\ user # None /\ user.sub \in Subs
  BY <1>1 DEF RowActivated, TypeOK, Rows
<1>3. ASSUME NEW u \in Rows
      PROVE  /\ [u EXCEPT !.verified = TRUE, !.active = TRUE] \in Rows
             /\ [u EXCEPT !.verified = TRUE, !.active = TRUE].sub = u.sub
             /\ [u EXCEPT !.verified = TRUE, !.active = TRUE].deleted = u.deleted
  BY DEF Rows
<1>4. user' \in Rows /\ user'.sub = user.sub /\ user'.deleted = user.deleted /\ user' # None
  BY <1>2, <1>3, NoneAssumption DEF RowActivated
<1>5. PICK x \in Subs : x = user.sub
  BY <1>2
<1>6. /\ left \subseteq left' /\ left' \subseteq Mishaps \X Subs
      /\ x # req[w].whose => Left("crossed", x)'
  <2>1. {<<"crossed", s>> : s \in {x} \ {req[w].whose}} \in SUBSET (Mishaps \X Subs)
    BY DEF Mishaps
  <2>2. Leaves({<<"crossed", s>> : s \in {x} \ {req[w].whose}})
    BY <1>5 DEF RowActivated
  <2>3. x # req[w].whose => <<"crossed", x>> \in {<<"crossed", s>> : s \in {x} \ {req[w].whose}}
    OBVIOUS
  <2> QED  BY <1>1, <2>1, <2>2, <2>3, LeavesMore
<1>7. TypeOK'
  BY <1>1, <1>4, <1>6 DEF TypeOK
<1>8. /\ \A s : (RowOf(s)' <=> RowOf(s)) /\ (PoolOf(s)' <=> PoolOf(s))
      /\ \A q \in Requests : q # w => req'[q] = req[q]
      /\ \A q \in Requests : \A s : Seen(q, s)' => Seen(q, s)
  BY <1>1, <1>2, <1>4, ReadsStay DEF RowOf, PoolOf, Others
<1>9. ConfirmedFirst'
  <2>1. \A q \in Requests : req'[q].stage \in {"activate", "verify"} => q # w
    OBVIOUS
  <2> QED  BY <1>8, <2>1 DEF AccountsInv, ConfirmedFirst
<1>10. VerifiedRow'
  <2>1. ASSUME NEW s \in Subs, RowOf(s)', PoolOf(s)'
        PROVE  pool.state = "confirmed" \/ Left("crossed", s)'
    <3>1. s = x
      BY <1>5, <1>8, <2>1 DEF RowOf
    <3>2. CASE s = req[w].whose
      BY <1>1, <1>8, <2>1, <3>2 DEF AccountsInv, ConfirmedFirst
    <3>3. CASE s # req[w].whose
      BY <1>6, <3>1, <3>3
    <3> QED  BY <3>2, <3>3
  <2> QED  BY <2>1 DEF VerifiedRow
<1>11. VerifiedIsConfirmed'
  <2>1. (TypeOK => (VerifiedIsConfirmed <=> VerifiedRow))'
    BY VerifiedForm, PTL
  <2> QED  BY <1>7, <1>10, <2>1
<1>12. DisabledFirst'
  <2>1. \A q \in Requests : \A s : req[q].stage = "flip" /\ ~req[q].flag /\ Seen(q, s) =>
            req'[q].stage = "flip" /\ ~req'[q].flag /\ Seen(q, s)'
    BY <1>8 DEF Seen
  <2>2. DisabledFrame
    BY <1>4, <1>6, <1>8, <2>1 DEF DisabledFrame
  <2> QED  BY <2>2, DisabledKept
<1> QED
  BY <1>1, <1>2, <1>4, <1>6, <1>7, <1>9, <1>11, <1>12, RowWritten

LEMMA Activates == ASSUME AccountsInv, NEW w \in Workers, Activate(w) PROVE AccountsInv'
<1>1. TypeOK /\ w \in Requests /\ w \notin Invites
  BY WorkerIs DEF AccountsInv
<1>2. CASE /\ RowActivated(w)
           /\ req' = [req EXCEPT ![w].stage = "accepted", ![w].whose = None]
  <2>1. "accepted" \in Stages
    BY DEF Stages
  <2>2. /\ req' \in [Requests -> Records] /\ Others(w)
        /\ req'[w].stage = "accepted" /\ req'[w].whose = None
        /\ req'[w].seen = req[w].seen /\ req'[w].doomed = req[w].doomed
    BY <1>1, <1>2, <2>1 DEF TypeOK, Records, Others
  <2> QED  BY <1>2, <2>2, RowMarked DEF Activate
<1>3. CASE UNCHANGED <<user, left>> /\ Returns(w)
  <2>1. left \subseteq left' /\ left' \subseteq Mishaps \X Subs
    BY <1>1, <1>3, NothingLeft
  <2>2. TypeOK' /\ SameIds
    BY <1>1, <1>3, <2>1, Ended, SameTyped DEF Activate
  <2>3. Ordinary(w)
    BY <1>1, <1>3, <2>1, <2>2, Ended DEF Ordinary, Activate, Plain, Rowless
  <2> QED  BY <1>1, <2>2, <2>3, OrdinaryStep
<1> QED  BY <1>2, <1>3 DEF Activate

LEMMA VerifiesUser == ASSUME AccountsInv, NEW w \in Workers, VerifyUser(w) PROVE AccountsInv'
<1>1. TypeOK /\ w \in Requests /\ w \notin Invites
  BY WorkerIs DEF AccountsInv
<1>2. CASE RowActivated(w)
  BY <1>1, <1>2, Ended, RowMarked DEF VerifyUser
<1>3. CASE UNCHANGED <<user, left>>
  <2>1. left \subseteq left' /\ left' \subseteq Mishaps \X Subs
    BY <1>1, <1>3, NothingLeft
  <2>2. TypeOK' /\ SameIds
    BY <1>1, <1>3, <2>1, Ended, SameTyped DEF VerifyUser
  <2>3. Ordinary(w)
    BY <1>1, <1>3, <2>1, <2>2, Ended DEF Ordinary, VerifyUser, Plain, Rowless
  <2> QED  BY <1>1, <2>2, <2>3, OrdinaryStep
<1> QED  BY <1>2, <1>3 DEF VerifyUser

\* What the columns of a row become.
LEMMA ColumnsWritten ==
    ASSUME TypeOK, user # None, NEW a \in BOOLEAN, NEW d \in BOOLEAN,
           user' = [user EXCEPT !.active = a, !.deleted = d]
    PROVE  /\ user' \in Rows /\ user' # None /\ user'.sub = user.sub
           /\ user'.verified = user.verified /\ user'.deleted = d
<1>1. ASSUME NEW u \in Rows
      PROVE  /\ [u EXCEPT !.active = a, !.deleted = d] \in Rows
             /\ [u EXCEPT !.active = a, !.deleted = d].sub = u.sub
             /\ [u EXCEPT !.active = a, !.deleted = d].verified = u.verified
             /\ [u EXCEPT !.active = a, !.deleted = d].deleted = d
  BY DEF Rows
<1> QED  BY <1>1, NoneAssumption DEF TypeOK

LEMMA StillVerified ==
    ASSUME AccountsInv, TypeOK', NEW r \in Requests, Others(r), user # None, user' # None,
           user'.sub = user.sub, user'.verified = user.verified, UNCHANGED pool,
           left \subseteq left', req'[r].stage \notin {"activate", "verify"}
    PROVE  ConfirmedFirst' /\ VerifiedIsConfirmed'
<1>1. VerifiedFrame
  BY DEF VerifiedFrame, RowOf, PoolOf, Others
<1> QED  BY <1>1, VerifiedKept

LEMMA Hides == ASSUME AccountsInv, NEW r \in Invites \union Workers, Hide(r) PROVE AccountsInv'
<1>1. TypeOK /\ r \in Requests /\ req[r].stage = "hide"
  BY DEF AccountsInv, Requests, Hide
<1>2. left \subseteq left' /\ left' \subseteq Mishaps \X Subs /\ (r \in Invites => Excused')
  BY <1>1, CleaningFails DEF Hide
<1>3. CASE user' = user
  <2>1. TypeOK' /\ SameIds
    BY <1>1, <1>2, <1>3, Ended, SameTyped DEF Hide
  <2>2. Ordinary(r)
    BY <1>1, <1>2, <1>3, <2>1, Ended DEF Ordinary, Hide, Plain, Rowless
  <2> QED  BY <1>1, <2>1, <2>2, OrdinaryStep
<1>4. CASE /\ RowStands(r)
           /\ user' = [user EXCEPT !.active = FALSE, !.deleted = @ \/ ~req[r].seen.deleted]
  <2>1. PICK u \in Subs : u = req[r].seen.sub /\ Seen(r, u)
    BY <1>1, ReadBefore
  <2>2. PICK a \in BOOLEAN, d \in BOOLEAN : user' = [user EXCEPT !.active = a, !.deleted = d]
    BY <1>4
  <2>3. user # None /\ user.sub = u
    BY <1>4, <2>1 DEF RowStands
  <2>4. /\ user' \in Rows /\ user' # None /\ user'.sub = user.sub
        /\ user'.verified = user.verified
    BY <1>1, <2>2, <2>3, ColumnsWritten
  <2>5. /\ req' \in [Requests -> Records]
        /\ Others(r) /\ req'[r].stage \in {"idle", "done"} /\ (r \in Subs => req'[r].stage = "done")
        /\ req'[r].seen = None /\ req'[r].whose = None /\ req'[r].doomed = 0
    BY <1>1, Ended DEF Hide
  <2>6. TypeOK'
    BY <1>1, <1>2, <2>4, <2>5 DEF TypeOK, Hide
  <2>7. UNCHANGED <<pool, inv>>
    BY DEF Hide
  <2>8. ConfirmedFirst' /\ VerifiedIsConfirmed'
    BY <1>1, <1>2, <2>3, <2>4, <2>5, <2>6, <2>7, StillVerified
  <2>9. DisabledFirst'
    <3>1. \A s \in Subs : Disabled(s) => Disabled(s)'
      BY <1>2, <2>7, LeftGrows DEF Disabled, PoolOf
    <3>2. \A s \in Subs : RowOf(s)' => Disabled(s)'
      <4>1. Disabled(u)
        BY <1>1, <2>1 DEF AccountsInv, DisabledFirst
      <4> QED  BY <2>3, <2>4, <3>1, <4>1 DEF RowOf
    <3>3. ASSUME NEW q \in Requests, NEW s \in Subs, req'[q].stage = "hide", Seen(q, s)'
          PROVE  Disabled(s)'
      <4>1. req[q].stage = "hide" /\ Seen(q, s)
        BY <2>5, <3>3 DEF Others, Seen
      <4> QED  BY <3>1, <4>1 DEF AccountsInv, DisabledFirst
    <3> QED  BY <3>2, <3>3 DEF DisabledFirst
  <2> QED
    BY <1>1, <1>2, <2>3, <2>4, <2>5, <2>6, <2>7, <2>8, <2>9, RowWritten
<1> QED  BY <1>3, <1>4 DEF Hide

LEMMA EditCommits == ASSUME AccountsInv, NEW w \in Workers, EditCommit(w) PROVE AccountsInv'
<1>1. TypeOK /\ w \in Requests /\ w \notin Invites /\ req[w].stage = "edit"
  BY WorkerIs DEF AccountsInv, EditCommit
<1>2. PICK u \in Subs : u = req[w].seen.sub /\ Seen(w, u)
  BY <1>1, ReadBefore
<1>3. PICK on \in BOOLEAN : on = req[w].flag
  BY <1>1 DEF TypeOK, Records
<1>4. CASE /\ RowStands(w)
           /\ user' = [user EXCEPT !.active = IF req[w].seen.active = on THEN @ ELSE on,
                                   !.deleted = IF req[w].seen.deleted = ~on THEN @ ELSE ~on]
           /\ Leaves(Overtaken(w)) /\ Goes(w, "flip")
  <2>1. user # None /\ user.sub = u /\ user.active \in BOOLEAN /\ user.deleted \in BOOLEAN
    BY <1>1, <1>2, <1>4 DEF RowStands, TypeOK, Rows
  <2>2. PICK a \in BOOLEAN : a = IF req[w].seen.active = on THEN user.active ELSE on
    BY <2>1
  <2>3. PICK d \in BOOLEAN : d = IF req[w].seen.deleted = ~on THEN user.deleted ELSE ~on
    BY <2>1
  <2>4. user' = [user EXCEPT !.active = a, !.deleted = d]
    BY <1>4, <2>2, <2>3
  <2>5. /\ user' \in Rows /\ user' # None /\ user'.sub = user.sub
        /\ user'.verified = user.verified /\ user'.deleted = d
    BY <1>1, <2>1, <2>4, ColumnsWritten
  <2>6. "flip" \in Stages /\ Overtaken(w) \in SUBSET (Mishaps \X Subs)
    BY <2>1 DEF Stages, Overtaken, Mishaps
  <2>7. left \subseteq left' /\ left' \subseteq Mishaps \X Subs
    BY <1>1, <1>4, <2>6, LeavesMore
  <2>8. /\ req' \in [Requests -> Records]
        /\ Others(w) /\ req'[w].stage = "flip" /\ SameReads(w)
    BY <1>1, <1>4, <2>6, GoesOn
  <2>9. UNCHANGED <<pool, inv>>
    BY DEF EditCommit
  <2>10. TypeOK'
    BY <1>1, <2>5, <2>7, <2>8, <2>9 DEF TypeOK
  <2>11. ConfirmedFirst' /\ VerifiedIsConfirmed'
    BY <1>1, <2>1, <2>5, <2>7, <2>8, <2>9, <2>10, StillVerified
  <2>12. DisabledFirst'
    <3>1. \A s \in Subs : Disabled(s) => Disabled(s)'
      BY <2>7, <2>9, LeftGrows DEF Disabled, PoolOf
    <3>2. ASSUME NEW s \in Subs, RowOf(s)', user'.deleted
          PROVE  \/ Disabled(s)'
                 \/ \E q \in Requests : req'[q].stage = "flip" /\ ~req'[q].flag /\ Seen(q, s)'
      <4>1. s = u /\ RowOf(s)
        BY <2>1, <2>5, <3>2 DEF RowOf
      <4>2. CASE ~on
        <5>1. req'[w].stage = "flip" /\ ~req'[w].flag /\ Seen(w, s)'
          BY <1>2, <1>3, <2>8, <4>1, <4>2 DEF SameReads, Seen
        <5> QED  BY <1>1, <5>1
      <4>3. CASE on
        <5>1. user.deleted
          BY <2>3, <2>5, <3>2, <4>3
        <5>2. \A q \in Requests : req[q].stage = "flip" /\ ~req[q].flag /\ Seen(q, s) =>
                  req'[q].stage = "flip" /\ ~req'[q].flag /\ Seen(q, s)'
          BY <1>1, <2>8 DEF Others, Seen
        <5> QED  BY <3>1, <4>1, <5>1, <5>2 DEF AccountsInv, DisabledFirst
      <4> QED  BY <4>2, <4>3
    <3>3. ASSUME NEW q \in Requests, NEW s \in Subs, req'[q].stage = "hide", Seen(q, s)'
          PROVE  Disabled(s)'
      <4>1. req[q].stage = "hide" /\ Seen(q, s)
        BY <2>8, <3>3 DEF Others, Seen
      <4> QED  BY <3>1, <4>1 DEF AccountsInv, DisabledFirst
    <3> QED  BY <3>2, <3>3 DEF DisabledFirst
  <2>13. req'[w].seen # None
    BY <1>2, <2>8 DEF SameReads, Seen
  <2> QED
    BY <1>1, <2>1, <2>5, <2>7, <2>8, <2>9, <2>10, <2>11, <2>12, <2>13, RowWritten DEF SameReads
<1>5. CASE Returns(w) /\ UNCHANGED <<user, left>>
  <2>1. left \subseteq left' /\ left' \subseteq Mishaps \X Subs
    BY <1>1, <1>5, NothingLeft
  <2>2. TypeOK' /\ SameIds
    BY <1>1, <1>5, <2>1, Ended, SameTyped DEF EditCommit
  <2>3. Ordinary(w)
    BY <1>1, <1>5, <2>1, <2>2, Ended DEF Ordinary, EditCommit, Plain, Rowless
  <2> QED  BY <1>1, <2>2, <2>3, OrdinaryStep
<1> QED  BY <1>3, <1>4, <1>5 DEF EditCommit

LEMMA Deactivates == ASSUME AccountsInv, NEW w \in Workers, Deactivate(w) PROVE AccountsInv'
<1>1. TypeOK /\ w \in Requests /\ w \notin Invites /\ req[w].stage = "idle"
  BY WorkerIs DEF AccountsInv, Deactivate
<1>2. user # None /\ user' = [user EXCEPT !.active = FALSE] /\ UNCHANGED <<pool, inv, req, left>>
  BY DEF Deactivate
<1>3. ASSUME NEW u \in Rows
      PROVE  /\ [u EXCEPT !.active = FALSE] \in Rows
             /\ [u EXCEPT !.active = FALSE].sub = u.sub
             /\ [u EXCEPT !.active = FALSE].verified = u.verified
             /\ [u EXCEPT !.active = FALSE].deleted = u.deleted
  BY DEF Rows
<1>4. /\ user' \in Rows /\ user' # None /\ user'.sub = user.sub
      /\ user'.verified = user.verified /\ user'.deleted = user.deleted
  BY <1>1, <1>2, <1>3, NoneAssumption DEF TypeOK
<1>5. TypeOK' /\ Others(w)
  BY <1>1, <1>2, <1>4 DEF TypeOK, Others
<1>6. ConfirmedFirst' /\ VerifiedIsConfirmed'
  BY <1>1, <1>2, <1>4, <1>5, StillVerified
<1>7. DisabledFirst'
  <2>1. DisabledFrame
    BY <1>2, <1>4 DEF DisabledFrame, PoolOf, RowOf, Seen
  <2> QED  BY <2>1, DisabledKept
<1> QED  BY <1>1, <1>2, <1>4, <1>5, <1>6, <1>7, WorkerIs, RowWritten

-----------------------------------------------------------------------------
(* The invariant holds, and what it says of the moments between requests.  *)

LEMMA InitInv == Init => AccountsInv
<1> SUFFICES ASSUME Init PROVE AccountsInv
  OBVIOUS
<1>1. \A r \in Requests : /\ req[r].stage \in {"idle", "new"}
                          /\ r \in Subs => req[r].stage = "new"
                          /\ req[r].seen = None /\ req[r].whose = None /\ req[r].doomed = 0
                          /\ req[r] \in Records
  BY WorkerIs DEF Init, Fresh, Records, Stages, Waiting
<1>2. user = None /\ pool = None /\ inv = <<>> /\ left = {}
  BY DEF Init
<1>3. TypeOK
  <2>1. req = [r \in Requests |-> Fresh(IF r \in Workers THEN "idle" ELSE "new")]
    BY DEF Init
  <2>2. req \in [Requests -> Records]
    BY <1>1, <2>1
  <2> QED  BY <1>2, <2>2 DEF TypeOK
<1>4. HasSeen
  BY <1>1 DEF HasSeen
<1>5. MadeOnce
  BY <1>1, <1>2, InSubs DEF MadeOnce, PoolOf, RowOf, Seen
<1>6. ConfirmedFirst /\ VerifiedIsConfirmed
  BY <1>1, <1>2 DEF ConfirmedFirst, VerifiedIsConfirmed
<1>7. DisabledFirst
  BY <1>1, <1>2 DEF DisabledFirst, RowOf
<1>8. AccountHasRow /\ RowHasAccount
  BY <1>2 DEF AccountHasRow, RowHasAccount, PoolOf, RowOf
<1>9. AccountFirst
  BY <1>1, <1>2, InSubs DEF AccountFirst, PoolOf
<1>10. OneLock
  BY <1>1, <1>2 DEF OneLock
<1>11. InvitationHasRow
  BY <1>2 DEF InvitationHasRow
<1> QED
  BY <1>3, <1>4, <1>5, <1>6, <1>7, <1>8, <1>9, <1>10, <1>11 DEF AccountsInv

LEMMA NextInv == AccountsInv /\ [Next]_vars => AccountsInv'
<1> SUFFICES ASSUME AccountsInv, [Next]_vars PROVE AccountsInv'
  OBVIOUS
<1>1. ASSUME NEW r \in Invites, InviteStep(r) PROVE AccountsInv'
  BY <1>1, InviteChecks, InviteLapses, InviteRecords, InviteCreates, InviteRows, InviteMails
  DEF InviteStep
<1>2. ASSUME NEW r \in Invites \union Workers, DeleteStep(r) PROVE AccountsInv'
  BY <1>2, DeleteReads, DeleteDrops, DeleteChooses, Wipes, WipesPool, WipesCommit,
     WipeRollsBack, Disables, Hides DEF DeleteStep
<1>3. ASSUME NEW w \in Workers, WorkerStep(w) PROVE AccountsInv'
  BY <1>3, DeleteAsks, AcceptsToken, AcceptsExpired, AcceptsAccount, AcceptsPassword,
     Activates, MarksAccepted, Resends, VerifiesCode, VerifiesUser, EditReads, EditChecks,
     EditCommits, EditFlips, Deactivates DEF WorkerStep
<1>4. ASSUME NEW s \in SignUps, SignUpStep(s) PROVE AccountsInv'
  BY <1>4, SignUpChecks, SignUpPools, SignUpRows, SignUpUndoes DEF SignUpStep
<1>5. CASE UNCHANGED vars
  <2>1. UNCHANGED <<user, pool, req, left>> /\ inv' \in Seq(Invitations) /\ SameIds
    BY <1>5 DEF vars, AccountsInv, TypeOK, SameIds
  <2> QED  BY <2>1, InvitationWritten
<1> QED  BY <1>1, <1>2, <1>3, <1>4, <1>5, Expires DEF Next

\* Every state has the invariant of this module: the row, the account and the
\* invitations of an address, and what every request on the way still owes them.
THEOREM AccountsHold == Spec => []AccountsInv
BY InitInv, NextInv, PTL DEF Spec

LEMMA RestsInOrder == AccountsInv => AddressConsistent /\ DeletedStaysOut
<1> SUFFICES ASSUME AccountsInv, AtRest PROVE AddressConsistent /\ DeletedStaysOut
  BY DEF AddressConsistent, DeletedStaysOut
<1>1. /\ user \in Rows \union {None} /\ (user # None => user.sub \in Subs)
      /\ pool \in PoolAccounts \union {None} /\ (pool # None => pool.sub \in Subs)
  BY DEF AccountsInv, TypeOK, Rows, PoolAccounts
<1>2. /\ \A r \in Requests : req[r].stage \in {"new", "idle", "done"}
      /\ \A r \in Invites : req[r].stage \in {"new", "idle", "done"} /\ r \in Requests
  BY DEF AtRest, Waiting, Requests
<1>3. pool # None /\ (user = None \/ user.sub # pool.sub) =>
          Left("orphan", pool.sub) \/ Left("undeleted", pool.sub)
  <2> SUFFICES ASSUME pool # None, user = None \/ user.sub # pool.sub
               PROVE  Left("orphan", pool.sub) \/ Left("undeleted", pool.sub)
    OBVIOUS
  <2>1. PICK s \in Subs : s = pool.sub
    BY <1>1
  <2>2. PoolOf(s) /\ ~RowOf(s)
    BY <2>1 DEF PoolOf, RowOf
  <2>3. req[s].stage \notin Rowless
    BY <1>2, InSubs DEF Rowless
  <2> QED  BY <2>1, <2>2, <2>3 DEF AccountsInv, AccountHasRow
<1>4. user # None /\ (pool = None \/ pool.sub # user.sub) =>
          Left("halfwiped", user.sub) \/ Left("overtaken", user.sub)
  <2> SUFFICES ASSUME user # None, pool = None \/ pool.sub # user.sub
               PROVE  Left("halfwiped", user.sub) \/ Left("overtaken", user.sub)
    OBVIOUS
  <2>1. PICK s \in Subs : s = user.sub
    BY <1>1
  <2>2. RowOf(s) /\ ~PoolOf(s)
    BY <2>1 DEF PoolOf, RowOf
  <2> QED  BY <1>2, <2>1, <2>2 DEF AccountsInv, RowHasAccount
<1>5. (\E k \in DOMAIN inv : inv[k].mailed /\ inv[k].status = "pending") =>
          user # None \/ Excused
  <2> SUFFICES ASSUME NEW k \in DOMAIN inv, user = None PROVE Excused
    OBVIOUS
  <2>1. req[inv[k].id].stage \in {"idle", "done"} /\ inv[k].id \in Invites
    BY <1>2, InvitationsOf DEF AccountsInv, MadeOnce
  <2>2. req[inv[k].id].stage = "done"
    BY <2>1, InSubs DEF AccountsInv, MadeOnce
  <2> QED  BY <2>2 DEF AccountsInv, InvitationHasRow
<1>6. CanLogIn /\ user.deleted => Left("enabled", user.sub) \/ Left("overtaken", user.sub)
  <2> SUFFICES ASSUME CanLogIn, user.deleted
               PROVE  Left("enabled", user.sub) \/ Left("overtaken", user.sub)
    OBVIOUS
  <2>1. PICK s \in Subs : s = user.sub
    BY <1>1 DEF CanLogIn
  <2>2. RowOf(s) /\ PoolOf(s) /\ pool.enabled
    BY <2>1 DEF CanLogIn, RowOf, PoolOf
  <2> QED  BY <1>2, <2>1, <2>2 DEF AccountsInv, DisabledFirst, Disabled
<1> QED
  BY <1>3, <1>4, <1>5, <1>6 DEF AddressConsistent, DeletedStaysOut, Excused

\* Between requests the row, the account and the mailed invitation of an address
\* fit together, or a mishap that the code could not undo says why: what the order
\* of the calls and the clean-ups of invite_user, SignupView and _hard_delete_user
\* are for, with any number of requests at work.
THEOREM AddressesFit == Spec => []AddressConsistent
BY AccountsHold, RestsInOrder, PTL

\* Who was soft-deleted cannot log in, whatever is accepted or edited later, unless
\* Cognito did not disable the account or an edit crossed the deletion.
THEOREM DeletedStayOut == Spec => []DeletedStaysOut
BY AccountsHold, RestsInOrder, PTL

\* is_email_verified is only set on a row whose account Cognito has confirmed, or
\* on another one that has taken the address in the meantime.
THEOREM VerifiedAreConfirmed == Spec => []VerifiedIsConfirmed
<1>1. AccountsInv => VerifiedIsConfirmed
  BY DEF AccountsInv
<1> QED  BY <1>1, AccountsHold, PTL
=============================================================================
