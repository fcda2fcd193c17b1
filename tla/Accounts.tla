------------------------------ MODULE Accounts ------------------------------
(***************************************************************************)
(* The account of one e-mail address: its row in users, its account in     *)
(* Cognito and its invitations (users/auth_service/schema.py,              *)
(* user_management.py, user_auth.py). No transaction spans the database    *)
(* and Cognito; every request is a thread of the pool that goes through    *)
(* both, and each of its calls may fail. The address is fixed, so whatever *)
(* the code looks up "by email" is here the row or the account there is.   *)
(***************************************************************************)
EXTENDS Naturals, FiniteSets, Sequences, SequencesExt

CONSTANTS
    Invites,    \* requests POST /invite; each makes one invitation and one sub
    SignUps,    \* requests POST /signup; each makes one sub
    Workers,    \* threads that serve every other request, one after the other
    Threads,    \* how many requests are served at the same time
    MaxLeft,    \* bound of the model: how many things may be left behind
    None

ASSUME ConstantsOK ==
    /\ IsFiniteSet(Invites \union SignUps \union Workers)
    /\ Invites \intersect SignUps = {}
    /\ Workers \intersect (Invites \union SignUps) = {}
    /\ None \notin Invites \union SignUps \union Workers
    /\ Threads \in Nat
    /\ MaxLeft \in Nat

Subs == Invites \union SignUps

\* A row of users and an account in Cognito.
Rows         == [sub : Subs, verified : BOOLEAN, active : BOOLEAN, deleted : BOOLEAN]
PoolAccounts == [sub : Subs, state : {"temporary", "unconfirmed", "confirmed"}, enabled : BOOLEAN]

ASSUME NoneAssumption == None \notin Rows \union PoolAccounts

VARIABLES
    user,   \* the row of users: who it is and its three flags, or None
    pool,   \* the account in Cognito, or None
    inv,    \* the rows of user_invitations, in the order of invited_at
    req,    \* what each request is about to do and what it has read
    left    \* history: what a failure or a race has left half-done, and whose it is

vars == <<user, pool, inv, req, left>>

Requests == Invites \union SignUps \union Workers

\* orphan     an account that was created for a row that was not
\* undeleted  an account that Cognito did not delete
\* halfwiped  a row whose deletion was rolled back after its account was deleted
\* enabled    an account that Cognito did not disable
\* unsent     an invitation whose clean-up did not remove it
\* overtaken  a row or an account that had changed when a request acted on it
\* crossed    a row marked verified because another account was confirmed
Mishaps == {"orphan", "undeleted", "halfwiped", "enabled", "unsent", "overtaken", "crossed"}

NewUser(s)    == [sub |-> s, verified |-> FALSE, active |-> FALSE, deleted |-> FALSE]
Account(s, t) == [sub |-> s, state |-> t, enabled |-> TRUE]
Fresh(stage)  == [stage |-> stage, seen |-> None, doomed |-> 0, token |-> None,
                  whose |-> None, flag |-> FALSE]

Init ==
    /\ user = None
    /\ pool = None
    /\ inv = <<>>
    /\ req = [r \in Requests |-> Fresh(IF r \in Workers THEN "idle" ELSE "new")]
    /\ left = {}

(***************************************************************************)
(* Rows and requests.                                                      *)
(***************************************************************************)
Waiting == {"new", "idle", "done"}

\* A request begins when a thread is free.
ThreadFree == Cardinality({r \in Requests : req[r].stage \notin Waiting}) < Threads

Goes(r, stage) == req' = [req EXCEPT ![r].stage = stage]

Returns(r) == req' = [req EXCEPT ![r] = Fresh(IF r \in Workers THEN "idle" ELSE "done")]

\* A DELETE that is not committed keeps its rows locked: who updates one of
\* them waits, and then finds no row. They are the oldest, because rows are
\* only added while it lasts.
Locked == {inv[k].id : k \in {k \in DOMAIN inv : \E r \in Requests : k <= req[r].doomed}}

\* Nobody will come back to these.
Leaves(things) ==
    /\ left' = left \union things
    /\ Cardinality(left') <= MaxLeft

PoolSub == IF pool = None THEN {} ELSE {pool.sub}
Hidden  == user # None /\ user.deleted

\* Another request has not removed or replaced the row that r has read.
RowStands(r) == user # None /\ user.sub = req[r].seen.sub

\* What r is about to do was decided on flags that have changed since.
Overtaken(r) ==
    IF RowStands(r) /\ user # req[r].seen THEN {<<"overtaken", user.sub>>} ELSE {}

\* update_invitation_status: nothing happens to an invitation that is gone.
StatusSet(i, status) ==
    /\ i \notin Locked
    /\ inv' = [k \in DOMAIN inv |->
                  IF inv[k].id = i THEN [id |-> i, status |-> status, old |-> FALSE,
                                         mailed |-> FALSE]
                  ELSE inv[k]]

\* Cognito's admin_delete_user, by e-mail address. A failure is logged and swallowed.
PoolDeleted(sub) ==
    \/ /\ pool' = None
       /\ Leaves({<<"overtaken", s>> : s \in PoolSub \ {sub}})
    \/ /\ pool # None
       /\ Leaves({<<"undeleted", pool.sub>>})
       /\ UNCHANGED pool

\* Cognito's admin_enable_user and admin_disable_user, for the account that
\* list_users finds by sub. A failure is logged and swallowed.
PoolSwitched(sub, on) ==
    \/ /\ pool' = IF pool # None /\ pool.sub = sub THEN [pool EXCEPT !.enabled = on] ELSE pool
       /\ Leaves(IF on /\ (Hidden \/ \E r \in Requests : req[r].stage = "hide")
                 THEN {<<"overtaken", sub>>} ELSE {})
    \/ /\ Leaves(IF on THEN {} ELSE {<<"enabled", sub>>})
       /\ UNCHANGED pool

\* The row of the address, whoever's account the request has confirmed.
RowActivated(w) ==
    /\ user # None
    /\ user' = [user EXCEPT !.verified = TRUE, !.active = TRUE]
    /\ Leaves({<<"crossed", s>> : s \in {user.sub} \ {req[w].whose}})

(***************************************************************************)
(* POST /invite: an invitation, an account with a temporary password, a    *)
(* row, a mail. Every failure after the first calls delete_user_by_email.  *)
(***************************************************************************)
\* check_existing_invitation. An expired invitation is first marked as such;
\* whatever raises lets the request pass.
InviteCheck(r) ==
    /\ req[r].stage = "new"
    /\ r \in Invites
    /\ ThreadFree
    /\ \/ Goes(r, "record")     \* no invitation, or the query failed
       \/ /\ inv # <<>>
          /\ IF Last(inv).status = "pending" /\ Last(inv).old
             THEN req' = [req EXCEPT ![r].stage = "lapse", ![r].token = Last(inv).id]
             ELSE Returns(r)
    /\ UNCHANGED <<user, pool, inv, left>>

\* The update inside the check commits and closes the session that the check
\* itself goes on with: reading the invitation again raises, so the request passes.
\* If the invitation is gone nothing is committed, and the request is refused.
InviteLapse(r) ==
    /\ req[r].stage = "lapse"
    /\ StatusSet(req[r].token, "expired")
    /\ IF \E k \in DOMAIN inv : inv[k].id = req[r].token
       THEN req' = [req EXCEPT ![r] = Fresh("record")]
       ELSE Returns(r)
    /\ UNCHANGED <<user, pool, left>>

InviteRecord(r) ==
    /\ req[r].stage = "record"
    /\ r \in Invites
    /\ \/ /\ inv' = Append(inv, [id |-> r, status |-> "pending", old |-> FALSE,
                                 mailed |-> FALSE])
          /\ \/ Goes(r, "create") /\ UNCHANGED left
             \/ Returns(r) /\ Leaves({<<"unsent", r>>})    \* cannot be read back
       \/ /\ Returns(r)
          /\ UNCHANGED <<inv, left>>
    /\ UNCHANGED <<user, pool>>

\* admin_create_user refuses an address it knows.
InviteCreate(r) ==
    /\ req[r].stage = "create"
    /\ \/ /\ pool = None
          /\ pool' = Account(r, "temporary")
          /\ Goes(r, "row")
       \/ /\ Goes(r, "delete")
          /\ UNCHANGED pool
    /\ UNCHANGED <<user, inv, left>>

\* create_user: the address is unique. The clean-up does not know the account.
InviteRow(r) ==
    /\ req[r].stage = "row"
    /\ \/ /\ user = None
          /\ user' = NewUser(r)
          /\ Goes(r, "mail")
          /\ UNCHANGED left
       \/ /\ Goes(r, "delete")
          /\ Leaves({<<"orphan", r>>})
          /\ UNCHANGED user
    /\ UNCHANGED <<pool, inv>>

InviteMail(r) ==
    /\ req[r].stage = "mail"
    /\ \/ /\ inv' = [k \in DOMAIN inv |->
                        IF inv[k].id = r /\ inv[k].status = "pending"
                        THEN [inv[k] EXCEPT !.mailed = TRUE] ELSE inv[k]]
          /\ Returns(r)
       \/ /\ Goes(r, "delete")
          /\ UNCHANGED inv
    /\ UNCHANGED <<user, pool, left>>

(***************************************************************************)
(* delete_user_by_email, called by DELETE /users and by the clean-up above. *)
(***************************************************************************)
\* For one address the purge of the soft-deleted users is such a call with force.
DeleteAsk(w) ==
    /\ req[w].stage = "idle"
    /\ ThreadFree
    /\ \E force \in BOOLEAN :
          req' = [req EXCEPT ![w].stage = "delete", ![w].flag = force]
    /\ UNCHANGED <<user, pool, inv, left>>

\* What a deletion does, from what it reads of the row.
Deletion(force) ==
    IF user = None THEN "drop"
    ELSE IF user.deleted /\ force THEN "wipe"
    ELSE IF user.active /\ user.verified THEN "disable"
    ELSE IF user.deleted THEN "refuse" ELSE "choose"

\* A clean-up that is refused or fails leaves the invitation of its request.
Unclean(r) == IF r \in Invites THEN {<<"unsent", r>>} ELSE {}

DeleteRead(r) ==
    /\ req[r].stage = "delete"
    /\ \/ /\ Returns(r)
          /\ Leaves(Unclean(r))
       \/ /\ Deletion(req[r].flag) # "refuse"
          /\ req' = [req EXCEPT ![r] = [Fresh(Deletion(req[r].flag)) EXCEPT !.seen = user]]
          /\ UNCHANGED left
    /\ UNCHANGED <<user, pool, inv>>

\* No row: the invitations go, and with them the way to delete the address again.
DeleteDrop(r) ==
    /\ req[r].stage = "drop"
    /\ Locked = {}
    /\ inv' = <<>>
    /\ Returns(r)
    /\ UNCHANGED <<user, pool, left>>

\* An inactive row is removed if an invitation shows that it was invited.
DeleteChoose(r) ==
    /\ req[r].stage = "choose"
    /\ IF \E k \in DOMAIN inv : inv[k].status \in {"pending", "expired"}
       THEN Goes(r, "wipe") /\ UNCHANGED left
       ELSE Returns(r) /\ Leaves(Unclean(r))
    /\ UNCHANGED <<user, pool, inv>>

\* _hard_delete_user: the invitations of this moment, the account of the
\* address, and with the commit the row.
Wipe(r) ==
    /\ req[r].stage = "wipe"
    /\ Locked = {}
    /\ req' = [req EXCEPT ![r].stage = "uncreate",
                          ![r].doomed = Len(inv)]
    /\ UNCHANGED <<user, pool, inv, left>>

WipePool(r) ==
    /\ req[r].stage = "uncreate"
    /\ PoolDeleted(req[r].seen.sub)
    /\ Goes(r, "erase")
    /\ UNCHANGED <<user, inv>>

WipeCommit(r) ==
    /\ req[r].stage = "erase"
    /\ user' = IF RowStands(r) THEN None ELSE user
    /\ inv' = SubSeq(inv, req[r].doomed + 1, Len(inv))
    /\ Leaves(Overtaken(r))
    /\ Returns(r)
    /\ UNCHANGED pool

WipeRollback(r) ==
    /\ req[r].stage = "erase"
    /\ Leaves({<<"halfwiped", req[r].seen.sub>>})
    /\ Returns(r)
    /\ UNCHANGED <<user, pool, inv>>

\* Mutant: the soft deletion leaves Cognito alone.
DisableNothing(r) ==
    /\ req[r].stage = "disable"
    /\ Goes(r, "hide")
    /\ UNCHANGED <<user, pool, inv, left>>

Disable(r) ==
    /\ req[r].stage = "disable"
    /\ PoolSwitched(req[r].seen.sub, FALSE)
    /\ Goes(r, "hide")
    /\ UNCHANGED <<user, inv>>

\* The commit writes the columns that differ from what was read; it fails if
\* the row is gone.
Hide(r) ==
    /\ req[r].stage = "hide"
    /\ user' \in {user} \union
          (IF RowStands(r)
           THEN {[user EXCEPT !.active = FALSE, !.deleted = @ \/ ~req[r].seen.deleted]}
           ELSE {})
    /\ Leaves(Unclean(r))
    /\ Returns(r)
    /\ UNCHANGED <<pool, inv>>

(***************************************************************************)
(* POST /invitations/accept, with the token of the last mail.              *)
(***************************************************************************)
\* validate_invitation_token.
AcceptToken(w) ==
    /\ req[w].stage = "idle"
    /\ ThreadFree
    /\ \E k \in DOMAIN inv :
          /\ inv[k].mailed
          /\ inv[k].status = "pending"
          /\ req' = [req EXCEPT ![w].stage = IF inv[k].old THEN "expire" ELSE "account",
                                ![w].token = inv[k].id]
    /\ UNCHANGED <<user, pool, inv, left>>

AcceptExpire(w) ==
    /\ req[w].stage = "expire"
    /\ StatusSet(req[w].token, "expired")
    /\ Returns(w)
    /\ UNCHANGED <<user, pool, left>>

\* An active user has nothing left to do.
AcceptAccount(w) ==
    /\ req[w].stage = "account"
    /\ IF user = None
       THEN Returns(w)
       ELSE Goes(w, IF user.active THEN "accepted" ELSE "password")
    /\ UNCHANGED <<user, pool, inv, left>>

\* Mutant: a password that could not be set does not stop the activation.
AcceptPasswordUnchecked(w) ==
    /\ req[w].stage = "password"
    /\ pool # None
    /\ pool' \in {pool, [pool EXCEPT !.state = "confirmed"]}
    /\ req' = [req EXCEPT ![w].stage = "activate", ![w].whose = pool.sub]
    /\ UNCHANGED <<user, inv, left>>

\* admin_set_user_password with Permanent confirms the account.
AcceptPassword(w) ==
    /\ req[w].stage = "password"
    /\ \/ /\ pool # None
          /\ pool' = [pool EXCEPT !.state = "confirmed"]
          /\ req' = [req EXCEPT ![w].stage = "activate", ![w].whose = pool.sub]
       \/ /\ Returns(w)
          /\ UNCHANGED pool
    /\ UNCHANGED <<user, inv, left>>

\* activate_user_and_update_password leaves is_deleted as it is.
Activate(w) ==
    /\ req[w].stage = "activate"
    /\ \/ RowActivated(w) /\ req' = [req EXCEPT ![w].stage = "accepted", ![w].whose = None]
       \/ UNCHANGED <<user, left>> /\ Returns(w)
    /\ UNCHANGED <<pool, inv>>

MarkAccepted(w) ==
    /\ req[w].stage = "accepted"
    /\ \/ StatusSet(req[w].token, "accepted")
       \/ UNCHANGED inv
    /\ Returns(w)
    /\ UNCHANGED <<user, pool, left>>

\* regenerate_invitation_token does not look at the status it replaces.
Resend(w) ==
    /\ req[w].stage = "idle"
    /\ ThreadFree
    /\ \E k \in DOMAIN inv, sent \in BOOLEAN :
          /\ inv[k].id \notin Locked
          /\ inv' = [inv EXCEPT ![k] = [id |-> @.id, status |-> "pending", old |-> FALSE,
                                        mailed |-> sent]]
    /\ UNCHANGED <<user, pool, req, left>>

\* Three days pass.
Expire ==
    /\ \E k \in DOMAIN inv :
          /\ inv[k].status = "pending"
          /\ ~inv[k].old
          /\ inv' = [inv EXCEPT ![k].old = TRUE]
    /\ UNCHANGED <<user, pool, req, left>>

(***************************************************************************)
(* POST /signup and /verify-signup.                                        *)
(***************************************************************************)
SignUpCheck(s) ==
    /\ req[s].stage = "new"
    /\ ThreadFree
    /\ s \in SignUps
    /\ IF user = None THEN Goes(s, "signup") ELSE Returns(s)
    /\ UNCHANGED <<user, pool, inv, left>>

\* The role is looked at after the account was made.
SignUpPool(s) ==
    /\ req[s].stage = "signup"
    /\ \/ /\ pool = None
          /\ pool' = Account(s, "unconfirmed")
          /\ \/ Goes(s, "signrow") /\ UNCHANGED left
             \/ Returns(s) /\ Leaves({<<"orphan", s>>})
       \/ /\ Returns(s)
          /\ UNCHANGED <<pool, left>>
    /\ UNCHANGED <<user, inv>>

\* Mutant: no row, and no roll-back of the account.
SignUpRowNoUndo(s) ==
    /\ req[s].stage = "signrow"
    /\ user' \in {user} \union (IF user = None THEN {NewUser(s)} ELSE {})
    /\ Returns(s)
    /\ UNCHANGED <<pool, inv, left>>

SignUpRow(s) ==
    /\ req[s].stage = "signrow"
    /\ \/ /\ user = None
          /\ user' = NewUser(s)
          /\ Returns(s)
       \/ /\ Goes(s, "undo")
          /\ UNCHANGED user
    /\ UNCHANGED <<pool, inv, left>>

SignUpUndo(s) ==
    /\ req[s].stage = "undo"
    /\ PoolDeleted(s)
    /\ Returns(s)
    /\ UNCHANGED <<user, inv>>

VerifyCode(w) ==
    /\ req[w].stage = "idle"
    /\ ThreadFree
    /\ pool # None
    /\ pool.state = "unconfirmed"
    /\ pool' = [pool EXCEPT !.state = "confirmed"]
    /\ req' = [req EXCEPT ![w].stage = "verify", ![w].whose = pool.sub]
    /\ UNCHANGED <<user, inv, left>>

\* update_user_verification_status, by e-mail address.
VerifyUser(w) ==
    /\ req[w].stage = "verify"
    /\ RowActivated(w) \/ UNCHANGED <<user, left>>
    /\ Returns(w)
    /\ UNCHANGED <<pool, inv>>

(***************************************************************************)
(* PUT /users/{email}/edit with is_active, and the deactivation by a       *)
(* company's administrator.                                                *)
(***************************************************************************)
EditRead(w) ==
    /\ req[w].stage = "idle"
    /\ ThreadFree
    /\ user # None
    /\ \E on \in BOOLEAN :
          req' = [req EXCEPT ![w].stage = "editcheck", ![w].seen = user, ![w].flag = on]
    /\ UNCHANGED <<user, pool, inv, left>>

\* Any of the invitations may be the one the query returns.
EditCheck(w) ==
    /\ req[w].stage = "editcheck"
    /\ \/ /\ inv = <<>> \/ \E k \in DOMAIN inv : inv[k].status = "accepted"
          /\ Goes(w, "edit")
       \/ /\ \E k \in DOMAIN inv : inv[k].status # "accepted"
          /\ Returns(w)
    /\ UNCHANGED <<user, pool, inv, left>>

\* The commit writes the columns that differ from what was read.
EditCommit(w) ==
    LET on == req[w].flag
        seen == req[w].seen
    IN  /\ req[w].stage = "edit"
        /\ \/ /\ RowStands(w)
              /\ user' = [user EXCEPT !.active = IF seen.active = on THEN @ ELSE on,
                                      !.deleted = IF seen.deleted = ~on THEN @ ELSE ~on]
              /\ Leaves(Overtaken(w))
              /\ Goes(w, "flip")
           \/ /\ Returns(w)
              /\ UNCHANGED <<user, left>>
        /\ UNCHANGED <<pool, inv>>

EditFlip(w) ==
    /\ req[w].stage = "flip"
    /\ PoolSwitched(req[w].seen.sub, req[w].flag)
    /\ Returns(w)
    /\ UNCHANGED <<user, inv>>

\* The other columns stay as they are, and Cognito is not told.
Deactivate(w) ==
    /\ req[w].stage = "idle"
    /\ ThreadFree
    /\ user # None
    /\ user' = [user EXCEPT !.active = FALSE]
    /\ UNCHANGED <<pool, inv, req, left>>

InviteStep(r) ==
    \/ InviteCheck(r)
    \/ InviteLapse(r)
    \/ InviteRecord(r)
    \/ InviteCreate(r)
    \/ InviteRow(r)
    \/ InviteMail(r)

DeleteStep(r) ==
    \/ DeleteRead(r)
    \/ DeleteDrop(r)
    \/ DeleteChoose(r)
    \/ Wipe(r)
    \/ WipePool(r)
    \/ WipeCommit(r)
    \/ WipeRollback(r)
    \/ Disable(r)
    \/ Hide(r)

WorkerStep(w) ==
    \/ DeleteAsk(w)
    \/ AcceptToken(w)
    \/ AcceptExpire(w)
    \/ AcceptAccount(w)
    \/ AcceptPassword(w)
    \/ Activate(w)
    \/ MarkAccepted(w)
    \/ Resend(w)
    \/ VerifyCode(w)
    \/ VerifyUser(w)
    \/ EditRead(w)
    \/ EditCheck(w)
    \/ EditCommit(w)
    \/ EditFlip(w)
    \/ Deactivate(w)

SignUpStep(s) ==
    \/ SignUpCheck(s)
    \/ SignUpPool(s)
    \/ SignUpRow(s)
    \/ SignUpUndo(s)

Next ==
    \/ \E r \in Invites : InviteStep(r)
    \/ \E r \in Invites \union Workers : DeleteStep(r)
    \/ \E w \in Workers : WorkerStep(w)
    \/ \E s \in SignUps : SignUpStep(s)
    \/ Expire

Spec == Init /\ [][Next]_vars

-----------------------------------------------------------------------------

AtRest == \A r \in Requests : req[r].stage \in Waiting

Left(kind, s) == <<kind, s>> \in left

\* Between requests the row, the account and the invitation of an address fit
\* together. An account in Cognito has its row: without it the address can be
\* neither used nor invited nor deleted. This is what the order of the calls and
\* the clean-ups of invite_user, SignupView and _hard_delete_user are for. A row
\* has its account, except after a deletion that was rolled back, or one that met
\* an account younger than what it had read: _hard_delete_user deletes from
\* Cognito by address, and before it commits. And who holds a mail with a pending
\* invitation has a row to activate, so accepting it does not answer "User
\* account not found": the mail is sent last, and the clean-ups take the
\* invitation with the row. What else is left is explained by a mishap.
AddressConsistent ==
    AtRest =>
        /\ pool # None /\ (user = None \/ user.sub # pool.sub) =>
              Left("orphan", pool.sub) \/ Left("undeleted", pool.sub)
        /\ user # None /\ (pool = None \/ pool.sub # user.sub) =>
              Left("halfwiped", user.sub) \/ Left("overtaken", user.sub)
        /\ (\E k \in DOMAIN inv : inv[k].mailed /\ inv[k].status = "pending") =>
              \/ user # None
              \/ \E s \in Subs, kind \in {"unsent", "halfwiped", "overtaken"} : Left(kind, s)

CanLogIn ==
    /\ user # None /\ user.active
    /\ pool # None /\ pool.sub = user.sub /\ pool.state = "confirmed" /\ pool.enabled

\* A soft-deleted user stays out, whatever invitation is sent again and
\* accepted afterwards: accepting sets is_active, and only the account that
\* delete_user_by_email disabled keeps the user out. The exceptions are a
\* disabling that failed and an edit that crossed the deletion.
DeletedStaysOut ==
    AtRest /\ CanLogIn /\ user.deleted => Left("enabled", user.sub) \/ Left("overtaken", user.sub)

\* is_email_verified is only set after Cognito has confirmed the account, by code
\* or by password; both updates go by address, so a deletion and a new
\* invitation between the two steps make them meet another row.
VerifiedIsConfirmed ==
    user # None /\ user.verified /\ pool # None /\ pool.sub = user.sub
        => pool.state = "confirmed" \/ Left("crossed", user.sub)

\* invite_user "Automatically cleans up unconfirmed users from DB & Cognito if any
\* step fails": no step of an invitation changes a confirmed user. It does:
\* nothing in the handler looks for one.
OnlyUnconfirmedCleanedUp ==
    [][ (\E r \in Invites : req'[r] # req[r]) /\ user # None /\ user.active /\ user.verified
        => user' = user ]_vars

=============================================================================
