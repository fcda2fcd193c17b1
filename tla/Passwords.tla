------------------------------ MODULE Passwords ------------------------------
(***************************************************************************)
(* The password of one account (users/auth_service/user_auth.py). It is    *)
(* kept twice: Cognito checks it at every login, and the row of the user   *)
(* keeps a hash, against which a change of the password is checked. Each   *)
(* new password is written to Cognito and then to the row, by two calls of *)
(* which the second may fail. A login reads Cognito and writes neither.    *)
(***************************************************************************)
EXTENDS Requests

CONSTANTS
    PasswordSet,
    FirstPassword

ASSUME PasswordsAssumption == FirstPassword \in PasswordSet

VARIABLES
    active,        \* is_active of the row
    mailed,        \* whether a link to reset the password is out
    poolPassword,  \* Cognito
    rowPassword,   \* the row
    acknowledged,  \* the password the last successful answer was about
    alone,         \* the requests that write and have met no other that writes
    mixed          \* whether writes have met or stopped half-way, and no
                   \* password has been set without that since

passwordVars == <<active, mailed, poolPassword, rowPassword, acknowledged, alone, mixed>>

PasswordsInit ==
    /\ active = TRUE /\ mailed = FALSE
    /\ poolPassword = FirstPassword /\ rowPassword = FirstPassword
    /\ acknowledged = FirstPassword
    /\ alone = {} /\ mixed = FALSE

Writing == AtStep("set_row")
ToPool(p) == [step |-> "set_pool", password |-> p]

RequestPasswordReset(r) ==
    /\ Whole(r)
    /\ active
    /\ mailed' = TRUE
    /\ UNCHANGED <<active, poolPassword, rowPassword, acknowledged, alone, mixed>>

\* The link may be used as long as it is valid.
ResetPassword(r, p) ==
    /\ TakenUp(r)
    /\ mailed /\ active
    /\ Goes(r, ToPool(p))
    /\ UNCHANGED passwordVars

ChangePassword(r, current, p) ==
    /\ TakenUp(r)
    /\ current = rowPassword
    /\ Goes(r, ToPool(p))
    /\ UNCHANGED passwordVars

\* Mutant: the result of Cognito is not looked at.
SetUnchecked(r) ==
    /\ At(r, "set_pool")
    /\ poolPassword' \in {req[r].password, poolPassword}
    /\ Goes(r, [step |-> "set_row", password |-> req[r].password])
    /\ alone' = IF Writing = {} THEN {r} ELSE {}
    /\ UNCHANGED <<active, mailed, rowPassword, acknowledged, mixed>>

\* admin_set_user_password
AdminSetUserPassword(r) ==
    /\ At(r, "set_pool")
    /\ poolPassword' = req[r].password
    /\ Goes(r, [step |-> "set_row", password |-> req[r].password])
    /\ alone' = IF Writing = {} THEN {r} ELSE {}
    /\ UNCHANGED <<active, mailed, rowPassword, acknowledged, mixed>>

\* update_user_password
UpdateUserPassword(r) ==
    /\ At(r, "set_row")
    /\ rowPassword' = req[r].password
    /\ acknowledged' = req[r].password
    /\ mixed' = (r \notin alone)
    /\ alone' = alone \ {r}
    /\ Ends(r)
    /\ UNCHANGED <<active, mailed, poolPassword>>

\* Cognito refuses, the database fails, or the process ends.
PasswordFails(r) ==
    /\ At(r, "set_pool") \/ At(r, "set_row")
    /\ mixed' = (mixed \/ At(r, "set_row"))
    /\ alone' = alone \ {r}
    /\ RolledBack(r)
    /\ UNCHANGED <<active, mailed, poolPassword, rowPassword, acknowledged>>

\* An administrator edits the user.
SetActive ==
    /\ active' = ~active
    /\ UNCHANGED <<req, mailed, poolPassword, rowPassword, acknowledged, alone, mixed>>

PasswordsNext ==
    \/ \E r \in Requests :
        \/ RequestPasswordReset(r)
        \/ \E p \in PasswordSet : ResetPassword(r, p)
        \/ \E current, p \in PasswordSet : ChangePassword(r, current, p)
        \/ AdminSetUserPassword(r) \/ UpdateUserPassword(r) \/ PasswordFails(r)
    \/ SetActive

-----------------------------------------------------------------------------
\* Cognito and the row hold the password that was acknowledged last, unless a
\* request is between its two writes, or two of them met or one of them stopped
\* half-way and the password has not been set without that since. Otherwise the
\* user could log in with one password and be asked for another to change it.
PasswordsAgree ==
    Writing = {} /\ ~mixed =>
        poolPassword = rowPassword /\ rowPassword = acknowledged
=============================================================================
