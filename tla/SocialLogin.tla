----------------------------- MODULE SocialLogin -----------------------------
(***************************************************************************)
(* Logins with Google or Facebook (users/auth_service/user_auth.py). For   *)
(* each provider Cognito keeps an identity of the person, with a sub of    *)
(* its own; the row of the user, of which an address has only one, is that *)
(* of the identity that came first. An identity of another provider is     *)
(* deleted when it turns up. One address is modelled.                      *)
(***************************************************************************)
EXTENDS Requests

CONSTANTS
    Providers,   \* Google and Facebook
    Subs,        \* what Cognito may name an identity
    OwnSub       \* the sub of an account with a password

Own        == [provider |-> "cognito", sub |-> OwnSub]
Identities == [provider : Providers, sub : Subs] \union {Own}

ASSUME SocialAssumption ==
    /\ OwnSub \notin Subs /\ "cognito" \notin Providers
    /\ None \notin Identities

VARIABLES
    identities,   \* what Cognito has for the address: [provider, sub]
    user,         \* the row, as the identity it was created for, or None
    handed,       \* the last tokens: [sub, user], whose they are and for what row
    unsettled     \* whether the row was purged during a login

socialVars == <<identities, user, handed, unsettled>>

SocialInit ==
    /\ user \in {None, Own}
    /\ identities = {user} \ {None}
    /\ handed = None
    /\ unsettled = FALSE

LoggingIn == AtStep("find") \union AtStep("look_up") \union AtStep("create") \union AtStep("delete")

Used == {i.sub : i \in identities} \union {IF user = None THEN OwnSub ELSE user.sub}
            \union {req[r].who.sub : r \in LoggingIn}

\* The person logs in with the provider; Cognito makes the identity it lacks.
Authorize(r, p) ==
    /\ TakenUp(r)
    /\ \E i \in [provider : {p}, sub : Subs] :
        /\ i \in identities \/ (i.sub \notin Used /\ \A j \in identities : j.provider # p)
        /\ identities' = identities \union {i}
        /\ Goes(r, [step |-> "find", who |-> i])
    /\ UNCHANGED <<user, handed, unsettled>>

\* get_user_by_email, which finds nobody when its query fails.
FindUser(r) ==
    /\ At(r, "find")
    /\ \E found \in {user, None} :
          Goes(r, [step |-> "look_up", who |-> req[r].who, found |-> found])
    /\ UNCHANGED socialVars

HandTokens(i, u) == handed' = [sub |-> i.sub, user |-> u.sub]

\* The name of the identity is fetched; without it the login fails.
LookUpIdentity(r) ==
    LET who == req[r].who  found == req[r].found IN
    /\ At(r, "look_up")
    /\ \/ /\ who \notin identities
          /\ Ends(r) /\ UNCHANGED handed
       \/ /\ who \in identities /\ found = None
          /\ Goes(r, [step |-> "create", who |-> who]) /\ UNCHANGED handed
       \/ /\ who \in identities /\ found # None
          /\ IF found.provider = who.provider
             THEN Ends(r) /\ HandTokens(who, found)
             ELSE Goes(r, [step |-> "delete", who |-> who]) /\ UNCHANGED handed
    /\ UNCHANGED <<identities, user, unsettled>>

\* Mutant: the identities are deleted by address.
DeleteAll(r) ==
    /\ At(r, "delete")
    /\ identities' = {}
    /\ Ends(r)
    /\ UNCHANGED <<user, handed, unsettled>>

DeleteIdentity(r) ==
    /\ At(r, "delete")
    /\ identities' = identities \ {req[r].who}
    /\ Ends(r)
    /\ UNCHANGED <<user, handed, unsettled>>

\* create_user, which fails if the address has a row meanwhile. The identity
\* then stays, until the person logs in with it again.
CreateSocialUser(r) ==
    /\ At(r, "create")
    /\ user = None
    /\ user' = req[r].who
    /\ HandTokens(req[r].who, req[r].who)
    /\ Ends(r)
    /\ UNCHANGED <<identities, unsettled>>

SocialFails(r) ==
    /\ r \in LoggingIn
    /\ RolledBack(r)
    /\ UNCHANGED socialVars

\* The user is purged: the row, and the identity whose name is the address.
PurgeUser ==
    /\ user # None
    /\ user' = None
    /\ identities' = identities \ {Own}
    /\ unsettled' = (unsettled \/ LoggingIn # {})
    /\ UNCHANGED <<req, handed>>

SocialNext ==
    \/ \E r \in Requests :
        \/ \E p \in Providers : Authorize(r, p)
        \/ FindUser(r) \/ LookUpIdentity(r) \/ DeleteIdentity(r)
        \/ CreateSocialUser(r) \/ SocialFails(r)
    \/ PurgeUser

-----------------------------------------------------------------------------
\* The tokens of a login carry the id of the row it was answered for, which all
\* that the user writes refers to: logins with other providers never make
\* Cognito forget the identity of the row. Only a purge during a login can.
TokensNameUser == handed # None /\ ~unsettled => handed.sub = handed.user
=============================================================================
