------------------------------ MODULE SubCache ------------------------------
(***************************************************************************)
(* The id of a user who logs in with a magic link (users/auth.py): the     *)
(* token carries an id of another database, which is replaced by that of   *)
(* the row with the same address, kept in a cache of the process for ten   *)
(* minutes. Requests look into the cache, into the database and into the   *)
(* cache again, each in its thread and without a lock. Meanwhile users are *)
(* purged, and invited again under a new id.                               *)
(***************************************************************************)
EXTENDS Requests

CONSTANTS
    Emails,
    UserIds,
    Ttl,         \* _SUB_CACHE_TTL
    CacheMax,    \* _SUB_CACHE_MAX
    MaxClock     \* bound of the clock

ASSUME CacheAssumption ==
    /\ IsFiniteSet(Emails) /\ None \notin UserIds
    /\ Ttl \in Nat \ {0} /\ CacheMax \in Nat \ {0} /\ MaxClock \in Nat

VARIABLES
    clock,
    users,      \* [Emails -> UserIds \cup {None}]
    gone,       \* the time at which an id ceased to be one, or None
    cache,      \* [Emails -> [sub, expires] or None]
    served      \* the last request served: the id and when the request came

cacheVars == <<clock, users, gone, cache, served>>

CacheInit ==
    /\ clock = 0
    /\ users = [e \in Emails |-> None]
    /\ gone = [i \in UserIds |-> None]
    /\ cache = [e \in Emails |-> None]
    /\ served = None

Cached == {e \in Emails : cache[e] # None}

\* A hit, or the time and the address to look for.
VerifyToken(r, e) ==
    /\ TakenUp(r)
    /\ IF e \in Cached /\ cache[e].expires > clock
       THEN Ends(r) /\ served' = [sub |-> cache[e].sub, at |-> clock]
       ELSE Goes(r, [step |-> "query", email |-> e, since |-> clock]) /\ UNCHANGED served
    /\ UNCHANGED <<clock, users, gone, cache>>

\* Without a row, or without a database, the token's own id is kept.
QueryUser(r) ==
    /\ At(r, "query")
    /\ IF users[req[r].email] = None
       THEN Ends(r)
       ELSE Goes(r, [step |-> "keep", email |-> req[r].email,
                     sub |-> users[req[r].email], since |-> req[r].since])
    /\ UNCHANGED cacheVars

\* The oldest half is dropped from a full cache; which half that is does not
\* matter here.
Dropped == IF Cardinality(Cached) < CacheMax THEN {{}}
           ELSE {d \in SUBSET Cached : Cardinality(d) = CacheMax \div 2}

\* Mutant: the time to live begins when the id is put into the cache.
KeepFromNow(r) ==
    /\ At(r, "keep")
    /\ \E d \in Dropped : cache' =
        [[e \in Emails |-> IF e \in d THEN None ELSE cache[e]]
            EXCEPT ![req[r].email] = [sub |-> req[r].sub, expires |-> clock + Ttl]]
    /\ served' = [sub |-> req[r].sub, at |-> req[r].since]
    /\ Ends(r)
    /\ UNCHANGED <<clock, users, gone>>

Keep(r) ==
    /\ At(r, "keep")
    /\ \E d \in Dropped : cache' =
        [[e \in Emails |-> IF e \in d THEN None ELSE cache[e]]
            EXCEPT ![req[r].email] = [sub |-> req[r].sub, expires |-> req[r].since + Ttl]]
    /\ served' = [sub |-> req[r].sub, at |-> req[r].since]
    /\ Ends(r)
    /\ UNCHANGED <<clock, users, gone>>

CacheFails(r) == At(r, "query") /\ RolledBack(r) /\ UNCHANGED cacheVars

Remove(e) ==
    /\ users[e] # None
    /\ gone' = [gone EXCEPT ![users[e]] = clock]
    /\ users' = [users EXCEPT ![e] = None]
    /\ UNCHANGED <<req, clock, cache, served>>

Create(e, i) ==
    /\ users[e] = None
    /\ gone[i] = None /\ \A f \in Emails : users[f] # i
    /\ users' = [users EXCEPT ![e] = i]
    /\ UNCHANGED <<req, clock, gone, cache, served>>

Wait ==
    /\ clock < MaxClock
    /\ clock' = clock + 1
    /\ UNCHANGED <<req, users, gone, cache, served>>

CacheNext ==
    \/ \E r \in Requests :
        \/ \E e \in Emails : VerifyToken(r, e)
        \/ QueryUser(r) \/ Keep(r) \/ CacheFails(r)
    \/ \E e \in Emails : Remove(e) \/ \E i \in UserIds : Create(e, i)
    \/ Wait

-----------------------------------------------------------------------------
\* Whatever the requests find in the cache, and however long they take to fill
\* it, a request is served under an id that was the user's less than the time to
\* live before the request came: what it writes fails no longer than that.
ServedFresh ==
    served # None =>
        gone[served.sub] = None \/ served.at < gone[served.sub] + Ttl
=============================================================================
