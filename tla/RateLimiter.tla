---------------------------- MODULE RateLimiter ----------------------------
(***************************************************************************)
(* The request quotas of Meridian (ai/meridian/quotas/rate_limiter.py): a  *)
(* user may send so many requests in a minute, an hour and a day. The      *)
(* numbers are those of the organization the request comes from, which can *)
(* be changed at any time, but the timestamps are kept for each user, over *)
(* all organizations. One user is modelled.                                *)
(***************************************************************************)
EXTENDS Naturals, FiniteSets, FiniteSetsExt

CONSTANTS
    Asks,          \* the requests of the user
    Orgs,          \* organizations, the absent one included
    Length,        \* [Spans -> Nat]
    Configs,       \* subset of [Spans -> Nat]
    DefaultConfig,
    MaxNow         \* bound of the time

Spans == {"minute", "hour", "day"}

ASSUME QuotaAssumption ==
    /\ IsFiniteSet(Asks)
    /\ Length \in [Spans -> Nat \ {0}]
    /\ \A s \in Spans : Length[s] <= Length["day"]
    /\ IsFiniteSet(Configs)
    /\ Configs \subseteq [Spans -> Nat]
    /\ DefaultConfig \in Configs
    /\ MaxNow \in Nat

VARIABLES
    now,
    windows,     \* the timestamps kept for the user, with the request each is of
    granted,     \* every request that was allowed, and when
    orgConfigs   \* [Orgs -> Configs]; the default where none was set

quotaVars == <<now, windows, granted, orgConfigs>>

QuotaInit ==
    /\ now = 0
    /\ windows = {}
    /\ granted = {}
    /\ orgConfigs = [o \in Orgs |-> DefaultConfig]

ConfigureOrg(o, c) ==
    /\ orgConfigs' = [orgConfigs EXCEPT ![o] = c]
    /\ UNCHANGED <<now, windows, granted>>

\* Mutant: the timestamps are pruned by the shortest span.
PrunedSoon == {t \in windows : \A s \in Spans : t.at + Length[s] > now}

Pruned == {t \in windows : t.at + Length["day"] > now}

Within(s) == {t \in Pruned : t.at + Length[s] > now}

\* One of the three limits is reached. The pruned list is kept.
Deny(q, o) ==
    /\ \A t \in granted : t.call # q
    /\ \E s \in Spans : Cardinality(Within(s)) >= orgConfigs[o][s]
    /\ windows' = Pruned
    /\ UNCHANGED <<now, granted, orgConfigs>>

Grant(q, o) ==
    /\ \A t \in granted : t.call # q
    /\ \A s \in Spans : Cardinality(Within(s)) < orgConfigs[o][s]
    /\ windows' = Pruned \union {[call |-> q, at |-> now]}
    /\ granted' = granted \union {[call |-> q, at |-> now]}
    /\ UNCHANGED <<now, orgConfigs>>

QuotaTick ==
    /\ now < MaxNow
    /\ now' = now + 1
    /\ UNCHANGED <<windows, granted, orgConfigs>>

QuotaNext ==
    \/ QuotaTick
    \/ \E o \in Orgs : \E c \in Configs : ConfigureOrg(o, c)
    \/ \E q \in Asks : \E o \in Orgs : Grant(q, o) \/ Deny(q, o)

QuotaSpec == QuotaInit /\ [][QuotaNext]_quotaVars

-----------------------------------------------------------------------------
\* Whatever organizations a user sends requests from and however their limits
\* change, no minute, hour or day holds more of its requests than the largest
\* limit ever in force for that span.
Largest(s) == Max({c[s] : c \in Configs})

MinuteQuota == INSTANCE SlidingWindow WITH
    Calls <- Asks, Width <- Length["minute"], Limit <- Largest("minute"), admitted <- granted
HourQuota == INSTANCE SlidingWindow WITH
    Calls <- Asks, Width <- Length["hour"], Limit <- Largest("hour"), admitted <- granted
DayQuota == INSTANCE SlidingWindow WITH
    Calls <- Asks, Width <- Length["day"], Limit <- Largest("day"), admitted <- granted

KeepsTheQuotas == MinuteQuota!Spec /\ HourQuota!Spec /\ DayQuota!Spec
=============================================================================
