--------------------------- MODULE RateLimitStore ---------------------------
(***************************************************************************)
(* The rate limit in front of the REST interface (prism_inspire/middleware *)
(* /rate_limiter.py): one key of the store, which is one client asking for *)
(* one method and path, with its limit and window. The check has no await, *)
(* so requests are checked one after the other. Time is counted in         *)
(* fractions of a second, for the answer is in whole seconds.              *)
(***************************************************************************)
EXTENDS Naturals, FiniteSets, FiniteSetsExt

CONSTANTS
    Hits,          \* the requests of the client
    NoPromise,
    UnitsPerSecond,
    WindowSeconds, \* length of the window
    MaxRequests,   \* requests in a window
    MaxTime        \* bound of the clock

ASSUME StoreAssumption ==
    /\ IsFiniteSet(Hits)
    /\ UnitsPerSecond \in Nat \ {0}
    /\ WindowSeconds \in Nat \ {0}
    /\ MaxRequests \in Nat \ {0}
    /\ MaxTime \in Nat

VARIABLES
    clock,
    stored,     \* the timestamps of the key, each with the request it is of
    passed,     \* every request that was allowed, and when
    promise     \* since when the client may try again, if it was last refused

storeVars == <<clock, stored, passed, promise>>

StoreInit == clock = 0 /\ stored = {} /\ passed = {} /\ promise = NoPromise

Window   == WindowSeconds * UnitsPerSecond
Fresh(r) == \A h \in passed : h.call # r
Stamp(r) == [call |-> r, at |-> clock]

\* The cleanup keeps two windows, the check looks at one.
Kept == {h \in stored : clock < h.at + 2 * Window}

\* Mutant: the age of a timestamp is rounded up to whole seconds.
ValidRounded == {h \in stored : clock + UnitsPerSecond < h.at + Window + 1}

Valid == {h \in stored : clock < h.at + Window}

\* Mutant: the fraction is cut off.
RetryEarly == (Min({h.at : h \in Valid}) + Window - clock) \div UnitsPerSecond

\* In whole seconds, and one more for the fraction that was cut off.
RetryAfter == (Min({h.at : h \in Valid}) + Window - clock) \div UnitsPerSecond + 1

\* The timestamps that are no longer valid are dropped.
Allow(r) ==
    /\ Fresh(r)
    /\ Cardinality(Valid) < MaxRequests
    /\ stored' = Valid \union {Stamp(r)}
    /\ passed' = passed \union {Stamp(r)}
    /\ promise' = NoPromise
    /\ UNCHANGED clock

Refuse(r) ==
    /\ Fresh(r)
    /\ Cardinality(Valid) >= MaxRequests
    /\ stored' = Kept
    /\ promise' = clock + UnitsPerSecond * RetryAfter
    /\ UNCHANGED <<clock, passed>>

StoreTick ==
    /\ clock < MaxTime
    /\ clock' = clock + 1
    /\ UNCHANGED <<stored, passed, promise>>

StoreNext == StoreTick \/ \E r \in Hits : Allow(r) \/ Refuse(r)

StoreSpec == StoreInit /\ [][StoreNext]_storeVars

-----------------------------------------------------------------------------
\* Dropping what is no longer valid loses nothing that counts: of all requests
\* ever allowed, no span of the window's length holds more than the limit,
\* wherever it begins (class RateLimitStore, "enforcing a maximum number of
\* requests within a rolling time window").
StoreWindow == INSTANCE SlidingWindow WITH
    Calls <- Hits, Width <- Window, Limit <- MaxRequests,
    now <- clock, admitted <- passed

KeepsTheLimit == StoreWindow!Spec

\* A client that was refused and waits as long as Retry-After says, without
\* another of its requests being allowed meanwhile, finds room.
RetryHonoured ==
    promise # NoPromise => (clock >= promise => Cardinality(Valid) < MaxRequests)
=============================================================================
