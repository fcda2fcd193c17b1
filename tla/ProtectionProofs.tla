--------------------------- MODULE ProtectionProofs ---------------------------
(***************************************************************************)
(* Proofs about the services that keep their state in the memory of a      *)
(* process, for every value of the constants. The rate limit and the quotas *)
(* implement a sliding window and bound every window, wherever it begins,  *)
(* and a client that waits as long as it is told finds room. Test calls are *)
(* spaced, rules only tighten, and whatever a message says its plan names  *)
(* agents and actions that are there.                                      *)
(***************************************************************************)
EXTENDS Protection, FiniteSetTheorems, TLAPS

(***************************************************************************)
(* Numbers and windows.                                                    *)
(***************************************************************************)
\* Of finitely many numbers one is the greatest: of the smallest set without a
\* greatest one, all but one number have a greatest.
LEMMA SomeGreatest ==
  ASSUME NEW S, IsFiniteSet(S), S # {}, S \subseteq Nat
  PROVE  Max(S) \in S /\ \A n \in S : n <= Max(S)
<1> DEFINE Greatest(T) == \E n \in T : \A k \in T : k <= n
           Bad == {T \in SUBSET S : T # {} /\ ~Greatest(T)}
           Smaller == StrictSubsetOrdering(S)
<1>1. Bad = {}
  <2> SUFFICES ASSUME Bad # {} PROVE FALSE
    OBVIOUS
  <2>1. FiniteSubsetsOf(S) = SUBSET S
    BY FS_FiniteSubsetsOfFinite
  <2>2. IsWellFoundedOn(Smaller, SUBSET S)
    BY <2>1, FS_StrictSubsetOrderingWellFounded
  <2>3. Bad \subseteq SUBSET S
    OBVIOUS
  <2> HIDE DEF Bad, Smaller
  <2>4. PICK T \in Bad : \A U \in Bad : <<U, T>> \notin Smaller
    BY <2>2, <2>3, WFMin
  <2>5. T \subseteq S /\ T # {} /\ ~Greatest(T)
    BY DEF Bad
  <2>6. PICK x \in T : TRUE
    BY <2>5
  <2> DEFINE Rest == T \ {x}
  <2>7. <<Rest, T>> \in Smaller
    BY <2>5, <2>6 DEF Smaller, StrictSubsetOrdering
  <2>8. Rest = {} \/ Greatest(Rest)
    BY <2>4, <2>5, <2>7 DEF Bad
  <2>9. CASE Rest = {}
    <3>1. T = {x} /\ x \in Nat
      BY <2>5, <2>6, <2>9
    <3> QED
      BY <2>5, <3>1
  <2>10. CASE Greatest(Rest)
    <3>1. PICK n \in Rest : \A k \in Rest : k <= n
      BY <2>10
    <3>2. n \in Nat /\ x \in Nat /\ n \in T
      BY <2>5, <2>6, <3>1
    <3>3. \A k \in T : k <= n \/ k = x
      BY <3>1
    <3>4. CASE x <= n
      BY <2>5, <3>2, <3>3, <3>4
    <3>5. CASE ~(x <= n)
      <4>1. \A k \in T : k \in Nat /\ k <= x
        BY <2>5, <3>2, <3>3, <3>5
      <4> QED
        BY <2>5, <2>6, <4>1
    <3> QED
      BY <3>4, <3>5
  <2> QED
    BY <2>8, <2>9, <2>10
<1>2. Greatest(S)
  BY <1>1
<1>3. \E n \in S : \A k \in S : n >= k
  BY <1>2
<1> QED
  BY <1>3 DEF Max

LEMMA SomeSmallest ==
  ASSUME NEW S, S # {}, S \subseteq Nat
  PROVE  Min(S) \in S /\ \A n \in S : Min(S) <= n
<1>1. PICK x \in S : \A y \in S : ~(<<y, x>> \in OpToRel(<, Nat))
  BY NatLessThanWellFounded, WFMin
<1>2. \A y \in S : x \in Nat /\ y \in Nat /\ x <= y
  <2> SUFFICES ASSUME NEW y \in S, y < x PROVE FALSE
    OBVIOUS
  <2>1. <<y, x>> \in Nat \X Nat /\ <<y, x>>[1] < <<y, x>>[2]
    OBVIOUS
  <2>2. <<y, x>> \in OpToRel(<, Nat)
    BY <2>1 DEF OpToRel
  <2> QED
    BY <1>1, <2>2
<1>3. \E n \in S : \A k \in S : n <= k
  BY <1>2
<1> QED
  BY <1>3 DEF Min

(***************************************************************************)
(* Windows. Of the hits that were admitted, those in the window that      *)
(* begins with one of them.                                                *)
(***************************************************************************)
InWindow(hits, h, width) == {g \in hits : h.at <= g.at /\ g.at < h.at + width}

AllBounded(hits, width, limit) == \A h \in hits : Cardinality(InWindow(hits, h, width)) <= limit

\* Who looks only at the window that ends now keeps all windows bounded.
LEMMA WindowsStayBounded ==
  ASSUME NEW hits, IsFiniteSet(hits), NEW t \in Nat, \A h \in hits : h.at \in Nat /\ h.at <= t,
         NEW width \in Nat, NEW limit \in Nat, AllBounded(hits, width, limit),
         Cardinality({h \in hits : t < h.at + width}) < limit,
         NEW new, new.at = t
  PROVE  AllBounded(hits \union {new}, width, limit)
<1> DEFINE recent == {h \in hits : t < h.at + width}
<1>1. IsFiniteSet(recent) /\ Cardinality(recent) \in Nat
  BY FS_Subset, FS_CardinalityType
<1>2. /\ IsFiniteSet(recent \union {new})
      /\ Cardinality(recent \union {new}) \in Nat
      /\ Cardinality(recent \union {new}) <= limit
  <2>1. Cardinality(recent) + 1 <= limit
    BY <1>1
  <2> HIDE DEF recent
  <2>2. /\ IsFiniteSet(recent \union {new})
        /\ Cardinality(recent \union {new}) \in {Cardinality(recent), Cardinality(recent) + 1}
    BY <1>1, FS_AddElement
  <2> QED
    BY <1>1, <2>1, <2>2
<1> SUFFICES ASSUME NEW h \in hits \union {new}
             PROVE  Cardinality(InWindow(hits \union {new}, h, width)) <= limit
  BY DEF AllBounded
<1>3. CASE new \in InWindow(hits \union {new}, h, width)
  \* Its window reaches to now, so that all of it is recent.
  <2>1. h.at \in Nat /\ t < h.at + width
    BY <1>3 DEF InWindow
  <2>2. InWindow(hits \union {new}, h, width) \subseteq recent \union {new}
    BY <2>1 DEF InWindow
  <2> DEFINE some == InWindow(hits \union {new}, h, width)
             all == recent \union {new}
  <2>3. some \subseteq all /\ IsFiniteSet(all) /\ Cardinality(all) <= limit /\ Cardinality(all) \in Nat
    BY <1>2, <2>2
  <2> HIDE DEF some, all
  <2>4. Cardinality(some) <= Cardinality(all) /\ Cardinality(some) \in Nat
    BY <2>3, FS_Subset, FS_CardinalityType
  <2>5. Cardinality(some) <= limit
    BY <2>3, <2>4
  <2> QED
    BY <2>5 DEF some
<1>4. CASE new \notin InWindow(hits \union {new}, h, width) /\ h \in hits
  <2>1. InWindow(hits \union {new}, h, width) = InWindow(hits, h, width)
    BY <1>4 DEF InWindow
  <2> QED
    BY <1>4, <2>1 DEF AllBounded
<1>5. CASE new \notin InWindow(hits \union {new}, h, width) /\ h = new
  <2>1. width = 0
    BY <1>5 DEF InWindow
  <2>2. InWindow(hits \union {new}, h, width) = {}
    BY <1>5, <2>1 DEF InWindow
  <2>3. Cardinality(InWindow(hits \union {new}, h, width)) = 0
    BY <2>2, FS_EmptySet
  <2> QED
    BY <2>3
<1> QED
  BY <1>3, <1>4, <1>5

-----------------------------------------------------------------------------
(***************************************************************************)
(* The rate limit of the REST interface.                                   *)
(***************************************************************************)
\* The timestamps that are kept were allowed, and those forgotten are older
\* than the window.
Remembered ==
    /\ clock \in Nat
    /\ \A h \in passed : h.at \in Nat
    /\ stored \subseteq passed
    /\ \A h \in passed : clock < h.at + Window => h \in stored

LEMMA WindowType == Window \in Nat
BY StoreAssumption DEF Window

\* What counts for the check is what counts for the promise.
LEMMA ValidIsRecent == Remembered => Valid = StoreWindow!Recent
<1> SUFFICES ASSUME Remembered PROVE Valid = StoreWindow!Recent
  OBVIOUS
<1>1. \A h \in passed : clock < h.at + Window <=> h.at + Window > clock
  BY WindowType DEF Remembered
<1> QED
  BY <1>1 DEF Remembered, Valid, StoreWindow!Recent

LEMMA SameCardinality == ASSUME NEW S PROVE StoreWindow!Cardinality(S) = Cardinality(S)
BY DEF StoreWindow!Cardinality, Cardinality

LEMMA RememberedInit == StoreInit => Remembered
BY DEF StoreInit, Remembered

LEMMA RememberedNext == Remembered /\ [StoreNext]_storeVars => Remembered'
<1> SUFFICES ASSUME Remembered, [StoreNext]_storeVars PROVE Remembered'
  OBVIOUS
<1> USE WindowType
<1>1. CASE StoreTick
  <2>1. clock' \in Nat /\ clock' > clock /\ passed' = passed /\ stored' = stored
    BY <1>1 DEF StoreTick, Remembered
  <2>2. ASSUME NEW h \in passed, clock' < h.at + Window
        PROVE  h \in stored
    BY <2>1, <2>2 DEF Remembered
  <2> QED
    BY <2>1, <2>2 DEF Remembered, Window
<1>2. ASSUME NEW r \in Hits, Allow(r) PROVE Remembered'
  <2>1. /\ clock' = clock
        /\ stored' = Valid \union {Stamp(r)}
        /\ passed' = passed \union {Stamp(r)}
    BY <1>2 DEF Allow
  <2>2. Stamp(r).at \in Nat
    BY DEF Stamp, Remembered
  <2>3. Valid \subseteq passed
    BY DEF Valid, Remembered
  <2>4. ASSUME NEW h \in passed, clock < h.at + Window
        PROVE  h \in Valid
    BY <2>4 DEF Remembered, Valid
  <2> QED
    BY <2>1, <2>2, <2>3, <2>4 DEF Remembered, Window
<1>3. ASSUME NEW r \in Hits, Refuse(r) PROVE Remembered'
  <2>1. clock' = clock /\ stored' = Kept /\ passed' = passed
    BY <1>3 DEF Refuse
  <2>2. ASSUME NEW h \in passed, clock < h.at + Window
        PROVE  h \in Kept
    BY <2>2 DEF Remembered, Kept
  <2> QED
    BY <2>1, <2>2 DEF Remembered, Kept, Window
<1>4. CASE UNCHANGED storeVars
  BY <1>4 DEF storeVars, Remembered, Window
<1> QED
  BY <1>1, <1>2, <1>3, <1>4 DEF StoreNext

\* A step of the store is a step of the sliding window or none.
LEMMA StoreStep == Remembered /\ [StoreNext]_storeVars => [StoreWindow!Next]_(StoreWindow!vars)
<1> SUFFICES ASSUME Remembered, [StoreNext]_storeVars
             PROVE  [StoreWindow!Next]_(StoreWindow!vars)
  OBVIOUS
<1>1. CASE StoreTick
  BY <1>1 DEF StoreTick, StoreWindow!Next, StoreWindow!Tick
<1>2. ASSUME NEW r \in Hits, Allow(r) PROVE StoreWindow!Next
  <2>1. StoreWindow!Admit(r)
    BY <1>2, ValidIsRecent, SameCardinality DEF Allow, Fresh, Stamp, StoreWindow!Admit
  <2> QED
    BY <2>1 DEF StoreWindow!Next
<1>3. ASSUME NEW r \in Hits, Refuse(r) PROVE UNCHANGED StoreWindow!vars
  BY <1>3 DEF Refuse, StoreWindow!vars
<1>4. CASE UNCHANGED storeVars
  BY <1>4 DEF storeVars, StoreWindow!vars
<1> QED
  BY <1>1, <1>2, <1>3, <1>4 DEF StoreNext

\* What waits until the promise leaves room then, so that whoever was refused
\* and waits finds room: after a refusal nothing is added before the next check.
Promised ==
    /\ IsFiniteSet(stored) /\ IsFiniteSet(passed)
    /\ \A h \in passed : h.at <= clock
    /\ Cardinality(Valid) <= MaxRequests
    /\ promise # NoPromise =>
          /\ promise \in Nat
          /\ Cardinality({h \in stored : promise < h.at + Window}) < MaxRequests

StoreInv == Remembered /\ Promised /\ AllBounded(passed, Window, MaxRequests)

LEMMA StoreInvInit == StoreInit => StoreInv
BY RememberedInit, FS_EmptySet, StoreAssumption
   DEF StoreInit, StoreInv, Promised, AllBounded, Valid

\* The whole seconds of the answer are more than the rest of the oldest
\* timestamp's window.
LEMMA SecondsCover ==
  ASSUME NEW rest \in Nat, NEW units \in Nat \ {0}
  PROVE  /\ rest \div units + 1 \in Nat /\ units * (rest \div units + 1) \in Nat
         /\ units * (rest \div units + 1) > rest
OBVIOUS

LEMMA StillFewer ==
  ASSUME NEW B, IsFiniteSet(B), NEW n \in Nat, NEW A, A \subseteq B
  PROVE  /\ IsFiniteSet(A) /\ Cardinality(A) \in Nat
         /\ Cardinality(B) <= n => Cardinality(A) <= n
         /\ Cardinality(B) < n => Cardinality(A) < n
BY FS_Subset, FS_CardinalityType

LEMMA StoreInvNext == StoreInv /\ [StoreNext]_storeVars => StoreInv'
<1> SUFFICES ASSUME StoreInv, [StoreNext]_storeVars PROVE StoreInv'
  OBVIOUS
<1>0. /\ Remembered /\ Promised /\ Remembered' /\ AllBounded(passed, Window, MaxRequests)
      /\ MaxRequests \in Nat \ {0} /\ Window \in Nat /\ clock \in Nat /\ Window' = Window
  BY RememberedNext, WindowType, StoreAssumption DEF StoreInv, Remembered, Window
<1>a. Valid \subseteq stored /\ IsFiniteSet(Valid) /\ Cardinality(Valid) \in Nat
  BY <1>0, FS_Subset, FS_CardinalityType DEF Promised, Valid
<1>b. \A h \in stored : h \in passed /\ h.at \in Nat /\ h.at <= clock
  BY <1>0 DEF Remembered, Promised
<1>1. CASE StoreTick
  <2>1. clock' = clock + 1 /\ UNCHANGED <<stored, passed, promise>>
    BY <1>1 DEF StoreTick
  <2>2. Valid' \subseteq Valid
    BY <1>0, <1>b, <2>1 DEF Valid
  <2>3. Cardinality(Valid') <= MaxRequests
    BY <1>0, <1>a, <2>2, StillFewer DEF Promised
  <2>4. \A h \in passed' : h.at <= clock'
    BY <1>0, <2>1 DEF Promised, Remembered
  <2> QED
    BY <1>0, <2>1, <2>3, <2>4 DEF StoreInv, Promised
<1>2. ASSUME NEW r \in Hits, Allow(r) PROVE StoreInv'
  <2>1. /\ clock' = clock /\ promise' = NoPromise /\ Cardinality(Valid) < MaxRequests
        /\ stored' = Valid \union {Stamp(r)} /\ passed' = passed \union {Stamp(r)}
    BY <1>2 DEF Allow
  <2>2. Stamp(r).at = clock
    BY DEF Stamp
  <2> HIDE DEF Stamp
  <2>3. IsFiniteSet(stored') /\ IsFiniteSet(passed') /\ Cardinality(stored') <= MaxRequests
    <3>1. IsFiniteSet(stored) /\ IsFiniteSet(passed)
      BY <1>0 DEF Promised
    <3>2. /\ IsFiniteSet(Valid \union {Stamp(r)})
          /\ Cardinality(Valid \union {Stamp(r)}) \in {Cardinality(Valid), Cardinality(Valid) + 1}
      BY <1>a, FS_AddElement
    <3>3. IsFiniteSet(passed \union {Stamp(r)})
      BY <3>1, FS_AddElement
    <3>4. Cardinality(Valid \union {Stamp(r)}) <= MaxRequests
      BY <1>0, <1>a, <2>1, <3>2
    <3> QED
      BY <2>1, <3>2, <3>3, <3>4
  <2>4. Valid' \subseteq stored'
    BY DEF Valid
  <2>5. Cardinality(Valid') <= MaxRequests
    BY <1>0, <2>3, <2>4, StillFewer
  <2>6. AllBounded(passed', Window, MaxRequests)
    <3>1. Cardinality({h \in passed : clock < h.at + Window}) < MaxRequests
      <4>1. {h \in passed : clock < h.at + Window} = Valid
        BY <1>0 DEF Remembered, Valid
      <4> QED
        BY <2>1, <4>1
    <3> QED
      BY <1>0, <2>1, <2>2, <3>1, WindowsStayBounded DEF Remembered, Promised
  <2>7. \A h \in passed' : h.at <= clock'
    BY <1>0, <2>1, <2>2 DEF Promised
  <2> QED
    BY <1>0, <2>1, <2>3, <2>5, <2>6, <2>7 DEF StoreInv, Promised
<1>3. ASSUME NEW r \in Hits, Refuse(r) PROVE StoreInv'
  <2>1. /\ clock' = clock /\ passed' = passed /\ stored' = Kept
        /\ Cardinality(Valid) >= MaxRequests
        /\ promise' = clock + UnitsPerSecond * RetryAfter
    BY <1>3 DEF Refuse
  <2>2. Valid # {}
    <3> SUFFICES ASSUME Valid = {} PROVE FALSE
      OBVIOUS
    <3>1. Cardinality(Valid) = 0
      BY FS_EmptySet
    <3> QED
      BY <1>0, <2>1, <3>1
  <2> DEFINE oldest == Min({h.at : h \in Valid})
             rest == oldest + Window - clock
  <2>3. /\ \E h \in Valid : h.at = oldest
        /\ \A h \in Valid : oldest <= h.at
        /\ oldest \in Nat
    <3>1. {h.at : h \in Valid} \subseteq Nat /\ {h.at : h \in Valid} # {}
      BY <1>a, <1>b, <2>2
    <3>2. oldest \in {h.at : h \in Valid} /\ \A n \in {h.at : h \in Valid} : oldest <= n
      BY <3>1, SomeSmallest
    <3> QED
      BY <3>1, <3>2
  <2> HIDE DEF oldest
  <2>4. rest \in Nat
    BY <1>0, <2>3 DEF Valid
  <2>5. RetryAfter = rest \div UnitsPerSecond + 1
    BY DEF RetryAfter, rest, oldest
  <2>6. promise' \in Nat /\ promise' > clock + rest
    BY <1>0, <2>1, <2>4, <2>5, SecondsCover, StoreAssumption
  <2>7. promise' > clock /\ promise' > oldest + Window
    BY <1>0, <2>3, <2>4, <2>6
  <2>8. PICK first \in Valid : first.at = oldest
    BY <2>3
  <2>9. Valid' \subseteq Valid
    BY <2>1 DEF Valid, Kept, Window
  <2>10. {h \in stored' : promise' < h.at + Window} \subseteq Valid \ {first}
    <3> SUFFICES ASSUME NEW h \in stored', promise' < h.at + Window PROVE h \in Valid /\ h # first
      OBVIOUS
    <3>1. h \in stored /\ h.at \in Nat
      BY <1>b, <2>1 DEF Kept
    <3> QED
      BY <1>0, <2>6, <2>7, <2>8, <3>1 DEF Valid
  <2>11. IsFiniteSet(Valid \ {first}) /\ Cardinality(Valid \ {first}) < MaxRequests
    <3>1. IsFiniteSet(Valid \ {first}) /\ Cardinality(Valid \ {first}) = Cardinality(Valid) - 1
      BY <1>a, <2>8, FS_RemoveElement
    <3>2. Cardinality(Valid) <= MaxRequests
      BY <1>0 DEF Promised
    <3> QED
      BY <1>0, <1>a, <3>1, <3>2
  <2>12. Cardinality({h \in stored' : promise' < h.at + Window}) < MaxRequests
    BY <1>0, <2>10, <2>11, StillFewer
  <2>13. Cardinality(Valid') <= MaxRequests
    BY <1>0, <1>a, <2>9, StillFewer DEF Promised
  <2>14. IsFiniteSet(stored')
    BY <1>0, <2>1, FS_Subset DEF Promised, Kept
  <2> QED
    BY <1>0, <2>1, <2>6, <2>12, <2>13, <2>14 DEF StoreInv, Promised
<1>4. CASE UNCHANGED storeVars
  BY <1>0, <1>4 DEF storeVars, StoreInv, Promised, Valid
<1> QED
  BY <1>1, <1>2, <1>3, <1>4 DEF StoreNext

LEMMA PromiseKept == StoreInv => RetryHonoured
<1> SUFFICES ASSUME StoreInv, promise # NoPromise, clock >= promise PROVE Cardinality(Valid) < MaxRequests
  BY DEF RetryHonoured
<1> DEFINE then == {h \in stored : promise < h.at + Window}
<1>1. /\ promise \in Nat /\ clock \in Nat /\ Window \in Nat /\ MaxRequests \in Nat
      /\ IsFiniteSet(stored) /\ Cardinality(then) < MaxRequests
      /\ \A h \in stored : h.at \in Nat
  BY WindowType, StoreAssumption DEF StoreInv, Promised, Remembered
<1>2. Valid \subseteq then
  BY <1>1 DEF Valid
<1>3. IsFiniteSet(then)
  BY <1>1, FS_Subset
<1> HIDE DEF then
<1> QED
  BY <1>1, <1>2, <1>3, StillFewer

-----------------------------------------------------------------------------
(***************************************************************************)
(* The quotas of the users.                                                *)
(***************************************************************************)
\* The list that is kept was granted, and what was dropped is older than a day,
\* the longest of the spans. What was granted is bounded in every window.
QuotaRemembered ==
    /\ now \in Nat
    /\ orgConfigs \in [Orgs -> Configs]
    /\ IsFiniteSet(granted)
    /\ \A t \in granted : t.at \in Nat /\ t.at <= now
    /\ windows \subseteq granted
    /\ \A t \in granted : t.at + Length["day"] > now => t \in windows

QuotaInv == QuotaRemembered /\ \A s \in Spans : AllBounded(granted, Length[s], Largest(s))

LEMMA LargestIsLargest ==
  ASSUME NEW s \in Spans
  PROVE  Largest(s) \in Nat /\ \A c \in Configs : c[s] <= Largest(s)
<1> DEFINE limits == {c[s] : c \in Configs}
<1>1. limits \subseteq Nat /\ limits # {}
  BY QuotaAssumption
<1>2. IsFiniteSet(limits)
  <2> DEFINE of == [c \in Configs |-> c[s]]
  <2>1. of \in Surjection(Configs, limits)
    BY DEF Surjection
  <2> HIDE DEF of, limits
  <2> QED
    BY <2>1, QuotaAssumption, FS_Surjection
<1>3. Largest(s) = Max(limits)
  BY DEF Largest
<1> HIDE DEF limits
<1>4. Max(limits) \in limits /\ \A n \in limits : n <= Max(limits)
  BY <1>1, <1>2, SomeGreatest
<1> QED
  BY <1>1, <1>3, <1>4 DEF limits

LEMMA SpansTyped == \A s \in Spans : Length[s] \in Nat /\ Length[s] <= Length["day"]
BY QuotaAssumption DEF Spans

\* What is counted is what was granted in the span.
LEMMA WithinIsRecent ==
  ASSUME QuotaRemembered, NEW s \in Spans
  PROVE  /\ Within(s) = {t \in granted : t.at + Length[s] > now}
         /\ Within(s) = {t \in granted : now < t.at + Length[s]}
<1>1. \A t \in granted : t.at + Length[s] > now => t.at + Length["day"] > now /\ t \in windows
  BY SpansTyped DEF QuotaRemembered, Spans
<1>2. Length[s] \in Nat
  BY SpansTyped
<1> QED
  BY <1>1, <1>2 DEF Within, Pruned, QuotaRemembered

LEMMA QuotaInvInit == QuotaInit => QuotaInv
<1> SUFFICES ASSUME QuotaInit PROVE QuotaInv
  OBVIOUS
<1>1. QuotaRemembered
  BY FS_EmptySet, QuotaAssumption DEF QuotaInit, QuotaRemembered
<1> QED
  BY <1>1 DEF QuotaInit, QuotaInv, AllBounded

\* A request is granted only when every span has room, by the limits of some
\* organization and so by the largest ones.
LEMMA GrantedInLimits ==
  ASSUME QuotaRemembered, NEW q \in Asks, NEW o \in Orgs, Grant(q, o), NEW s \in Spans
  PROVE  /\ Cardinality({t \in granted : t.at + Length[s] > now}) < Largest(s)
         /\ Cardinality({t \in granted : now < t.at + Length[s]}) < Largest(s)
<1>1. Cardinality(Within(s)) < orgConfigs[o][s]
  BY DEF Grant
<1>2. orgConfigs[o] \in Configs /\ orgConfigs[o][s] \in Nat
  BY QuotaAssumption DEF QuotaRemembered
<1>3. IsFiniteSet(Within(s)) /\ Cardinality(Within(s)) \in Nat
  BY WithinIsRecent, FS_Subset, FS_CardinalityType DEF QuotaRemembered
<1>4. Cardinality(Within(s)) < Largest(s)
  BY <1>1, <1>2, <1>3, LargestIsLargest
<1> QED
  BY <1>4, WithinIsRecent

LEMMA QuotaInvNext == QuotaInv /\ [QuotaNext]_quotaVars => QuotaInv'
<1> SUFFICES ASSUME QuotaInv, [QuotaNext]_quotaVars PROVE QuotaInv'
  OBVIOUS
<1>0. QuotaRemembered /\ \A s \in Spans : AllBounded(granted, Length[s], Largest(s))
  BY DEF QuotaInv
<1>a. Length["day"] \in Nat /\ \A t \in granted : t.at \in Nat /\ t.at <= now
  BY <1>0, SpansTyped DEF QuotaRemembered, Spans
<1>b. UNCHANGED granted => \A s \in Spans : AllBounded(granted', Length[s], Largest(s))
  BY <1>0
<1>c. QuotaRemembered' /\ (\A s \in Spans : AllBounded(granted', Length[s], Largest(s))) => QuotaInv'
  BY DEF QuotaInv, Largest
<1>1. CASE QuotaTick
  BY <1>0, <1>1, <1>a, <1>b, <1>c DEF QuotaTick, QuotaRemembered
<1>2. ASSUME NEW o \in Orgs, NEW c \in Configs, ConfigureOrg(o, c) PROVE QuotaInv'
  BY <1>0, <1>2, <1>b, <1>c DEF ConfigureOrg, QuotaRemembered
<1>3. ASSUME NEW q \in Asks, NEW o \in Orgs, Grant(q, o) PROVE QuotaInv'
  <2> DEFINE new == [call |-> q, at |-> now]
  <2>1. /\ windows' = Pruned \union {new} /\ granted' = granted \union {new}
        /\ UNCHANGED <<now, orgConfigs>>
    BY <1>3 DEF Grant
  <2>2. new.at = now /\ now \in Nat /\ IsFiniteSet(granted)
    BY <1>0 DEF QuotaRemembered
  <2> HIDE DEF new
  <2>3. IsFiniteSet(granted')
    BY <2>1, <2>2, FS_AddElement
  <2>4. QuotaRemembered'
    BY <1>0, <2>1, <2>2, <2>3 DEF QuotaRemembered, Pruned
  <2>5. ASSUME NEW s \in Spans PROVE AllBounded(granted \union {new}, Length[s], Largest(s))
    <3>1. /\ AllBounded(granted, Length[s], Largest(s)) /\ Length[s] \in Nat /\ Largest(s) \in Nat
          /\ Cardinality({t \in granted : now < t.at + Length[s]}) < Largest(s)
      BY <1>0, <1>3, SpansTyped, LargestIsLargest, GrantedInLimits
    <3> QED
      BY <1>a, <2>2, <3>1, WindowsStayBounded
  <2> QED
    BY <1>c, <2>1, <2>4, <2>5
<1>4. ASSUME NEW q \in Asks, NEW o \in Orgs, Deny(q, o) PROVE QuotaInv'
  BY <1>0, <1>4, <1>b, <1>c DEF Deny, QuotaRemembered, Pruned
<1>5. CASE UNCHANGED quotaVars
  BY <1>0, <1>5, <1>b, <1>c DEF quotaVars, QuotaRemembered
<1> QED
  BY <1>1, <1>2, <1>3, <1>4, <1>5 DEF QuotaNext

\* A step of the quotas is a step of the window of each span, or none.
LEMMA QuotaStep ==
  ASSUME QuotaInv, [QuotaNext]_quotaVars
  PROVE  /\ [MinuteQuota!Next]_(MinuteQuota!vars)
         /\ [HourQuota!Next]_(HourQuota!vars)
         /\ [DayQuota!Next]_(DayQuota!vars)
<1>0. QuotaRemembered /\ {"minute", "hour", "day"} = Spans
  BY DEF QuotaInv, Spans
<1>1. CASE UNCHANGED <<now, granted>>
  BY <1>1 DEF MinuteQuota!vars, HourQuota!vars, DayQuota!vars
<1>2. CASE QuotaTick
  BY <1>2 DEF QuotaTick, MinuteQuota!Next, MinuteQuota!Tick, HourQuota!Next, HourQuota!Tick,
     DayQuota!Next, DayQuota!Tick
<1>3. ASSUME NEW q \in Asks, NEW o \in Orgs, Grant(q, o)
      PROVE  MinuteQuota!Next /\ HourQuota!Next /\ DayQuota!Next
  <2>1. \A t \in granted : t.call # q
    BY <1>3 DEF Grant
  <2>2. granted' = granted \union {[call |-> q, at |-> now]} /\ now' = now
    BY <1>3 DEF Grant
  <2>3. \A s \in Spans : Cardinality({t \in granted : t.at + Length[s] > now}) < Largest(s)
    BY <1>0, <1>3, GrantedInLimits
  <2>4. MinuteQuota!Admit(q)
    BY <1>0, <2>1, <2>2, <2>3
       DEF MinuteQuota!Admit, MinuteQuota!Recent, MinuteQuota!Cardinality, Cardinality
  <2>5. HourQuota!Admit(q)
    BY <1>0, <2>1, <2>2, <2>3
       DEF HourQuota!Admit, HourQuota!Recent, HourQuota!Cardinality, Cardinality
  <2>6. DayQuota!Admit(q)
    BY <1>0, <2>1, <2>2, <2>3
       DEF DayQuota!Admit, DayQuota!Recent, DayQuota!Cardinality, Cardinality
  <2> QED
    BY <2>4, <2>5, <2>6 DEF MinuteQuota!Next, HourQuota!Next, DayQuota!Next
<1>4. ASSUME NEW o \in Orgs, NEW c \in Configs, ConfigureOrg(o, c) PROVE UNCHANGED <<now, granted>>
  BY <1>4 DEF ConfigureOrg
<1>5. ASSUME NEW q \in Asks, NEW o \in Orgs, Deny(q, o) PROVE UNCHANGED <<now, granted>>
  BY <1>5 DEF Deny
<1> QED
  BY <1>1, <1>2, <1>3, <1>4, <1>5 DEF QuotaNext, quotaVars

-----------------------------------------------------------------------------
(***************************************************************************)
(* The circuit breaker.                                                    *)
(***************************************************************************)
BreakerTypeOK ==
    /\ breaker \in {"closed", "open", "half_open"}
    /\ failureAge \in 0..RecoveryTimeout
    /\ probeAge \in 0..RecoveryTimeout
    /\ halfOpen \in Nat

\* A breaker opens with a failure that is later than the last test call, so
\* that it is half open only when that call is a recovery timeout ago.
SpacedInv ==
    /\ BreakerTypeOK
    /\ breaker = "closed" => probeAge = RecoveryTimeout
    /\ breaker = "open" => probeAge >= failureAge
    /\ breaker = "half_open" /\ halfOpen < HalfOpenMax => probeAge = RecoveryTimeout

LEMMA SpacedInit == BreakerInit => SpacedInv
BY BreakerAssumption DEF BreakerInit, SpacedInv, BreakerTypeOK

\* In the state that is read, too, a test call is due only when spaced.
LEMMA TestingIsSpaced == SpacedInv => ProbesSpaced
BY BreakerAssumption
   DEF SpacedInv, BreakerTypeOK, ProbesSpaced, Testing, State, Tested, Recovering, HalfOpenMax

LEMMA SpacedNext == SpacedInv /\ [BreakerNext]_breakerVars => SpacedInv'
<1> SUFFICES ASSUME SpacedInv, [BreakerNext]_breakerVars PROVE SpacedInv'
  OBVIOUS
<1> USE BreakerAssumption DEF SpacedInv, BreakerTypeOK, HalfOpenMax
<1>1. CASE ReadState
  BY <1>1 DEF ReadState, State, Tested, Recovering
<1>2. ASSUME NEW c \in Callers, AllowRequest(c) PROVE SpacedInv'
  <2>1. CASE Testing
    BY <1>2, <2>1 DEF AllowRequest, Testing, State, Tested, Recovering
  <2>2. CASE ~Testing
    BY <1>2, <2>2 DEF AllowRequest, State, Tested, Recovering
  <2> QED
    BY <2>1, <2>2
<1>3. ASSUME NEW c \in Callers, RecordSuccess(c) PROVE SpacedInv'
  BY <1>3 DEF RecordSuccess
<1>4. ASSUME NEW c \in Callers, RecordFailure(c) PROVE SpacedInv'
  BY <1>4 DEF RecordFailure
<1>5. CASE Reset
  BY <1>5 DEF Reset
<1>6. CASE Turn
  BY <1>6 DEF Turn
<1>7. CASE BreakerTick
  BY <1>7 DEF BreakerTick, Older
<1>8. CASE UNCHANGED breakerVars
  BY <1>8 DEF breakerVars
<1> QED
  BY <1>1, <1>2, <1>3, <1>4, <1>5, <1>6, <1>7, <1>8 DEF BreakerNext, Report

-----------------------------------------------------------------------------
(***************************************************************************)
(* The decision rules.                                                     *)
(***************************************************************************)
\* The rule for every agent is there, and what rules say is what they may say.
RulesInv ==
    /\ Rule(NoOne, 85, RequireApproval, FALSE, FALSE) \in globalRules
    /\ \A r \in globalRules : r.min \in Int /\ r.action \in Proceed .. Block
    /\ orgRules \in [RuleOrgs -> SUBSET Rules]

\* Of rules that ask for one of the four actions some ask for the strictest.
LEMMA SomeMostRestrictive ==
  ASSUME NEW S, S # {}, \A r \in S : r.action \in Proceed .. Block
  PROVE  /\ MostRestrictive(S) \in S
         /\ \A q \in S : q.action <= MostRestrictive(S).action
<1>1. \E r \in S : \A q \in S : q.action <= r.action
  <2>1. CASE \E r \in S : r.action = Block
    BY <2>1 DEF Block, Proceed
  <2>2. CASE ~(\E r \in S : r.action = Block) /\ \E r \in S : r.action = RequireApproval
    BY <2>2 DEF Block, RequireApproval, Proceed
  <2>3. CASE /\ ~(\E r \in S : r.action = Block) /\ ~(\E r \in S : r.action = RequireApproval)
             /\ \E r \in S : r.action = LogAndProceed
    BY <2>3 DEF Block, RequireApproval, LogAndProceed, Proceed
  <2>4. CASE \A r \in S : r.action = Proceed
    BY <2>4 DEF Proceed
  <2> QED
    BY <2>1, <2>2, <2>3, <2>4 DEF Block, RequireApproval, LogAndProceed, Proceed
<1> QED
  BY <1>1 DEF MostRestrictive

LEMMA RulesInvInit == RulesInit => RulesInv
BY DEF RulesInit, RulesInv, DefaultRules, Rule, Proceed, RequireApproval, Block

LEMMA RulesInvNext == RulesInv /\ [RulesNext]_rulesVars => RulesInv'
<1> SUFFICES ASSUME RulesInv, [RulesNext]_rulesVars PROVE RulesInv'
  OBVIOUS
<1> USE DEF RulesInv
<1>1. ASSUME NEW r \in Rules, AddRule(r) PROVE RulesInv'
  <2>1. CASE r.org \in RuleOrgs
    <3>1. orgRules' = [orgRules EXCEPT ![r.org] = @ \union {r}] /\ globalRules' = globalRules
      BY <1>1, <2>1 DEF AddRule
    <3>2. orgRules[r.org] \union {r} \in SUBSET Rules
      BY <2>1
    <3>3. orgRules' \in [RuleOrgs -> SUBSET Rules]
      BY <3>1, <3>2
    <3> QED
      BY <3>1, <3>3
  <2>2. CASE r.org \notin RuleOrgs
    BY <1>1, <2>2, RulesAssumption DEF AddRule
  <2> QED
    BY <2>1, <2>2
<1>2. ASSUME NEW a, NEW c, NEW o, NEW i, Evaluate(a, c, o, i) PROVE RulesInv'
  BY <1>2 DEF Evaluate
<1>3. ASSUME NEW i, NEW b, ResolveApproval(i, b) PROVE RulesInv'
  BY <1>3 DEF ResolveApproval
<1>4. CASE UNCHANGED rulesVars
  BY <1>4 DEF rulesVars
<1> QED
  BY <1>1, <1>2, <1>3, <1>4 DEF RulesNext

\* The rules that apply only grow, and the strictest of more rules is no milder.
\* When no rule is triggered the engine proceeds, for the rule for all agents
\* applies to everyone; any other answer is stricter.
LEMMA AddingTightens ==
  ASSUME RulesInv, RulesInv', NEW s \in Rules, AddRule(s)
  PROVE  Tightens
<1> SUFFICES ASSUME NEW a \in RuleAgents, NEW c \in Confidences, NEW o \in RuleOrgs \union {NoOne}
             PROVE  /\ Decision(a, c, o) <= Decision(a, c, o)'
                    /\ DisclaimerRequired(a, o) => DisclaimerRequired(a, o)'
                    /\ ReviewRequired(a, o) => ReviewRequired(a, o)'
  BY DEF Tightens
<1>1. Applicable(a, o) \subseteq Applicable(a, o)'
  BY DEF Applicable, AddRule, RulesInv
<1>2. Applicable(a, o) # {} /\ Applicable(a, o)' # {}
  BY <1>1 DEF Applicable, RulesInv, Rule
<1>3. Triggered(a, c, o) \subseteq Triggered(a, c, o)'
  BY <1>1 DEF Triggered
<1>4. /\ \A r \in Triggered(a, c, o) : r.action \in Proceed .. Block
      /\ \A r \in Triggered(a, c, o)' : r.action \in Proceed .. Block
  BY RulesAssumption DEF Triggered, Applicable, RulesInv
<1>5. CASE Triggered(a, c, o) = {}
  <2>1. Decision(a, c, o) = Proceed
    BY <1>2, <1>5 DEF Decision
  <2>2. Decision(a, c, o)' \in Proceed .. Block
    <3>1. CASE Triggered(a, c, o)' = {}
      BY <1>2, <3>1 DEF Decision, Proceed, Block
    <3>2. CASE Triggered(a, c, o)' # {}
      <4>1. MostRestrictive(Triggered(a, c, o)') \in Triggered(a, c, o)'
        BY <1>4, <3>2, SomeMostRestrictive
      <4> QED
        BY <1>2, <1>4, <3>2, <4>1 DEF Decision
    <3> QED
      BY <3>1, <3>2
  <2> QED
    BY <1>1, <2>1, <2>2 DEF Proceed, Block, DisclaimerRequired, ReviewRequired
<1>6. CASE Triggered(a, c, o) # {}
  <2>1. MostRestrictive(Triggered(a, c, o)) \in Triggered(a, c, o)
    BY <1>4, <1>6, SomeMostRestrictive
  <2>2. MostRestrictive(Triggered(a, c, o)).action
          <= MostRestrictive(Triggered(a, c, o)').action
    BY <1>3, <1>4, <1>6, <2>1, SomeMostRestrictive
  <2>3. /\ Decision(a, c, o) = MostRestrictive(Triggered(a, c, o)).action
        /\ Decision(a, c, o)' = MostRestrictive(Triggered(a, c, o)').action
    BY <1>2, <1>3, <1>6 DEF Decision, MostRestrictive
  <2> QED
    BY <1>1, <2>2, <2>3 DEF DisclaimerRequired, ReviewRequired
<1> QED
  BY <1>5, <1>6

-----------------------------------------------------------------------------
(***************************************************************************)
(* Plans.                                                                  *)
(***************************************************************************)
\* Of a list of lists of keywords one is the first that a message mentions.
LEMMA FirstOfTriggers ==
  ASSUME NEW m, NEW triggers, NEW n \in Nat, DOMAIN triggers = 1..n, Len(triggers) = n
  PROVE  /\ First(m, triggers) \in 1..(n + 1)
         /\ First(m, triggers) # n + 1 => Mentions(m, triggers[First(m, triggers)])
         /\ \A i \in 1..n : i < First(m, triggers) => ~Mentions(m, triggers[i])
<1> DEFINE hit == {i \in DOMAIN triggers : Mentions(m, triggers[i])}
<1>1. CASE hit = {}
  BY <1>1 DEF First
<1>2. CASE hit # {}
  <2>1. hit \subseteq Nat /\ hit # {}
    BY <1>2
  <2>2. Min(hit) \in hit /\ \A y \in hit : Min(hit) <= y
    BY <2>1, SomeSmallest
  <2>4. First(m, triggers) \in hit /\ \A y \in hit : First(m, triggers) <= y
    BY <1>2, <2>2 DEF First
  <2> QED
    BY <2>4
<1> QED
  BY <1>1, <1>2

LEMMA DomainsCovered ==
  ASSUME NEW m, IsFiniteSet(m)
  PROVE  RouteToDomain(m) \in Domains
<1>1. /\ Cardinality(m \intersect PersonalWords) \in Nat
      /\ Cardinality(m \intersect OrgWords) \in Nat
      /\ Cardinality(m \intersect StrategicWords) \in Nat
  BY FS_Subset, FS_CardinalityType
<1> DEFINE personal == Cardinality(m \intersect PersonalWords)
           org == Cardinality(m \intersect OrgWords)
           strategic == Cardinality(m \intersect StrategicWords)
<1>2. \/ personal >= org /\ personal >= strategic
      \/ org > personal /\ org >= strategic
      \/ strategic > personal /\ strategic > org
  BY <1>1
<1>3. /\ "personal_development" \in Domains /\ "organizational_intelligence" \in Domains
      /\ "strategic_advisory" \in Domains
  BY DEF Domains
<1> QED
  BY <1>2, <1>3, Zenon DEF RouteToDomain

\* A step that stands alone is handled when the orchestrator has the agent and
\* the agent knows the action.
LEMMA OnlyHandled ==
  ASSUME NEW d, NEW agent \in Registered(d), NEW action \in DOMAIN Actions[agent], NEW given
  PROVE  Handled(d, Only(agent, action, given))
BY DEF Handled, Only, Step

\* The agents of the orchestrators, and the actions of the agents.
LEMMA Registrations ==
  /\ Registered("personal_development") = {"aura", "echo", "anchor", "forge"}
  /\ Registered("organizational_intelligence") = {"atlas", "sentinel", "nexus", "bridge"}
  /\ Registered("strategic_advisory") = {"nova", "james", "sage", "ascend", "alex"}
BY Zenon DEF Registered

LEMMA PersonalActions ==
  /\ DOMAIN Actions["aura"] = {"interpret_profile", "deep_dive", "track_growth", "generate_context"}
  /\ DOMAIN Actions["echo"] = {"create_learning_path", "micro_lesson", "track_progress"}
  /\ DOMAIN Actions["anchor"] = {"stress_checkin", "recovery_protocol", "resilience_tips"}
  /\ DOMAIN Actions["forge"] = {"resolve_conflict", "communication_playbook", "meeting_briefing"}
BY DEF Actions, Aura, Echo, Anchor, Forge

LEMMA StrategicActions ==
  /\ DOMAIN Actions["nova"] = {"career_strategy", "submit_candidate", "publish_triage", "promotion_readiness"}
  /\ DOMAIN Actions["james"] = {"create_blueprint", "score_candidate", "generate_interview_guide",
                                "compare_candidates"}
  /\ DOMAIN Actions["sage"] = {"research_synthesis", "executive_briefing", "knowledge_search"}
  /\ DOMAIN Actions["ascend"] = {"leadership_signature", "team_compatibility", "coaching_scenario",
                                 "executive_coaching"}
  /\ DOMAIN Actions["alex"] = {"career_exploration", "academic_plan", "prism_assessment"}
BY DEF Actions, Nova, James, Sage, Ascend, Alex

LEMMA OrgActions ==
  /\ DOMAIN Actions["atlas"] = {"analyze_team", "workforce_plan", "talent_optimizer"}
  /\ DOMAIN Actions["sentinel"] = {"compliance_check", "log_decision", "escalation_gate", "enforce_disclaimer"}
  /\ DOMAIN Actions["nexus"] = {"cultural_profile", "adapt_communication", "calibrate_style"}
  /\ DOMAIN Actions["bridge"] = {"pipeline_health", "match_student", "employer_forecast", "assess_placement"}
BY DEF Actions, Atlas, Sentinel, Nexus, Bridge

\* The first of one, two or three lists chooses among one more.
LEMMA ChosenOfTwo ==
  ASSUME NEW m, NEW s, NEW t, NEW a, NEW b, NEW c
  PROVE  <<a, b, c>>[First(m, <<s, t>>)] \in {a, b, c}
<1> DEFINE triggers == <<s, t>>
<1>1. DOMAIN triggers = 1..2 /\ Len(triggers) = 2
  OBVIOUS
<1> HIDE DEF triggers
<1>2. First(m, triggers) \in 1..(2 + 1)
  BY <1>1, FirstOfTriggers
<1>3. <<a, b, c>>[First(m, triggers)] \in {a, b, c}
  BY <1>2
<1> QED
  BY <1>3 DEF triggers

LEMMA ChosenOfThree ==
  ASSUME NEW m, NEW s, NEW t, NEW u, NEW a, NEW b, NEW c, NEW d
  PROVE  <<a, b, c, d>>[First(m, <<s, t, u>>)] \in {a, b, c, d}
<1> DEFINE triggers == <<s, t, u>>
<1>1. DOMAIN triggers = 1..3 /\ Len(triggers) = 3
  OBVIOUS
<1> HIDE DEF triggers
<1>2. First(m, triggers) \in 1..(3 + 1)
  BY <1>1, FirstOfTriggers
<1>3. <<a, b, c, d>>[First(m, triggers)] \in {a, b, c, d}
  BY <1>2
<1> QED
  BY <1>3 DEF triggers

LEMMA PersonalHandled == ASSUME NEW m PROVE Handled("personal_development", PersonalPlan(m))
<1> DEFINE d == "personal_development"
           n == First(m, <<AnchorWords, ForgeWords, EchoWords, AuraWords>>)
           anchor == <<"recovery_protocol", "resilience_tips", "stress_checkin">>
                       [First(m, <<{"protocol", "plan", "help me recover"}, {"tips", "advice", "strategies"}>>)]
           forge == <<"communication_playbook", "meeting_briefing", "resolve_conflict">>
                      [First(m, <<{"playbook", "script", "prepare", "how to say"},
                                  {"meeting", "briefing", "attendee"}>>)]
           echo == <<"micro_lesson", "track_progress", "create_learning_path">>
                     [First(m, <<{"quick", "micro", "lesson", "today"}, {"progress", "track", "status"}>>)]
           aura == <<"deep_dive", "track_growth", "interpret_profile">>
                     [First(m, <<{"deep", "detail", "granular", "explore"},
                                 {"growth", "change", "progress", "evolved"}>>)]
<1>1. n \in 1..5
  <2> DEFINE triggers == <<AnchorWords, ForgeWords, EchoWords, AuraWords>>
  <2>1. DOMAIN triggers = 1..4 /\ Len(triggers) = 4
    OBVIOUS
  <2> HIDE DEF triggers
  <2>2. First(m, triggers) \in 1..(4 + 1)
    BY <2>1, FirstOfTriggers
  <2> QED
    BY <2>2 DEF triggers
<1>2. /\ anchor \in {"recovery_protocol", "resilience_tips", "stress_checkin"}
      /\ forge \in {"communication_playbook", "meeting_briefing", "resolve_conflict"}
      /\ echo \in {"micro_lesson", "track_progress", "create_learning_path"}
      /\ aura \in {"deep_dive", "track_growth", "interpret_profile"}
  BY ChosenOfTwo
<1>3. PersonalPlan(m) =
        <<Only("anchor", anchor, {"user_id", "query"}), Only("forge", forge, {"user_id", "situation"}),
          Only("echo", echo, {"user_id", "skill_gap", "topic"}), Only("aura", aura, {"user_id", "query"}),
          Only("aura", "generate_context", {"user_id", "requesting_agent"})>>[n]
  BY DEF PersonalPlan
<1> HIDE DEF n, anchor, forge, echo, aura
<1>4. /\ Handled(d, Only("anchor", anchor, {"user_id", "query"}))
      /\ Handled(d, Only("forge", forge, {"user_id", "situation"}))
      /\ Handled(d, Only("echo", echo, {"user_id", "skill_gap", "topic"}))
      /\ Handled(d, Only("aura", aura, {"user_id", "query"}))
      /\ Handled(d, Only("aura", "generate_context", {"user_id", "requesting_agent"}))
  BY <1>2, OnlyHandled, Registrations, PersonalActions
<1> QED
  BY <1>1, <1>3, <1>4

LEMMA StrategicHandled == ASSUME NEW m PROVE Handled("strategic_advisory", StrategicPlan(m))
<1> DEFINE d == "strategic_advisory"
           n == First(m, StrategicTriggers)
<1>1. n \in 1..9
  <2>1. DOMAIN StrategicTriggers = 1..8 /\ Len(StrategicTriggers) = 8
    BY DEF StrategicTriggers
  <2>2. First(m, StrategicTriggers) \in 1..(8 + 1)
    BY <2>1, FirstOfTriggers
  <2> QED
    BY <2>2
<1>2. /\ SageAction(m) \in {"executive_briefing", "knowledge_search", "research_synthesis"}
      /\ AlexAction(m) \in {"academic_plan", "prism_assessment", "career_exploration"}
  BY ChosenOfTwo DEF SageAction, AlexAction
<1>3. AscendAction(m) \in {"team_compatibility", "coaching_scenario", "executive_coaching",
                            "leadership_signature"}
  BY ChosenOfThree DEF AscendAction
<1>4. Handled(d, FullTriage)
  BY Registrations, StrategicActions DEF Handled, FullTriage, Step
<1>5. /\ Handled(d, Only("nova", "submit_candidate", {}))
      /\ Handled(d, Only("james", "create_blueprint", {}))
      /\ Handled(d, Only("james", "score_candidate", {}))
      /\ Handled(d, Only("james", "generate_interview_guide", {}))
      /\ Handled(d, Only("nova", "career_strategy", {"user_id"}))
  BY OnlyHandled, Registrations, StrategicActions
<1>6. /\ Handled(d, Only("sage", SageAction(m), {}))
      /\ Handled(d, Only("ascend", AscendAction(m), {}))
      /\ Handled(d, Only("alex", AlexAction(m), {}))
  BY <1>2, <1>3, OnlyHandled, Registrations, StrategicActions
<1>7. StrategicPlan(m) =
        <<FullTriage, Only("nova", "submit_candidate", {}), Only("james", "create_blueprint", {}),
          Only("james", "score_candidate", {}), Only("james", "generate_interview_guide", {}),
          Only("sage", SageAction(m), {}), Only("ascend", AscendAction(m), {}),
          Only("alex", AlexAction(m), {}), Only("nova", "career_strategy", {"user_id"})>>[n]
  BY DEF StrategicPlan
<1> HIDE DEF n
<1> QED
  BY <1>1, <1>4, <1>5, <1>6, <1>7

\* The team analysis, whose first step no agent of the orchestrator could take,
\* is never planned: a message that asks for it has "team" or "composition", which
\* are looked for earlier.
LEMMA OrgHandled ==
  ASSUME NEW m \in Texts \union Messages
  PROVE  Handled("organizational_intelligence", OrgPlan(m))
<1> DEFINE d == "organizational_intelligence"
           n == First(m, OrgTriggers)
<1>1. n \in 1..6 /\ n # 5
  <2>1. DOMAIN OrgTriggers = 1..5 /\ Len(OrgTriggers) = 5
    BY DEF OrgTriggers
  <2>2. /\ First(m, OrgTriggers) \in 1..(5 + 1)
        /\ First(m, OrgTriggers) # 5 + 1 => Mentions(m, OrgTriggers[First(m, OrgTriggers)])
        /\ \A i \in 1..5 : i < First(m, OrgTriggers) => ~Mentions(m, OrgTriggers[i])
    BY <2>1, FirstOfTriggers
  <2>3. Mentions(m, OrgTriggers[5]) => Mentions(m, OrgTriggers[4])
    <3>1. Mentions(m, OrgTriggers[5]) => "team analysis" \in m \/ "composition analysis" \in m
      BY DEF Mentions, OrgTriggers
    <3>2. "team" \in m \/ "composition" \in m => Mentions(m, OrgTriggers[4])
      BY DEF Mentions, OrgTriggers
    <3> QED
      BY <3>1, <3>2, TextsAssumption
  <2> QED
    BY <2>2, <2>3
<1>2. /\ NexusAction(m) \in {"adapt_communication", "calibrate_style", "cultural_profile"}
      /\ AtlasAction(m) \in {"workforce_plan", "talent_optimizer", "analyze_team"}
  BY ChosenOfTwo DEF NexusAction, AtlasAction
<1>3. /\ SentinelAction(m) \in {"log_decision", "escalation_gate", "enforce_disclaimer", "compliance_check"}
      /\ BridgeAction(m) \in {"match_student", "employer_forecast", "assess_placement", "pipeline_health"}
  <2>1. SentinelAction(m) \in {"log_decision", "escalation_gate", "enforce_disclaimer", "compliance_check"}
    <3>1. PICK s, t, u : /\ s = {"log", "audit trail", "decision"} /\ t = {"escalat", "approval", "gate"}
                         /\ u = {"disclaimer", "prism disclaimer"}
      OBVIOUS
    <3>2. SentinelAction(m) =
             <<"log_decision", "escalation_gate", "enforce_disclaimer", "compliance_check">>
               [First(m, <<s, t, u>>)]
      BY <3>1 DEF SentinelAction
    <3> QED
      BY <3>2, ChosenOfThree
  <2>2. BridgeAction(m) \in {"match_student", "employer_forecast", "assess_placement", "pipeline_health"}
    BY ChosenOfThree DEF BridgeAction
  <2> QED
    BY <2>1, <2>2
<1>4. /\ Handled(d, Only("sentinel", SentinelAction(m), {"query"}))
      /\ Handled(d, Only("bridge", BridgeAction(m), {"query"}))
      /\ Handled(d, Only("nexus", NexusAction(m), {"query"}))
      /\ Handled(d, Only("atlas", AtlasAction(m), {"query"}))
      /\ Handled(d, Only("atlas", "analyze_team", {"query"}))
  BY <1>2, <1>3, OnlyHandled, Registrations, OrgActions
<1>5. OrgPlan(m) =
        <<Only("sentinel", SentinelAction(m), {"query"}), Only("bridge", BridgeAction(m), {"query"}),
          Only("nexus", NexusAction(m), {"query"}), Only("atlas", AtlasAction(m), {"query"}),
          TeamAnalysis, Only("atlas", "analyze_team", {"query"})>>[n]
  BY DEF OrgPlan
<1> HIDE DEF n
<1> QED
  BY <1>1, <1>4, <1>5

LEMMA AllHandled ==
  ASSUME NEW m \in Texts \union Messages
  PROVE  Handled(RouteToDomain(m), Plan(RouteToDomain(m), m))
<1>1. RouteToDomain(m) \in Domains
  BY TextsAssumption, DomainsCovered
<1>2. /\ Plan("personal_development", m) = PersonalPlan(m)
      /\ Plan("strategic_advisory", m) = StrategicPlan(m)
      /\ Plan("organizational_intelligence", m) = OrgPlan(m)
  BY Zenon DEF Plan
<1> QED
  BY <1>1, <1>2, PersonalHandled, StrategicHandled, OrgHandled DEF Domains

(***************************************************************************)
(* The mentor.                                                             *)
(***************************************************************************)
MentorInv == Handled(told.domain, told.plan)

LEMMA MentorInvInit == MentorInit => MentorInv
BY DEF MentorInit, MentorInv, Started, NotTold, Handled

LEMMA MentorInvNext == MentorInv /\ [MentorNext]_mentorVars => MentorInv'
<1> SUFFICES ASSUME MentorInv, [MentorNext]_mentorVars PROVE MentorInv'
  OBVIOUS
<1> USE DEF MentorInv
<1>1. ASSUME NEW u \in Users, NEW s \in Sessions, NEW m \in Messages, Chat(u, s, m) PROVE MentorInv'
  <2>1. /\ told'.domain = RouteToDomain(m)
        /\ told'.plan = IF RouteToDomain(m) \in Orchestrators THEN Plan(RouteToDomain(m), m) ELSE {}
    BY <1>1 DEF Chat
  <2>2. Handled(RouteToDomain(m), Plan(RouteToDomain(m), m)) /\ Handled(RouteToDomain(m), {})
    BY AllHandled DEF Handled
  <2>3. Handled(told'.domain, told'.plan)
    BY <2>1, <2>2
  <2> QED
    BY <2>3 DEF Handled
<1>2. ASSUME NEW u \in Users, SubmitFeedback(u) PROVE MentorInv'
  BY <1>2 DEF SubmitFeedback, Handled
<1>3. CASE MemoryTurns
  BY <1>3 DEF MemoryTurns, Handled
<1>4. CASE Restart
  BY <1>4 DEF Restart, Started, NotTold, Handled
<1>5. CASE UNCHANGED mentorVars
  BY <1>5 DEF mentorVars, Handled
<1> QED
  BY <1>1, <1>2, <1>3, <1>4, <1>5 DEF MentorNext

-----------------------------------------------------------------------------
(***************************************************************************)
(* The runs of plans, of any size and with any dependencies.               *)
(***************************************************************************)
(* The round holds nodes that may run, and an awaited node got its inputs. *)
RoundOK ==
    /\ \A n \in ready : deps[n] \subseteq Completed
    /\ running # Idle => running \in ready /\ inputs[running] = deps[running]
    /\ stage # "round" => ready = {} /\ running = Idle

(* A set of nodes that wait for each other stays waiting as a whole: the   *)
(* first of them to run would need a result of another.                    *)
StuckWait == \A S \in SUBSET Nodes : Stuck(S) => S \subseteq waiting

(* The execution only stops when no waiting node may run.                  *)
DoneStuck == stage = "done" => \A n \in waiting : ~Satisfied(n)

(* A plan that is given to the orchestrator has no results yet.            *)
PlanIsNew == stage = "planned" => waiting = Nodes /\ returned = <<>>

DagInv == DagTypeOK /\ RoundOK /\ DependenciesFirst /\ OneResultEach /\ StuckWait
          /\ DoneStuck /\ PlanIsNew
LEMMA DagInvInit == DagInit => DagInv
<1> SUFFICES ASSUME DagInit PROVE DagInv
  OBVIOUS
<1>1. DagTypeOK
  BY DEF DagInit, DagTypeOK
<1>2. Completed = {}
  BY DEF DagInit, Completed
<1>3. RoundOK /\ DependenciesFirst /\ OneResultEach /\ StuckWait /\ DoneStuck /\ PlanIsNew
  BY <1>2 DEF DagInit, RoundOK, DependenciesFirst, OneResultEach, StuckWait, DoneStuck, PlanIsNew
<1> QED  BY <1>1, <1>3 DEF DagInv

(* A result that is appended keeps its place behind the earlier ones.      *)
LEMMA AppendResult ==
    ASSUME NEW n \in Nodes, NEW outcome \in {"completed", "failed"},
           returned \in Seq(Results),
           returned' = Append(returned, [node |-> n, status |-> outcome])
    PROVE  /\ returned' \in Seq(Results)
           /\ DOMAIN returned = 1..Len(returned)
           /\ DOMAIN returned' = 1..(Len(returned) + 1)
           /\ Len(returned) \in Nat
           /\ \A i \in 1..Len(returned) : returned'[i] = returned[i]
           /\ returned'[Len(returned) + 1].node = n
           /\ Completed' = Completed \union {n}
<1>1. [node |-> n, status |-> outcome] \in Results
  BY DEF Results
<1>2. /\ returned' \in Seq(Results)
      /\ Len(returned') = Len(returned) + 1
      /\ Len(returned) \in Nat
      /\ \A i \in 1..Len(returned) : returned'[i] = returned[i]
      /\ returned'[Len(returned) + 1] = [node |-> n, status |-> outcome]
  BY <1>1
<1>3. DOMAIN returned = 1..Len(returned) /\ DOMAIN returned' = 1..(Len(returned) + 1)
  BY <1>2
<1>4. Completed' = {returned'[i].node : i \in 1..(Len(returned) + 1)}
  BY <1>3 DEF Completed
<1>5. Completed = {returned[i].node : i \in 1..Len(returned)}
  BY <1>3 DEF Completed
<1>6. Completed' = Completed \union {n}
  BY <1>2, <1>4, <1>5
<1> QED  BY <1>2, <1>3, <1>6

(* What recording the result of a node that may run preserves.             *)
LEMMA ResultRecorded ==
    ASSUME DagInv, NEW n \in ready, NEW outcome \in {"completed", "failed"},
           Record(n, outcome), deps' = deps,
           inputs' \in [Nodes -> SUBSET Nodes], inputs'[n] = deps[n],
           \A m \in Nodes \ {n} : inputs'[m] = inputs[m]
    PROVE  /\ Completed' = Completed \union {n}
           /\ returned' \in Seq(Results)
           /\ waiting' \subseteq Nodes /\ ready' \subseteq waiting'
           /\ DependenciesFirst' /\ OneResultEach' /\ StuckWait'
<1>1. n \in waiting /\ n \in Nodes /\ deps[n] \subseteq Completed
  BY DEF DagInv, DagTypeOK, RoundOK
<1>2. Completed = Nodes \ waiting
  BY DEF DagInv, OneResultEach
<1>3. n \notin Completed
  BY <1>1, <1>2
<1>4. returned \in Seq(Results)
  BY DEF DagInv, DagTypeOK
<1>5. returned' = Append(returned, [node |-> n, status |-> outcome])
  BY DEF Record
<1>6. /\ returned' \in Seq(Results)
      /\ DOMAIN returned = 1..Len(returned)
      /\ DOMAIN returned' = 1..(Len(returned) + 1)
      /\ Len(returned) \in Nat
      /\ \A i \in 1..Len(returned) : returned'[i] = returned[i]
      /\ returned'[Len(returned) + 1].node = n
      /\ Completed' = Completed \union {n}
  BY <1>1, <1>4, <1>5, AppendResult
<1>7. \A i \in 1..Len(returned) : returned[i].node \in Completed
  BY <1>6 DEF Completed
<1>8. waiting' \subseteq Nodes /\ ready' \subseteq waiting'
  BY DEF DagInv, DagTypeOK, Record
<1>9. OneResultEach'
  <2>1. Completed' = Nodes \ waiting'
    BY <1>1, <1>2, <1>6 DEF Record
  <2>2. ASSUME NEW i \in 1..(Len(returned) + 1), NEW j \in 1..(Len(returned) + 1),
               returned'[i].node = returned'[j].node
        PROVE  i = j
    <3>1. CASE i \in 1..Len(returned) /\ j \in 1..Len(returned)
      <4>1. returned[i].node = returned[j].node
        BY <1>6, <2>2, <3>1
      <4> QED  BY <1>6, <3>1, <4>1 DEF DagInv, OneResultEach
    <3>2. CASE i \in 1..Len(returned) /\ j = Len(returned) + 1
      BY <1>3, <1>6, <1>7, <2>2, <3>2
    <3>3. CASE i = Len(returned) + 1 /\ j \in 1..Len(returned)
      BY <1>3, <1>6, <1>7, <2>2, <3>3
    <3> QED  BY <1>6, <3>1, <3>2, <3>3
  <2> QED  BY <1>6, <2>1, <2>2 DEF OneResultEach
<1>10. DependenciesFirst'
  <2> SUFFICES ASSUME NEW i \in 1..(Len(returned) + 1)
               PROVE  /\ inputs'[returned'[i].node] = deps[returned'[i].node]
                      /\ \A d \in deps[returned'[i].node] :
                            \E j \in 1..(i - 1) : returned'[j].node = d
    BY <1>6 DEF DependenciesFirst
  <2>1. CASE i \in 1..Len(returned)
    <3>1. /\ inputs[returned[i].node] = deps[returned[i].node]
          /\ \A d \in deps[returned[i].node] :
                \E j \in 1..(i - 1) : returned[j].node = d
      BY <1>6, <2>1 DEF DagInv, DependenciesFirst
    <3>2. returned[i].node \in Nodes \ {n}
      BY <1>2, <1>3, <1>7, <2>1
    <3>3. \A j \in 1..(i - 1) : returned'[j] = returned[j]
      BY <1>6, <2>1
    <3>4. returned'[i] = returned[i]
      BY <1>6, <2>1
    <3> QED  BY <3>1, <3>2, <3>3, <3>4
  <2>2. CASE i = Len(returned) + 1
    <3>1. \A d \in deps[n] : \E j \in 1..Len(returned) : returned[j].node = d
      BY <1>1, <1>6 DEF Completed
    <3>2. 1..(i - 1) = 1..Len(returned)
      BY <1>6, <2>2
    <3> QED  BY <1>6, <2>2, <3>1, <3>2
  <2> QED  BY <1>6, <2>1, <2>2
<1>11. StuckWait'
  <2> SUFFICES ASSUME NEW S \in SUBSET Nodes, Stuck(S)'
               PROVE  S \subseteq waiting'
    BY DEF StuckWait
  <2>1. Stuck(S)
    BY DEF Stuck
  <2>2. S \subseteq waiting
    BY <2>1 DEF DagInv, StuckWait
  <2>3. n \notin S
    BY <1>1, <1>2, <2>1, <2>2 DEF Stuck
  <2> QED  BY <2>2, <2>3 DEF Record
<1> QED  BY <1>6, <1>8, <1>9, <1>10, <1>11

(* The parts of DagInv that a step without a result does not touch.          *)
LEMMA NoResultYet ==
    ASSUME DagInv, UNCHANGED <<deps, waiting, returned>>
    PROVE  /\ Completed' = Completed
           /\ OneResultEach' /\ StuckWait'
           /\ \A n : Satisfied(n)' <=> Satisfied(n)
<1>1. Completed' = Completed
  BY DEF Completed
<1>2. OneResultEach'
  BY <1>1 DEF DagInv, OneResultEach
<1>3. StuckWait'
  BY DEF DagInv, StuckWait, Stuck
<1> QED  BY <1>1, <1>2, <1>3 DEF Satisfied

LEMMA NodeStarted ==
    ASSUME DagInv, NEW n \in Nodes, StartNode(n)
    PROVE  DagInv'
<1>1. n \in waiting /\ deps[n] \subseteq Completed /\ deps[n] \cap Completed = deps[n]
  BY DEF StartNode, DagInv, DagTypeOK, RoundOK
<1>2. Completed = Nodes \ waiting /\ Completed \subseteq Nodes
  BY DEF DagInv, OneResultEach
<1>3. /\ Completed' = Completed
      /\ OneResultEach' /\ StuckWait'
      /\ \A m : Satisfied(m)' <=> Satisfied(m)
  BY NoResultYet DEF StartNode
<1>4. inputs' = [inputs EXCEPT ![n] = deps[n]] /\ inputs' \in [Nodes -> SUBSET Nodes]
  BY <1>1, <1>2 DEF StartNode, DagInv, DagTypeOK
<1>5. DagTypeOK'
  BY <1>4 DEF StartNode, DagInv, DagTypeOK
<1>6. inputs'[n] = deps[n] /\ \A m \in Nodes \ {n} : inputs'[m] = inputs[m]
  BY <1>4 DEF DagInv, DagTypeOK
<1>7. RoundOK'
  BY <1>3, <1>6 DEF StartNode, DagInv, RoundOK
<1>8. \A i \in DOMAIN returned : returned[i].node \in Nodes \ {n}
  BY <1>1, <1>2 DEF Completed
<1>9. DependenciesFirst'
  BY <1>6, <1>8 DEF StartNode, DagInv, DependenciesFirst
<1>10. DoneStuck' /\ PlanIsNew'
  BY DEF StartNode, DoneStuck, PlanIsNew
<1> QED  BY <1>3, <1>5, <1>7, <1>9, <1>10 DEF DagInv

LEMMA NodeEnded ==
    ASSUME DagInv, NEW outcome \in {"completed", "failed"}, EndNode(outcome)
    PROVE  DagInv'
<1>1. running \in ready /\ inputs[running] = deps[running] /\ stage = "round"
  BY DEF EndNode, DagInv, RoundOK
<1>2. /\ Completed' = Completed \union {running}
      /\ returned' \in Seq(Results)
      /\ waiting' \subseteq Nodes /\ ready' \subseteq waiting'
      /\ DependenciesFirst' /\ OneResultEach' /\ StuckWait'
  <2>1. inputs' \in [Nodes -> SUBSET Nodes] /\ \A m \in Nodes \ {running} : inputs'[m] = inputs[m]
    BY DEF EndNode, DagInv, DagTypeOK
  <2>2. inputs'[running] = deps[running] /\ deps' = deps /\ Record(running, outcome)
    BY <1>1 DEF EndNode
  <2> QED  BY <1>1, <2>1, <2>2, ResultRecorded
<1>3. DagTypeOK'
  BY <1>2 DEF EndNode, DagInv, DagTypeOK
<1>4. RoundOK'
  BY <1>1, <1>2 DEF EndNode, Record, DagInv, RoundOK
<1>5. DoneStuck' /\ PlanIsNew'
  BY <1>1 DEF EndNode, DoneStuck, PlanIsNew
<1> QED  BY <1>2, <1>3, <1>4, <1>5 DEF DagInv

LEMMA NodeFailed ==
    ASSUME DagInv, NEW n \in Nodes, FailNode(n)
    PROVE  DagInv'
<1>1. n \in ready /\ deps[n] \subseteq Completed /\ deps[n] \cap Completed = deps[n]
  BY DEF FailNode, DagInv, RoundOK
<1>2. Completed = Nodes \ waiting /\ Completed \subseteq Nodes
  BY DEF DagInv, OneResultEach
<1>3. inputs' = [inputs EXCEPT ![n] = deps[n]] /\ inputs' \in [Nodes -> SUBSET Nodes]
  BY <1>1, <1>2 DEF FailNode, DagInv, DagTypeOK
<1>4. inputs'[n] = deps[n] /\ \A m \in Nodes \ {n} : inputs'[m] = inputs[m]
  BY <1>3 DEF DagInv, DagTypeOK
<1>5. /\ Completed' = Completed \union {n}
      /\ returned' \in Seq(Results)
      /\ waiting' \subseteq Nodes /\ ready' \subseteq waiting'
      /\ DependenciesFirst' /\ OneResultEach' /\ StuckWait'
  BY <1>1, <1>3, <1>4, ResultRecorded DEF FailNode
<1>6. DagTypeOK'
  BY <1>3, <1>5 DEF FailNode, DagInv, DagTypeOK
<1>7. RoundOK'
  BY <1>5 DEF FailNode, Record, DagInv, RoundOK
<1>8. DoneStuck' /\ PlanIsNew'
  BY DEF FailNode, DoneStuck, PlanIsNew
<1> QED  BY <1>5, <1>6, <1>7, <1>8 DEF DagInv

LEMMA DagInvNext == DagInv /\ [DagNext]_dagVars => DagInv'
<1> SUFFICES ASSUME DagInv, [DagNext]_dagVars PROVE DagInv'
  OBVIOUS
<1>1. CASE Select
  <2>1. /\ Completed' = Completed
        /\ OneResultEach' /\ StuckWait'
        /\ \A n : Satisfied(n)' <=> Satisfied(n)
    BY <1>1, NoResultYet DEF Select
  <2>2. DagTypeOK' /\ DependenciesFirst' /\ DoneStuck' /\ PlanIsNew'
    BY <1>1 DEF Select, DagInv, DagTypeOK, DependenciesFirst, DoneStuck, PlanIsNew
  <2>3. RoundOK'
    BY <1>1, <2>1 DEF Select, DagInv, RoundOK, Satisfied
  <2> QED  BY <2>1, <2>2, <2>3 DEF DagInv
<1>2. CASE Finish
  <2>1. /\ Completed' = Completed
        /\ OneResultEach' /\ StuckWait'
        /\ \A n : Satisfied(n)' <=> Satisfied(n)
    BY <1>2, NoResultYet DEF Finish
  <2>2. DagTypeOK' /\ DependenciesFirst'
    BY <1>2 DEF Finish, DagInv, DagTypeOK, DependenciesFirst
  <2>3. RoundOK'
    BY <1>2, <2>1 DEF Finish, DagInv, RoundOK
  <2>4. DoneStuck' /\ PlanIsNew'
    BY <1>2, <2>1 DEF Finish, DoneStuck, PlanIsNew
  <2> QED  BY <2>1, <2>2, <2>3, <2>4 DEF DagInv
<1>3. CASE EndRound
  <2>1. /\ Completed' = Completed
        /\ OneResultEach' /\ StuckWait'
        /\ \A n : Satisfied(n)' <=> Satisfied(n)
    BY <1>3, NoResultYet DEF EndRound
  <2>2. DagTypeOK' /\ DependenciesFirst' /\ DoneStuck' /\ PlanIsNew'
    BY <1>3 DEF EndRound, DagInv, DagTypeOK, DependenciesFirst, DoneStuck, PlanIsNew
  <2>3. RoundOK'
    BY <1>3, <2>1 DEF EndRound, DagInv, RoundOK
  <2> QED  BY <2>1, <2>2, <2>3 DEF DagInv
<1>4. CASE UNCHANGED dagVars
  <2>1. /\ Completed' = Completed
        /\ OneResultEach' /\ StuckWait'
        /\ \A n : Satisfied(n)' <=> Satisfied(n)
    BY <1>4, NoResultYet DEF dagVars
  <2>2. DagTypeOK' /\ DependenciesFirst'
    BY <1>4 DEF dagVars, DagInv, DagTypeOK, DependenciesFirst
  <2>3. RoundOK' /\ DoneStuck' /\ PlanIsNew'
    BY <1>4, <2>1 DEF dagVars, DagInv, RoundOK, DoneStuck, PlanIsNew
  <2> QED  BY <2>1, <2>2, <2>3 DEF DagInv
<1>5. CASE ExecuteDag
  <2>1. Completed = {} /\ Completed' = {} /\ DOMAIN returned' = {}
    BY <1>5 DEF ExecuteDag, DagInv, PlanIsNew, Completed
  <2>2. DagTypeOK' /\ RoundOK' /\ DoneStuck' /\ PlanIsNew'
    BY <1>5 DEF ExecuteDag, DagInv, DagTypeOK, RoundOK, DoneStuck, PlanIsNew
  <2>3. DependenciesFirst' /\ OneResultEach'
    BY <1>5, <2>1 DEF ExecuteDag, DagInv, PlanIsNew, DependenciesFirst, OneResultEach
  <2>4. StuckWait'
    BY <1>5 DEF ExecuteDag, DagInv, PlanIsNew, StuckWait
  <2> QED  BY <2>2, <2>3, <2>4 DEF DagInv
<1> QED
  BY <1>1, <1>2, <1>3, <1>4, <1>5, NodeStarted, NodeEnded, NodeFailed DEF DagNext, Execute

(* What is waiting at the end is the largest set of nodes that wait for    *)
(* each other: nothing that could run is left out by the deadlock check.   *)
LEMMA PendingIsStuck == DagInv => OnlyStuckLeftOut
<1> SUFFICES ASSUME DagInv, stage = "done"
             PROVE  waiting = UNION {S \in SUBSET Nodes : Stuck(S)}
  BY DEF OnlyStuckLeftOut
<1>1. waiting \in SUBSET Nodes
  BY DEF DagInv, DagTypeOK
<1>2. Stuck(waiting)
  <2> SUFFICES ASSUME NEW n \in waiting
               PROVE  deps[n] \cap waiting # {} \/ ~(deps[n] \subseteq Nodes)
    BY DEF Stuck
  <2>1. ~(deps[n] \subseteq Completed)
    BY DEF DagInv, DoneStuck, Satisfied
  <2>2. Completed = Nodes \ waiting
    BY DEF DagInv, OneResultEach
  <2> QED  BY <2>1, <2>2
<1>3. \A S \in SUBSET Nodes : Stuck(S) => S \subseteq waiting
  BY DEF DagInv, StuckWait
<1> QED  BY <1>1, <1>2, <1>3


-----------------------------------------------------------------------------
(***************************************************************************)
(* The services together. Every step is one of a service, and a step of    *)
(* none for the others.                                                    *)
(***************************************************************************)
ProtectionInv == StoreInv /\ QuotaInv /\ SpacedInv /\ RulesInv /\ MentorInv /\ DagInv

LEMMA StepOfEach ==
  ASSUME [Next]_allVars
  PROVE  /\ [StoreNext]_storeVars /\ [QuotaNext]_quotaVars /\ [BreakerNext]_breakerVars
         /\ [RulesNext]_rulesVars /\ [MentorNext]_mentorVars /\ [DagNext]_dagVars
BY DEF Next, Breaker, Dag, allVars

LEMMA ProtectionKept == Spec => []ProtectionInv
<1>1. Init => ProtectionInv
  BY StoreInvInit, QuotaInvInit, SpacedInit, RulesInvInit, MentorInvInit, DagInvInit DEF Init, ProtectionInv
<1>2. ProtectionInv /\ [Next]_allVars => ProtectionInv'
  BY StepOfEach, StoreInvNext, QuotaInvNext, SpacedNext, RulesInvNext, MentorInvNext, DagInvNext DEF ProtectionInv
<1> QED
  BY <1>1, <1>2, PTL DEF Spec

\* The store implements the sliding window, although it forgets timestamps
\* whenever it is asked (RateLimitStore.check).
THEOREM StoreKeepsTheLimit == Spec => KeepsTheLimit
<1>1. Init => StoreWindow!Init
  BY DEF Init, StoreInit, StoreWindow!Init
<1>2. ProtectionInv /\ [Next]_allVars => [StoreWindow!Next]_(StoreWindow!vars)
  BY StepOfEach, StoreStep DEF ProtectionInv, StoreInv
<1> QED
  BY <1>1, <1>2, ProtectionKept, PTL DEF Spec, KeepsTheLimit, StoreWindow!Spec

\* So no window of the store, wherever it begins, holds more requests than the limit.
THEOREM LimitInEveryWindow == Spec => []StoreWindow!Bounded
<1>1. ProtectionInv => StoreWindow!Bounded
  BY SameCardinality
     DEF ProtectionInv, StoreInv, AllBounded, InWindow, StoreWindow!Bounded, StoreWindow!From
<1> QED
  BY <1>1, ProtectionKept, PTL

\* Who was refused and waits for as many seconds as Retry-After says finds room.
THEOREM WaitingHelps == Spec => []RetryHonoured
<1>1. ProtectionInv => RetryHonoured
  BY PromiseKept DEF ProtectionInv
<1> QED
  BY <1>1, ProtectionKept, PTL

\* The quotas implement a window for each span, with the largest limit ever in
\* force for it, whatever organizations the requests come from (RateLimiter.check).
THEOREM QuotasAreKept == Spec => KeepsTheQuotas
<1>1. Init => MinuteQuota!Init /\ HourQuota!Init /\ DayQuota!Init
  BY DEF Init, QuotaInit, MinuteQuota!Init, HourQuota!Init, DayQuota!Init
<1>2. ProtectionInv /\ [Next]_allVars
        => /\ [MinuteQuota!Next]_(MinuteQuota!vars)
           /\ [HourQuota!Next]_(HourQuota!vars)
           /\ [DayQuota!Next]_(DayQuota!vars)
  BY StepOfEach, QuotaStep DEF ProtectionInv
<1> QED
  BY <1>1, <1>2, ProtectionKept, PTL
     DEF Spec, KeepsTheQuotas, MinuteQuota!Spec, HourQuota!Spec, DayQuota!Spec

\* So no minute, hour or day holds more requests of a user than the largest limit.
THEOREM QuotaInEveryWindow == Spec => [](MinuteQuota!Bounded /\ HourQuota!Bounded /\ DayQuota!Bounded)
<1>1. ProtectionInv => MinuteQuota!Bounded /\ HourQuota!Bounded /\ DayQuota!Bounded
  <2> SUFFICES ASSUME ProtectionInv PROVE MinuteQuota!Bounded /\ HourQuota!Bounded /\ DayQuota!Bounded
    OBVIOUS
  <2>1. /\ AllBounded(granted, Length["minute"], Largest("minute"))
        /\ AllBounded(granted, Length["hour"], Largest("hour"))
        /\ AllBounded(granted, Length["day"], Largest("day"))
    BY DEF ProtectionInv, QuotaInv, Spans
  <2>2. MinuteQuota!Bounded
    BY <2>1 DEF AllBounded, InWindow, MinuteQuota!Bounded, MinuteQuota!From, MinuteQuota!Cardinality, Cardinality
  <2>3. HourQuota!Bounded
    BY <2>1 DEF AllBounded, InWindow, HourQuota!Bounded, HourQuota!From, HourQuota!Cardinality, Cardinality
  <2>4. DayQuota!Bounded
    BY <2>1 DEF AllBounded, InWindow, DayQuota!Bounded, DayQuota!From, DayQuota!Cardinality, Cardinality
  <2> QED
    BY <2>2, <2>3, <2>4
<1> QED
  BY <1>1, ProtectionKept, PTL

\* No answer that comes late makes the breaker test twice in a recovery timeout.
THEOREM BreakerSpacesProbes == Spec => []ProbesSpaced
<1>1. ProtectionInv => ProbesSpaced
  BY TestingIsSpaced DEF ProtectionInv
<1> QED
  BY <1>1, ProtectionKept, PTL

\* Whatever rules are added, each proposal is treated at least as
\* strictly as before, and no disclaimer or review is lost (add_rule, evaluate).
THEOREM RulesTighten == Spec => RulesOnlyTighten
<1>1. RulesInv /\ RulesInv' /\ [RulesNext]_rulesVars => [RulesChange => Tightens]_rulesVars
  <2> SUFFICES ASSUME RulesInv, RulesInv', RulesNext, RulesChange PROVE Tightens
    OBVIOUS
  <2>1. PICK s \in Rules : AddRule(s)
    BY DEF RulesNext, RulesChange, Evaluate, ResolveApproval
  <2> QED
    BY <2>1, AddingTightens
<1>2. ProtectionInv => RulesInv
  BY DEF ProtectionInv
<1>3. [Next]_allVars => [RulesNext]_rulesVars
  BY StepOfEach
<1> QED
  BY <1>1, <1>2, <1>3, ProtectionKept, PTL DEF Spec, RulesOnlyTighten

\* Whatever a message says, the steps it leads to name an agent of the
\* orchestrator and an action the agent has, and wait for steps of the plan only.
THEOREM PlansAreHandled == Spec => []PlannedIsHandled
<1>1. Unhandled = {}
  BY AllHandled DEF Unhandled
<1>2. ProtectionInv => PlannedIsHandled
  BY <1>1 DEF ProtectionInv, MentorInv, PlannedIsHandled
<1> QED
  BY <1>2, ProtectionKept, PTL

\* In every plan, whatever fails, a node runs after all its dependencies and with
\* all their outputs (execute_dag, "respecting dependencies").
THEOREM DependenciesComeFirst == Spec => []DependenciesFirst
<1>1. ProtectionInv => DependenciesFirst
  BY DEF ProtectionInv, DagInv
<1> QED
  BY <1>1, ProtectionKept, PTL

\* execute_dag never loses a node it took and never reports one twice.
THEOREM ResultsCorrect == Spec => []OneResultEach
<1>1. ProtectionInv => OneResultEach
  BY DEF ProtectionInv, DagInv
<1> QED
  BY <1>1, ProtectionKept, PTL

\* A plan without cycles and unknown ids is executed completely, and of any other
\* plan exactly the nodes that can never run are left out.
THEOREM LeftOutCorrect == Spec => []OnlyStuckLeftOut
<1>1. ProtectionInv => OnlyStuckLeftOut
  BY PendingIsStuck DEF ProtectionInv
<1> QED
  BY <1>1, ProtectionKept, PTL
=============================================================================
