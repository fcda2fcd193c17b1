---------------------------- MODULE ParentStore ----------------------------
(***************************************************************************)
(* How retrieval reads the large chunks ("parents") of documents           *)
(* (ai/file_services/vector_utils/parent_store.py) through the cache in    *)
(* prism_inspire/core/app_cache.py, which the threads of the process       *)
(* share.                                                                  *)
(*                                                                         *)
(* A parent is written once, with the upload of its document, so a content *)
(* is not told apart from its id.  The clock counts coarse units: time     *)
(* stands still while a thread holds the lock of the cache.                *)
(***************************************************************************)
EXTENDS Naturals, FiniteSets, FiniteSetsExt, Functions

CONSTANTS
    Ids,          \* parent ids
    Stored,       \* those stored before the model starts
    Size,         \* Size[i]: the size of a content
    Retrievals,   \* threads that call get_parent_contents
    MaxAsked,     \* most ids in one call
    MaxItems,     \* max_items
    MaxMemory,    \* max_memory_mb
    Target,       \* what an eviction aims at: 0.8 * MaxMemory
    MaxContent,   \* a larger content is not cached: 1 MB
    Ttl,          \* ttl_seconds
    MaxTime,      \* bound of the clock
    None          \* nobody holds the lock

ASSUME IdsAssumption  == Stored \subseteq Ids /\ Size \in [Ids -> Nat]
ASSUME NoneAssumption == None \notin Retrievals
(* 0.8 * 50 MB + 1 MB <= 50 MB *)
ASSUME MemoryAssumption ==
    /\ {MaxItems, MaxMemory, Target, MaxContent, Ttl, MaxTime, MaxAsked} \subseteq Nat
    /\ Target + MaxContent <= MaxMemory

VARIABLES
    table,    \* the ids in parent_ids
    clock,
    access,   \* access[i]: when the cached id i was last used
    memory,   \* _memory_usage
    lock,     \* who is in the middle of set_many
    call      \* call[r]: the current or the last call of a thread

parentVars == <<table, clock, access, memory, lock, call>>

Cached == DOMAIN access
SizeOf(S) == MapThenSumSet(LAMBDA i : Size[i], S)

NewCall == [stage |-> "new", asked |-> {}, hits |-> {}, rows |-> {}, todo |-> {},
            due |-> {}, answer |-> {}]

ParentsInit ==
    /\ table  = Stored
    /\ clock  = 0
    /\ access = <<>>
    /\ memory = 0
    /\ lock   = None
    /\ call   = [r \in Retrievals |-> NewCall]

-----------------------------------------------------------------------------
(* An upload commits its parents.                                          *)
Store(S) ==
    /\ S # {}
    /\ table' = table \union S
    /\ UNCHANGED <<clock, access, memory, lock, call>>

Tick ==
    /\ lock = None
    /\ clock < MaxTime
    /\ clock' = clock + 1
    /\ UNCHANGED <<table, access, memory, lock, call>>

Fresh(i) == i \in Cached /\ clock - access[i] < Ttl

(* get_many: a hit counts as a use, an expired entry is dropped.  When     *)
(* everything is a hit the database is not asked.                          *)
GetMany(r, ids) ==
    /\ call[r].stage \in {"new", "done", "failed"}
    /\ lock = None
    /\ LET hits    == {i \in ids : Fresh(i)}
           expired == (ids \intersect Cached) \ hits
       IN
       /\ access' = [i \in Cached \ expired |-> IF i \in hits THEN clock ELSE access[i]]
       /\ memory' = memory - SizeOf(expired)
       /\ call' = [call EXCEPT ![r] =
                      [NewCall EXCEPT !.stage = IF hits = ids THEN "done" ELSE "fetch",
                                      !.asked = ids, !.hits = hits,
                                      !.due = ids \intersect table, !.answer = hits]]
    /\ UNCHANGED <<table, clock, lock>>

(* The rows of the ids that the cache did not have.                        *)
Rows(c) == (c.asked \ c.hits) \intersect table

(* Mutant: the hits are forgotten when the database was asked.             *)
RowsOnly(c) == c.rows
(* What a call returns that asked the database.                            *)
Combined(c) == c.hits \union c.rows

Fetch(r) ==
    /\ call[r].stage = "fetch"
    /\ LET c == [call[r] EXCEPT !.rows = Rows(call[r]), !.todo = Rows(call[r])] IN
       call' = [call EXCEPT ![r] =
                   IF c.rows = {} THEN [c EXCEPT !.stage = "done", !.answer = Combined(c)]
                   ELSE [c EXCEPT !.stage = "cache"]]
    /\ UNCHANGED <<table, clock, access, memory, lock>>

(* No connection in time, or an error of the database: the hits only.      *)
FetchFails(r) ==
    /\ call[r].stage = "fetch"
    /\ call' = [call EXCEPT ![r].stage = "failed"]
    /\ UNCHANGED <<table, clock, access, memory, lock>>

-----------------------------------------------------------------------------
(* set_many, one content after the other, with the lock held throughout.   *)

Entry(i) == Cached \intersect {i}

Full(i) ==
    \/ memory - SizeOf(Entry(i)) + Size[i] > MaxMemory
    \/ Cardinality(Cached) >= MaxItems

Fits(S) == memory - SizeOf(Cached \ S) <= Target /\ Cardinality(S) <= MaxItems

(* _evict_items drops the entries used longest ago, one at a time, until   *)
(* the rest fits.  Entries used at the same time come in any order.        *)
Evictions ==
    {E \in SUBSET Cached :
        /\ \A e \in E, k \in Cached \ E : access[e] <= access[k]
        /\ E = Cached \/ Fits(Cached \ E)
        /\ E # {} => \E e \in E : /\ \A f \in E : access[f] <= access[e]
                                  /\ ~Fits((Cached \ E) \union {e})}

(* Mutant: the size of the replaced content stays in the sum.              *)
PutTwice(i, E) ==
    /\ access' = [k \in (Cached \ E) \union {i} |-> IF k = i THEN clock ELSE access[k]]
    /\ memory' = memory - SizeOf(E) + Size[i]
Put(i, E) ==
    /\ access' = [k \in (Cached \ E) \union {i} |-> IF k = i THEN clock ELSE access[k]]
    /\ memory' = memory - SizeOf(E \union Entry(i)) + Size[i]

SetItem(r, i) ==
    /\ call[r].stage = "cache"
    /\ i \in call[r].todo
    /\ lock \in {None, r}
    /\ \/ Size[i] > MaxContent /\ UNCHANGED <<access, memory>>
       \/ /\ Size[i] <= MaxContent
          /\ \E E \in IF Full(i) THEN Evictions ELSE {{}} : Put(i, E)
    /\ LET c == [call[r] EXCEPT !.todo = @ \ {i}] IN
       /\ lock' = IF c.todo = {} THEN None ELSE r
       /\ call' = [call EXCEPT ![r] =
                      IF c.todo # {} THEN c
                      ELSE [c EXCEPT !.stage = "done", !.answer = Combined(c)]]
    /\ UNCHANGED <<table, clock>>

-----------------------------------------------------------------------------
Questions == {ids \in SUBSET Ids : Cardinality(ids) \in 1..MaxAsked}

ParentsNext ==
    \/ \E S \in SUBSET (Ids \ table) : Store(S)
    \/ Tick
    \/ \E r \in Retrievals, ids \in Questions : GetMany(r, ids)
    \/ \E r \in Retrievals : Fetch(r)
    \/ \E r \in Retrievals : FetchFails(r)
    \/ \E r \in Retrievals, i \in Ids : SetItem(r, i)

-----------------------------------------------------------------------------
(* The cache keeps its bounds although two threads may cache the same       *)
(* content and entries leave by expiry and by eviction: _memory_usage is    *)
(* the size of what is cached, which stays within the limit; and there is   *)
(* at most one content more than max_items, because set_many evicts down to *)
(* max_items and then adds one.                                             *)
CacheBounded ==
    /\ memory = SizeOf(Cached)
    /\ SizeOf(Cached) <= MaxMemory
    /\ Cardinality(Cached) <= MaxItems + 1

(* A retrieval returns everything it asked for that was stored when it     *)
(* started, whatever expires, is evicted or is cached by another thread    *)
(* meanwhile; when the database fails it returns what the cache had.       *)
CompleteAnswer ==
    \A r \in Retrievals :
        /\ call[r].answer \subseteq call[r].asked \intersect table
        /\ call[r].stage = "done" => call[r].due \subseteq call[r].answer
=============================================================================
