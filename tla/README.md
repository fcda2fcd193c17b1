# Formal models of the Inspire Genius backend

TLA+ specifications of the parts of this FastAPI backend whose correctness depends on
interleavings, on the order of events and on calls that fail half-way; the TLC instances that
check them; and TLAPS proofs of the properties that matter most, for every value of the
constants. Paths below are relative to the repository's source root.

Contents: [the system](#the-system) · [modules and code](#modules-and-code) ·
[runs](#runs-and-bounds) · [fairness](#fairness) · [proofs](#proofs) ·
[disagreements with the code's own comments](#disagreements-between-code-and-text) ·
[what is not covered](#what-is-not-covered) · [plan](#plan)

## The system

One Python process per worker serves REST and WebSocket requests. Coroutine handlers share an
event loop; plain functions run in its thread pool, or block the loop when a coroutine calls
them. The state that survives is in PostgreSQL (through SQLAlchemy, at READ COMMITTED, without
row locks), in S3, in a vector store and in Cognito. No transaction spans two of these.

| Component | State | Operations | Interacts with |
|---|---|---|---|
| Conversation store (`ai/chat_services/chat_schema.py`) | conversations, chat_messages, audio objects | create, rename, delete, `add_message_to_conversation`, audio task | sessions, REST, S3 |
| WebSocket sessions (`ai/ai_agent_services/agent_services`) | current conversation, in-memory history, temporary recording, queued save tasks | text, audio, switch, new conversation, close | store, retrieval, model, voice |
| Conversation REST endpoints (`chat_routes.py`) | conversations; the scroll of a client | `start_session`, create, rename, delete, page | store |
| Document upload (`ai/file_services/file_service.py`) | files and reports rows, S3 objects, chunks | upload a batch, index it, clean up, delete | S3, database, vector store |
| Retrieval (`vector_store_func.py`, `agents/`) | documents and reports of a session | search in groups, force texts, read reports | upload, parent chunks, sessions |
| Parent chunks (`parent_store.py`, `core/app_cache.py`) | parent_ids table, cache shared by threads | batch insert, retrieve through the cache | retrieval |
| Meridian plans (`ai/meridian/core/orchestrator.py`) | the plan and its results during one request | `execute_dag`, agent wrapper | agents |
| Meridian mentor (`core/meridian.py`, `api`, `agents/`) | sessions, notes of the agents, memories in the vector store | chat, feedback, history | orchestrators, memory |
| Meridian guards (`rules`, `quotas`, `resilience`) | rules and approvals; timestamps of users; breaker states | evaluate, resolve; check; let through, report | agents |
| Voice (`ai/audio_services`) | provider configuration, copied for 60 s | resolve a provider, change the configuration | external providers |
| Agent settings (`ai/agent_settings`) | agents, categories, prompts, preferences | create, update, deactivate, choose | sessions |
| Accounts and invitations (`users/auth_service`) | rows of users and invitations, accounts in Cognito | invite, accept, resend, sign up, verify, edit, deactivate, delete | Cognito, mail |
| Authentication (`users/auth.py`, `user_auth.py`) | password in two places, identities of providers, cache of ids | reset, change, social login, verify a token | Cognito, accounts |
| Roles, organizations, licenses, credits (`users/`) | rows in PostgreSQL | assign, allocate, revoke | accounts |
| Moderation (`users/feedback`, `users/issues`) | corrections, agent memories, prompt templates, issues | report, review, activate, answer | settings |
| Reports (`users/*/routes.py`) | none, but for reports and sessions that are recorded | dashboards, analytics, lists, exports | every table |
| Middleware (`prism_inspire/middleware`) | request times per client | admit or refuse a request | every request |
| Migrations (`prism_inspire/alembic`) | the schema and its revision | upgrade, downgrade | every table |

What is hard, and what makes each component correct:

* **Conversation store.** Several processes append to one conversation, each computing the
  next sequence number and the new message count from values read earlier. Correct: an
  append-only log with exact counts; generated titles made from the opening message; audio
  keys that name stored objects.
* **Sessions.** A question and its answer are stored by tasks that run after the handler went
  on, and the user may switch conversation before they do. Correct: questions and answers are
  in the conversation they belong to and in order; the model's history never mixes
  conversations; a recording stays on disk only if removing it failed; every turn ends.
* **Upload.** Five places, every call may fail, and a delete may come at any time. Correct:
  no object without a row, no row without its object, nothing searchable after its deletion,
  everything accepted searchable, nothing of a rejected request left.
* **Retrieval.** Documents come and go during a session, and each of a question's searches may
  fail; a deletion may even come before the chunks it is to remove. Correct: no document is left out
  because of another; one that was deleted, and whose chunks were, is not quoted in a later session.
* **Parent cache.** Threads share one dictionary with a running size; entries leave by expiry
  and eviction while a call is waiting for the database. Correct: exact accounting, limits
  kept, complete answers.
* **Plans and mentor.** Plans may be cyclic or name ids that do not exist, agents may be missing
  or fail; keywords, plans, registrations and handlers are in seventeen files that must agree.
  Correct: dependencies first, nothing runnable left out, an end; every plan can be carried out.
* **Guards.** Timestamps are dropped early, answers come late, rules are added at any time. Correct:
  no window of time exceeds its limit, test calls are spaced, the breaker recovers, a rule never
  loosens what is decided.
* **Accounts and authentication.** Every handler goes through Cognito and the database, finds both
  by e-mail address, and compensates when a step fails. Correct: a row has its account and an
  account its row, a deleted user stays out, a verified user was confirmed, the two copies of a
  password agree, tokens name the user's row, a cached id is no older than its time to live.
* **Roles, organizations, licenses, credits, settings, session start.** Limits are checked by a
  query and not by the database, and totals are computed from rows read before. Correct: a limit is
  exceeded by requests that overlap, or whose look failed and was taken for "there is none", and by no
  more than there are of them; totals never exceed what the ledger covers.
* **Voice.** The configuration is copied, and an expired copy is used when the database does not answer.
  Correct: while it answers, what is used was replaced less than a time to live ago; and never does a
  resolution go back to an earlier configuration.
* **Reports.** One answer is made of many queries, each of a moment of its own. Correct: figures of
  one answer differ by no more than what changed in the meantime.
* **Migrations.** 36 scripts, each written against the schema its author had. Correct: the revision
  determines the schema, whatever commands led there.

The hazards are listed at their lines in `PROJECT.json`.

## Modules and code

`PROJECT.json` maps every definition to its lines. Names follow the code where possible.

| Module | Models | Remarks |
|---|---|---|
| `ChatLog` | abstract: an append-only log per conversation, each message at most once, and its reported size | implemented by `ChatStore` |
| `ChatStore` | `chat_schema.py`, `models/chat.py`, `title_generator.py` | one call per process, a step per statement |
| `ChatSession` | `agent_services.py`, `handlers/`, `agent_utils.py` | event loop with its queue of save tasks |
| `FileUpload` | `file_service.py`, its `schema.py` and `document_utils.py` | a step per call of a service |
| `DagExecution` | `orchestrator.py`, `base_agent.py` | every plan over the given ids; composed in `Protection` |
| `Accounts` | `auth_service/schema.py`, `user_management.py`, `user_auth.py`, `cognito_utils.py` | one e-mail address; a step per transaction or call of Cognito |
| `Requests` | `db/session.py` and the thread pool | what every module of REST requests shares |
| `CheckThenInsert` | abstract: a limit that only handlers check | instantiated six times in `Tenancy`, once in `ChatApi` |
| `Roles`, `Organizations`, `Licenses`, `Credits` | `users/rbac`, `users/organization`, `users/license`, `users/distributor`, `users/practitioner` | composed in `Tenancy` |
| `ChatApi`, `AgentSettings`, `Moderation`, `Passwords`, `SocialLogin`, `SubCache`, `Voice` | `chat_routes.py`, `ai/agent_settings`, `users/feedback`, `users/issues`, `user_auth.py`, `users/auth.py`, `provider_factory.py` | composed in `RestApi` |
| `SlidingWindow` | abstract: a limit that holds for every window of time | implemented by `RateLimitStore` and three times by `RateLimiter` |
| `RateLimitStore`, `RateLimiter`, `CircuitBreaker`, `DecisionRules` | `middleware/rate_limiter.py`, `quotas/rate_limiter.py`, `resilience/`, `rules/decision_rules.py` | composed in `Protection` |
| `MentorPlans`, `Mentor` | the thirteen agents, the three orchestrators, `core/meridian.py`, `api/service.py`, `memory_service.py` | composed in `Protection` |
| `Retrieval`, `ParentStore` | `connection_handler.py`, `vector_store_func.py`, `agents/*.py`; `parent_store.py`, `app_cache.py` | composed in `Grounding` |
| `Migrations`, `Reports` | `alembic/versions`; the routes of dashboards, analytics, costs, exports | composed in `Database` |
| `MC...` | the instances for TLC: symmetry and sizes | other modules are checked as they are |
| `...Proofs` | the TLAPS proofs about a module and those it is composed of | `DocumentsProofs` is about `FileUpload` and `Grounding` |

`Tenancy` interleaves its components: a request of any of them may run beside one of another,
because they share threads and roles. `RestApi`, `Protection`, `Grounding` and `Database` hold
components that share no state (or share it read-only), so that a behaviour follows one of them
(`followed`, `watched`): the product of independent components would show nothing more.

**ChatStore.** `call[p]` is the call a process is in: `ReadLastMessage` (the last row),
`ReadConversation` (count and title), then `Commit` or, when the unique constraint on
(conversation, sequence number) is violated, `Conflict`. SQLAlchemy flushes both changes with
the commit, so they become visible together. A deleted conversation is still written, because the
function does not look at `is_deleted`. The end of a process is `Rollback` of its call and
`DropAudio` of its tasks. A title is `None` (also "No Title" and "Chat ...", which count as
empty), a user's title, or the message it was made from.

**ChatSession.** Handlers suspend at four places (transcription, conversion, search,
streaming). The event loop runs the tasks that were queued before a handler resumes after a
suspension that yields to the loop: `ahead` counts them. A typed question is saved by a task that
reads the session's conversation *when it runs*, an answer by a callback that captured it. The
store appears as a log, which `ChatStore` is shown to be, with insertions that may fail. Where the code
removes a recording, `os.remove` may fail: the handler then forgets the path (`path`), and the file stays
(`disk`); `stuck` remembers which files it failed on, and TLC lets it fail on `MaxStuck` of them.

**FileUpload.** `up[r]` is the `FileUploadManager`: its category is shared by the batch and
detected only after the rule about categories was checked. Each service call succeeds or fails;
`mishap` remembers the documents whose clean-up itself failed and `late` those that were
deleted before their chunks were added, the two cases the code leaves to nobody.

**DagExecution.** `ExecuteDag` is the call with any plan and any registered agents. Rounds as in the
code: collect the nodes whose dependencies have results, run them one after the other, stop when a
round is empty. The order within a round is left open, so what is shown holds for any order of the list.

**Accounts.** `user` is the row of the address, `pool` its account in Cognito, `inv` its
invitations; `req[r].stage` is the next call of a request, and `seen`, `doomed`, `token`, `whose` and
`flag` are what it has read or was given. Whatever the handlers look up by address is here whatever
is there *now*, so a request may act on a row or an account that another one has made in the
meantime; what is kept by id (`seen.sub`) is compared. A hard deletion holds its locks from `Wipe` to
the commit, and calls Cognito in between; `doomed` is how many of the oldest invitations it has
deleted, since rows are only added meanwhile. Every call may fail, and a failure that the code
logs and swallows is written to `left`, a history variable that no guard reads but its bound:
`orphan`, `undeleted`, `halfwiped`, `enabled`, `unsent` for the steps that may stay half-done,
`overtaken` and `crossed` for two requests that met. The invariants say that nothing else makes
the places disagree, so each names the few mishaps that excuse it.

**Requests** and the modules that extend it. A request takes a thread if one of `Threads` is free;
a step is a query with what is decided on it, or a commit, and before each of its commits a request
may be rolled back. What a handler read is in `req[r]`, and may be stale when it is used. A handler
that assigns constants to a row it looked up is one step.

**Tenancy.** One organization. `biz`, `members`, `assigned`, `licenses`, `roles` and `grants` are the rows,
each named by the request that added it; `allocated`, `total` and `ledger` are the totals of the
credits and the transactions. Whether an organization has an administrator is answered "no" also
when the query fails. Unmodelled neighbours (other organizations, other names) are never
read by these requests.

**RestApi.** `ChatApi` has the conversations in the order in which they were updated, a client that
scrolls, and the history of a device. The queries of this part answer an error of the database with an empty
list: a session then starts in a new conversation (`looked` is false) although an empty one may be there, and
a page of `Nothing` ends the scroll like a conversation that was deleted. `AgentSettings` has one category
name and one agent name that
every request uses. `Moderation` keeps that the ORM writes a column only when the assigned value
differs from the one it read. `Passwords` has the password in Cognito and its hash in the row.
`SocialLogin` has one address, whose row belongs to the identity that came first, and a look for it that
finds nobody when it fails. `SubCache` has the
look into the cache, the query and the insertion as three steps. `Voice` has the rows of the
configuration as a number, and the copy the process keeps: `at` is when it was made, 0 after an invalidation,
and `read` when it was read, which is what a resolution counts from if the database fails and the copy is used
after all (`LoadFails`).

**Protection.** `RateLimitStore` counts time in fractions of a second, because the answer is in whole
ones. In `CircuitBreaker` a caller that was let through reports at any later time. `Mentor` is one
object between two restarts; a message is the set of the keywords it contains, from which
`RouteToDomain` and the orchestrators' branches follow as in the code; `Actions` says what parameters
each handler of each agent cannot do without, so that `Outcome` is the result the code returns. The agents'
notes, the usage and the check-ins are part of it because an action is the whole handler. No profile is ever
stored (see [below](#disagreements-between-code-and-text)), so there is none.

**Grounding.** In `Retrieval` uploads and deletions of other requests interleave with the steps of one
session: opening (documents, reports, forced texts) and questions (a search per group, each of which
may fail). A document can be deleted from the moment it has a row, hence before its chunks are added, while
they are, or twice; `stray` are the deleted ones whose chunks are in the vector store nevertheless, because it
failed to remove them or because they came later. In `ParentStore` `GetMany` is one step because it holds the
lock; `SetItem` is a step per
content, with the lock held across them. An eviction takes the entries used longest ago and stops as
soon as the rest fits.

**Database.** A script of `Migrations` is two sequences of operations, in the names of alembic's `op`;
`Fits` says when the schema lets PostgreSQL carry one out and `Allowed` when the rows do; `Altered` is what
becomes of the schema and `Executed` what becomes of the rows as well. So a script can be followed on the
schema alone (`Drafted`), which gives each revision its schema (`Built`). Only what other scripts touch
again is kept. An answer of `Reports` is a sequence of counts, each over some people, statuses and
dates; its figures are what these found when they ran. Rows that nothing tells apart are numbered.

Definitions whose comment starts with "Mutant:" are plausible bugs of the definition below
them. The specifications do not use them; putting one in its place must break the property it is
listed with in `PROJECT.json`, which shows that the property depends on the code.

## Runs and bounds

| Run | Instance | Shows |
|---|---|---|
| `chat_store` | 2 processes, 2 conversations, 2 messages, fair | `TitleFromFirstMessage`, `AudioBacked`, `IsLog` (refinement of `ChatLog`), `AudioSettles` |
| `chat_session` | 2 sessions, 2 conversations of which one is created, 2 questions, 1 recording that cannot be removed, fair | `MessagesInPlace`, `TurnsInOrder`, `RecordingsOwned`, `HistoryOfConversation`, `TurnEnds` |
| `file_upload` | 1 request of up to 2 of a PDF, a table and a text, deletions at any time | `RowsMatchObjects`, `DeletedIsForgotten`, `AnswerIsTrue` |
| `accounts` | 2 invitations, 1 sign-up, 1 thread for all other requests, 2 requests at a time, 1 mishap | `AddressConsistent`, `DeletedStaysOut`, `VerifiedIsConfirmed` |
| `tenancy` | 3 requests of any kind, 2 at a time; 1 agent, 2 practitioners, amounts 1 and 2 of 2 purchased | `LimitsAreChecked`, `LedgerCoversTotals` |
| `rest_api` | 4 requests of one part, 2 at a time, rollbacks everywhere | `UniqueUnlessOverlapped`, `ScrollComplete`, `ApprovedIsRemembered`, `PasswordsAgree`, `TokensNameUser`, `CachesFresh`, `NeverBack` |
| `protection` | 4 requests at times up to 10; 2 organizations with two configurations; 3 callers of a breaker; every rule over 3 agents; 3 chats of 2 users with 1 restart; every plan over 3 nodes and one unknown id; fair | `RetryHonoured`, `KeepsTheLimit`, `KeepsTheQuotas` (refinements of `SlidingWindow`), `ProbesSpaced`, `Recovers`, `RulesOnlyTighten`, `PlannedIsHandled`, `DependenciesFirst`, `OnlyStuckLeftOut`, `ExecutionEnds` |
| `grounding` | 3 documents, agents coach and career, 1 forced text, 1 deleted document, 2 mishaps; 2 threads asking for 1 or 2 of 4 parents, a cache of 1 item | `EveryDocumentHeard`, `ForgottenStays`, `CacheBounded`, `CompleteAnswer` |
| `database` | the 36 scripts with 7 tables that may hold rows, commands for the next and the previous revision, base and head; 2 people with 2 rows of any table, 2 changes during an answer | `SchemaOfRevision`, `FiguresAgree` |
| `accounts_invite`, `migrations_head`, `protection_rules` | the smallest that shows it; the last one that of `protection` | a counterexample each, see below |

Several properties are conjunctions of promises that are violated together or not at all by the
same kind of mistake; their parts have names of their own in the modules (`UniqueUnlessOverlapped`,
`CachesFresh`, `LimitsAreChecked`, `AddressConsistent`, `CacheBounded`, `AnswerIsTrue`).
Types, `CountMatchesRows`, `SequenceGapFree` and `OneResultEach` are in no run because they are proved.

Why these are enough:

* A lost update or a repeated number needs two concurrent calls: the row of the second carries the
  wrong number, or the count misses it. More processes only add calls that read the same values.
  Two conversations are needed where a row could end up in the wrong one. Counts, numbers, titles,
  audio keys and the refinement are moreover proved for all sizes.
* A misplaced row needs a session with a question and a switch, and a second session to fill the
  queue in between. `MaxPairs` = 1 makes the in-memory history overflow at the second question.
* A batch of two is the smallest that shares a category; the three documents are the three kinds
  the code tells apart. Two requests never hold the same document, because each upload
  creates a new file id; so a second request would only repeat what one shows, and what does share
  documents with it, the deletions, is there.
* Sizes 1, 2, 3 and 4 in a memory of 4 reach both limits of the cache separately; 4 is the content
  too large to be cached, and the one that is not stored at first. `MaxTime` = `Ttl` = 1 lets every
  entry expire once; expiry depends on the age only.
* Three documents with `Alone` = 2 (4 in the code) are one more than are searched one by one, and an
  odd number, which is what the two groups must not lose. `Budget` = 1 and documents of two parts
  make the forced text overflow. `MaxMishaps` = 2 lets a document be stored in part or deleted too early beside
another one; `MaxDeleted` = 1 is a deletion at any time of an upload, of a session or of a question. Two
deletions also pass, with 11 million states (`MaxMishaps` = 1), too many for the run kept here.
* One recording that cannot be removed meets every other, which can, in the same session and in the other one;
  a second one only repeats it. The proofs have no such bound.
* Three nodes contain chains, forks, joins, cycles with and without a tail, and unknown ids. The
  proofs cover every size.
* Two invitations are needed for an invitation to lapse and be invited again, and for one request to
  clean up what another has made; a sign-up competes with both. `Threads` = 2 is the smallest number
  at which requests interleave, and the thread for all other requests serves any number of them in
  sequence. `MaxLeft` = 1 is the strictest choice for the invariants with one failure: with it, an
  excuse that the behaviour did not earn cannot come from another mishap. Two `Workers`,
  or `MaxLeft` = 2, also pass, each with 10 million states, which is too many for the run kept here.
* Two overlapping requests exceed a limit, and a third, in sequence, shows that it is then kept. Where
  a wrong state needs a row, a change and two readers, there are four. `Window` = 2 (10 in the code),
  `PageSize` = 1 and `MaxSize` = 3 let conversations and messages fall out of what is looked at.
* `UnitsPerSecond` = 2 is the coarsest division in which an instant is not a whole second;
  4 requests against a limit of 2 fill a window, are refused and return. 10 units let two windows pass.
  For the limiter and the breaker every size is proved as well.
* The messages of `MCProtection` contain every keyword that decides a branch of `MentorPlans`, alone and
  with those it competes with; three turns are enough for the third check-in of a series.
* Two rows per person and two changes are enough for a figure to miss a row that another one counts,
  and to count it twice. The tables that may hold rows are those on which a script imposes something.

`CHECK_DEADLOCK FALSE` is set because every instance comes to rest: its messages, questions,
documents, nodes, requests or time are used up. The caches and the migrations can always go on, but
use the same setting.

## Fairness

* `ChatStore`: a process goes on with the call it began (`ReadConversation`, `Commit` or
  `Conflict`), because the function is synchronous; and the event loop runs the audio task it
  scheduled. Nothing says that a user does anything, or that a crash does not happen: a dropped task
  counts as settled.
* `ChatSession`: the event loop runs its save tasks, and a handler that waits for a service is
  resumed, with a result or an exception. The code relies on this: most of these waits have no
  timeout.
* `Protection`: the coroutine that executes a plan is resumed and every agent returns or raises (there
  is no timeout around an agent); time passes, callers go on asking, and each call that was let through is
  reported. The
  last is what the breaker asks of its callers; without it a half-open breaker stays so for ever,
  which is the fate of one whose test call was taken by `get_fallback_agent` and never made.

Everything else is checked for safety only.

## Proofs

The `...Proofs` modules are checked by TLAPS for every value of the constants. Every safety property of
the passing runs is proved, and so are the refinements. Only the liveness properties are left to TLC.

What is assumed are the `ASSUME`s of the modules, which TLC evaluates on every run: model values such as
`None`, `First` or `Seeded` differ from the ids; requests of different kinds differ; unknown ids of a plan
are unknown; limits, windows, sizes and time-outs are natural numbers, positive where the code divides by
them or counts up to them; the sets of requests, texts and contents are finite; the revisions that commands
name exist. `ScriptsReturn` of `Migrations` is about no constant, see below.

Each proof has an inductive invariant, stated at the head of its section as a conjunction of named parts,
one lemma per action that it is kept, and one that it implies the property.

**ChatStore.** `CountMatchesRows` is not inductive: nothing in it says why a commit that writes
`seen + 1` does not undo another process's increment. The invariant `IInv` adds

* `Numbered`: the rows of a conversation carry the numbers 1..`count`, each once;
* `CallsBehind`: for a call that read both, `last` ≤ `seen` ≤ `count`, since it read the last row
  *before* the count.

At a commit the constraint requires that `last + 1` is free. With `Numbered` that means
`last` ≥ `count`, with `CallsBehind` then `last = seen = count`: so the unique index protects the
count too, and only because of the order of the two reads. From this follow `TypeCorrect`,
`CountCorrect`, `SequenceCorrect` and `TitleCorrect` (a title is generated when `seen` = 0, hence
for row 1). `AudioCorrect` uses its own invariant about the state of a task. `LogRefinement`
proves `Spec => IsLog`: a commit maps to `Add` and every other step to a stutter; it needs in
addition that an id is used by one call only (`Fresh`).

**ChatSession.** `SessionInv` follows each question from its turn to its task and its rows. `TurnInv` is
the part that is easy to miss: when a handler waits for the tasks ahead of it, every task of its session
is among them, and the question of a turn is asked where the session is. So the saving task of a question,
which reads the session's conversation only when it runs, runs before the session can be switched, unless
the turn broke off. `OrderInv` compares any two of rows and tasks by the number of their question.
`StoredInPlace`, `TurnsKeepOrder` and `HistoriesKept` follow. `RecordingsKept`: a file on disk is the recording
of an open session, whose handler will remove it, or one that `os.remove` failed on, for any number of these.

**FileUpload.** `RowsMatch`, `DeletedForgotten` and `AnswersTrue` hold for any number of requests and
documents and whatever is deleted between two calls. The properties speak of documents, the steps of
requests; what connects them is that a document belongs to one request. `UploadsInv` therefore says for each
request by itself what its position implies: which documents it has indexed (`Sound`; of reports only the
last), which rows it has written (`Placed`), and how objects, rows and chunks of each go together (`Matched`).
A step of one request or of a deletion then leaves the others' parts alone.

**Accounts.** The properties speak of the moments between requests. `AccountsInv` extends them to every
moment: where the property has an excuse, the invariant also allows a request that still owes the step.
An account without a row is one whose request is about to make the row or to take the account back
(`AccountHasRow`); a row without an account is about to be deleted (`RowHasAccount`); a deleted row whose
account is enabled is about to be disabled by an edit (`DisabledFirst`); who marks a row verified has
confirmed the account of that name, if it is still there (`ConfirmedFirst`). Three parts carry the
interleavings:

* `MadeOnce`: nothing bears the name of a request before it has made it, so whoever finds a row or an
  account of that name again finds the same one;
* `OneLock`: at most one request holds deleted invitations that are not committed;
* `InvitationHasRow`: while a deletion is under way, invitations younger than those it holds are of
  requests that are not over, because the unique address keeps them from making their row; the
  clean-up of an invitation holds its own.

With every request at rest only the excuses remain: `AddressesFit` and `DeletedStayOut`.
`VerifiedAreConfirmed` holds at every moment.

**Tenancy.** `LimitsKept` proves the refinement of `CheckThenInsert` for each limit; the abstract
requests are those that have looked and not yet inserted. `OverlapExceeds` says what follows: each limit is
exceeded by overlapping requests only, and by no more than one row for each thread but one. Counting
rows is not inductive; what is: the rows and the requests that are about to add one are together at most
the threads (`AssignedInv`, `AccessInv`, `MembersInv`). For the tones of an assignment, which a request
replaces, this must hold with any of the tones set apart (`TonesOverlap`). `LedgerCovers`: the updates of
a balance may overwrite each other, but each writes what it read plus what it adds to the ledger, and it
read no more than the ledger covered (`CreditsInv`); the recursion of the sum over a set is derived in the
module, by induction over numbers.

**RestApi.** Each part has an invariant of its own, and the others stay as they began (`FollowedStep`).
`UniquenessKept` has five of the same kind as in Tenancy: the holders of a name, those who have it and those
who have found it free, are at most the threads (`NamesBounded`, `PromptsBounded`, `TonesBounded`,
`EmptyBounded`, `DeviceInv`). Of the empty conversations it counts those that were made after a look that found
none (`looked`); one made because the look failed is nobody's overlap, and there is no limit to them.
`ScrollsThrough`: a client that is told that there is no more has seen every message that was there when it
began, unless it was told so by a page of nothing; `ScrollInv` says that what the client has seen is a prefix
in the order of the pages, which holds although new messages shift the pages of the newest-first order,
since what is wanted only moves back. `ApprovalsRemembered`, `PasswordsKept`, `TokensKept` and `CachesKept`
have invariants that say what each request knows at its step: `CacheInv` dates what was read
by the moment at which the row went. For the providers of voices `CachesKept` counts from when the rows were
read, which is the moment of the resolution or less than a time to live before, unless the database was away.
`ResolvedForward` needs no clock: `ForwardInv` says that there is at most one resolution under way and
that what is resolved is no newer than the copy, and the copy no newer than what is about to replace it. The
mutant that resolves in several threads breaks it.

**Protection.**

* *Rate limits.* A check that looks only at the window that ends now bounds every window: of the calls in
  a window take the last; when it was admitted, the others were all in the window that ended then.
  `StoreKeepsTheLimit`, `QuotasAreKept`: the middleware implements the sliding window, and the quotas
  three of them, with the largest limit ever in force. `Remembered` and `QuotaRemembered` say that a
  timestamp is dropped only when no later check could count it, so that what the code counts is what the
  promise counts, although the store forgets. `WaitingHelps`: the wait that is promised outlasts
  the oldest timestamp, also when it is rounded to whole seconds (`Promised`).
* *Breaker.* `BreakerSpacesProbes`: whatever the order of late answers, test calls are at least a recovery
  timeout apart unless the breaker was closed in between. `SpacedInv` relates the age of the last failure
  to that of the last test call: an open breaker was opened by a failure no earlier than that call, so once
  the failure is a recovery timeout old, so is the call; and a half-open breaker that still lets a test
  through has come from there.
* *Rules.* `RulesTighten`: the rule for all agents is never removed (`RulesInv`), so that an empty set of
  applicable rules, for which the engine decides by other means, does not occur; and the most restrictive
  of more rules is no milder.
* *Mentor.* `PlansAreHandled` goes through every branch that a message can take, in the tables of the code.
* *Plans.* `DagInv` adds to the properties `RoundOK` (the nodes of a round have their inputs), `StuckWait`
  (a set of nodes each waiting for another of the set, or for an unknown id, stays pending as a whole) and
  `DoneStuck` (at the end no pending node is satisfied). `DependenciesComeFirst` and `ResultsCorrect` are
  parts of it. `LeftOutCorrect`: by `DoneStuck` what is pending at the end is itself such a set, and by
  `StuckWait` it contains all others. It says that every acyclic plan is executed completely.

**Grounding.** `ForgottenStayOut` and `DocumentsAreHeard`: `RetrievalInv` says that each group that a
question still has to search is pending, failed or was looked at, and that what is shown or forced was
there when the session began, or is `stray`: what was deleted before is found only if the vector store
failed to remove it, or if the deletion came before the upload was at its end. `AnswersComplete`: a retrieval
is complete whatever the cache does. Only what
is in the table is cached, and what a call still lacks is to be fetched or was (`Served`); it holds because
the table only grows. `CacheStaysBounded`: the counted memory is the sum of the sizes of the contents
(`CacheInv`). The sum is a fold over a set; that adding and removing a content changes it by its size is
proved by induction on the number of contents.

**Database.**

* *Answers.* `FiguresKept`, for any people, rows and changes. `FiguresAgree` compares figures that are
  there; nothing in it says what the next one may be. `ReportsInv` therefore compares each figure with
  what its query would find now (`Drifted`): they differ by at most the rows changed so far, since a row
  that is added or changed is one row for any query, and a member who comes or goes takes his own along. A
  new figure is what its query finds, and finds no more than a query that counts all of the same
  rows (`PartFound`), so it fits to the earlier ones. That an answer counts the same people
  wherever it counts the same table is a fact about the 26 answers (`AnswersWellFormed`). One of them reads
  the people twice, the download of an export after the export itself: until then its figures follow the
  people read and those who are there now (`Again`, `Astray`).
* *Schema.* `SchemaKept`, for any rows, any tables that hold them, and any commands. `MigrationsInv` (`At`)
  says that the schema is the one drafted for the revision and that no enumeration type is missing that
  its upgrade would have made; there may be more, left by downgrades, which is why the property alone is
  not inductive: a script that finds a type missing could go through where the draft does not. An operation that
  the database lets through fits the draft too and makes the same of it (`FitsThePlan`, `ExecutedMatches`),
  whatever the rows; hence a script (`RunMatches`), and hence a command over any number of revisions
  (`CommandKeeps`). A failed one leaves what there was. The proof rests on `ScriptsReturn`: each script's way
  down, on the schema alone, undoes its way up. This is a closed formula about the 36 scripts, without
  constants or variables. TLC evaluates it in full when the run starts; the provers cannot, because it is a
  computation over 405 operations on sets of tuples of strings. It holds of one
  script and a database without rows; the theorem is about what commands make of it. For
  one of the 31 revisions that can be reached there is nothing to return from: the way down from 13 (8091)
  always raises.

**Only model-checked:** `AudioSettles`, `TurnEnds`, `ExecutionEnds`, `Recovers`: liveness under fairness, out
of the prover's reach, as is `ENABLED`. Recursion over data is avoided: where a sum, a script or a plan is
computed over a sequence or a set, it is a function or a fold, and the lemmas about it are proved by
induction on numbers, with the set of the numbers that have the property (`AllNumbers`).

## Disagreements between code and text

Shown by a run:

* `accounts_invite`: inviting the address of a user who signed up and verified it fails in Cognito,
  and the clean-up, which is to remove "unconfirmed users", disables and soft-deletes that user:
  only invitations are looked for before.
* `migrations_head`: `alembic upgrade head`, which the readme and the deployment use, fails on an
  empty database: phase 3 creates the twelve tables of phase 2 again. Its docstring names another
  predecessor than its `down_revision`. The dry run of the pipeline (`--sql`) is offline and cannot see
  it, and the tests compile only phase 6.

* `protection_rules`: a comment calls `DEFAULT_RULES` those "applied when no org-specific rules exist"
  (`rules/decision_rules.py:83`); `evaluate` begins with all global rules, the default ones among them, and adds
  those of the organization, so a rule of its own that is milder changes nothing (`DefaultsGiveWay`). That
  rules only add to what is asked is what the comment at `:175` says ("the most restrictive matching rule"), and
  `RulesOnlyTighten` holds.

Met while modelling. They are read off the code, and no run has one of them as its subject; a name in
parentheses is a definition of the models in which the code's behaviour can be followed.

*Conversations*

* A title is to be generated "if there's no custom title" (`title_generator.py:53`); a custom one that is
  set while the first message is being added (`chat_schema.py:360`), or that begins with "Chat ", is
  overwritten (`Commit` writes what `ReadConversation` decided).
* The recent history of a conversation returns its first pairs, not its last (`chat_schema.py:416`).
* The endpoints of Alex pair a question with the answer to the one before.
* A question to Alex ends the session with an `AttributeError` (`message_handler.py:183`;
  `ALEX_WEBSOCKET_DOCS.md:41`).
* A typed question whose search does not suspend and whose model call fails can be overtaken by a
  switch that was already received, and is then stored in the new conversation. `MessagesInPlace`
  makes an exception for it.
* `start_session` looks for an empty conversation among the last ten only, and takes an error of the database
  for "there is none" (`chat_schema.py:74`), so that it makes a second one (`StartSession`).
* A query for a page of messages that fails is answered as a success without messages and without a next page
  (`chat_schema.py:660`, `:701`; `chat_routes.py:748`, `:813`), so that the client's scroll ends before its
  messages do (`Nothing`).
* A recording that cannot be removed is logged and its path forgotten (`message_handler.py:154`, `:473`), so that
  no later clean-up finds it (`Close`, `stuck`).

*Files and retrieval*

* `parent_store.py:19` says "Max 500 cached documents"; the cache evicts down to 500 and then adds one.
  `CacheBounded` states what holds.
* `parent_store.py:391`: the synchronous wrapper gives up after 20 s, but leaving its thread pool still
  waits for the retrieval.
* Converted PDFs are never removed by clean-up or deletion, and deletion leaves the uploaded object in
  S3. `RowsMatchObjects` says what remains true: there is a row that names them.
* A deletion removes the chunks that are there (`file_service.py:627`). When it comes while the document is being
  indexed, chunks are added afterwards and found in later sessions (`late` in `FileUpload`, `stray` in `Retrieval`).
* Of several reports in one request only the last is indexed, because each assigns `all_chunks`
  (`document_utils.py:489`); `AnswerIsTrue` claims the last one only.
* An error other than `ValueError` while indexing leaves the rows of a request listed without chunks.
* A request of several reports passes the rule of one report per request, because the category is
  detected after the rule (`file_service.py:313` and `:89`).
* `_format_response` promises the sections of the report even when no document matches; the search
  returns before it is called (`vector_store_func.py`). A coach whose question yields no document query
  shows no report, and a report that was deleted is shown until the session ends.

*Meridian*

* `docs/meridian-architecture.md:587` says "Tasks with no dependencies execute in parallel"; the code
  awaits one after the other (`DagExecution`).
* `PRISMProfileRetriever.get_profile` returns `None` always, so no live chat has a behavioural profile.
  `get_behavioral_profile` would hand out the
  metadata of the first entry the store returns (`memory_service.py:246`); nothing stores one either.
  Chat never passes the parameters of a task, so that every task of an agent that needs one fails, and
  the user hears the sentence for that (`Actions`, `Outcome`).
* Anchor is to be asked "first for safety" (`api/service.py:50`); the domain is chosen before, by counting
  keywords, and another orchestrator may win (`RouteToDomain`).
* Keywords are looked for inside words: "international" contains "intern", "adapt" contains "ada". The
  branch for an analysis of a team is unreachable, because "team" is asked before it.
* The third check-in of a user is a worsening trend even if nothing has changed, because the comparison
  is `<=`.
* A hand-off of the collaboration service is recorded under its message and looked up under its task
  (`collaboration_service.py:110`), so it is pending for ever.
* `invalidate_user` of the response cache says "Invalidate all cache entries for a user." and removes none.

*Voice and middleware*

* A configuration that was read before a change and cached after the invalidation is used for another 60
  seconds (`provider_factory.py:63` says the next resolution reads it again); in the first minute after a
  start of the machine the rows are not looked at. While the database does not answer, an expired or
  invalidated copy is used for as long as that lasts (`provider_factory.py:57`; `Voice`).
* The middleware counts per path and per process; two workers admit twice the limit.

*Accounts*, all behind a name in `left`, but for the last three

* When the row of an invited user cannot be made, the clean-up finds no row and leaves the account in
  Cognito, and the address can then be neither invited nor signed up; the role of a sign-up is checked
  after the account was made (`orphan` for both).
* An edit enables the account after its commit, so one that crosses a deletion leaves a deleted user
  enabled (`overtaken`).
* Of two concurrent invitations to one address the loser, refused by Cognito, deletes what the winner has
  made, its invitation included (`crossed`).
* Sending an accepted invitation again sets it to pending; accepting it then sets `is_active` on a
  soft-deleted row. Only the disabled account keeps the user out, which `DeletedStaysOut` checks.
* The check for an existing invitation marks an expired one through a function that closes the session
  the check goes on with; the read after it raises, and the invitation passes instead of being refused.
* `purge_inactive_users` (`schema.py:917`) says each user has its own savepoint; `_hard_delete_user`
  commits inside it, which ends the outer transaction, so the batch stops after its first user.

*Administration*

* A second business administrator can be invited before the first accepts
  (`organization/schema.py:979`; `user_management.py:220`).
* The look for an administrator answers an error of the database with "none" (`organization/schema.py:946`), so
  that another one can be invited (`InviteAdmin`).
* An agent withdrawn from an organization is still shown to its businesses' users
  (`agent_settings/schema.py:861`; `organization/schema.py:532`).
* An empty list of agents of a business or organization falls through to all predefined agents
  (`agent_settings/schema.py:275`; its docstring at `:239` says otherwise).
* `get_role_id` asks for a single row: once two requests have made a role twice it returns `None` for
  ever.
* A coaching session records one credit as used, and nothing is charged.
* A correction that names no agent is approved and never remembered; rejecting it after approval leaves
  the memory active (`Moderation`).
* `verify_reset_token` catches `jwt.InvalidTokenError`, which the library in use does not have, so an
  invalid token is answered with an error of the server.
* Ranges of the analytics compare timestamps with a date, so their last day, by default today, is never
  counted; the series of six months steps back by 30 days, which leaves February out in March
  (`manager/routes.py:407`); a download reads its
  data again and can differ from the number that was recorded (`Reports`).
* `downgrade base` (`readme.md:122`) fails from any later revision, because 8091 recasts enums without
  saying how; phase 6 indexes columns that do not exist, and its downgrade drops the indexes of phase 4;
  a failed index of phase 3 is caught, but its transaction is aborted already (`Migrations`).

## What is not covered

* **The text of anything**: prompts, answers, transcripts, titles, chunks, mails, exports are ids or absent.
* **Retrieval quality, codecs, providers of models and voices**: external services that answer or
  fail. The vector search over PostgreSQL, which a setting selects, is not modelled.
* **Isolation above READ COMMITTED**, replicas and failover of PostgreSQL: not used by the code.
* **Who may do what**: the decorators keep no state; permissions of a role are rows in `Roles`. Groups
  repeat the same pattern.
* **Endpoints of one query or one row**: tones, accents, genders, onboarding questions, assets,
  follow-ups, the pre-rendered audio of the frontend. A unit test shows as much.
* **Collaboration, cost sums, onboarding, health, `sentinel_integration`, language model clients of
  Meridian**: only the tests call them. The breaker and the quotas are in the same position and were
  modelled, because what they promise depends on the order of calls.
* In `ParentStore` the generation of ids, the reset of the connection pool and the first look of the
  synchronous wrapper in the cache, which the retriever repeats.
* In `Accounts` bulk invitation (the same calls in a loop), the batch of the purge, names; and a
  connection lost between the commit of `create_user` and its return, which would report a row that
  exists as missing. Social login and the reset of passwords are modules of their own, on one account
  that exists, and are not interleaved with invitations.
* In `Migrations` all of what lies behind phase 3, which no command reaches. The enumeration types that
  a downgrade leaves are modelled, but `SchemaOfRevision` does not count them as part of the schema.
* `performance.py`'s breaker and timeout, which are not installed, and scripts outside the service.

## Plan

What comes next, most useful first:

1. **PurgeBatch** (`schema.py:917`): the batch of forced deletions over several users, next to
   `Accounts`, which has one of them. It needs transactions that nest.
2. Proofs: that `ChatSession` implements `ChatLog` for the rows it stores.
3. **ParentIds**: generation of ids under a clock that steps back, and what an upsert then overwrites.
4. **Collaboration** once something calls it: hand-offs and their acknowledgement.
5. `Accounts` beside `SocialLogin` and `Passwords`: a login with another provider while an invitation to
   the same address is open.
