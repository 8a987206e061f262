# ThreadBridge: verification project

TLA+ models of the parts of ThreadBridge that decide what happens when requests, processes and
external providers interleave and fail, checked with TLC on small instances, and proofs of the
central results for instances of every size. Every definition is translated from the TypeScript and
SQL under `src/`; `PROJECT.json` gives the lines each one stands for.

## 1. Inventory

ThreadBridge is a Node service over PostgreSQL that gives clients one interface to the comments of
several social platforms. A Fastify router calls use cases; the use cases await repositories
(PostgreSQL) and gateways (platforms). There is no background worker: everything runs in a request
handler, in the migration runner at start-up, or in the shutdown routine. Several instances may
share one database.

Paths are relative to `src/apps/api/src/` (A) and `src/packages/comments/src/` (P).

| Component | State | Operations | Talks to |
|---|---|---|---|
| Reply publication use case (P `application/reply-to-comment.ts`) | none of its own; a snapshot of the operation across awaits | `execute`, `recoverStoredReply`, `publishAndRecord`, replay without an active context | the next four |
| Publication operation repository (A `adapters/postgres/reply-publication-operation-repository.ts`) | `reply_publication_operations`: status, fingerprint, comment, failure code per account and key | `findExistingByParent`, `begin`, `markPublished`, `markFailed` | PostgreSQL, an advisory lock per account and key |
| Comment repository (A `adapters/postgres/comment-repository.ts`) | `comments`, their idempotency keys, versions and projection state | `saveMany`, `findByIdempotencyKey`, `savePublishedReply` | PostgreSQL, the same advisory lock |
| Reply context (A `adapters/postgres/comment-reply-context-repository.ts`) | the parent's projection state | `findByCommentId`, `markDeleted` | PostgreSQL |
| Gateway port (P `ports/social-comments-gateway.ts`) and the demo gateways (A `adapters/demo/`) | replies held by the provider; offset cursors held by clients | `replyToComment`, `getComments`, `getReplies` | the provider |
| Retrieval use cases (P `application/get-post-comments.ts`, `get-comment-replies.ts`) | none | `execute`: look up, fetch a page, store it | gateway, comment repository, reply context, published posts |
| Migration runner (A `migrations.ts`) | `schema_migrations`, a session advisory lock | `runMigrations` | PostgreSQL, other instances |
| Graceful shutdown (A `shutdown.ts`, `server.ts`, `index.ts`) | the one run, timers, exit code | `shutdown` | the HTTP server, the pool |
| HTTP router (A `router.ts`, `http-error.ts`) | none | validation, mapping of results to status codes | use cases |
| Schema (`src/db/migrations/*.sql`) | constraints and keys | DDL | - |
| Published post lookup (A `adapters/postgres/published-post-repository.ts`) | - | one query | PostgreSQL |
| Configuration, composition, seeds | none | - | - |

What is hard here, and what makes each part correct:

- **Publication.** Requests with one key run side by side, die between the external write, the
  stored reply and the published mark, and meet late effects of calls that were given up. Correct
  means: one durable answer per account and key, a success is never taken back, one stored comment
  per key although no unique constraint says so, no blind repeat of an external write, a conflict
  is answered only to a real reuse of the key, and no recorded failure violates the schema.
- **The repositories** promise the use cases calls that happen at once or not at all. They are
  several statements under READ COMMITTED, some beside an advisory lock and some without. Correct
  means: each call acts, and answers, as if it were one step; nobody runs into a unique constraint;
  a version names one content; and nobody waits for good.
- **Retrieval** overwrites the rows publication relies on, from pages fetched earlier, while the
  thread grows, comments change and parents vanish. Correct means: a client that walks a thread
  gets the list it began with, nothing left out or twice, no request writes what is older than the
  request itself, and a walk that nothing disturbs leaves the projection current.
- **The HTTP status** is all a client learns. Correct means: an error that is not "unknown" is final.
- **Migrations.** Instances of one or several images start together, and die, fail or lose the
  session that holds the lock anywhere. Correct means: each file is applied once and in order, the
  history tells the truth, and an unverifiable or newer history is left alone.
- **Shutdown.** Signals, two deadlines, the pool's own deadline, hanging handlers and departing
  clients race. Correct means: one run, that ends, with an honest exit code, and a pool that
  outlives the connections.

The hazards, each at its line and with the properties that watch it, are in `PROJECT.json`.

## 2. Modules

    PublicationLedger          what clients may rely on
           ^ implements
    ReplyPublication  <----  HttpBoundary     what the router makes of it
           ^
    ReplyOverStore                            each await as the call it is
           | performs the atomic calls of
    AtomicStore       <----  SqlStore         the statements that implement them
           ^ (saveMany, markDeleted)
    Retrieval

    Migrations, Shutdown                      on their own

| Module | Models |
|---|---|
| `PublicationLedger` | abstract specification: what clients may rely on about reply publication |
| `ReplyPublication` | use case, repositories, provider and retrieval as far as publication depends on it |
| `HttpBoundary` | `POST /comments` around `ReplyPublication`: refusals, statuses, the error handler |
| `ReplyOverStore` | which call of `AtomicStore` each await of `ReplyPublication` is, and what it answers |
| `StoreCalls` | the calls on the repositories, the rows they keep, and what a call does to one row |
| `AtomicStore` | abstract specification: each call takes effect in one step or not at all |
| `SqlStore` | the same calls statement by statement under READ COMMITTED |
| `Retrieval` | the two retrieval use cases, paging, and publications that find a parent gone |
| `Migrations` | concurrent executions of `runMigrations` against one database |
| `Shutdown` | one process that shuts down: signals, server, pool, timers, handlers |
| `...Proofs` | theorems about the module of that name; `ReplyOriginProofs` about `ReplyPublication`, `ReplyCallsProofs` about it, `HttpBoundary` and `ReplyOverStore` |
| `MC...` | finite instances for TLC |

An operator whose comment starts with "faulty:" is not used by any specification. It is the form a
definition would take with a plausible bug in the code, and serves to see that a property notices.

### ReplyPublication

One element of `Requests` is one execution of the handler of `POST /comments`; `pc[r]` names the
await it is at. An action is what the code does from one await to the next, with the repository
transaction or provider call that resolves the await:

| Action | Code |
|---|---|
| `FindContext`, `ReplayWithoutContext` | `execute` up to the gateway lookup; `replayWithoutActiveContext` |
| `StartOperation`, `RejectReuse`, `LoadOperation` | the three outcomes of `begin`, with the checks after it |
| `RecoverStored`, `NothingStored` | `recoverStoredReply` and the decisions from the snapshot |
| `GatewayConfirms`, `GatewayRejects`, `GatewayUnknown` | the outcomes of `replyToComment` |
| `SavePublishedReply`, `MarkPublished` | storing the reply and the published mark |
| `MarkFailed`, `MarkDeleted` | recording a failure, hiding a parent the provider no longer has |
| `ReturnResult` | the response |
| `Abandon` | the process dies or an awaited call rejects, before or after its effect |
| `TakeEffect`, `EditReply` | the provider: a late effect, an edit by the author |
| `Import`, `ObserveParent` | retrieval, which writes the same tables |

Modelling decisions:

- A repository method is one atomic step. That is not assumed: the step is proved to be the call of
  `AtomicStore` that the use case makes (`ReplyOverStore`), and `SqlStore` to implement that call.
- A crash is `Abandon` of single handlers. A crash of a whole process is several of those in a row;
  an awaited call that took effect and then rejected is the effect's action followed by `Abandon`.
- A reply at the provider is named after the request whose call created it, a stored reply by its
  post and that name, which is what the unique constraint of `comments` keys rows by.
- `Publication` gives each account what its gateway declares. A native provider returns the reply
  it already holds for the key, whichever account wrote it (`AlreadyPublished`): the demo gateway
  looks up the key alone. In its seed data only one account uses it, which is what the run `native`
  and `OneNativeAccount` in the proofs take over; `shared_key` shows what happens with two. By the
  adapter contract, a typed failure means that nothing was written.
- `Fingerprint` keeps the spelling of the parent id, and `SameParent` holds for the canonical one
  only: PostgreSQL returns UUIDs in lower case and TypeScript compares strings. Only the run
  `uppercase` lets clients use another spelling.
- `Import` reads the provider and stores in one step; pages that are stored late are the subject of
  `Retrieval`. Content, author and times are abstracted to `content`; the projection state is kept
  for parents (`active`), not for the replies themselves.

### HttpBoundary

`response[r]` is the status a request was answered with. `Refuse` is everything the router and
`parseReplyRequest` refuse before the use case; `Receive`, `Await` and `SendResult` are the steps of
`ReplyPublication` with the response added, `HttpStatus` is `toHttpErrorResponse` with the router's
201 and 200; `AnswerError` is the error handler after a rejection (`Stop`). A crash is a rejection
nobody answers. `Elsewhere` is what goes on meanwhile.

### StoreCalls, AtomicStore, SqlStore

An element of `Calls` is one execution of a repository method with arguments from `Work`. In
`SqlStore`, `at[c]` names the statement it executes next, and each statement is an action:

| Method | Statements |
|---|---|
| `begin` | `TakeLock`, `ReadOperation`, `ReadComment` or `InsertOperation`, `Commit` |
| `findExistingByParent` | `ReadOperation`, `ReadComment`, in no transaction |
| `savePublishedReply` | `TakeLock`, `ReadClaimed`, `InsertReply`, `AttachKey`, `ReadCurrent`, `Commit` |
| `markPublished`, `markFailed` | the guarded update, then `CheckOperation` if it matched nothing |
| `saveMany` | `UpsertItem` for each comment of the page in its order, `Commit`; `EmptyPage` |
| `markDeleted` | one update |

A statement sees what is committed when it starts and what its own transaction wrote. A row that is
written and not committed is its transaction's draft, and a write of the row by anybody else waits if
the committed row matches its `where` clause; that is what a row lock comes down to. Every call can lose
its connection between any two statements and after its commit (`Disconnect`, the moment at which the
server is done with the call: a statement or commit that lands after the client has given up is its own
action before that), and transactions that wait for each other lose a victim (`DeadlockVictim`). In
`AtomicStore` a call is `Perform`ed in one step; the answers of a call that rejects are withheld,
whether it took effect or not. The refinement mapping shows an answer once the call has nothing
uncommitted (`answersBar`).

`Legal` is what earlier calls may have left in the tables: the constraints of migration 0004, and a
key on one row whose operation exists. `Askable` is what callers know: the id of an operation came
from `begin`, the id of a comment from a row.

### ReplyOverStore

`ReplyPublication` has effects of its own for the awaits of the repositories, in its own terms: a row
has a parent but no version, an operation a failure code. Here they are put beside the calls. `Awaited`
is the call a handler awaits, with the arguments `execute`, `replayWithoutActiveContext` and
`publishAndRecord` pass; `ledgerBar` and `rowsBar` are the tables as the store keeps them; `heard[r]`,
a history variable, is the answer the handler must have had to go on as it does. `AwaitsAreCalls` says
that each of these steps is the call that was awaited, effect and answer, and that besides only pages
write; `CallersKeepToTheContract` says that what the store takes for granted (`Legal` tables, typed
arguments, `Askable` rows) is what these callers give it. `findByIdempotencyKey`, one select that
answers with a row, and the parent's projection state are no calls of `AtomicStore`. The calls'
versions are left to `SqlStore`: a publication never counts one up.

### Retrieval

A walk is a client that follows `nextCursor`, one request at a time, on the comments of a post or the
replies of a comment. `FindContext`, `Fetch` and `Save` are the three awaits of `execute`. `List` is
what the demo gateway holds for a thread, its seeds and then the replies it keeps in memory; `PageOf`
cuts the `Slice` from the decoded offset, with its `NextCursor`. The gateway has no way to leave a
comment out of a list; what a provider can do is to no longer find a parent that is named (`Gone`):
`reachable` are the comments it finds, `Withdraw` and `Restore` change it.
A publication awaits `Publish`, and then `SavePublishedReply`, which revives a row that a page stored
before, or `MarkDeleted`. `Rejected` is an awaited call of either kind that rejects before its effect
(a lost connection, a deadlock); `Save` may also reject after its commit, and the client sees "lost"
for both. Contents are abstracted to how often a comment changed at the provider (`edition`).
`Restart` loses the replies the demo gateway keeps in memory and the requests under way; clients keep
their cursors and the database its rows. `began`, `floor`, `intact` and `quiet` are history variables.

`NothingTakenBack` says no more than the code gives: what a request writes is not older than the
request. Of two requests that overlap the older page may be stored last; nothing in the code compares
the two, and the next retrieval repairs it (`QuietWalkConverges`).

### Migrations

One element of `Runners` is one execution. Each awaited statement is an action. The client's and the
server's view of a session differ (`session`): a lost client leaves an "orphaned" session that
keeps the advisory lock until the server ends it, and a transaction that was open is rolled back.
A statement awaited on a lost session rejects. `Directory` gives each runner the files of its image;
a checksum is identified with the content it is computed from. `executed` is a history variable: the
migrations whose DDL is committed, and by whom.

### Shutdown

A connection carries one request at a time; its handler awaits statements and outlives its client.
`http` and `pool` are the two promises the routine waits for. A promise that settles resumes the
routine in a microtask, so the race and what follows it are one step. The grace timer is taken to
fire after the listener has stopped: fastify gets there within a few turns of the event loop.

## 3. Runs

| Run | Instance | Shows |
|---|---|---|
| `native` | 3 requests, 1 key, an account on the native gateway with 2 parents and one without idempotency | a conflict only on reuse, one 201, operations keep to their own account's row and reply, answered successes stay; the protocol implements `PublicationLedger`, its awaits are calls of `AtomicStore` and keep to its contract |
| `no_idempotency` | 3 fair requests, 1 parent, 2 bodies, a provider without idempotency, edits | no blind repeat, one comment per key, no hidden reply, no defensive throw; the next identical request attaches a stored reply |
| `boundary` | 2 requests, all nine typed failures, edits; a native provider, a gateway that cannot publish, a platform without one | recorded failures fit the schema; only 409, 500 and 502 leave a client in doubt |
| `store` | 3 calls of any methods, 2 keys, 2 accounts, 3 comments, 5 histories | the statements implement the atomic calls, `begin` meets no unique constraint, a version tells the content, nobody stands still, and only waiting keeps a call from going on |
| `retrieval` | 2 walks, 1 publication, 2 changes of one comment, rejected calls, a restart; pages of 2 and of 1 | a complete walk got the list it began with and nothing but what was published since, an undisturbed walk leaves its thread current, no request writes what is older than itself |
| `images` | 3 fair instances: a branch without file 2, the main line, an older image of one file, edited since; 7 histories | once, in order, truthfully, one at a time; success means current; unverifiable and newer histories are left alone; no instance waits for the lock forever |
| `shutdown` | 3 connections; clients leave, handlers and the pool hang | the pool outlives connections, nobody who waits is cut off early, one run, honest exit code, it ends |
| `duplicate`, `uppercase`, `edited_replay`, `shared_key`, `cut_early` | 1 to 3 requests, or 2 connections and more; see findings | a documented claim the code does not keep |

Bounds. Three requests of one key are a first call, a retry and a third one that meets what the two
left, which is what every race of this protocol consists of: each handler reads and writes only
the row of its own key, and the published status, the strongest recorded failure and the stored row
are reached by two writers. A second key of the same account would touch other rows; that accounts
do not touch each other is what the second account of `native` is for, which chooses the same key
at another gateway. Two bodies tell replay from reuse. The number of requests also bounds retries;
there is no other counter.

Three calls of `store` are two that race and one that comes between: the advisory lock serializes two,
and what takes no lock is one statement or a page. The two pages list the same two comments in
opposite order, which is the shortest deadlock; the histories start the calls in front of an
operation that is absent, open, stored only, published or failed.

In `retrieval` a thread of three comments on pages of two has a first and a last page, and grows by
the reply of the publication; the parent of the replies is also the comment that changes, so that
two changes withdraw and restore it, or edit it twice, beside a page or a not-found that is under way.
`Earlier` starts from an empty and from a filled projection. `MaxChanges` and `Changing` are the bounds.

Three migration files give a prefix, a next and a last one; the three runners of `images` are one that
holds the lock, one that waits, and one that lost it, each with an image of its own, and the histories
are those of a first start, of an upgrade, of a database that is up to date and of earlier runners'
tables. What instances of one image do together, a branch's and the main line's do where their files
agree; the proofs of the safety properties do not depend on the images.

Deadlock is checked where the models say what the intended end is: `Quiescent`, `AllEnded`, `Done` and
`AllDone`. `boundary` and `retrieval` turn it off, because these systems stop when every request of the
instance is served, and neither has anything to wait for: no handler of theirs awaits another one.

Symmetry is used for requests, calls and walks, in runs without liveness properties; no definition
tells them apart. `native` has the view `vars`, without the history `heard`: no guard and no
invariant reads it, and of `AwaitsAreCalls` only its next value counts. Replies are not edited in
`native`, and ids have one spelling, since `ConflictOnlyOnReuse` needs both; the proof of
`AwaitsAreCalls` covers edits, too. `retrieval` has a view without the histories of requests that are
over: what a walk that failed had got, and the floor of a request that has ended, is read by nothing.
`no_idempotency` has liveness, and so no symmetry: there the property is stated of one request
(`LastRetryAttaches`), which stands for all because the instance treats them alike.

Fairness. A handler, a migration runner or a timer that can go on does (Node runs every resolved await;
PostgreSQL answers; an adapter owns a deadline, `docs/architecture.md`). The server ends a session whose
client is gone. Arrivals, crashes, edits, retrieval, clients, hanging handlers and the pool owe nothing.
`EveryRunEnds` needs no strong fairness for the lock because every holder is gone for good after it
released. `store` states progress as safety instead, because each call has finitely many statements:
unless calls wait for each other in a circle, which PostgreSQL ends by a victim, one that is under way
does not wait (`NoStandstill`), and waiting is all that can keep a call from its next statement
(`OnlyWaitsStop`).

## 4. Proofs

Everything below is proved for all finite or infinite sets of requests, calls, keys, accounts,
comments, runners or connections. The assumptions are those named in the modules: the topology of
posts and accounts, that providers return typed failures of the domain, that a thread or a page lists
a comment once, that each publication creates a reply with an id of its own, that a walk is no
publication, that earlier calls left legal tables, the order of file names, and that null (`None`) is
no value, position, status or code.

### Publication

`ReplyPublicationProofs` proves `TypeOK`, `SchemaConstraints`, `OneCommentPerKey`,
`AnsweredSuccessIsPublished`, `CreatedOnce`, `NoDefensiveThrow`, and that `ReplyPublication` implements
`PublicationLedger`. None of these is inductive: whether `MarkPublished` may attach a comment depends
on what the handler learned at an earlier await, while others ran. The invariant is

    IInv == TypeOK /\ (\A r : HandlerInv(r)) /\ (\A e : OperationInv(e)) /\ OneCommentPerKey /\ CreatedInv

- `HandlerInv(r)` is what handler `r` may rely on at each await: its operation exists once `begin`
  returned, its snapshot is a legal one, a comment it is about to publish carries its key, a success
  it is about to return is published.
- `OperationInv(e)` ties status, failure code and comment of a row together.
- `CreatedInv` says that one handler of a key at most inserted its row.

`HandlerInv` survives the steps of others because the tables only grow (`Grows`): no step removes an
operation, takes back a published one or moves a key to another row (`HandlerFrame`). There is one
lemma per action; `StepInv` puts them together, and each theorem follows from `Invariance`. For the
refinement each action is mapped to a ledger step (`OpenStep`, `DecideStep`, `PublishStep`,
`AcknowledgeStep`) or a stutter (`LedgerStutter`). `PublicationLedgerProofs` proves what the ledger
in turn promises, `OneAnswerPerKey`, from the invariant that an acknowledged entry stays published:
`Decide` and `Publish` leave such an entry alone; `OneAnswerHolds` says it of the protocol itself.

`ReplyOriginProofs` builds on that invariant and proves `PublishedOwnsItsRow`, and, where one account at
most uses the native gateway (`OneNativeAccount`), `PublishedOnOwnAccount`. It follows a call from the
operation that asks for it (`AskedInv`) to the reply it leaves at the provider (`ReplyInv`), the answer
(`AnswerInv`) and the stored row (`RowInv`); the steps of others disturb nothing because operations
and replies keep whom they belong to (`Keeps`, `OriginFrame`).

Its second half proves `ConflictOnlyOnReuse` under `Plain`: one spelling, no edits, one native account.
Each is needed: `uppercase` refutes the property without the first, an edited reply that is taken for
another body is a conflict without a reuse (in `edited_replay`, when it comes before the save), and so
is, with two native accounts and two contents, the reply of the other account. `BodyInv` says that what
the provider, the answers and the rows hold is the content of the request it came from, that an
operation has the claim of some request of its entry (`ClaimInv`), and that a conflict, about to be
answered or recorded, has two requests with different bodies as its cause (`Split`).

`ReplyCallsProofs` proves `NoBlindRepeat` and `ReplyHiddenOnlyByCrash`. `EffectInv` says that a handler
whose call had, or may still have, an effect either holds the reply, or knows that it does not know,
and has recorded one of the two before it returns. `RetryableTold` says that an operation reads
`retryable_failed` only after the provider told a request of it that a retry is safe, `OneCaller` that
before this a provider without idempotency has one caller at most. `CallFrame` keeps what others know
because decided operations stay decided (`Decides`).

### The boundary

`ReplyCallsProofs` also shows that every behaviour of the router is one of the use case (`HttpIsReply`),
so that all of the above holds behind it, and proves `HttpTypeOK` and `DoubtIsTold`: a definite status
is that of a request which never reached the use case, or of a handler that is done; by `EffectInv`, a
handler that is done with an effect answered 200, 201 or an unknown outcome.

### The awaits

`ReplyCallsProofs` proves `AwaitsAreCalls` for clients that spell a parent as PostgreSQL returns it
(`Spellings = {"canonical"}`; the router's other spelling makes `begin` answer "conflict" for a claim
that is equal in the table, which is the finding of `uppercase`), and `CallersKeepToTheContract` without
a hypothesis. There is one lemma per call (`BeginPerformed` to `PageRow`). Besides the `IInv` of the
use case they need `ClaimsInv`, that an operation's fingerprint was taken of its own parent, because
`begin` compares both, and `KeysInv`, that a key is stored only for an operation that was begun.
Together with the refinement below this closes the chain from the statements to the ledger: each
statement belongs to a call that acts at once, each await is such a call, and what clients are told
of these is what `PublicationLedger` promises. The contract is what the refinement assumes of the
tables and the calls (`HistoryAssumption`, `WorkAssumption`, `Askable`).

### The store

`SqlStoreProofs` proves that `SqlStore` implements `AtomicStore`, and `TypeOK`, `BeginNeverCollides`,
`NoStandstill` with its part `OnlyPagesDeadlock` (the calls of a publication are never victims), and
`VersionTellsContent`. Every action is one call's; the invariant is

    Own(c) == Located(c) /\ Kept(c) /\ Drafted(c) /\ Known(c)
    IInv   == the tables' and calls' types /\ (\A c : Own(c)) /\ OperationsOK /\ LocksExclude /\ DraftsExclude

- `Located` ties statements to methods, `Kept` says what a call holds at each of them.
- `Drafted` says what is in its drafts in terms of the *committed* rows: a page's drafts are the
  upserts of the rows as they are now, although it wrote them statements ago.
- `Known` is what its reads are still good for: between `begin`'s select and its insert the operation
  is still absent; `savePublishedReply` still finds no row with its key.

The steps of others keep it because the advisory lock excludes those who could open the operation or
set the key (`LocksExclude`), drafts exclude those who could write the row (`DraftsExclude`), and all
others may only let the tables grow (`OperationsGrow`, `RowsGrow`, `OthersKeep`). The point at which a
call takes effect is its commit if it wrote (`RefineCommit`), the read that settled its answer if it
did not (`RefineReads`), its one update (`RefineUpdates`); a draft is a stutter. For `findExisting`
and for the explaining select of `markPublished` this needs that a published operation stays as it is.
`NobodyStandsStill` is a statement about every number of calls. A call waits for the holder of a lock
or of a draft, who is under way himself (`HolderIsBusy`); only finitely many calls ever are (`FewAreBusy`,
`BusyStep`), although `Calls` may be infinite. If all of them waited, the smallest non-empty set of calls
that wait for one another would exist, and it is a circle (`WaitingInCircles`): a deadlock.
`VersionTellsContent` is proved of `AtomicStore`, from versions that are bounded by the rows
(`AnswersBounded`) and answers that agree (`AnswersAgree`), and carried over by the refinement.

### Retrieval

`RetrievalProofs` proves `TypeOK`, `NothingTakenBack`, `WalkIsComplete` and `QuietWalkConverges`. None
of the last three is inductive: a page is fetched in one step and stored later, and a walk that is over
got what it has page by page, each one cut from a list that had grown. There are four invariants:

    ControlInv   == TypeOK /\ (\A w : WalkControl(w)) /\ (\A r : ReplyControl(r))
    Observations == ControlInv /\ (\A c : ObservedInv(c)) /\ (\A r : ReplyInv(r))
    WalkInv(w)   == of every walk that has begun: Position, Agrees, Reaches, Within
    QuietInv(w)  == of every walk nothing else has happened beside

- `ControlInv` ties the place of a request to what it holds: a walk goes on only from a cursor the
  gateway issued, a page waits exactly where it is due to be stored. The frame of all that follows is
  `ControlMoves`: a step leaves another request untouched or, with a restart, ends it.
- `ObservedInv` says that each request under way knows a floor, the editions when it began, that the
  provider never falls below it, and that every item a request holds is at or above its floor. This
  is enough for pages and not-founds. `SavePublishedReply` may revive a row without storing what it was
  given; `ReplyInv` says that such a row is of a page that was fetched after the publication began,
  because nobody has seen the reply before (`Absent`) and whoever did has seen it since (`Fresh`).
- `WalkInv(w)` counts by positions. `Position`: what a walk has got is what lies before its cursor,
  because only a full page has a next one. `Agrees`: what it got, and the page that waits behind it, is
  what a list shows there. `Reaches`: a last page comes to the end of that list. `Within`: not beyond it.
  All of this holds of the list as it is and as it was when the walk began while there is no restart,
  and of the seeds in any case, which no restart shortens.
- `QuietInv(w)` says that nothing else is under way, that what the walk has got is stored as it is, and
  that a page that waits is as the provider still shows it.

The steps of others keep `WalkInv` (`WalkLeftAlone`) because lists only get longer without a restart
(`ListsGrow`) and always begin with the seeds. `WalkFetches` cuts the page, `WalkSaves` moves it to what
the walk has got; `CompleteWalk` reads the property off two prefixes of equal length. Of the steps of
others none leaves a walk quiet (`QuietSteps`).

### Migrations and shutdown

`MigrationsProofs` proves `TypeOK`, `HistoryIsTrue`, `NoRivalRunner`,
`SuccessMeansCurrent`, `AppliedInOrder` and the action properties `UnverifiableIsLeftAlone` and
`NeverBehindHistory` for all sets of runners and files, all images and every initial history. What
a runner verified it uses several awaits later, and its client may believe in a session that the
server has ended; so none of them is inductive either. `LockInv` says that a runner inside the
critical section holds the lock unless its session is closed, `LoopInv` that what it read of the
files still to do is what the database holds as long as its session is open, and `DoneInv` that the
files it is done with are recorded as its image has them. Two runners that could commit would both
hold the lock; so a commit meets a free row (`FreeRow`), and rows and executed DDL grow together.
`OthersFrame` and `LocalStep` are the frame: a step of one runner that writes no row and at most
takes or frees its own lock leaves the knowledge of all others intact. `ChecksInv` adds what a run
checked before its loop, and that the files before an executed one are recorded.

`ShutdownProofs` proves `TypeOK`, `PoolOutlivesConnections`, `WaitingIsNotCut` and
`OneHonestRun`. `RunInv` says what each phase of the run knows of the two promises, the failure and
the outcome; `ConnInv` says why a handler without a connection exists: its client left, or the deadline
destroyed the connection.

### Only model-checked

The liveness properties `LastRetryAttaches`, `EveryRunEnds` and `ShutdownEnds`, which need fairness,
and `OnlyWaitsStop`, which needs `ENABLED`: both are out of the prover's reach. Every other property of
the passing runs is proved.

## 5. Findings

- `duplicate`: a retry of a `retryable_failed` operation calls the provider without moving the row
  back to `pending`, so that two retries, or a retry after one that died, both write to a provider
  without idempotency.
- `uppercase`: one request with a new key, whose parent id is spelled in upper case, is published at
  the provider, recorded as indeterminate and answered 409.
- `edited_replay`: an identical retry of a published operation is answered 409 once retrieval stored
  an edit of the reply.
- `shared_key`: two accounts on the demo gateway use one key with equal content; the second operation
  is published, under its own parent, with the reply that was written for the first one, and nothing
  is written for it. The seeds give that gateway one account.
- `cut_early`: the handler of a client that has left is not waited for; the pool is closed under it
  before the grace period is over.

## 6. Not modelled

- `executeLegacy`: the composition root always passes the operations repository.
- Replies as parents of further replies, and the projection state of replies in `ReplyPublication`.
- A provider that normalises content (the port does not say whether it may), or that reuses external
  ids: the limited demo gateway numbers its replies from 1 in each process. Replies are named after the
  requests that created them, so that two keys of an account never meet in one external id; the
  conflict `savePublishedReply` makes of that is a step of `SqlStore` only (`ReadCurrent`).
- In `ReplyPublication`, a demo gateway that restarts and forgets which keys it has served; what
  retrieval makes of a restart is in `Retrieval`.
- Offset cursors a client has made up itself beyond one that cannot be decoded.
- Of the router: health and readiness, the `retry-after` header, and what happens to a connection
  whose body was not read.
- The behaviour of the PostgreSQL client library on a lost reserved session beyond "it rejects".
- Start-up before the signal handlers are registered; configuration; seeds; the statements inside a
  migration file; the wording of responses.

## 7. Plan

1. `PublicationLedger`, `ReplyPublication`, `HttpBoundary` with their runs and proofs - done.
2. `StoreCalls`, `AtomicStore`, `SqlStore` with their run, the refinement and its proof, and
   `ReplyOverStore` with the proof that the use case is written against them - done.
3. `Retrieval` with its run and the proofs of all its properties - done.
4. `Migrations`, `Shutdown` with their runs and proofs - done.
5. Open: `ReplyPublication` and `Retrieval` in one specification, with pages that are fetched and stored
   apart beside full publications. Both are written against the same atomic calls, and each contains
   what the other one does to its rows; the composition is too large for an exhaustive run.
