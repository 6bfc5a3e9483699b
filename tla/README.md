# MaxwellGoSpine: TLA+ specifications, model checks and proofs

MaxwellGoSpine is a Go HTTP service that manages users. These modules specify
the parts of it whose correctness depends on interleavings, failures or the
order of calls: the user service over its two stores, units of work, paging,
the cache in front of the service, the chain of HTTP middleware around it, the
GraphQL executor, and the life of the server process. TLC checks small
instances, TLAPS proves the main results for every value of the constants.

All paths below are relative to the repository (`src/`).

## Inventory

| Part | Source | State | Operations |
| --- | --- | --- | --- |
| User service | `internal/core/usersvc.go` | none of its own; locals of a request | Create, Get, Update, Delete, List, WithTx |
| In-memory repository | `internal/core/user_repo_memory.go` | a map under one RWMutex | Create, Get, Update, Delete, List |
| Postgres repository | `internal/storage/postgres` | the table `users` (email UNIQUE) | the same, one SQL statement each (List: two), and a transactional copy of them |
| Layered cache | `internal/cache/cache.go` | ristretto in the process, Redis shared by processes | Get, Set, Delete |
| Cached user service | `internal/core/cached_usersvc.go` | `listVer`, the version in the keys of lists | the user service's, with lookup, invalidation and refill |
| REST handlers | `internal/http/handlers`, `render`, `errs` | none | create, get, list, update, delete |
| Router, middleware | `internal/http/router`, `internal/middleware` | per request: a shared header map and three nested response writers | RequestID, Recovery, Logging, Timeout, CORS, Gzip, ETag, Heartbeat, API key check |
| Unit of work | `core/usersvc.go`, `postgres/user_repo.go` | a transaction on one of 25 connections | WithTx, BeginTx, Commit, Rollback, the repository's statements |
| Server process | `cmd/server/main.go`, `cmd/api/main.go` | which store and cache, the listener, signals, requests under way | start, serve, shut down |
| Configuration | `internal/config` | values read once | Load, Validate |
| GraphQL | `graph`, `internal/http/graphql` | per operation: FieldSets, errors | the generated executor; resolvers that panic "not implemented", and two sets of resolvers that are not wired |

How they interact: `main` picks a store, wraps it in the user service, that in
the cached service, and hands this to the router. Every request runs on a
goroutine of its own through the middleware, a handler, the cached service, the
user service and the store. Requests meet in the store, in the caches and in
`listVer`; processes (the deployment runs two) meet in the database and in
Redis.

What is hard, and what correctness means:

* *User service.* Update is read, merge, stamp, write without a transaction, so
  it overlaps with deletes and other updates. Correct: rows are never
  resurrected, replaced or re-dated; addresses are unique where the store
  promises it; refused requests change nothing.
* *Cache.* Lookup, database call, invalidation and refill are separate calls;
  ristretto adds entries asynchronously, drops them when its buffer is full and
  blocks deletes; Redis errors are ignored; a restart resets `listVer`.
  Correct: lists show what has been reported, a settled user is cached as
  stored, requests end.
* *Middleware.* Three writers wrap each other, and a panic unwinds through them.
  Correct: status, log, headers and body framing at the client are the ones
  chosen inside.
* *Unit of work.* A caller's function runs between BeginTx and Commit; it may
  fail, panic or finish the transaction itself, the context may end, the answer
  to a commit may be lost, rows and connections may be waited for. Correct: all
  or nothing, told truthfully, nothing leaks, nobody waits for ever.
* *Paging.* Sizes and pages come unchecked from three interfaces, ints
  overflow, the table changes between two pages and between a page and its
  total, and some pages come from the cache. Correct: the right slice, an agreeing total, walks that miss nobody.
* *GraphQL.* Fields and list elements end on goroutines in any order, with
  values, nulls, errors or panics. Correct: nulls where the schema allows them
  and nowhere needlessly, one error per failure, mutations in order, an answer
  always.
* *Life cycle.* Listener, signals and slow handlers race with a shutdown of
  20 s, shorter than the 30 s a handler has; answers must be out within 15 s.
  Correct: requests are cut off, pools closed and answers lost only when they
  have to be; a signal ends the process.

`PROJECT.json` lists every hazard with the line where it bites and the
properties that cover it.

## Modules

| Module | Models |
| --- | --- |
| `Users` | `core.User`, the errors, the shape of a repository call |
| `MemoryRepo`, `PostgresRepo` | the two stores: a method is the set of its outcomes (table after, error) |
| `UserDirectory` | abstract: what the `UserRepository` interface promises |
| `UserService` | the service over either store, requests interleaved |
| `UserServiceProofs` | theorems about `UserService` |
| `LayeredCache` | the calls of ristretto and Redis that `Layered` makes |
| `CachedUserService` | the cached service in every process, call by call |
| `CachedUserServiceProofs` | theorems about `CachedUserService`: types and lists |
| `CachedUsersProofs` | theorem about `CachedUserService`: users |
| `Handlers` | what each route may do to its ResponseWriter |
| `HttpPipeline` | the middleware chain around it, one request after the other |
| `HttpPipelineProofs` | theorems about `HttpPipeline` |
| `AtomicUnits` | abstract: what `WithTx` promises |
| `UnitOfWork` | `WithTx` over Postgres transactions, among the writes of other requests |
| `UnitOfWorkProofs` | theorems about `UnitOfWork`, the refinement among them |
| `Paging` | `List` of both stores behind the cached service and three interfaces |
| `PagingProofs` | theorems about `Paging` |
| `GraphQLSchema` | the fields of the generated schema |
| `GraphQLResolvers` | how the wired and the unwired resolvers may end |
| `GraphQLExecutor` | one operation through the generated executor |
| `GraphQLProofs` | theorems about `GraphQLExecutor` |
| `Configuration` | what `config.Load` makes of the environment |
| `ServerLifecycle` | `main`: start, listener, signals, shutdown, exit |
| `ServerLifecycleProofs` | theorems about `ServerLifecycle` |
| `MCUserService`, `MCCachedUserService`, `MCHttpPipeline`, `MCUnitOfWork`, `MCPaging`, `MCGraphQL`, `MCServerLifecycle` | instances for TLC |

Operators named like `...Blind` or `...Forgotten`, with a comment that begins
with "Mutant", are plausible wrong versions of the definition that follows
them. Nothing uses them; each has been put in place of its neighbour to see
that a property notices.

**UserService.** `users` is the table, `req[r]` where request *r* is. `Create`
and `CreateInRepo` are the two halves of the Go `Create` (the user is built
before the store is called); `Update`, `UpdateStamp` and `UpdateInRepo` are the
read with the merge, the stamp, and the write. Emails are abstracted to an
address and the form of the string: capitals and white space disappear in
`normalizeEmail`, a display name does not, because the result of
`mail.ParseAddress` is thrown away. A Postgres statement may fail before or
after its effect (`Exec`, `DBFaults`). A connection pool, SQL and time zones are
left out. The clock is assumed not to go back.

**LayeredCache, CachedUserService.** A cached payload is told apart only by the
number of the commit it was read at; `db[id]` holds the commit that last wrote
the row. Every call that another goroutine can interleave with is an action:
local lookup, Redis lookup, copying a Redis hit into the local cache, base
call, the two halves of ristretto's Del, Redis delete, bump, local set, Redis
set. Ristretto v0.1.1 and Redis are external and modelled from their use: Set
updates a present key at once and queues a new one (dropped when the queue is
full), Del removes and then queues a delete and waits for room, one goroutine
applies the queue, eviction and expiry are free choices. `acked` and `tainted`
are history variables; no guard reads them.

**Handlers, HttpPipeline.** An answer is a status, a content type, whether
`WriteHeader` is called and whether there is a body. `hdr` is the header map
shared by all writers, `wire` what net/http has sent, `sw`, `rr` and `gz` the
states of `statusWriter`, `respRecorder` and the gzip writer. The way in ends in
`Auth` or `Handler`, the way out is `ETag`, `GzipOut`, `Logging`; a panic goes
through `Unwind` (the deferred `gz.Close`) to `Recovery`. Requests share nothing
in the chain, so one at a time is enough. Net/http itself is external.

**UnitOfWork, AtomicUnits.** `tx[u]` is the transaction of a call *u* of `WithTx`,
`pend[u]` the rows it has written and not committed, `users` the committed table.
The function is any sequence of statements (`Call`, `ExecStatement`), may call
`Commit` and `Rollback` itself (`FnFinishesTx`), and ends in any way
(`FnReturns`). The statements of `txUserRepo` are those of `PostgresRepo` on the
unit's view of the table. Row and index locks, the goroutine that rolls back
when the context is done, and the answers a commit may get are external. `OtherWrite` is a
statement of another request outside of any transaction, with all its outcomes.
The memory store is no `TxStarter`, so `WithTx` refuses. The mapping to `AtomicUnits`
takes `pend` for what is written and hides the answer until the deferred
rollback is done.

**Paging.** Creation times stand for users, `born` and `gone` for the table. A
request is any pair of ints the interface lets through; `Wrap` is Go's
arithmetic. `MemoryList` is one step (it holds the lock), Postgres is `SelectPage`
and `SelectCount`. Users of one instant come in any order, which may change from
call to call. `cachedUserService.List` stands between a client and the store: it makes its key
(`PutQuestion`), finds a page under it (`Hit`) or none (`Miss`) and asks the store.
What the cache may hold is taken from the keys: a page under a key with the
current version was read from one of the tables there have been since the version
came up (`era`), or, while the request is under way, from one committed since
(`reach`); its total was counted on the same table or, on Postgres, on a later one.
Every such page may or may not be there, which covers eviction, expiry, the set
buffer and both layers. `Bump` raises the version some time after a change, or
never: changes that were reported as errors, or made by a unit of work, do not
raise it. `seen`, `start`, `created`, `deleted`, `wrote`, `unbumped`, `risky` and `torn`
are history.

**GraphQLSchema, GraphQLResolvers, GraphQLExecutor.** Every field function of
`generated.go` is one entry: what it marshals, whether null is an error, whether
it has arguments. A document is a tree of selected fields and list elements;
each has a state and a result, `invalids` counts nulls as `FieldSet.Invalids` and
the scan of a list do. Which nodes have a goroutine of their own, and which wait
for the field before, is `Concurrent` and `Reached`.

**Configuration, ServerLifecycle.** `pc` is where `main` is; a fatal error and the
return are `Exit`. Time is in ticks of five seconds. `age` and `elapsed` run
against the timeouts; a request may arrive, be read late, write to the store and
end at any time. The listener's goroutine is `Listen` (asks whether Shutdown has
been called, binds, asks again), `AcceptFails` and `ListenerFatal`: an error and the
Fatal for it are two steps, and the shutdown may begin between them. A statement
of a database needs a context that is not done, the memory store does not look
at it. `cmd/api/main.go`, a placeholder, is the second program.

## Runs

| Run | Result | Question |
| --- | --- | --- |
| `user_service` | pass | two concurrent requests, two ids, both stores, failing statements |
| `merge_patch` | violation | does a PATCH leave the fields it does not name alone? |
| `cache_lists` | pass | are lists fresh in one process with Redis, buffer of one item? |
| `cache_users` | pass | are cached users current, and do requests end, with faults and a restart? |
| `stale_user` | violation | is a settled user always cached as stored? |
| `shared_lists` | violation | are lists fresh when two processes share Redis? |
| `http_pipeline` | pass | every kind of request, every route, panics, key expiry |
| `docs_page` | violation | does `/docs` deliver its page? |
| `unit_of_work` | pass | two units, conflicting rows, writes of others, one or two connections, every failure |
| `paging` | pass | every page and size, three interfaces, both stores, a changing table, every page the cache may hold |
| `graphql` | pass | four documents, every outcome of a resolver, every order |
| `server_lifecycle` | pass | every environment, signals at any time, two requests of any length |

Properties of the passing runs:

* `TimestampsOrdered`: created ≤ updated ≤ now, in every row.
* `PlainAddressUnique`: Postgres holds no address twice in plain form.
* `DirectorySpec`: `UserService` implements `UserDirectory`.
* `RefusalChangesNothing`: a refused request leaves the table alone. A Postgres
  error other than "not found" is not a refusal: the statement may be done.
* `ListFresh`: a list shows every mutation its process had reported when the
  list began.
* `UserCurrentUnlessTainted`: once nothing is under way for a user, the caches
  hold the stored, live row or nothing, unless one of four things happened to
  it: a mutation overlapped another request, was committed but reported as
  failed, was cut short by a restart, or failed to delete from Redis. The
  property delimits exactly where the code's invalidation can be trusted;
  `stale_user` shows that the first exception is needed.
* `RequestsComplete`: every request ends, although a delete may wait for room
  in the set buffer.
* `StatusDelivered`, `LogIsTrue`, `HeadersSurvive`, `KeyHolders`,
  `GzipWellFormed`: what arrives at the client, and in the log, is what was
  decided inside. Two exceptions are written into them because the code gets
  these cases wrong and no document promises otherwise: a panic while gzip is
  on arrives as a 200 (the deferred close comes before `Recovery`), and a match
  of If-None-Match is logged as 304 while a 200 was sent.
* `AtomicSpec`: `UnitOfWork` implements `AtomicUnits`. A caller that is told nil has
  its unit committed; one that is told an error may have it either way, because
  the answer to a commit can be lost.
* `ConnectionsReturned`: a `WithTx` that has returned holds no connection, and no
  more are in use than there are.
* `WaitsEnd`: waits for a connection, a lock or the server end, though functions
  need not; when the context is done the connection comes back.
* `PageRight`: a page that a store reads holds exactly the users whose place by age is in it; only a
  database error or an overflow of the request keeps the client from it.
* `TotalAgrees`: page and total agree, on Postgres unless a user was created or
  deleted between the two statements.
* `WalkCovers`: a walk through all pages finds every user that was there all the
  time if none was deleted, and none twice if none was created, provided no two
  users have the same creation time and the walk is not `torn`: no page came from
  the cache under a key made while a change had not raised `listVer`. Each proviso
  is needed. In a torn walk page 1 may show a user whose delete is committed and
  not yet followed by its `Add(1)` (`cached_usersvc.go:69-73`), and page 2 be fresh,
  so that a user is missed although nobody was deleted during the walk; after a
  commit that was reported as an error, or made by a unit of work, this lasts until
  the next mutation. That no other page from the cache can do this is what the
  property says, and why the version is in the key.
* `NoForbiddenNull`, `NullsCaused`: the client finds no null where the schema
  promises a value, and no null without a cause below it.
* `ErrorsOnce`: every failure, a recovered panic too, is one error of the response.
* `EffectsInOrder`: mutations take effect one after the other; a failed one neither
  stops those after it nor undoes those before it, even though `data` is null.
* `Answered`: every operation is answered.
* `CutOnlyAfterGrace`, `StoreOutlivesHandlers`: a handler is cut off, or loses the
  pool, only when the grace of the shutdown is over or the process dies.
* `LostWriteCaused`: the client of a write that was done is left without an answer
  only for one of three causes, the write timeout among them.
* `Terminates`: a signal that is taken ends the process, whatever handlers do.

The deadlines of `main.go` do not fit together: a handler has 30 s
(`router.go:39`), its answer 15 s (`WRITE_TIMEOUT`), a shutdown 20 s.
`LostWriteCaused` and `CutOnlyAfterGrace` say exactly what follows from it.

**Bounds.** Two requests suffice for every race named above, all of which are
between two requests; two ids for clashes of addresses; `MaxClock = 1` tells
before from after; `MaxWrites = 2` gives a value and a stale one. `BufCap` (32768
in ristretto) is 1 or 2 so that the buffer is full in most states.
`cache_lists` uses symmetry in the requests and a view without `tainted`, which
guards nothing. `MaxDay = 1` with a key that expires on day 1 lets the day change
at every point of a request; three keys are a current, a retired and an
unknown one. `unit_of_work` has two units that write two rows which share an
address with a row others write, so that each kind of lock is met, deadlocks
too; pools of one and two connections make a unit wait or not. `paging` scales
int to -8..7, GraphQL's Int to -4..3 and the sizes 20, 50, 100 to 1, 2, 3, which
keeps their order and lets products overflow. Two users and two times give full,
partial and empty pages, ties, and pages that move and tear: a page that is too old
has one user too many or too few. `MaxEra = 3` tables may follow each other under
one version, which bounds how many changes go by without a bump; each bump starts
anew. A service without a cache (`Caching`, when `cache.New` failed) behaves like
one that always misses. The documents of
`graphql` have lists of none, one and two elements, aliases, nullable and non-null
fields above each other, and three mutations. `server_lifecycle` has ticks of
five seconds, so all timeouts keep their order and sums; two requests are
enough, since requests meet only in the drain of a shutdown. The theorems below
do not depend on any of these bounds.

**Fairness.** `cache_users`: each request runs on its own goroutine and
ristretto's goroutine serves its queue: weak fairness for both. For a delete
that waits for room, strong fairness: a Go channel hands the place a receiver
frees to the goroutine that has waited longest, so others cannot take it for
ever. `unit_of_work`: calls of the database end, every context is done in the end
(the Timeout middleware) and database/sql notices it; nothing is assumed of the
function. `graphql`: the transport calls the handler and the goroutines run, every
resolver ends. `server_lifecycle`: `main` runs and time goes by; nothing is
assumed of handlers.

Every passing run checks for deadlock as well.

## Findings

1. `merge_patch`: overlapping PATCHes lose updates. Update writes back the whole
   copy it read, so a patch restores the old value of a field it does not name,
   against "merge-patch (RFC 7396)" in `openapi.yaml`.
2. `stale_user`: a user deleted while its create or a get is under way stays in
   the local cache, which has no expiry.
3. `shared_lists`: `listVer` is per process and the keys are shared, so a process
   may answer with a list older than a mutation it has itself reported. A
   restart has the same effect (set `MaxRestarts = 1`, one instance).
4. The ETag header is set after the headers have been sent, so it never arrives
   (and a 304 never takes effect): step `ETag` of `HttpPipeline`, whose tag is
   never in `wire.hdr`.
5. `docs_page`: the ETag recorder drops every body that is not JSON of a 200:
   the documentation page, problem details, the created user of a 201.

Also met while modelling, where no document says otherwise: with
`page=9223372036854775807` and `page_size=2` the product in the in-memory `List`
wraps to a negative start and the slice panics (other values wrap to another
page), which `PageRight` excludes by `Fits`; `WithTx` leaves the cache stale
(nothing calls it yet); a walk through pages may be torn by the cache, as said
under `WalkCovers`; the cost of a cache entry is its length in bytes while the
README speaks of "approx entries".

## Proofs

Assumptions are the named `ASSUME`s of the modules: the kinds of the constants,
and that `Nil` is none of the values. Sets of ids, names, addresses, requests,
processes and pages are arbitrary, finite or not; only the users of `Paging` and
the units of `UnitOfWork`, which are counted, are finite.

**`UserServiceProofs`.** `TypeCorrect`, `TimestampsCorrect`,
`PlainAddressesUnique`, `ServiceImplementsDirectory` and
`RefusalsChangeNothing` rest on the invariant `IInv`. None of the properties is
inductive alone. An update in flight carries a whole row to the store, so `IInv`
says of each request (`InFlight`) that its copy's stamps are ordered and that,
if its row exists, the copy has the row's creation time; `RowsKeyed` says that a
row is stored under its own id, without which a write could land elsewhere; and
uniqueness is proved of whole stored strings (`PgEmailsUnique`) and carried to
addresses by normalisation. Refinement is step simulation with the identity
mapping of `users`.

**`CachedUserServiceProofs`.** `TypeCorrect`, and `ListsAreFresh`: if there is no
Redis, or one process that does not restart (`ListKeysOwned`), then `Spec`
implies `[]ListFresh`. The invariant `ListInv` relates versions to commits: a page
cached, queued or held under the current version is no older than any mutation
the process has reported, or has bumped for and is about to report, and a page
under any version is no older than what a list request with that key must show
(`HeldFresh`); nothing is newer than the database and no list has a key of a
version to come (`Bounded`). The heart of it is the order of two lines in the
code: a mutation bumps `listVer` before it returns, and a list computes its key
before it reads the database.

**`CachedUsersProofs`.** `UsersAreCurrent`: in one process (`OneProcess`), with
or without Redis, restarts and faults, `Spec` implies
`[]UserCurrentUnlessTainted`. That a settled user is right is not inductive; the
invariant `UserInv` says of every untainted user, settled or not: a mutation of it
is alone (`Alone`); Redis holds the row or nothing from the moment `delUser` has
been there (`RedisRight`); ristretto and its queue hold the row, nothing, or what
a delete further back in the queue will remove, from the moment that delete is
queued (`LocalRight`, `DelBehind`); and a request on its way to a `Set` carries
the row (`Carried`). The heart of it is that `delUser` comes after the commit and
that ristretto's queue is first in, first out: an old value that was queued
before the delete cannot outlive it. More than one process is excluded because
`delUser` empties only its own ristretto.

**`UnitOfWorkProofs`.** `TypeCorrect`, `Atomicity`, `Connections`. The
invariant links the places of `WithTx` with the state of its transaction
(`Linked`: a transaction that is open has the fate "open", one that is over has
written nothing, a unit that is told nil is committed) and says that units write
disjoint rows (`Isolated`), which is what the locks are for and what makes a
commit one step of `AtomicUnits`. `Atomicity` is step simulation under the mapping
above. The number of units is finite, since connections are counted.

**`ServerLifecycleProofs`.** `TypeCorrect`, `Cut`, `StoreLast`, `LostWrite`. The
invariant says when there can be requests at all (`Listening`), that `main` gets
past its shutdown only drained or out of grace (`Drawn`), and keeps for each
request why it was lost or cut (`Fates`).

**`HttpPipelineProofs`.** `TypeCorrect`, `StatusesDelivered`, `LogTrue`,
`HeadersKept`, `HoldersOnly`, `GzipFramed`: all invariants of the run, for any
keys, expiries and calendar. None says anything before a request is done, so the
invariant says at each place of the chain what must have reached the wire by
then: nothing on the way in (`Unanswered`), the recorder's status and no body at
ETag (`Recorded`), one stream or none after the deferred `gz.Close()`
(`Zipped`), the same status in `statusWriter` as on the wire (`Logged`), and
headers that are set before anything is sent (`Headed`), since net/http keeps
the header map of the first `WriteHeader`. `Checked` keeps the key check's
verdict while the day changes. The lemmas say what `RawWriteHeader` and
`RawWrite` do to a response that has begun and to one that has not.

**`GraphQLProofs`.** `TypeCorrect`, `ErrorsReported`, `MutationsInOrder`,
`NullsAllowed`, `NullsHaveCause`: all invariants of the run, for any documents
that `WellFormed` admits. `WellFormed` is what gqlgen's validation guarantees (an
operation selects fields of its root type, nothing is selected below a scalar, a
list stands above its elements) and an assumption on `Docs`. The invariant
`ExecInv` is local, it relates a node to its parent only: what has finished by
itself has finished below (`ChildrenDone`), a field has been reached after the
ones before it (`Begun`), `invalids` is positive exactly when a null has been
counted (`NullsCounted`), a value has no forbidden null right below
(`OkWhole`), a null has failed or has such a child (`NullLocal`). The two
properties of whole paths follow by induction over the tree: `AboveFacts` says
that the nodes above a node are a chain, and `CauseClimbs` carries the cause of a
null from a child to its parent. Induction goes through `Induct`, which is stated
for a set instead of a predicate; `AboveEquation` proves that the recursive
function `Above` exists.

**`PagingProofs`.** `TypeCorrect`, `PagesRight` (an action property), `TotalsAgree`,
`WalksCover`, for any number of users whose total is an int, any sizes and widths
that `PagingAssumption` orders. `Listing` says what a sorted list is, `Place` that
the k-th of it has less than k users that are newer, and at least k that are newer
or as old: two injections, counted. With `WrapExact` (Go's arithmetic is the
plain one while it fits) `StretchRead` and `StretchRows` say what either store
answers; `PagesRight` is that. `TotalInv` says the same of the page while
Postgres has not read the total yet. That a walk covers everybody is not
inductive; `WalkInv` says where the walk has come to (`Covered`) and that whoever
was there at the start and has a place before it was seen (`NobodyMissed`), since
a create only moves users back, and that whoever was seen has a place before it
(`NobodyAhead`), since a delete only moves them forward. Ties are excluded because
two calls may break them in two ways. All this is said of every table the next
page may show (`Shown`), which from the cache need not be the present one:
`ShownInv` says that, if the key was made with every change accounted for, these
tables and the present one differ only by what happened during the walk, so that
users have moved back between them where none was deleted (`Back`) and forward
where none was created.

Only model-checked, not proved: the liveness properties (`RequestsComplete`,
`WaitsEnd`, `Answered`, `Terminates`), which rest on fairness and ENABLED. Each
invariant and each other action property of a passing run is a theorem. The
operators that `Configuration` is made of have no theorem.

## Not modelled

* pprof, the playground, `/openapi.yaml` (`http.ServeFile`), unknown routes:
  library handlers.
* Metrics and log output, deployment files: no behaviour to check.
* Cost-based admission of ristretto, beyond being arbitrary.
* Lists of keys and origins and key expiries in `config.Load`: texts that are
  split. `HttpPipeline` has keys and expiries as they are once parsed.
* In the GraphQL executor: `@defer` (the generated code never fills its map of
  deferred fields), the complexity limit (none is configured), subscriptions
  (none in the schema), `__typename`; gqlgen's parser, validation and transports.
* The resolvers of `internal/http/graphql` beyond the paging of `users`: they are
  not wired, and those of `graph/resolver/user.resolvers.go` do the same.
* In `Paging`'s cache: a process that meets pages of another one, or of its own
  time before a restart, under equal version numbers in Redis. The assumption is
  `ListKeysOwned` of the cache's proofs; `shared_lists` shows what happens without.
* `cachedUserService.WithTx` against the cache of users: it passes the call on
  (`cached_usersvc.go:100-102`), nothing invalidates what a unit writes, and a user
  then stays cached as it was. `UnitOfWork` is the service behind it, without cache.
* A process that alone has lost its Redis (`main.go:73`): `RedisOn` is one switch.

## Order of work

User service and stores, cache, HTTP pipeline with their proofs came first; then
unit of work, paging, GraphQL and life cycle, and the proofs about each. What is
left: a Redis switch per process, and the parsing of keys and expiries.
