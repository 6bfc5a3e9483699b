------------------------------- MODULE Paging -------------------------------
(***************************************************************************)
(* List, from a query string or the arguments of a GraphQL field to the    *)
(* rows and the total a client gets: parsePagination and list              *)
(* (internal/http/handlers/users.go), the defaults of the two GraphQL      *)
(* resolvers, List of the cached service (internal/core/cached_usersvc.go) *)
(* and List of both stores (internal/core/user_repo_memory.go,             *)
(* internal/storage/postgres/user_repo.go).  A client asks for one page or *)
(* walks over all of them while other requests create and delete users.    *)
(* Of the cache it matters which tables a page under the current version   *)
(* of the list keys may show; how such a page got there is                 *)
(* CachedUserService's subject.                                            *)
(***************************************************************************)
EXTENDS Integers, Sequences, FiniteSets, SequencesExt

CONSTANTS
    IDs,           \* user ids
    MaxTime,       \* bound: creation times are 1 .. MaxTime
    MaxInt,        \* the largest int, 2^63 - 1; ints wrap around
    MaxInt32,      \* the largest GraphQL Int of graphql-go
    DefaultSize,   \* 20
    MemorySize,    \* 50
    MaxSize,       \* 100
    Backends,      \* subset of {"memory", "postgres"}
    APIs,          \* subset of {"rest", "gqlgen", "graphql-go"}
    Caching,       \* whether NewCachedUserService got a cache
    MaxEra,        \* bound: tables under one version of the list keys
    DBFaults       \* whether statements may fail

ASSUME PagingAssumption ==
    /\ IsFiniteSet(IDs) /\ Cardinality(IDs) <= MaxInt \* a total is an int
    /\ MaxEra \in Nat /\ MaxTime \in Nat /\ MaxInt \in Nat /\ MaxInt32 \in Nat
    /\ MaxInt32 <= MaxInt /\ (MaxInt32 - 1) * MaxInt32 <= MaxInt
    /\ {DefaultSize, MemorySize, MaxSize} \subseteq Nat
    /\ 0 < DefaultSize /\ DefaultSize < MemorySize /\ MemorySize < MaxSize
    /\ MaxSize < MaxInt
    /\ Backends \subseteq {"memory", "postgres"}
    /\ APIs \subseteq {"rest", "gqlgen", "graphql-go"}
    /\ Caching \in BOOLEAN /\ DBFaults \in BOOLEAN

VARIABLES
    backend,
    table,         \* of each user created_at, 0 if there is none, and the users
                   \* that are deleted
    era,           \* the tables since listVer was last raised
    unbumped,      \* history: whether a change was committed since then
    api, page, size, \* what the client asks the service for
    state,         \* "idle", "keyed" (the key for the cache is made), "asked"
                   \* (of the store), "count" (the page is read, the total is
                   \* not), "ok", "error" or "panic"
    reach,         \* the tables a page found under the key may show
    risky,         \* history: unbumped, when the key was made
    rows, total,   \* the answer
    walking,       \* whether the client is on its way through all pages
    seen,          \* history: the rows of this walk's pages, one after the other
    start,         \* history: the users live when the walk began
    created, deleted, \* history: whether a user was created, deleted since
    torn,          \* history: whether a page of this walk came from the cache,
                   \* under a key made while unbumped
    wrote          \* history: whether either happened since the page was read,
                   \* before the total was

versions == <<era, unbumped>>
lookup == <<reach, risky>>
question == <<api, page, size>>
answer == <<rows, total>>
walk == <<walking, seen, start, created, deleted, torn>>
vars == <<backend, table, versions, lookup, question, state, answer, walk, wrote>>

Int64 == -MaxInt - 1 .. MaxInt
Int32 == -MaxInt32 - 1 .. MaxInt32

\* Go's int arithmetic
Wrap(n) == ((n + MaxInt + 1) % (2 * MaxInt + 2)) - MaxInt - 1

Tables == [born : [IDs -> 0 .. MaxTime], gone : SUBSET IDs]

Live(t) == {id \in IDs : t.born[id] > 0} \ t.gone

\* t is the table u at an earlier time.
Before(t, u) ==
    t.gone \subseteq u.gone /\ \A id \in IDs : t.born[id] \in {0, u.born[id]}

Init ==
    /\ backend \in Backends
    /\ table = [born |-> [id \in IDs |-> 0], gone |-> {}]
    /\ era = {table} /\ unbumped = FALSE /\ reach = {} /\ risky = FALSE
    /\ api = "none" /\ page = 1 /\ size = DefaultSize
    /\ state = "idle"
    /\ rows = <<>> /\ total = 0
    /\ walking = FALSE /\ seen = <<>> /\ start = {}
    /\ created = FALSE /\ deleted = FALSE /\ torn = FALSE /\ wrote = FALSE

-----------------------------------------------------------------------------
\* The table becomes t; whoever has made a key may find pages of t under it.
Commit(t) ==
    /\ Caching => Cardinality(era) < MaxEra
    /\ table' = t
    /\ era' = IF Caching THEN era \cup {t} ELSE {t}
    /\ unbumped' = Caching
    /\ reach' = IF state = "keyed" THEN reach \cup {t} ELSE reach
    /\ wrote' = (wrote \/ state = "count")
    /\ UNCHANGED <<backend, risky, question, state, answer, walking, seen, start, torn>>

\* Another request creates a user.  The time is read before the insert, so it
\* need not be the latest, and two users may have the same.
Create(id, time) ==
    /\ table.born[id] = 0
    /\ Commit([table EXCEPT !.born[id] = time])
    /\ created' = walking /\ UNCHANGED deleted

Delete(id) ==
    /\ id \in Live(table)
    /\ Commit([table EXCEPT !.gone = @ \cup {id}])
    /\ deleted' = walking /\ UNCHANGED created

\* Mutant: the version is no part of the key.
EraAfterUnversioned == era \cup {table}

\* The tables that pages with the new key may show.
EraAfter == {table}

\* The cached Create, Update or Delete raises listVer: some time after the
\* change, and never for one that was reported as an error, that a unit of work
\* made, or whose process died.
Bump ==
    /\ Caching
    /\ era' = EraAfter /\ unbumped' = FALSE
    /\ UNCHANGED <<backend, table, lookup, question, state, answer, walk, wrote>>

-----------------------------------------------------------------------------
\* Mutant: a page below 1 is let through.
RestPageUnchecked(n) == n

\* parsePagination; a text that is no number reads as 0, one that is out of
\* range as the nearest int.
RestPage(n) == IF n < 1 THEN 1 ELSE n
RestSize(n) == IF n <= 0 \/ n > MaxSize THEN DefaultSize ELSE n

\* What each interface makes of the numbers it is given, as <<page, size>>.
Asked(interface) ==
    CASE interface = "rest" -> {<<RestPage(p), RestSize(s)>> : p, s \in Int64}
         \* user.resolvers.go: only an absent argument gets its default
      [] interface = "gqlgen" -> Int64 \X Int64
         \* schema.go: absent arguments read as 0
      [] interface = "graphql-go" ->
            {<<IF p = 0 THEN 1 ELSE p, IF s = 0 THEN DefaultSize ELSE s>> : p, s \in Int32}

\* cachedUserService.List makes its key before it does anything else.
PutQuestion ==
    IF Caching THEN state' = "keyed" /\ reach' = era /\ risky' = unbumped
    ELSE state' = "asked" /\ UNCHANGED lookup

\* A client asks for a page; from the first it may go on to the others.
Ask(interface) ==
    /\ state = "idle"
    /\ \E q \in Asked(interface) : page' = q[1] /\ size' = q[2]
    /\ api' = interface
    /\ PutQuestion
    /\ walking' = (page' = 1) /\ start' = IF walking' THEN Live(table) ELSE {}
    /\ UNCHANGED <<backend, table, versions, answer, seen, created, deleted, torn, wrote>>

NextPage ==
    /\ state = "ok" /\ walking /\ rows # <<>> /\ page < MaxInt
    /\ page' = page + 1
    /\ PutQuestion
    /\ UNCHANGED <<backend, table, versions, api, size, answer, walk, wrote>>

Stop ==
    /\ state \in {"ok", "error", "panic"}
    /\ state' = "idle"
    /\ api' = "none" /\ page' = 1 /\ size' = DefaultSize
    /\ rows' = <<>> /\ total' = 0
    /\ walking' = FALSE /\ seen' = <<>> /\ start' = {}
    /\ created' = FALSE /\ deleted' = FALSE /\ torn' = FALSE /\ wrote' = FALSE
    /\ UNCHANGED <<backend, table, versions, lookup>>

-----------------------------------------------------------------------------
\* Mutant: the query has no ORDER BY.
SortedNot(t) == SetToSeqs(Live(t))

\* The orders "newest first" allows; equal times come in any order, which may
\* be another one in the next call.
Sorted(t) ==
    {s \in SetToSeqs(Live(t)) : \A i, j \in DOMAIN s : i < j => t.born[s[i]] >= t.born[s[j]]}

Numbered(p) == IF p < 1 THEN 1 ELSE p

\* The size each store goes by.
Sized(s) ==
    IF backend = "memory" THEN (IF s <= 0 THEN MemorySize ELSE s)
    ELSE (IF s <= 0 \/ s > MaxSize THEN DefaultSize ELSE s)

Offset(p, s) == Wrap((Numbered(p) - 1) * Sized(s))

SliceEnd(n, length) == IF n > length THEN length ELSE n

\* Whether a store whose table is t answers the question at all.  Slice bounds
\* that overflow has made negative make the in-memory one panic, a negative
\* OFFSET is an error of the server.
Answers(t) ==
    LET from == Offset(page, size)
        n == Cardinality(Live(t))
        to == SliceEnd(Wrap(from + Sized(size)), n)
    IN  IF backend = "memory" THEN from >= n \/ (0 <= from /\ from <= to /\ to <= n)
        ELSE from >= 0

\* The pages it may answer with.
Pages(t) ==
    LET from == Offset(page, size)
    IN  {SubSeq(list, from + 1, SliceEnd(from + Sized(size), Len(list))) : list \in Sorted(t)}

Answer(outcome, rs) ==
    /\ state' = outcome
    /\ rows' = rs
    /\ seen' = IF walking THEN seen \o rs ELSE seen
    /\ reach' = {} /\ risky' = FALSE
    /\ UNCHANGED <<backend, table, versions, question, walking, start, created, deleted>>

\* A page is found under the key.  Another request put it there, which read the
\* page and then the total after the key's version had come up.
Hit ==
    /\ state = "keyed"
    /\ \E t, u \in reach :
          /\ Answers(t) /\ \E rs \in Pages(t) : Answer("ok", rs)
          /\ IF backend = "memory" THEN u = t ELSE Before(t, u)
          /\ total' = Cardinality(Live(u))
          /\ wrote' = (u # t)
    /\ torn' = (walking /\ (torn \/ risky))

\* None is, or none any more.
Miss ==
    /\ state = "keyed"
    /\ state' = "asked" /\ reach' = {} /\ risky' = FALSE
    /\ UNCHANGED <<backend, table, versions, question, answer, walk, wrote>>

\* InMemoryUserRepo.List, under the read lock.
MemoryList ==
    /\ backend = "memory" /\ state = "asked"
    /\ total' = Cardinality(Live(table))
    /\ IF Answers(table) THEN \E rs \in Pages(table) : Answer("ok", rs)
       ELSE Answer("panic", <<>>)
    /\ wrote' = FALSE /\ UNCHANGED torn

\* UserRepo.List and txUserRepo.List: first the page.
SelectPage ==
    /\ backend = "postgres" /\ state = "asked"
    /\ \/ (DBFaults \/ ~Answers(table)) /\ Answer("error", <<>>)
       \/ Answers(table) /\ \E rs \in Pages(table) : Answer("count", rs)
    /\ wrote' = FALSE /\ UNCHANGED <<total, torn>>

\* Mutant: the count includes deleted users.
CountedWithDeleted == {id \in IDs : table.born[id] > 0}

Counted == Live(table)

\* Then the total, a statement of its own, also within a unit of work, whose
\* statements each see what is committed when they begin.
SelectCount ==
    /\ state = "count"
    /\ \/ state' = "ok" /\ total' = Cardinality(Counted)
       \/ DBFaults /\ state' = "error" /\ UNCHANGED total
    /\ UNCHANGED <<backend, table, versions, lookup, question, rows, walk, wrote>>

Next ==
    \/ \E id \in IDs : Delete(id) \/ \E time \in 1 .. MaxTime : Create(id, time)
    \/ \E interface \in APIs : Ask(interface)
    \/ Bump \/ NextPage \/ Stop \/ Hit \/ Miss \/ MemoryList \/ SelectPage \/ SelectCount

Spec == Init /\ [][Next]_vars

-----------------------------------------------------------------------------
\* The place in the list, counted from 0, at which the page begins.
First == (Numbered(page) - 1) * Sized(size)

\* The arithmetic of the request fits an int.
Fits == First + Sized(size) <= MaxInt

\* The live users that come before id in a list of t, and those that may.
Newer(t, id) == Cardinality({o \in Live(t) : t.born[o] > t.born[id]})
Ties(t, id) == Cardinality({o \in Live(t) : t.born[o] = t.born[id]})

\* No two users were created at the same time.
NoTies(t) ==
    \A id, other \in IDs : t.born[id] > 0 /\ t.born[id] = t.born[other] => id = other

\* Every request is put to the store in range, unless an interface lets
\* anything through; answers hold users once each.
TypeOK ==
    /\ backend \in Backends
    /\ era \subseteq Tables /\ table \in era /\ unbumped \in BOOLEAN
    /\ reach \subseteq Tables /\ risky \in BOOLEAN
    /\ api \in APIs \cup {"none"} /\ page \in Int64 /\ size \in Int64
    /\ api = "rest" => page >= 1 /\ size \in 1 .. MaxSize
    /\ state \in {"idle", "keyed", "asked", "count", "ok", "error", "panic"}
    /\ rows \in Seq(IDs) /\ \A i, j \in DOMAIN rows : rows[i] = rows[j] => i = j
    /\ total \in 0 .. MaxInt
    /\ walking \in BOOLEAN /\ seen \in Seq(IDs) /\ start \subseteq IDs
    /\ {created, deleted, torn, wrote} \subseteq BOOLEAN

\* A page that a store reads holds, newest first, the users whose place among
\* the live ones is in the page, no other and none less; only a database error
\* or an int overflow keeps a client from it.  (Overflow makes MemoryList
\* panic, SelectPage fail, or either return another page.)
PageRead ==
    state = "asked" /\ state' # "asked" /\ Fits =>
        LET wanted == SliceEnd(First + Sized(size), Cardinality(Live(table))) - First
        IN  \/ state' = "error" /\ DBFaults
            \/ /\ state' \in {"ok", "count"}
               /\ Len(rows') = IF wanted < 0 THEN 0 ELSE wanted
               /\ \A i \in DOMAIN rows' :
                     /\ rows'[i] \in Live(table)
                     /\ Newer(table, rows'[i]) < First + i
                     /\ First + i <= Newer(table, rows'[i]) + Ties(table, rows'[i])
PageRight == [][PageRead]_vars

\* The page and the total agree, on Postgres unless a user was created or
\* deleted between the two statements: a full page, or what the total leaves.
TotalAgrees ==
    state = "ok" /\ Fits /\ (backend = "memory" \/ ~wrote) =>
        LET left == total - First
        IN  Len(rows) = IF left < 0 THEN 0 ELSE IF left < Sized(size) THEN left ELSE Sized(size)

\* A walk from the first page to an empty one finds every user that was there
\* all the time, unless a user was deleted meanwhile, and none twice, unless
\* one was created; provided that no two users were created at the same time,
\* and that no page came from the cache under a key made before listVer had
\* been raised for all changes: such a page may be older than the walk.
WalkCovers ==
    state = "ok" /\ walking /\ rows = <<>> /\ Fits /\ NoTies(table) /\ ~torn
    => /\ ~deleted => \A id \in start : Contains(seen, id)
       /\ ~created => \A i, j \in DOMAIN seen : seen[i] = seen[j] => i = j
=============================================================================
