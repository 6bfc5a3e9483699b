------------------------- MODULE CachedUserService -------------------------
(***************************************************************************)
(* cachedUserService (internal/core/cached_usersvc.go) in every process,   *)
(* over one database.  A request goes through the calls its method makes,  *)
(* one step per call; requests of all processes interleave.  The base      *)
(* service (UserService.tla) is reduced to what a cache can tell: which    *)
(* commit wrote a row and which commits a list has seen.                   *)
(***************************************************************************)
EXTENDS LayeredCache

CONSTANTS
    IDs,            \* user ids; the other Objects are pages of the list
    Reqs,           \* goroutines serving requests
    Nil,            \* no process, no key
    DBFaults,       \* whether database calls may fail on the way
    MaxWrites,      \* bound on commits
    MaxRestarts     \* bound on restarts of processes

Pages == Objects \ IDs

ASSUME CachedUserServiceAssumption ==
    /\ IDs \subseteq Objects
    /\ DBFaults \in BOOLEAN
    /\ MaxWrites \in Nat /\ MaxRestarts \in Nat

VARIABLES
    db,             \* db[id]: the commit that last wrote the row, is it live
    commits,        \* number of commits so far
    listVer,        \* listVer[i]: s.listVer of process i, lost at a restart
    req,            \* req[r]: where request r is, and its locals
    restarts,       \* number of restarts so far
    acked,          \* history: the newest commit process i has reported
    tainted         \* history: users whose requests overlapped or failed

vars == <<local, setBuf, redis, db, commits, listVer, req, restarts, acked, tainted>>

Mutations == {"create", "update", "delete"}

Steps == {"local_get", "redis_get", "warm", "base", "local_del", "queue_del",
          "redis_del", "bump", "local_set", "redis_set", "return"}

\* floor is the newest commit that a list must show: what its process had
\* reported when the list began.
Request == [pc : Steps \cup {"idle"}, op : Mutations \cup {"get", "list", "none"},
            inst : Instances \cup {Nil}, key : Key \cup {Nil},
            val : Nat, floor : Nat]

TypeOK ==
    /\ CacheTypeOK
    /\ db \in [IDs -> [ver : Nat, live : BOOLEAN]]
    /\ commits \in Nat /\ restarts \in Nat
    /\ listVer \in [Instances -> Nat] /\ acked \in [Instances -> Nat]
    /\ req \in [Reqs -> Request]
    /\ \A r \in Reqs : req[r].pc # "idle" =>
         /\ req[r].op # "none" /\ req[r].inst \in Instances /\ req[r].key \in Key
         /\ req[r].op = "list" <=> req[r].key.obj \in Pages
    /\ tainted \subseteq IDs

Idle == [pc |-> "idle", op |-> "none", inst |-> Nil, key |-> Nil,
         val |-> 0, floor |-> 0]

Init ==
    /\ CacheInit
    /\ db = [id \in IDs |-> [ver |-> 0, live |-> FALSE]]
    /\ commits = 0
    /\ listVer = [i \in Instances |-> 0]
    /\ req = [r \in Reqs |-> Idle]
    /\ restarts = 0
    /\ acked = [i \in Instances |-> 0]
    /\ tainted = {}
-----------------------------------------------------------------------------
(* The start of a request *)

cacheKeyUser(id) == [obj |-> id, ver |-> 0]

\* s.listVer is read here, before the lookup and before the database.
cacheKeyList(i, page) == [obj |-> page, ver |-> listVer[i]]

Begin(r, i, op, pc, k, floor) ==
    /\ req[r].pc = "idle"
    /\ req' = [req EXCEPT ![r] = [pc |-> pc, op |-> op, inst |-> i, key |-> k,
                                  val |-> 0, floor |-> floor]]
    /\ UNCHANGED <<cacheVars, db, commits, listVer, restarts, acked>>

\* Requests in flight about the user id.
About(id) == {s \in Reqs : req[s].pc # "idle" /\ req[s].key.obj = id}

\* uuid.New() in base.Create draws an id that nobody has used.
BeginCreate(r, i, id) ==
    /\ commits < MaxWrites
    /\ db[id].ver = 0 /\ About(id) = {}
    /\ Begin(r, i, "create", "base", cacheKeyUser(id), 0)
    /\ UNCHANGED tainted

\* Clients learn an id once its row is committed.
BeginChange(r, i, op, id) ==
    /\ commits < MaxWrites
    /\ db[id].ver > 0
    /\ Begin(r, i, op, "base", cacheKeyUser(id), 0)
    /\ tainted' = IF About(id) = {} THEN tainted ELSE tainted \cup {id}

BeginGet(r, i, id) ==
    /\ db[id].ver > 0
    /\ Begin(r, i, "get", "local_get", cacheKeyUser(id), 0)
    /\ tainted' = IF \E s \in About(id) : req[s].op \in Mutations
                  THEN tainted \cup {id} ELSE tainted

BeginList(r, i, page) ==
    /\ Begin(r, i, "list", "local_get", cacheKeyList(i, page), acked[i])
    /\ UNCHANGED tainted
-----------------------------------------------------------------------------
(* Its steps *)

At(r, pc) == req[r].pc = pc

\* The request goes on to pc, with v the commit it has written or read.
Goto(r, pc, v) == req' = [req EXCEPT ![r] = [@ EXCEPT !.pc = pc, !.val = v]]

\* The request returns an error.
Fail(r) == req' = [req EXCEPT ![r] = Idle]

\* Layered.Get: the local cache, then Redis, whose hit is copied to the local
\* cache ("warm"); errors are misses.
LocalGet(r) ==
    /\ At(r, "local_get")
    /\ \/ \E e \in local[req[r].inst] :
            e.key = req[r].key /\ Goto(r, "return", e.val)
       \/ ~Has(local[req[r].inst], req[r].key) /\ Goto(r, "redis_get", 0)
    /\ UNCHANGED <<cacheVars, db, commits, listVer, restarts, acked, tainted>>

RedisGet(r) ==
    /\ At(r, "redis_get")
    /\ \/ /\ RedisOn
          /\ \E e \in redis : e.key = req[r].key /\ Goto(r, "warm", e.val)
       \/ /\ Has(redis, req[r].key) => RedisFaults
          /\ Goto(r, "base", 0)
    /\ UNCHANGED <<cacheVars, db, commits, listVer, restarts, acked, tainted>>

\* Mutant: after a hit in Redis, Get looks in the local cache again.
WarmAndRetry(r) ==
    /\ At(r, "warm")
    /\ LocalPut(req[r].inst, req[r].key, req[r].val)
    /\ Goto(r, "local_get", 0)
    /\ UNCHANGED <<redis, db, commits, listVer, restarts, acked, tainted>>

Warm(r) ==
    /\ At(r, "warm")
    /\ LocalPut(req[r].inst, req[r].key, req[r].val)
    /\ Goto(r, "return", req[r].val)
    /\ UNCHANGED <<redis, db, commits, listVer, restarts, acked, tainted>>

\* base.Create inserts a row; base.Update and base.Delete need a live one.
CanWrite(op, id) == op = "create" \/ db[id].live

\* Mutant: nothing calls delUser.
AfterWriteNoDel(op) == "bump"

AfterWrite(op) == IF op = "create" THEN "bump" ELSE "local_del"

Commit(r) ==
    /\ commits < MaxWrites
    /\ CanWrite(req[r].op, req[r].key.obj)
    /\ commits' = commits + 1
    /\ db' = [db EXCEPT ![req[r].key.obj] =
                [ver |-> commits + 1, live |-> req[r].op # "delete"]]

\* A mutation succeeds, is refused (no such row, a bad or taken email, a
\* fault), or is committed and reported as failed all the same.
BaseWrite(r) ==
    /\ At(r, "base") /\ req[r].op \in Mutations
    /\ \/ /\ Commit(r)
          /\ Goto(r, AfterWrite(req[r].op), commits + 1)
          /\ UNCHANGED tainted
       \/ /\ Fail(r)
          /\ UNCHANGED <<db, commits, tainted>>
       \/ /\ DBFaults /\ Commit(r) /\ Fail(r)
          /\ tainted' = tainted \cup {req[r].key.obj}
    /\ UNCHANGED <<cacheVars, listVer, restarts, acked>>

\* base.Get and base.List; a list is as fresh as its older query.
BaseRead(r) ==
    /\ At(r, "base") /\ req[r].op \in {"get", "list"}
    /\ \/ /\ req[r].op = "get" /\ db[req[r].key.obj].live
          /\ Goto(r, "local_set", db[req[r].key.obj].ver)
       \/ /\ req[r].op = "get" /\ (db[req[r].key.obj].live => DBFaults)
          /\ Fail(r)
       \/ /\ req[r].op = "list"
          /\ Goto(r, "local_set", commits)
       \/ /\ req[r].op = "list" /\ DBFaults
          /\ Fail(r)
    /\ UNCHANGED <<cacheVars, db, commits, listVer, restarts, acked, tainted>>

\* delUser: local.Del in two halves, then Redis.
LocalDel(r) ==
    /\ At(r, "local_del")
    /\ LocalRemove(req[r].inst, req[r].key)
    /\ Goto(r, "queue_del", req[r].val)
    /\ UNCHANGED <<redis, db, commits, listVer, restarts, acked, tainted>>

QueueDel(r) ==
    /\ At(r, "queue_del")
    /\ QueueDelete(req[r].inst, req[r].key)
    /\ Goto(r, "redis_del", req[r].val)
    /\ UNCHANGED <<redis, db, commits, listVer, restarts, acked, tainted>>

RedisDel(r) ==
    /\ At(r, "redis_del")
    /\ \/ RedisRemove(req[r].key) /\ UNCHANGED tainted
       \/ /\ RedisRemoveSkipped
          /\ tainted' = IF RedisOn THEN tainted \cup {req[r].key.obj} ELSE tainted
    /\ Goto(r, "bump", req[r].val)
    /\ UNCHANGED <<local, setBuf, db, commits, listVer, restarts, acked>>

AfterBump(op) == IF op = "delete" THEN "return" ELSE "local_set"

\* Mutant: s.listVer.Add(-1)
BumpDown(r) ==
    /\ At(r, "bump")
    /\ listVer' = [listVer EXCEPT ![req[r].inst] = @ - 1]
    /\ Goto(r, AfterBump(req[r].op), req[r].val)
    /\ UNCHANGED <<cacheVars, db, commits, restarts, acked, tainted>>

\* s.listVer.Add(1)
Bump(r) ==
    /\ At(r, "bump")
    /\ listVer' = [listVer EXCEPT ![req[r].inst] = @ + 1]
    /\ Goto(r, AfterBump(req[r].op), req[r].val)
    /\ UNCHANGED <<cacheVars, db, commits, restarts, acked, tainted>>

\* Mutant: List computes its key again when it stores the page.
LocalSetRekeyed(r) ==
    LET k == IF req[r].op = "list" THEN cacheKeyList(req[r].inst, req[r].key.obj)
                                   ELSE req[r].key
    IN  /\ At(r, "local_set")
        /\ LocalPut(req[r].inst, k, req[r].val)
        /\ Goto(r, "redis_set", req[r].val)
        /\ UNCHANGED <<redis, db, commits, listVer, restarts, acked, tainted>>

\* Layered.Set
LocalSet(r) ==
    /\ At(r, "local_set")
    /\ LocalPut(req[r].inst, req[r].key, req[r].val)
    /\ Goto(r, "redis_set", req[r].val)
    /\ UNCHANGED <<redis, db, commits, listVer, restarts, acked, tainted>>

RedisSet(r) ==
    /\ At(r, "redis_set")
    /\ RedisPut(req[r].key, req[r].val)
    /\ Goto(r, "return", req[r].val)
    /\ UNCHANGED <<local, setBuf, db, commits, listVer, restarts, acked, tainted>>

\* The method returns; a mutation is then known to its client.
Return(r) ==
    /\ At(r, "return")
    /\ acked' = IF req[r].op \in Mutations /\ req[r].val > acked[req[r].inst]
                THEN [acked EXCEPT ![req[r].inst] = req[r].val] ELSE acked
    /\ req' = [req EXCEPT ![r] = Idle]
    /\ UNCHANGED <<cacheVars, db, commits, listVer, restarts, tainted>>

RequestStep(r) ==
    \/ LocalGet(r) \/ RedisGet(r) \/ Warm(r) \/ BaseWrite(r) \/ BaseRead(r)
    \/ LocalDel(r) \/ QueueDel(r) \/ RedisDel(r) \/ Bump(r)
    \/ LocalSet(r) \/ RedisSet(r) \/ Return(r)
-----------------------------------------------------------------------------
(* The environment *)

CacheStep ==
    /\ \/ \E i \in Instances : ApplySetBuf(i) \/ Evict(i)
       \/ RedisExpire
    /\ UNCHANGED <<db, commits, listVer, req, restarts, acked, tainted>>

\* A process stops, with the requests it was serving, and starts afresh.
Restart(i) ==
    /\ restarts < MaxRestarts
    /\ restarts' = restarts + 1
    /\ LocalReset(i)
    /\ listVer' = [listVer EXCEPT ![i] = 0]
    /\ req' = [r \in Reqs |-> IF req[r].inst = i THEN Idle ELSE req[r]]
    /\ tainted' = tainted \cup
         {id \in IDs : \E r \in About(id) : req[r].inst = i /\ req[r].op \in Mutations}
    /\ UNCHANGED <<db, commits, acked>>

Next ==
    \/ \E r \in Reqs, i \in Instances :
         \/ \E id \in IDs :
              \/ BeginCreate(r, i, id)
              \/ \E op \in {"update", "delete"} : BeginChange(r, i, op, id)
              \/ BeginGet(r, i, id)
         \/ \E page \in Pages : BeginList(r, i, page)
    \/ \E r \in Reqs : RequestStep(r)
    \/ CacheStep
    \/ \E i \in Instances : Restart(i)

Spec == Init /\ [][Next]_vars

\* Requests run on goroutines of their own, and ristretto's goroutine works
\* through its queue for as long as its process lives.  A goroutine that waits
\* for room in a Go channel is served in turn: the receiver hands it the place
\* it frees, so others cannot take the place forever (strong fairness).
Fairness ==
    /\ \A r \in Reqs : WF_vars(RequestStep(r)) /\ SF_vars(QueueDel(r))
    /\ \A i \in Instances :
         WF_vars(ApplySetBuf(i) /\ UNCHANGED <<db, commits, listVer, req, restarts,
                                               acked, tainted>>)

FairSpec == Spec /\ Fairness
-----------------------------------------------------------------------------
(* Properties *)

\* A list request has its answer in hand.
HasList(r) ==
    req[r].op = "list" /\ req[r].pc \in {"warm", "local_set", "redis_set", "return"}

\* A list shows every mutation that its process had reported before the list
\* began, whatever is cached and however requests, evictions and faults
\* interleave.  (It holds while no other process writes the same keys.)
ListFresh == \A r \in Reqs : HasList(r) => req[r].val >= req[r].floor

\* Nothing is under way for the user id: no request, no queued item.
Settled(id) ==
    /\ About(id) = {}
    /\ \A i \in Instances : \A n \in DOMAIN setBuf[i] : setBuf[i][n].key.obj # id

\* What the caches hold of a user is the live row.
Current(id) ==
    \A e \in redis \cup UNION {local[i] : i \in Instances} :
        e.key = cacheKeyUser(id) => db[id] = [ver |-> e.val, live |-> TRUE]

\* In one process, a settled user is cached as it is stored, unless one of
\* these happened to it: a mutation overlapped another request, was committed
\* but failed, was cut short by a restart, or failed to delete from Redis.
UserCurrentUnlessTainted == \A id \in IDs \ tainted : Settled(id) => Current(id)

\* What "layered cache and invalidation" says of users: once nothing is under
\* way for it, a user is cached as it is stored.
UserCurrent == \A id \in IDs : Settled(id) => Current(id)

\* Every request gets its answer, also when the set buffer is full and the
\* delete of a user has to wait for room.
RequestsComplete == \A r \in Reqs : req[r].pc # "idle" ~> req[r].pc = "idle"
=============================================================================
