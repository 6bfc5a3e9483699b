------------------------- MODULE CachedUsersProofs -------------------------
(***************************************************************************)
(* Theorem about the users that CachedUserService caches: in one process,  *)
(* for any requests, queue size, faults and restarts, what is cached of a  *)
(* settled user is the stored row, unless the user is tainted.             *)
(***************************************************************************)
EXTENDS CachedUserServiceProofs

\* The delete of a user empties its own process only, which is why one process
\* is all there may be.
OneProcess == \A i, j \in Instances : i = j

\* The request is about a user, and its key says nothing else.
KeysPlain ==
    \A r \in Reqs : req[r].pc # "idle" /\ req[r].op # "list" =>
        req[r].key = cacheKeyUser(req[r].key.obj)

\* An id that has never been written has no row.
Unborn == \A id \in IDs : db[id].live => db[id].ver > 0

IsRow(id, v) == db[id] = [ver |-> v, live |-> TRUE]

\* A mutation runs with no other request about its user.
Alone(id) ==
    \A r \in About(id) : req[r].op \in Mutations => About(id) = {r}

\* A mutation of the user has been committed and is at one of these steps.
Stale(id, steps) ==
    \E r \in About(id) : req[r].op \in Mutations /\ req[r].pc \in steps

\* The delete of the user is queued behind place n.
DelBehind(i, id, n) ==
    \E m \in DOMAIN setBuf[i] :
        m > n /\ setBuf[i][m].op = "del" /\ setBuf[i][m].key = cacheKeyUser(id)

\* From the moment delUser has been at Redis, Redis has the row or nothing.
RedisRight(id) ==
    ~Stale(id, {"local_del", "queue_del", "redis_del"}) =>
        \A e \in redis : e.key = cacheKeyUser(id) => IsRow(id, e.val)

\* From the moment the delete is queued, ristretto has the row, or nothing, or
\* what the queued delete will remove.
LocalRight(id) ==
    ~Stale(id, {"local_del", "queue_del"}) =>
        \A i \in Instances :
            /\ \A e \in local[i] : e.key = cacheKeyUser(id) =>
                  IsRow(id, e.val) \/ DelBehind(i, id, 0)
            /\ \A n \in DOMAIN setBuf[i] :
                  setBuf[i][n].op = "new" /\ setBuf[i][n].key = cacheKeyUser(id) =>
                     IsRow(id, setBuf[i][n].val) \/ DelBehind(i, id, n)

\* A request on its way to a Set carries the row.
CarriesRow(r, id) ==
    /\ req[r].pc \in {"warm", "local_set", "redis_set"} => IsRow(id, req[r].val)
    /\ req[r].op \in {"create", "update"}
       /\ req[r].pc \in {"local_del", "queue_del", "redis_del", "bump"} =>
          IsRow(id, req[r].val)
    /\ req[r].op = "create" => req[r].pc \notin {"local_del", "queue_del", "redis_del"}
    /\ req[r].op = "create" /\ req[r].pc = "base" => ~db[id].live

Carried(id) == \A r \in About(id) : CarriesRow(r, id)

UserRight(id) == Alone(id) /\ RedisRight(id) /\ LocalRight(id) /\ Carried(id)

UserInv ==
    /\ TypeOK /\ PcOK /\ RedisOff /\ KeysPlain /\ Unborn
    /\ \A id \in IDs \ tainted : UserRight(id)

\* What a step may do to ristretto and its queue without harm to the user id.
LocalKept(id) ==
    \A i \in Instances :
        /\ \A e \in local'[i] : e.key = cacheKeyUser(id) =>
              e \in local[i] \/ IsRow(id, e.val)
        /\ \A n \in DOMAIN setBuf'[i] :
              setBuf'[i][n].op = "new" /\ setBuf'[i][n].key = cacheKeyUser(id) =>
                 \/ n \in DOMAIN setBuf[i] /\ setBuf'[i][n] = setBuf[i][n]
                 \/ IsRow(id, setBuf'[i][n].val)
        /\ \A n \in Nat : DelBehind(i, id, n) => DelBehind(i, id, n)'

RedisKept(id) ==
    \A e \in redis' : e.key = cacheKeyUser(id) => e \in redis \/ IsRow(id, e.val)
-----------------------------------------------------------------------------
(* The caches *)

LEMMA LocalStaysRight ==
    ASSUME NEW id \in IDs, CacheTypeOK, LocalRight(id), LocalKept(id), db'[id] = db[id],
           Stale(id, {"local_del", "queue_del"}) => Stale(id, {"local_del", "queue_del"})'
    PROVE  LocalRight(id)'
  <1>1. SUFFICES ASSUME ~Stale(id, {"local_del", "queue_del"})'
                 PROVE  \A i \in Instances :
                           /\ \A e \in local'[i] : e.key = cacheKeyUser(id) =>
                                 IsRow(id, e.val) \/ DelBehind(i, id, 0)'
                           /\ \A n \in DOMAIN setBuf'[i] :
                                 /\ setBuf'[i][n].op = "new"
                                 /\ setBuf'[i][n].key = cacheKeyUser(id)
                                 => IsRow(id, setBuf'[i][n].val) \/ DelBehind(i, id, n)'
    BY DEF LocalRight, cacheKeyUser, IsRow
  <1> SUFFICES ASSUME NEW i \in Instances
               PROVE  /\ \A e \in local'[i] : e.key = cacheKeyUser(id) =>
                            IsRow(id, e.val) \/ DelBehind(i, id, 0)'
                      /\ \A n \in DOMAIN setBuf'[i] :
                            /\ setBuf'[i][n].op = "new"
                            /\ setBuf'[i][n].key = cacheKeyUser(id)
                            => IsRow(id, setBuf'[i][n].val) \/ DelBehind(i, id, n)'
    OBVIOUS
  <1>2. DOMAIN setBuf[i] \subseteq Nat /\ 0 \in Nat
    BY DEF CacheTypeOK
  <1>3. \A e \in local[i] : e.key = cacheKeyUser(id) => IsRow(id, e.val) \/ DelBehind(i, id, 0)
    BY <1>1 DEF LocalRight
  <1>4. \A n \in DOMAIN setBuf[i] :
          setBuf[i][n].op = "new" /\ setBuf[i][n].key = cacheKeyUser(id) =>
             IsRow(id, setBuf[i][n].val) \/ DelBehind(i, id, n)
    BY <1>1 DEF LocalRight
  <1> QED
    BY <1>2, <1>3, <1>4 DEF LocalKept

LEMMA RedisStaysRight ==
    ASSUME NEW id \in IDs, RedisRight(id), RedisKept(id), db'[id] = db[id],
           Stale(id, {"local_del", "queue_del", "redis_del"})
           => Stale(id, {"local_del", "queue_del", "redis_del"})'
    PROVE  RedisRight(id)'
  BY DEF RedisRight, RedisKept, cacheKeyUser, IsRow

\* What is at the end of a queue is new, the rest is where it was.
LEMMA AppendKept ==
    ASSUME CacheTypeOK, NEW i0 \in Instances, NEW it \in Item,
           setBuf' = [setBuf EXCEPT ![i0] = Append(@, it)]
    PROVE  /\ \A i \in Instances : i # i0 => setBuf'[i] = setBuf[i]
           /\ setBuf'[i0] = Append(setBuf[i0], it)
           /\ Len(setBuf'[i0]) = Len(setBuf[i0]) + 1
           /\ \A n \in DOMAIN setBuf'[i0] :
                \/ n \in DOMAIN setBuf[i0] /\ setBuf'[i0][n] = setBuf[i0][n]
                \/ n = Len(setBuf'[i0]) /\ setBuf'[i0][n] = it
           /\ \A n \in DOMAIN setBuf[i0] :
                n \in DOMAIN setBuf'[i0] /\ setBuf'[i0][n] = setBuf[i0][n]
           /\ \A id : \A i \in Instances, n \in Nat :
                DelBehind(i, id, n) => DelBehind(i, id, n)'
  <1>1. setBuf[i0] \in Seq(Item) /\ setBuf'[i0] = Append(setBuf[i0], it)
    BY DEF CacheTypeOK
  <1>2. /\ Len(setBuf'[i0]) = Len(setBuf[i0]) + 1
        /\ \A n \in DOMAIN setBuf'[i0] :
             \/ n \in DOMAIN setBuf[i0] /\ setBuf'[i0][n] = setBuf[i0][n]
             \/ n = Len(setBuf'[i0]) /\ setBuf'[i0][n] = it
        /\ \A n \in DOMAIN setBuf[i0] :
             n \in DOMAIN setBuf'[i0] /\ setBuf'[i0][n] = setBuf[i0][n]
    BY <1>1
  <1>3. \A i \in Instances : i # i0 => setBuf'[i] = setBuf[i]
    BY DEF CacheTypeOK
  <1>4. \A id : \A i \in Instances, n \in Nat :
          DelBehind(i, id, n) => DelBehind(i, id, n)'
    BY <1>2, <1>3 DEF DelBehind, cacheKeyUser
  <1> QED
    BY <1>1, <1>2, <1>3, <1>4

\* local.Set of the row of the user, or of anything else, does no harm.
LEMMA PutKeeps ==
    ASSUME CacheTypeOK, NEW id \in IDs, NEW i0 \in Instances, NEW k \in Key, NEW v \in Nat,
           LocalPut(i0, k, v), k = cacheKeyUser(id) => IsRow(id, v)
    PROVE  LocalKept(id)
  <1> DEFINE e0 == [key |-> k, val |-> v]
             it == [op |-> "new", key |-> k, val |-> v]
  <1>1. CASE local' = [local EXCEPT ![i0] = With(local[i0], k, v)] /\ UNCHANGED setBuf
    <2>1. \A i \in Instances : local'[i] \subseteq local[i] \cup {e0}
      BY <1>1 DEF With, Without, CacheTypeOK
    <2>2. \A i \in Instances : \A e \in local'[i] : e.key = cacheKeyUser(id) =>
            e \in local[i] \/ IsRow(id, e.val)
      BY <2>1
    <2> QED
      BY <1>1, <2>2 DEF LocalKept, DelBehind, cacheKeyUser
  <1>2. CASE setBuf' = [setBuf EXCEPT ![i0] = Append(@, it)] /\ UNCHANGED local
    <2>1. it \in Item /\ it.key = k /\ it.val = v
      BY DEF Item
    <2> HIDE DEF it
    <2>2. /\ \A i \in Instances : i # i0 => setBuf'[i] = setBuf[i]
          /\ \A n \in DOMAIN setBuf'[i0] :
               \/ n \in DOMAIN setBuf[i0] /\ setBuf'[i0][n] = setBuf[i0][n]
               \/ setBuf'[i0][n] = it
      BY <1>2, <2>1, AppendKept
    <2>3. \A i \in Instances, n \in Nat : DelBehind(i, id, n) => DelBehind(i, id, n)'
      BY <1>2, <2>1, AppendKept
    <2> QED
      BY <1>2, <2>1, <2>2, <2>3 DEF LocalKept
  <1>3. CASE UNCHANGED <<local, setBuf>>
    BY <1>3 DEF LocalKept, DelBehind, cacheKeyUser
  <1> QED
    BY <1>1, <1>2, <1>3 DEF LocalPut

\* Neither half of local.Del does harm to any user.
LEMMA DelKeeps ==
    ASSUME CacheTypeOK, NEW id \in IDs, NEW i0 \in Instances, NEW k \in Key,
           LocalRemove(i0, k) \/ QueueDelete(i0, k)
    PROVE  LocalKept(id)
  <1>1. CASE LocalRemove(i0, k)
    <2>1. \A i \in Instances : local'[i] \subseteq local[i]
      BY <1>1 DEF LocalRemove, Without, CacheTypeOK
    <2> QED
      BY <1>1, <2>1 DEF LocalKept, LocalRemove, DelBehind, cacheKeyUser
  <1>2. CASE QueueDelete(i0, k)
    <2> DEFINE it == [op |-> "del", key |-> k, val |-> 0]
    <2>1. it \in Item /\ it.op # "new"
      BY DEF Item
    <2>2. setBuf' = [setBuf EXCEPT ![i0] = Append(@, it)] /\ UNCHANGED local
      BY <1>2 DEF QueueDelete
    <2> HIDE DEF it
    <2>3. /\ \A i \in Instances : i # i0 => setBuf'[i] = setBuf[i]
          /\ \A n \in DOMAIN setBuf'[i0] :
               \/ n \in DOMAIN setBuf[i0] /\ setBuf'[i0][n] = setBuf[i0][n]
               \/ setBuf'[i0][n] = it
      BY <2>1, <2>2, AppendKept
    <2>4. \A i \in Instances, n \in Nat : DelBehind(i, id, n) => DelBehind(i, id, n)'
      BY <2>1, <2>2, AppendKept
    <2> QED
      BY <2>1, <2>2, <2>3, <2>4 DEF LocalKept
  <1> QED
    BY <1>1, <1>2

\* Once its delete is queued, nothing else about the user matters.
LEMMA DelQueued ==
    ASSUME CacheTypeOK, OneProcess, NEW id \in IDs, NEW i0 \in Instances,
           QueueDelete(i0, cacheKeyUser(id))
    PROVE  LocalRight(id)'
  <1> DEFINE k == cacheKeyUser(id)
             it == [op |-> "del", key |-> k, val |-> 0]
  <1>1. k \in Key
    BY CachedUserServiceAssumption DEF Key, cacheKeyUser
  <1>2. it \in Item /\ it.op = "del" /\ it.key = k
    BY <1>1 DEF Item
  <1>3. setBuf' = [setBuf EXCEPT ![i0] = Append(@, it)]
    BY DEF QueueDelete
  <1>4. k' = k
    BY DEF cacheKeyUser
  <1> HIDE DEF it, k
  <1>5. /\ setBuf[i0] \in Seq(Item) /\ Len(setBuf'[i0]) = Len(setBuf[i0]) + 1
        /\ setBuf'[i0] = Append(setBuf[i0], it)
        /\ \A n \in DOMAIN setBuf'[i0] :
             \/ n \in DOMAIN setBuf[i0] /\ setBuf'[i0][n] = setBuf[i0][n]
             \/ n = Len(setBuf'[i0]) /\ setBuf'[i0][n] = it
    BY <1>2, <1>3, AppendKept DEF CacheTypeOK
  <1> DEFINE m == Len(setBuf'[i0])
  <1>6. m \in DOMAIN setBuf'[i0] /\ setBuf'[i0][m] = it /\ m \in Nat /\ m > 0
    BY <1>2, <1>5
  <1>7. \A n \in DOMAIN setBuf'[i0] : n <= m /\ n \in Nat
    BY <1>2, <1>5
  <1> HIDE DEF m
  <1>8. DelBehind(i0, id, 0)'
    BY <1>2, <1>4, <1>6 DEF DelBehind, k
  <1>9. \A n \in DOMAIN setBuf'[i0] : setBuf'[i0][n].op = "new" => DelBehind(i0, id, n)'
    <2> SUFFICES ASSUME NEW n \in DOMAIN setBuf'[i0], setBuf'[i0][n].op = "new"
                 PROVE  DelBehind(i0, id, n)'
      OBVIOUS
    <2>1. n # m
      BY <1>2, <1>6
    <2>2. m > n
      BY <1>6, <1>7, <2>1
    <2> QED
      BY <1>2, <1>4, <1>6, <2>2 DEF DelBehind, k
  <1>10. \A i \in Instances : i = i0
    BY DEF OneProcess
  <1> QED
    BY <1>8, <1>9, <1>10 DEF LocalRight

\* Ristretto's goroutine adds nothing of the user that a queued delete does
\* not remove, or that is not the row.
LEMMA ApplyRight ==
    ASSUME CacheTypeOK, NEW id \in IDs, NEW i0 \in Instances, ApplySetBuf(i0),
           LocalRight(id), UNCHANGED <<db, req>>
    PROVE  LocalRight(id)'
  <1> DEFINE s == setBuf[i0]
             item == Head(s)
             k == cacheKeyUser(id)
  <1>1. s \in Seq(Item) /\ s # <<>> /\ setBuf' = [setBuf EXCEPT ![i0] = Tail(s)]
    BY DEF ApplySetBuf, CacheTypeOK
  <1>2. item \in Item /\ item = s[1] /\ 1 \in DOMAIN s
    BY <1>1
  <1>3. /\ setBuf'[i0] = Tail(s)
        /\ \A n \in DOMAIN setBuf'[i0] :
             n \in Nat /\ n + 1 \in DOMAIN s /\ setBuf'[i0][n] = s[n + 1]
        /\ \A m \in DOMAIN s : m > 1 =>
             m - 1 \in DOMAIN setBuf'[i0] /\ setBuf'[i0][m - 1] = s[m]
        /\ \A m \in DOMAIN s : m \in Nat /\ m >= 1
    BY <1>1 DEF CacheTypeOK
  <1>4. \/ item.op = "del" /\ local' = [local EXCEPT ![i0] = Without(@, item.key)]
        \/ item.op = "new" /\ local' = [local EXCEPT ![i0] = With(@, item.key, item.val)]
        \/ item.op = "new" /\ local' = local
    BY DEF ApplySetBuf
  <1>5. k' = k
    BY DEF cacheKeyUser
  <1> HIDE DEF s, item, k
  <1>6. \A n \in Nat : DelBehind(i0, id, n + 1) => DelBehind(i0, id, n)'
    <2> SUFFICES ASSUME NEW n \in Nat, DelBehind(i0, id, n + 1) PROVE DelBehind(i0, id, n)'
      OBVIOUS
    <2>1. PICK m \in DOMAIN s : m > n + 1 /\ s[m].op = "del" /\ s[m].key = k
      BY DEF DelBehind, s, k
    <2>2. m - 1 > n /\ m > 1
      BY <1>3, <2>1
    <2>3. m - 1 \in DOMAIN setBuf'[i0] /\ setBuf'[i0][m - 1].op = "del"
          /\ setBuf'[i0][m - 1].key = k
      BY <1>3, <2>1, <2>2
    <2> QED
      BY <1>5, <2>2, <2>3 DEF DelBehind, k
  <1>7. DelBehind(i0, id, 0) => DelBehind(i0, id, 0)' \/ (item.op = "del" /\ item.key = k)
    <2> SUFFICES ASSUME DelBehind(i0, id, 0), ~(item.op = "del" /\ item.key = k)
                 PROVE  DelBehind(i0, id, 0)'
      OBVIOUS
    <2>1. PICK m \in DOMAIN s : m > 0 /\ s[m].op = "del" /\ s[m].key = k
      BY DEF DelBehind, s, k
    <2>2. m # 1 /\ m > 1
      BY <1>2, <1>3, <2>1
    <2>3. DelBehind(i0, id, 0 + 1)
      BY <2>1, <2>2 DEF DelBehind, s, k
    <2> QED
      BY <1>6, <2>3
  <1>8. SUFFICES ASSUME ~Stale(id, {"local_del", "queue_del"})
                 PROVE  \A i \in Instances :
                           /\ \A e \in local'[i] : e.key = k =>
                                 IsRow(id, e.val) \/ DelBehind(i, id, 0)'
                           /\ \A n \in DOMAIN setBuf'[i] :
                                 setBuf'[i][n].op = "new" /\ setBuf'[i][n].key = k
                                 => IsRow(id, setBuf'[i][n].val) \/ DelBehind(i, id, n)'
    BY DEF LocalRight, cacheKeyUser, IsRow, Stale, About, k
  <1>9. \A i \in Instances :
          /\ \A e \in local[i] : e.key = k => IsRow(id, e.val) \/ DelBehind(i, id, 0)
          /\ \A n \in DOMAIN setBuf[i] :
               setBuf[i][n].op = "new" /\ setBuf[i][n].key = k =>
                  IsRow(id, setBuf[i][n].val) \/ DelBehind(i, id, n)
    BY <1>8 DEF LocalRight, k
  <1>10. ASSUME NEW i \in Instances, i # i0
         PROVE  /\ local'[i] = local[i] /\ setBuf'[i] = setBuf[i]
                /\ \A n \in Nat : DelBehind(i, id, n) => DelBehind(i, id, n)'
    <2>1. local'[i] = local[i] /\ setBuf'[i] = setBuf[i]
      BY <1>1, <1>4, <1>10 DEF CacheTypeOK
    <2> QED
      BY <1>5, <2>1 DEF DelBehind, k
  <1>11. ASSUME NEW i \in Instances, i # i0
         PROVE  /\ \A e \in local'[i] : e.key = k => IsRow(id, e.val) \/ DelBehind(i, id, 0)'
                /\ \A n \in DOMAIN setBuf'[i] :
                     setBuf'[i][n].op = "new" /\ setBuf'[i][n].key = k =>
                        IsRow(id, setBuf'[i][n].val) \/ DelBehind(i, id, n)'
    <2>1. DOMAIN setBuf[i] \subseteq Nat
      BY DEF CacheTypeOK
    <2> QED
      BY <1>9, <1>10, <1>11, <2>1
  <1>12. ASSUME NEW e \in local'[i0], e.key = k PROVE IsRow(id, e.val) \/ DelBehind(i0, id, 0)'
    <2>1. CASE e \in local[i0]
      <3>1. ~(item.op = "del" /\ item.key = k)
        <4> SUFFICES ASSUME item.op = "del", item.key = k PROVE FALSE
          OBVIOUS
        <4>1. local'[i0] = Without(local[i0], k)
          BY <1>4 DEF CacheTypeOK
        <4> QED
          BY <1>12, <4>1 DEF Without
      <3> QED
        BY <1>7, <1>9, <1>12, <2>1, <3>1
    <2>2. CASE e \notin local[i0]
      <3>1. item.op = "new" /\ local'[i0] = With(local[i0], item.key, item.val)
        BY <1>4, <2>2 DEF CacheTypeOK, Without
      <3>2. e = [key |-> item.key, val |-> item.val]
        BY <2>2, <3>1 DEF With, Without
      <3>3. item.key = k /\ e.val = item.val
        BY <1>12, <3>2
      <3>4. IsRow(id, item.val) \/ DelBehind(i0, id, 1)
        BY <1>2, <1>9, <3>1, <3>3 DEF s
      <3>5. DelBehind(i0, id, 0 + 1) => DelBehind(i0, id, 0)'
        BY <1>6
      <3> QED
        BY <3>3, <3>4, <3>5
    <2> QED
      BY <2>1, <2>2
  <1>13. ASSUME NEW n \in DOMAIN setBuf'[i0], setBuf'[i0][n].op = "new", setBuf'[i0][n].key = k
         PROVE  IsRow(id, setBuf'[i0][n].val) \/ DelBehind(i0, id, n)'
    <2>1. n \in Nat /\ n + 1 \in DOMAIN s /\ setBuf'[i0][n] = s[n + 1]
      BY <1>3
    <2>2. IsRow(id, s[n + 1].val) \/ DelBehind(i0, id, n + 1)
      BY <1>9, <1>13, <2>1 DEF s
    <2> QED
      BY <1>6, <2>1, <2>2
  <1> QED
    BY <1>11, <1>12, <1>13

LEMMA EvictKeeps ==
    ASSUME CacheTypeOK, NEW id \in IDs, NEW i0 \in Instances, Evict(i0)
    PROVE  LocalKept(id)
  <1>1. \A i \in Instances : local'[i] \subseteq local[i]
    BY DEF Evict, CacheTypeOK
  <1> QED
    BY <1>1 DEF Evict, LocalKept, DelBehind, cacheKeyUser

\* No step of a request harms a user, if what the request carries is the row.
LEMMA CachesKept ==
    ASSUME TypeOK, NEW id \in IDs, Carried(id), NEW r \in Reqs, RequestStep(r)
    PROVE  LocalKept(id) /\ RedisKept(id)
  <1> DEFINE i0 == req[r].inst
             k == req[r].key
             v == req[r].val
  <1>1. req[r].pc # "idle"
    BY DEF RequestStep, LocalGet, RedisGet, Warm, BaseWrite, BaseRead, LocalDel, QueueDel,
           RedisDel, Bump, LocalSet, RedisSet, Return, At
  <1>2. i0 \in Instances /\ k \in Key /\ v \in Nat /\ CacheTypeOK
    BY <1>1, InFlightTyped DEF TypeOK
  <1>3. k = cacheKeyUser(id) /\ req[r].pc \in {"warm", "local_set", "redis_set"} => IsRow(id, v)
    BY <1>1 DEF Carried, CarriesRow, About, cacheKeyUser
  <1> HIDE DEF i0, k, v
  <1>4. UNCHANGED <<local, setBuf>> => LocalKept(id)
    BY DEF LocalKept, DelBehind, cacheKeyUser
  <1>5. redis' \subseteq redis => RedisKept(id)
    BY DEF RedisKept
  <1>6. CASE Warm(r) \/ LocalSet(r)
    <2>1. LocalPut(i0, k, v) /\ redis' = redis /\ req[r].pc \in {"warm", "local_set"}
      BY <1>6 DEF Warm, LocalSet, At, i0, k, v
    <2> QED
      BY <1>2, <1>3, <1>5, <2>1, PutKeeps
  <1>7. CASE LocalDel(r) \/ QueueDel(r)
    <2>1. (LocalRemove(i0, k) \/ QueueDelete(i0, k)) /\ redis' = redis
      BY <1>7 DEF LocalDel, QueueDel, i0, k
    <2> QED
      BY <1>2, <1>5, <2>1, DelKeeps
  <1>8. CASE RedisSet(r)
    <2>1. /\ RedisPut(k, v) /\ UNCHANGED <<local, setBuf>> /\ req[r].pc = "redis_set"
      BY <1>8 DEF RedisSet, At, k, v
    <2>2. redis' \subseteq redis \cup {[key |-> k, val |-> v]}
      BY <2>1 DEF RedisPut, With, Without
    <2> QED
      BY <1>3, <1>4, <2>1, <2>2 DEF RedisKept
  <1>9. CASE RedisDel(r)
    <2>1. redis' \subseteq redis /\ UNCHANGED <<local, setBuf>>
      BY <1>9 DEF RedisDel, RedisRemove, RedisRemoveSkipped, Without
    <2> QED
      BY <1>4, <1>5, <2>1
  <1>10. CASE LocalGet(r) \/ RedisGet(r) \/ BaseWrite(r) \/ BaseRead(r) \/ Bump(r) \/ Return(r)
    <2>1. UNCHANGED <<local, setBuf, redis>>
      BY <1>10 DEF LocalGet, RedisGet, BaseWrite, BaseRead, Bump, Return, cacheVars
    <2> QED
      BY <1>4, <1>5, <2>1
  <1> QED
    BY <1>6, <1>7, <1>8, <1>9, <1>10 DEF RequestStep
-----------------------------------------------------------------------------
(* The steps of a request *)

\* A step moves its request along, or ends it, and touches no other.
LEMMA StepMoves ==
    ASSUME TypeOK, PcOK, NEW r \in Reqs, RequestStep(r)
    PROVE  /\ req[r].pc # "idle"
           /\ \A s \in Reqs : s # r => req'[s] = req[s]
           /\ \/ req'[r] = Idle
              \/ /\ req'[r].pc # "idle" /\ req'[r].op = req[r].op
                 /\ req'[r].key = req[r].key
  <1>1. req[r].pc # "idle"
    BY DEF RequestStep, LocalGet, RedisGet, Warm, BaseWrite, BaseRead, LocalDel, QueueDel,
           RedisDel, Bump, LocalSet, RedisSet, Return, At
  <1>2. "idle" \notin Steps
    BY DEF Steps
  <1>3. SUFFICES Fail(r) \/ \E pc \in Steps, v \in Nat : Goto(r, pc, v)
    BY <1>1, <1>2, FailTyped, GotoFacts
  <1>4. commits \in Nat /\ commits + 1 \in Nat /\ req[r].val \in Nat
        /\ (req[r].op \in Mutations \cup {"get"} => db[req[r].key.obj].ver \in Nat)
    BY <1>1, InFlightTyped DEF TypeOK, Mutations
  <1>5. CASE LocalGet(r) \/ RedisGet(r)
    <2>1. \A e \in redis \cup UNION {local[i] : i \in Instances} : e.val \in Nat
      BY DEF TypeOK, CacheTypeOK, Entry
    <2>2. req[r].inst \in Instances
      BY <1>1, InFlightTyped
    <2> QED
      BY <1>5, <2>1, <2>2 DEF LocalGet, RedisGet, Steps
  <1>6. CASE BaseWrite(r) \/ BaseRead(r) \/ Return(r)
    <2>1. AfterWrite(req[r].op) \in Steps
      BY DEF AfterWrite, Steps
    <2>2. "local_set" \in Steps
      BY DEF Steps
    <2> QED
      BY <1>4, <1>6, <2>1, <2>2 DEF BaseWrite, BaseRead, Return, Fail
  <1>7. CASE Warm(r) \/ LocalDel(r) \/ QueueDel(r) \/ RedisDel(r) \/ Bump(r)
             \/ LocalSet(r) \/ RedisSet(r)
    BY <1>4, <1>7 DEF Warm, LocalDel, QueueDel, RedisDel, Bump, AfterBump, LocalSet,
                      RedisSet, Steps
  <1> QED
    BY <1>5, <1>6, <1>7 DEF RequestStep

\* A mutation that has been committed stays at the steps it does not leave.
LEMMA StaleKept ==
    ASSUME NEW id \in IDs, NEW steps, NEW r \in Reqs,
           \A s \in Reqs : s # r => req'[s] = req[s],
           r \in About(id) /\ req[r].op \in Mutations /\ req[r].pc \in steps =>
             /\ r \in About(id)' /\ req'[r].op \in Mutations /\ req'[r].pc \in steps
    PROVE  Stale(id, steps) => Stale(id, steps)'
  BY DEF Stale, About

\* Alone stays so while requests only move on and end.
LEMMA AloneKept ==
    ASSUME NEW id \in IDs, Alone(id),
           \A s \in About(id)' : s \in About(id) /\ req'[s].op = req[s].op
    PROVE  Alone(id)'
  BY DEF Alone

\* The users whose requests a step can end up with are those it began with.
LEMMA AboutKept ==
    ASSUME TypeOK, PcOK, NEW r \in Reqs, RequestStep(r), NEW id \in IDs
    PROVE  \A s \in About(id)' : s \in About(id) /\ req'[s].op = req[s].op
  <1>1. Idle.pc = "idle"
    BY DEF Idle
  <1> QED
    BY <1>1, StepMoves DEF About

\* A step about another user, or a page, is none of the user's business.
LEMMA OtherStep ==
    ASSUME TypeOK, PcOK, NEW r \in Reqs, RequestStep(r),
           NEW id \in IDs, UserRight(id), req[r].key.obj # id
    PROVE  UserRight(id)'
  <1>1. /\ req[r].pc # "idle"
        /\ \A s \in Reqs : s # r => req'[s] = req[s]
        /\ \/ req'[r].pc = "idle"
           \/ req'[r].key = req[r].key
    BY StepMoves DEF Idle
  <1>2. db'[id] = db[id]
    <2>1. Commit(r) => db'[id] = db[id]
      BY DEF Commit, TypeOK
    <2> QED
      BY <2>1 DEF RequestStep, LocalGet, RedisGet, Warm, BaseWrite, BaseRead, LocalDel,
                  QueueDel, RedisDel, Bump, LocalSet, RedisSet, Return
  <1>3. About(id)' = About(id) /\ \A s \in About(id) : s # r /\ req'[s] = req[s]
    BY <1>1 DEF About
  <1>4. \A steps : Stale(id, steps) => Stale(id, steps)'
    BY <1>3 DEF Stale
  <1>5. LocalKept(id) /\ RedisKept(id)
    BY CachesKept DEF UserRight
  <1>6. LocalRight(id)' /\ RedisRight(id)'
    BY <1>2, <1>4, <1>5, LocalStaysRight, RedisStaysRight DEF UserRight, TypeOK
  <1>7. Alone(id)' /\ Carried(id)'
    BY <1>2, <1>3 DEF UserRight, Alone, Carried, CarriesRow, IsRow
  <1> QED
    BY <1>6, <1>7 DEF UserRight

\* A request about the user, other than a write to the database, carries the
\* row on, or carries nothing.
LEMMA CarriesOn ==
    ASSUME UserInv, NEW id \in IDs, UserRight(id), NEW r \in Reqs, RequestStep(r),
           req[r].key.obj = id, ~BaseWrite(r), req'[r].pc # "idle"
    PROVE  CarriesRow(r, id)'
  <1> USE DEF UserInv
  <1>1. /\ req[r].pc # "idle" /\ r \in About(id) /\ CarriesRow(r, id)
        /\ req'[r].op = req[r].op
        /\ req[r].inst \in Instances /\ req[r].val \in Nat
    BY StepMoves, InFlightTyped DEF UserRight, Carried, About, Idle
  <1>2. db'[id] = db[id]
    BY DEF RequestStep, LocalGet, RedisGet, Warm, BaseRead, LocalDel,
           QueueDel, RedisDel, Bump, LocalSet, RedisSet, Return
  <1>3. ASSUME NEW pc \in Steps, NEW v \in Nat, Goto(r, pc, v)
        PROVE  req'[r].pc = pc /\ req'[r].val = v
    BY <1>1, <1>3, GotoFacts
  <1>4. CASE LocalGet(r)
    <2>1. \A e \in local[req[r].inst] : e.val \in Nat
      BY <1>1 DEF TypeOK, CacheTypeOK, Entry
    <2>2. req'[r].pc \in {"return", "redis_get"} /\ req[r].op \notin Mutations
      BY <1>3, <1>4, <2>1 DEF LocalGet, Steps, At, PcOK
    <2> QED
      BY <1>1, <2>2 DEF CarriesRow, Mutations
  <1>5. CASE RedisGet(r)
    <2>1. \A e \in redis : e.val \in Nat
      BY DEF TypeOK, CacheTypeOK, Entry
    <2>2. req[r].pc = "redis_get" /\ req[r].op \notin Mutations
      BY <1>5 DEF RedisGet, At, PcOK
    <2>3. CASE \E e \in redis : e.key = req[r].key /\ Goto(r, "warm", e.val)
      <3>1. PICK e \in redis : e.key = req[r].key /\ Goto(r, "warm", e.val)
        BY <2>3
      <3>2. req'[r].pc = "warm" /\ req'[r].val = e.val
        BY <1>3, <2>1, <3>1 DEF Steps
      <3>3. e.key = cacheKeyUser(id)
        <4>1. req[r].op # "list"
          BY <1>1, InFlightTyped, CachedUserServiceAssumption DEF TypeOK, Pages
        <4> QED
          BY <1>1, <3>1, <4>1 DEF KeysPlain
      <3>4. ~Stale(id, {"local_del", "queue_del", "redis_del"})
        <4> SUFFICES ASSUME NEW s \in About(id), req[s].op \in Mutations,
                            req[s].pc \in {"local_del", "queue_del", "redis_del"}
                     PROVE  FALSE
          BY DEF Stale
        <4> QED
          BY <1>1, <2>2 DEF UserRight, Alone
      <3>5. IsRow(id, e.val)
        BY <3>1, <3>3, <3>4 DEF UserRight, RedisRight
      <3> QED
        BY <1>1, <1>2, <2>2, <3>2, <3>5 DEF CarriesRow, IsRow, Mutations
    <2>4. CASE Goto(r, "base", 0)
      <3>1. req'[r].pc = "base"
        BY <1>3, <2>4 DEF Steps
      <3> QED
        BY <1>1, <2>2, <3>1 DEF CarriesRow, Mutations
    <2> QED
      BY <1>5, <2>3, <2>4 DEF RedisGet
  <1>6. CASE BaseRead(r)
    <2>1. req[r].op \notin Mutations /\ ~Fail(r)
      <3>1. Fail(r) => req'[r].pc = "idle"
        BY FailTyped DEF Idle
      <3> QED
        BY <1>6, <3>1 DEF BaseRead, Mutations
    <2>2. req[r].op # "list"
      BY <1>1, CachedUserServiceAssumption DEF TypeOK, Pages
    <2>3. db[id].live /\ Goto(r, "local_set", db[id].ver)
      BY <1>6, <2>1, <2>2 DEF BaseRead
    <2>4. db[id] \in [ver : Nat, live : BOOLEAN]
      BY DEF TypeOK
    <2>5. req'[r].pc = "local_set" /\ req'[r].val = db[id].ver /\ IsRow(id, db[id].ver)
      BY <1>3, <2>3, <2>4 DEF Steps, IsRow
    <2> QED
      BY <1>1, <1>2, <2>1, <2>5 DEF CarriesRow, IsRow, Mutations
  <1>7. CASE Warm(r) \/ RedisSet(r) \/ LocalSet(r)
    <2>1. /\ req'[r].pc \in {"return", "redis_set"} /\ req'[r].val = req[r].val
          /\ req[r].pc \in {"warm", "local_set", "redis_set"}
      BY <1>1, <1>3, <1>7 DEF Warm, RedisSet, LocalSet, At, Steps
    <2> QED
      BY <1>1, <1>2, <2>1 DEF CarriesRow, IsRow
  <1>8. CASE LocalDel(r) \/ QueueDel(r) \/ RedisDel(r)
    <2>1. /\ req'[r].pc \in {"queue_del", "redis_del", "bump"} /\ req'[r].val = req[r].val
          /\ req[r].pc \in {"local_del", "queue_del", "redis_del"}
      BY <1>1, <1>3, <1>8 DEF LocalDel, QueueDel, RedisDel, At, Steps
    <2> QED
      BY <1>1, <1>2, <2>1 DEF CarriesRow, IsRow
  <1>9. CASE Bump(r)
    <2>1. /\ req'[r].pc = AfterBump(req[r].op) /\ req'[r].val = req[r].val
          /\ req[r].pc = "bump"
      BY <1>1, <1>3, <1>9 DEF Bump, At, Steps, AfterBump
    <2>2. req[r].op \in Mutations
      BY <2>1 DEF PcOK
    <2> QED
      BY <1>1, <1>2, <2>1, <2>2 DEF CarriesRow, IsRow, AfterBump, Mutations
  <1>10. CASE Return(r)
    <2>1. req'[r].pc = "idle"
      BY <1>10, FailTyped DEF Return, Fail, Idle
    <2> QED
      BY <1>1, <2>1
  <1> QED
    BY <1>4, <1>5, <1>6, <1>7, <1>8, <1>9, <1>10 DEF RequestStep

\* The commit of a mutation of the user: what is cached of it is on its way
\* out, or, when the user is new, was on its way out already.
LEMMA WriteRight ==
    ASSUME UserInv, NEW id \in IDs, UserRight(id), NEW r \in Reqs, BaseWrite(r),
           req[r].key.obj = id, id \notin tainted'
    PROVE  UserRight(id)'
  <1> USE DEF UserInv
  <1>1. /\ req[r].pc = "base" /\ req[r].op \in Mutations /\ RequestStep(r)
        /\ UNCHANGED <<local, setBuf, redis>>
    BY DEF BaseWrite, At, RequestStep, cacheVars
  <1>2. r \in About(id) /\ About(id) = {r}
    BY <1>1 DEF About, UserRight, Alone
  <1>3. /\ \A s \in About(id)' : s = r /\ req'[s].op = req[r].op
        /\ Alone(id)'
    BY <1>1, <1>2, AboutKept, AloneKept DEF UserRight
  <1>4. ~Stale(id, {"local_del", "queue_del"})
        /\ ~Stale(id, {"local_del", "queue_del", "redis_del"})
    BY <1>1, <1>2 DEF Stale
  <1>5. CASE Fail(r) /\ UNCHANGED <<db, commits, tainted>>
    <2>1. req'[r].pc = "idle"
      BY <1>5, FailTyped DEF Idle
    <2>2. Carried(id)'
      BY <1>3, <2>1 DEF Carried, About
    <2>3. LocalRight(id)' /\ RedisRight(id)'
      <3>1. LocalKept(id) /\ RedisKept(id) /\ db'[id] = db[id]
        BY <1>1, <1>5 DEF LocalKept, RedisKept, DelBehind, cacheKeyUser
      <3> QED
        BY <1>4, <3>1, LocalStaysRight, RedisStaysRight DEF UserRight, TypeOK
    <2> QED
      BY <1>3, <2>2, <2>3 DEF UserRight
  <1>6. CASE /\ Commit(r) /\ UNCHANGED tainted
             /\ Goto(r, AfterWrite(req[r].op), commits + 1)
    <2>1. AfterWrite(req[r].op) \in Steps /\ commits + 1 \in Nat
      BY DEF AfterWrite, Steps, TypeOK
    <2>2. /\ req'[r].pc = AfterWrite(req[r].op) /\ req'[r].val = commits + 1
          /\ req'[r].op = req[r].op /\ req'[r].key = req[r].key
      BY <1>1, <1>6, <2>1, GotoFacts
    <2>3. db'[id] = [ver |-> commits + 1, live |-> req[r].op # "delete"]
      BY <1>6 DEF Commit, TypeOK
    <2>4. r \in About(id)'
      BY <1>2, <2>1, <2>2 DEF About, Steps
    <2>5. Carried(id)'
      <3>1. CarriesRow(r, id)'
        BY <2>2, <2>3 DEF CarriesRow, IsRow, AfterWrite, Mutations
      <3> QED
        BY <1>3, <3>1 DEF Carried
    <2>6. CASE req[r].op = "create"
      <3>1. ~db[id].live
        BY <1>1, <1>2, <2>6 DEF UserRight, Carried, CarriesRow
      <3>2. \A v : ~IsRow(id, v)
        BY <3>1 DEF IsRow
      <3>3. RedisRight(id)'
        BY <1>1, <1>4, <3>2 DEF UserRight, RedisRight, cacheKeyUser
      <3>4. LocalRight(id)'
        BY <1>1, <1>4, <3>2 DEF UserRight, LocalRight, DelBehind, cacheKeyUser
      <3> QED
        BY <1>3, <2>5, <3>3, <3>4 DEF UserRight
    <2>7. CASE req[r].op # "create"
      <3>1. /\ Stale(id, {"local_del", "queue_del"})'
            /\ Stale(id, {"local_del", "queue_del", "redis_del"})'
        BY <1>1, <2>2, <2>4, <2>7 DEF Stale, AfterWrite
      <3> QED
        BY <1>3, <2>5, <3>1 DEF UserRight, LocalRight, RedisRight
    <2> QED
      BY <2>6, <2>7
  <1> QED
    BY <1>5, <1>6 DEF BaseWrite

LEMMA StepRight ==
    ASSUME UserInv, OneProcess, NEW r \in Reqs, RequestStep(r),
           NEW id \in IDs, UserRight(id), id \notin tainted'
    PROVE  UserRight(id)'
  <1> USE DEF UserInv
  <1>1. CASE req[r].key.obj # id
    BY <1>1, OtherStep
  <1>2. CASE BaseWrite(r) /\ req[r].key.obj = id
    BY <1>2, WriteRight
  <1>3. CASE ~BaseWrite(r) /\ req[r].key.obj = id
    <2>1. /\ req[r].pc # "idle" /\ r \in About(id)
          /\ \A s \in Reqs : s # r => req'[s] = req[s]
          /\ \A s \in About(id)' : s \in About(id) /\ req'[s].op = req[s].op
      BY <1>3, StepMoves, AboutKept DEF About
    <2>2. db'[id] = db[id]
      BY <1>3 DEF RequestStep, LocalGet, RedisGet, Warm, BaseRead, LocalDel,
             QueueDel, RedisDel, Bump, LocalSet, RedisSet, Return
    <2>3. Alone(id)'
      BY <2>1, AloneKept DEF UserRight
    <2>4. Carried(id)'
      <3> SUFFICES ASSUME NEW s \in About(id)' PROVE CarriesRow(s, id)'
        BY DEF Carried
      <3>1. CASE s = r
        BY <1>3, <3>1, CarriesOn DEF About
      <3>2. CASE s # r
        BY <2>1, <2>2, <3>2 DEF UserRight, Carried, CarriesRow, IsRow, About
      <3> QED
        BY <3>1, <3>2
    <2>5. LocalKept(id) /\ RedisKept(id)
      BY CachesKept DEF UserRight
    <2>6. ASSUME NEW steps, NEW pc \in Steps, pc \in steps, Goto(r, pc, req[r].val)
          PROVE  Stale(id, steps) => Stale(id, steps)'
      <3>1. req'[r].pc = pc /\ req'[r].op = req[r].op /\ req'[r].key = req[r].key
        BY <2>1, <2>6, GotoFacts, InFlightTyped
      <3>2. pc # "idle"
        BY DEF Steps
      <3> QED
        BY <1>3, <2>1, <2>6, <3>1, <3>2, StaleKept DEF About
    <2>7. RedisRight(id)'
      <3>1. CASE LocalDel(r) \/ QueueDel(r)
        <4>1. Stale(id, {"local_del", "queue_del", "redis_del"})
              => Stale(id, {"local_del", "queue_del", "redis_del"})'
          BY <2>6, <3>1 DEF LocalDel, QueueDel, Steps
        <4> QED
          BY <2>2, <2>5, <4>1, RedisStaysRight DEF UserRight
      <3>2. CASE RedisDel(r)
        <4>1. req[r].op # "list" /\ req[r].key = cacheKeyUser(id)
          BY <1>3, <2>1, <3>2 DEF RedisDel, At, PcOK, KeysPlain, Mutations
        <4>2. CASE RedisRemove(req[r].key)
          BY <4>1, <4>2 DEF RedisRemove, Without, RedisRight, cacheKeyUser
        <4>3. CASE RedisRemoveSkipped /\ ~RedisOn
          BY <4>3 DEF RedisRemoveSkipped, RedisOff, RedisRight
        <4> QED
          BY <1>3, <3>2, <4>2, <4>3 DEF RedisDel
      <3>3. CASE ~LocalDel(r) /\ ~QueueDel(r) /\ ~RedisDel(r)
        <4>1. req[r].pc \notin {"local_del", "queue_del", "redis_del"}
          BY <1>3, <3>3 DEF RequestStep, LocalGet, RedisGet, Warm, BaseRead, Bump,
                            LocalSet, RedisSet, Return, At
        <4> QED
          BY <2>1, <2>2, <2>5, <4>1, StaleKept, RedisStaysRight DEF UserRight
      <3> QED
        BY <3>1, <3>2, <3>3
    <2>8. LocalRight(id)'
      <3>1. CASE LocalDel(r)
        <4>1. Stale(id, {"local_del", "queue_del"}) => Stale(id, {"local_del", "queue_del"})'
          BY <2>6, <3>1 DEF LocalDel, Steps
        <4> QED
          BY <2>2, <2>5, <4>1, LocalStaysRight DEF UserRight, TypeOK
      <3>2. CASE QueueDel(r)
        <4>1. /\ req[r].key = cacheKeyUser(id) /\ req[r].inst \in Instances
              /\ QueueDelete(req[r].inst, req[r].key)
          BY <1>3, <2>1, <3>2, InFlightTyped DEF QueueDel, At, PcOK, KeysPlain, Mutations
        <4> QED
          BY <4>1, DelQueued DEF TypeOK
      <3>3. CASE ~LocalDel(r) /\ ~QueueDel(r)
        <4>1. req[r].pc \notin {"local_del", "queue_del"}
          BY <1>3, <3>3 DEF RequestStep, LocalGet, RedisGet, Warm, BaseRead, RedisDel, Bump,
                            LocalSet, RedisSet, Return, At
        <4> QED
          BY <2>1, <2>2, <2>5, <4>1, StaleKept, LocalStaysRight DEF UserRight, TypeOK
      <3> QED
        BY <3>1, <3>2, <3>3
    <2> QED
      BY <2>3, <2>4, <2>7, <2>8 DEF UserRight
  <1> QED
    BY <1>1, <1>2, <1>3
-----------------------------------------------------------------------------
(* All steps *)

\* The keys of users, the rows of new users and a Redis that is not there.
LEMMA PlainStep ==
    ASSUME UserInv, NEW r \in Reqs, RequestStep(r)
    PROVE  KeysPlain' /\ Unborn' /\ RedisOff'
  <1> USE DEF UserInv
  <1>1. KeysPlain'
    <2>1. Idle.pc = "idle"
      BY DEF Idle
    <2> QED
      BY <2>1, StepMoves DEF KeysPlain, cacheKeyUser
  <1>2. Unborn'
    <2>1. commits + 1 > 0 /\ commits + 1 \in Nat
      BY DEF TypeOK
    <2>2. Commit(r) => Unborn'
      BY <2>1 DEF Commit, Unborn, TypeOK
    <2>3. db' = db => Unborn'
      BY DEF Unborn
    <2> QED
      BY <2>2, <2>3 DEF RequestStep, LocalGet, RedisGet, Warm, BaseWrite, BaseRead, LocalDel,
                        QueueDel, RedisDel, Bump, LocalSet, RedisSet, Return
  <1>3. RedisOff'
    <2>1. CASE RedisSet(r)
      BY <2>1 DEF RedisSet, RedisPut, RedisOff
    <2>2. CASE RedisDel(r)
      BY <2>2 DEF RedisDel, RedisRemove, RedisRemoveSkipped, RedisOff
    <2>3. CASE ~RedisSet(r) /\ ~RedisDel(r)
      BY <2>3 DEF RequestStep, LocalGet, RedisGet, Warm, BaseWrite, BaseRead, LocalDel,
                  QueueDel, Bump, LocalSet, Return, cacheVars, RedisOff
    <2> QED
      BY <2>1, <2>2, <2>3
  <1> QED
    BY <1>1, <1>2, <1>3

\* A request that begins about the user id.
LEMMA BeginRight ==
    ASSUME UserInv, NEW r \in Reqs, NEW i0 \in Instances, BeginSome(r, i0), TypeOK',
           NEW id \in IDs, UserRight(id), id \notin tainted'
    PROVE  UserRight(id)'
  <1> USE DEF UserInv
  <1>1. /\ req[r].pc = "idle" /\ UNCHANGED <<local, setBuf, redis, db>>
        /\ \A s \in Reqs : s # r => req'[s] = req[s]
        /\ \/ req'[r].op \in Mutations /\ req'[r].pc = "base"
           \/ req'[r].op \in {"get", "list"} /\ req'[r].pc = "local_get"
    BY BeginFacts DEF BeginSome, BeginCreate, BeginChange, BeginGet, BeginList, Begin
  <1>2. \A s \in About(id) : s # r /\ req'[s] = req[s] /\ s \in About(id)'
    BY <1>1 DEF About
  <1>3. \A steps : Stale(id, steps) => Stale(id, steps)'
    BY <1>2 DEF Stale
  <1>4. LocalRight(id)' /\ RedisRight(id)'
    <2>1. LocalKept(id) /\ RedisKept(id)
      BY <1>1 DEF LocalKept, RedisKept, DelBehind, cacheKeyUser
    <2> QED
      BY <1>1, <1>3, <2>1, LocalStaysRight, RedisStaysRight DEF UserRight, TypeOK
  <1>5. \A s \in About(id)' : s = r \/ s \in About(id)
    BY <1>1 DEF About
  <1>6. \A s \in About(id) : CarriesRow(s, id)'
    BY <1>1, <1>2 DEF UserRight, Carried, CarriesRow, IsRow
  <1>7. CASE r \notin About(id)'
    <2>1. About(id)' = About(id)
      BY <1>2, <1>5, <1>7
    <2> QED
      BY <1>2, <1>4, <1>6, <2>1 DEF UserRight, Alone, Carried
  <1>8. CASE r \in About(id)' /\ req'[r].op \in Mutations
    <2>1. req'[r].key.obj = id /\ req'[r].op \notin {"get", "list"} /\ req'[r].pc = "base"
      BY <1>1, <1>8 DEF About, Mutations
    <2>2. \/ BeginCreate(r, i0, id)
          \/ \E op \in {"update", "delete"} : BeginChange(r, i0, op, id)
      <3>1. \A op, pc, k, f : Begin(r, i0, op, pc, k, f) => req'[r].op = op /\ req'[r].key = k
        BY DEF Begin, TypeOK
      <3>2. ~(\E id2 \in IDs : BeginGet(r, i0, id2)) /\ ~(\E page \in Pages : BeginList(r, i0, page))
        BY <2>1, <3>1 DEF BeginGet, BeginList
      <3>3. \A id2 \in IDs : BeginCreate(r, i0, id2) => id2 = id
        BY <2>1, <3>1 DEF BeginCreate, cacheKeyUser
      <3>4. \A id2 \in IDs, op \in {"update", "delete"} : BeginChange(r, i0, op, id2) => id2 = id
        BY <2>1, <3>1 DEF BeginChange, cacheKeyUser
      <3> QED
        BY <3>2, <3>3, <3>4 DEF BeginSome
    <2>3. About(id) = {}
      BY <2>2 DEF BeginCreate, BeginChange
    <2>4. About(id)' = {r}
      BY <1>5, <1>8, <2>3
    <2>5. req'[r].op = "create" => ~db[id].live
      <3>1. CASE BeginCreate(r, i0, id)
        BY <3>1 DEF BeginCreate, Unborn, TypeOK
      <3>2. CASE \E op \in {"update", "delete"} : BeginChange(r, i0, op, id)
        BY <3>2 DEF BeginChange, Begin, TypeOK
      <3> QED
        BY <2>2, <3>1, <3>2
    <2>6. CarriesRow(r, id)'
      BY <1>1, <2>1, <2>5 DEF CarriesRow
    <2> QED
      BY <1>4, <2>4, <2>6 DEF UserRight, Alone, Carried
  <1>9. CASE r \in About(id)' /\ req'[r].op \notin Mutations
    <2>1. req'[r].key.obj = id /\ req'[r].pc = "local_get" /\ req'[r].op # "create"
      BY <1>1, <1>9 DEF About, Mutations
    <2>2. CarriesRow(r, id)'
      BY <2>1 DEF CarriesRow
    <2>3. \A s \in About(id) : req[s].op \notin Mutations
      <3>1. \A op, pc, k, f : Begin(r, i0, op, pc, k, f) => req'[r].op = op /\ req'[r].key = k
        BY DEF Begin, TypeOK
      <3>2. ~(\E id2 \in IDs : BeginCreate(r, i0, id2))
            /\ ~(\E id2 \in IDs, op \in {"update", "delete"} : BeginChange(r, i0, op, id2))
        BY <1>9, <3>1 DEF BeginCreate, BeginChange, Mutations
      <3>3. \A page \in Pages : ~BeginList(r, i0, page)
        BY <2>1, <3>1 DEF BeginList, cacheKeyList, Pages
      <3>4. BeginGet(r, i0, id)
        <4>1. PICK id2 \in IDs : BeginGet(r, i0, id2)
          BY <3>2, <3>3 DEF BeginSome
        <4>2. req'[r].key = cacheKeyUser(id2)
          BY <3>1, <4>1 DEF BeginGet
        <4>3. id2 = id
          BY <2>1, <4>2 DEF cacheKeyUser
        <4> QED
          BY <4>1, <4>3
      <3> QED
        BY <3>4 DEF BeginGet
    <2>4. Alone(id)'
      BY <1>2, <1>5, <1>9, <2>3 DEF Alone
    <2>5. Carried(id)'
      BY <1>5, <1>6, <2>2 DEF Carried
    <2> QED
      BY <1>4, <2>4, <2>5 DEF UserRight
  <1> QED
    BY <1>7, <1>8, <1>9

\* Ristretto's goroutine, evictions and expiry leave a user right.
LEMMA CacheRight ==
    ASSUME UserInv, CacheStep, NEW id \in IDs, UserRight(id)
    PROVE  UserRight(id)'
  <1> USE DEF UserInv
  <1>1. UNCHANGED <<db, req>>
    BY DEF CacheStep
  <1>2. About(id)' = About(id) /\ \A steps : Stale(id, steps) => Stale(id, steps)'
    BY <1>1 DEF About, Stale
  <1>3. Alone(id)' /\ Carried(id)'
    BY <1>1, <1>2 DEF UserRight, Alone, Carried, CarriesRow, IsRow
  <1>4. RedisRight(id)'
    <2>1. RedisKept(id)
      BY CacheOnlyFacts DEF RedisKept
    <2> QED
      BY <1>1, <1>2, <2>1, RedisStaysRight DEF UserRight
  <1>5. LocalRight(id)'
    <2>1. ASSUME NEW i \in Instances, ApplySetBuf(i) PROVE LocalRight(id)'
      BY <1>1, <2>1, ApplyRight DEF UserRight, TypeOK
    <2>2. ASSUME NEW i \in Instances, Evict(i) PROVE LocalRight(id)'
      BY <1>1, <1>2, <2>2, EvictKeeps, LocalStaysRight DEF UserRight, TypeOK
    <2>3. ASSUME RedisExpire PROVE LocalRight(id)'
      <3>1. LocalKept(id)
        BY <2>3 DEF RedisExpire, LocalKept, DelBehind, cacheKeyUser
      <3> QED
        BY <1>1, <1>2, <3>1, LocalStaysRight DEF UserRight, TypeOK
    <2> QED
      BY <2>1, <2>2, <2>3 DEF CacheStep
  <1> QED
    BY <1>3, <1>4, <1>5 DEF UserRight

\* The one process restarts: nothing is in memory, nothing is under way, and
\* the users whose mutation was cut short are tainted.
LEMMA RestartRight ==
    ASSUME UserInv, OneProcess, NEW i0 \in Instances, Restart(i0),
           NEW id \in IDs, UserRight(id), id \notin tainted'
    PROVE  UserRight(id)'
  <1> USE DEF UserInv
  <1>1. /\ redis' = redis /\ db' = db /\ LocalReset(i0)
        /\ \A s \in Reqs : req'[s] = IF req[s].inst = i0 THEN Idle ELSE req[s]
    BY RestartFacts DEF Restart
  <1>2. \A s \in About(id) : req[s].inst = i0
    BY InFlightTyped DEF OneProcess, About
  <1>3. About(id)' = {}
    BY <1>1, <1>2 DEF About, Idle
  <1>4. \A s \in About(id) : req[s].op \notin Mutations
    BY <1>2 DEF Restart
  <1>5. RedisRight(id)'
    BY <1>1, <1>4 DEF UserRight, RedisRight, Stale, cacheKeyUser, IsRow
  <1>6. LocalRight(id)'
    <2>1. \A i \in Instances : local'[i] = {} /\ setBuf'[i] = <<>>
      BY <1>1 DEF LocalReset, OneProcess, TypeOK, CacheTypeOK
    <2> QED
      BY <2>1 DEF LocalRight
  <1> QED
    BY <1>3, <1>5, <1>6 DEF UserRight, Alone, Carried

LEMMA InitUserInv == Init => UserInv
  <1> SUFFICES ASSUME Init PROVE UserInv
    OBVIOUS
  <1>1. /\ redis = {} /\ \A i \in Instances : local[i] = {} /\ setBuf[i] = <<>>
        /\ \A r \in Reqs : req[r].pc = "idle"
        /\ \A id \in IDs : ~db[id].live
    BY DEF Init, CacheInit, Idle
  <1>2. RedisOff /\ KeysPlain /\ Unborn
    BY <1>1 DEF RedisOff, KeysPlain, Unborn
  <1>3. ASSUME NEW id \in IDs PROVE UserRight(id)
    BY <1>1 DEF UserRight, Alone, RedisRight, LocalRight, Carried, About
  <1> QED
    BY <1>2, <1>3, InitShape DEF UserInv

LEMMA NextUserInv ==
    ASSUME OneProcess
    PROVE  UserInv /\ [Next]_vars => UserInv'
  <1> SUFFICES ASSUME UserInv, [Next]_vars PROVE UserInv'
    OBVIOUS
  <1>0. TypeOK' /\ PcOK'
    BY NextShape DEF UserInv
  <1>1. CASE UNCHANGED vars
    <2>1. UNCHANGED <<local, setBuf, redis, db, req, tainted>>
      BY <1>1 DEF vars
    <2>2. RedisOff' /\ KeysPlain' /\ Unborn'
      BY <2>1 DEF UserInv, RedisOff, KeysPlain, Unborn, cacheKeyUser
    <2>3. ASSUME NEW id \in IDs \ tainted PROVE UserRight(id)'
      <3>1. About(id)' = About(id) /\ \A steps : Stale(id, steps)' = Stale(id, steps)
        BY <2>1 DEF About, Stale
      <3>2. Alone(id)' /\ Carried(id)'
        BY <2>1, <2>3, <3>1 DEF UserInv, UserRight, Alone, Carried, CarriesRow, IsRow
      <3>3. LocalKept(id) /\ RedisKept(id)
        BY <2>1 DEF LocalKept, RedisKept, DelBehind, cacheKeyUser
      <3> QED
        BY <2>1, <2>3, <3>1, <3>2, <3>3, LocalStaysRight, RedisStaysRight
           DEF UserInv, UserRight, TypeOK
    <2> QED
      BY <1>0, <2>1, <2>2, <2>3 DEF UserInv
  <1>2. ASSUME NEW r \in Reqs, RequestStep(r) PROVE UserInv'
    <2>1. tainted \subseteq tainted'
      BY <1>2 DEF RequestStep, LocalGet, RedisGet, Warm, BaseWrite, BaseRead, LocalDel,
                  QueueDel, RedisDel, Bump, LocalSet, RedisSet, Return
    <2>2. \A id \in IDs \ tainted' : UserRight(id)'
      BY <1>2, <2>1, StepRight DEF UserInv
    <2> QED
      BY <1>0, <1>2, <2>2, PlainStep DEF UserInv
  <1>3. ASSUME NEW r \in Reqs, NEW i \in Instances, BeginSome(r, i) PROVE UserInv'
    <2>1. tainted \subseteq tainted' /\ UNCHANGED <<db, redis>>
      BY <1>3 DEF BeginSome, BeginCreate, BeginChange, BeginGet, BeginList, Begin, cacheVars
    <2>2. \A id \in IDs \ tainted' : UserRight(id)'
      BY <1>0, <1>3, <2>1, BeginRight DEF UserInv
    <2>3. KeysPlain'
      <3>1. \/ req'[r].op = "list"
            \/ \E id \in IDs : req'[r].key = cacheKeyUser(id)
        <4>1. \A op, pc, k, f : Begin(r, i, op, pc, k, f) => req'[r].op = op /\ req'[r].key = k
          BY DEF Begin, UserInv, TypeOK
        <4> QED
          BY <1>3, <4>1 DEF BeginSome, BeginCreate, BeginChange, BeginGet, BeginList
      <3>2. \A s \in Reqs : s # r => req'[s] = req[s]
        BY <1>3, BeginFacts DEF UserInv
      <3> QED
        <4> SUFFICES ASSUME NEW s \in Reqs, req'[s].pc # "idle", req'[s].op # "list"
                     PROVE  req'[s].key = cacheKeyUser(req'[s].key.obj)
          BY DEF KeysPlain, cacheKeyUser
        <4>1. CASE s # r
          BY <3>2, <4>1 DEF UserInv, KeysPlain, cacheKeyUser
        <4>2. CASE s = r
          <5>1. PICK id \in IDs : req'[s].key = cacheKeyUser(id)
            BY <3>1, <4>2
          <5>2. req'[s].key.obj = id
            BY <5>1 DEF cacheKeyUser
          <5> QED
            BY <5>1, <5>2
        <4> QED
          BY <4>1, <4>2
    <2> QED
      BY <1>0, <2>1, <2>2, <2>3 DEF UserInv, Unborn, RedisOff
  <1>4. CASE CacheStep
    <2>1. UNCHANGED <<db, req, tainted>> /\ redis' \subseteq redis
      BY <1>4, CacheOnlyFacts DEF UserInv, CacheStep
    <2>2. \A id \in IDs \ tainted' : UserRight(id)'
      BY <1>4, <2>1, CacheRight DEF UserInv
    <2> QED
      BY <1>0, <2>1, <2>2 DEF UserInv, KeysPlain, Unborn, RedisOff, cacheKeyUser
  <1>5. ASSUME NEW i \in Instances, Restart(i) PROVE UserInv'
    <2>1. /\ UNCHANGED <<db, redis>> /\ tainted \subseteq tainted'
          /\ \A s \in Reqs : req'[s] = Idle \/ req'[s] = req[s]
      BY <1>5, RestartFacts DEF UserInv, Restart
    <2>2. \A id \in IDs \ tainted' : UserRight(id)'
      BY <1>5, <2>1, RestartRight DEF UserInv
    <2> QED
      BY <1>0, <2>1, <2>2 DEF UserInv, KeysPlain, Unborn, RedisOff, Idle, cacheKeyUser
  <1> QED
    BY <1>1, <1>2, <1>3, <1>4, <1>5, NextKinds

\* In one process, with or without Redis, once no request and no queued item
\* is about a user, ristretto and Redis hold the stored row of the user or
\* nothing: for any number of requests, users and restarts, any size of the
\* queue, any order of its work, of evictions and of expiry, any faults.
\* Excepted are the users one of these has happened to: a mutation overlapped
\* another request about the user, was committed but failed, was cut short by
\* a restart, or failed to delete from Redis.
THEOREM UsersAreCurrent ==
    ASSUME OneProcess
    PROVE  Spec => []UserCurrentUnlessTainted
  <1>1. UserInv => UserCurrentUnlessTainted
    <2> SUFFICES ASSUME UserInv, NEW id \in IDs \ tainted, Settled(id)
                 PROVE  Current(id)
      BY DEF UserCurrentUnlessTainted
    <2>1. UserRight(id) /\ About(id) = {}
      BY DEF UserInv, Settled
    <2>2. \A steps : ~Stale(id, steps)
      BY <2>1 DEF Stale
    <2>3. \A i \in Instances : ~DelBehind(i, id, 0)
      <3>1. \A i \in Instances : \A n \in DOMAIN setBuf[i] : setBuf[i][n].key # cacheKeyUser(id)
        BY DEF Settled, cacheKeyUser
      <3> QED
        BY <3>1 DEF DelBehind
    <2> QED
      BY <2>1, <2>2, <2>3 DEF UserRight, RedisRight, LocalRight, Current, IsRow
  <1>2. Init => UserInv
    BY InitUserInv
  <1>3. UserInv /\ [Next]_vars => UserInv'
    BY NextUserInv
  <1> QED
    BY <1>1, <1>2, <1>3, PTL DEF Spec
=============================================================================
