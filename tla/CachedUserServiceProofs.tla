---------------------- MODULE CachedUserServiceProofs ----------------------
(***************************************************************************)
(* Theorems about CachedUserService: typing for every configuration, and   *)
(* fresh lists for every configuration in which no two lives of a process  *)
(* can meet the same list key.                                             *)
(***************************************************************************)
EXTENDS CachedUserService, SequenceTheorems, TLAPS

\* A mutation never looks anything up, a read never invalidates anything.
PcOK ==
    \A r \in Reqs :
        /\ req[r].op \in Mutations => req[r].pc \notin {"local_get", "redis_get", "warm"}
        /\ req[r].op \notin Mutations =>
             req[r].pc \notin {"local_del", "queue_del", "redis_del", "bump"}
        /\ req[r].pc = "idle" => req[r] = Idle

\* There is nothing in a Redis that is not there.
RedisOff == ~RedisOn => redis = {}

\* Process i has the payload in ristretto or in its queue.
Near(i, k, v) ==
    \/ [key |-> k, val |-> v] \in local[i]
    \/ \E n \in DOMAIN setBuf[i] :
         setBuf[i][n] = [op |-> "new", key |-> k, val |-> v]

\* A payload that process i may still serve or store under key k.
Held(i, k, v) ==
    \/ Near(i, k, v)
    \/ [key |-> k, val |-> v] \in redis
    \/ \E r \in Reqs :
         HasList(r) /\ req[r].inst = i /\ req[r].key = k /\ req[r].val = v

\* A mutation of process i that has bumped the version but not returned.
Bumped(s, i) ==
    /\ req[s].inst = i /\ req[s].op \in Mutations
    /\ req[s].pc \in {"local_set", "redis_set", "return"}

\* Under the current version a payload shows every commit whose mutation has
\* bumped it; under any version it shows what the lists that use the same key
\* have to show.
FreshFor(i, k, v) ==
    /\ k.ver <= listVer[i]
    /\ k.ver = listVer[i] =>
         v >= acked[i] /\ \A s \in Reqs : Bumped(s, i) => v >= req[s].val
    /\ \A r \in Reqs :
         req[r].op = "list" /\ req[r].inst = i /\ req[r].key = k => v >= req[r].floor

HeldFresh ==
    \A i \in Instances, k \in Key, v \in Nat :
        k.obj \in Pages /\ Held(i, k, v) => FreshFor(i, k, v)

\* Nothing is newer than the database, and no list has a key of the future.
Bounded ==
    /\ \A i \in Instances : acked[i] <= commits
    /\ \A r \in Reqs :
         /\ req[r].floor <= commits
         /\ req[r].op \in Mutations => req[r].val <= commits
         /\ req[r].op = "list" => req[r].key.ver <= listVer[req[r].inst]

ListInv == TypeOK /\ PcOK /\ RedisOff /\ HeldFresh /\ Bounded

\* The configurations in which list keys are safe: no Redis, or one process
\* that never restarts.
ListKeysOwned ==
    RedisOn => MaxRestarts = 0 /\ \A i, j \in Instances : i = j
-----------------------------------------------------------------------------
(* What the parts of an action do *)

\* The next step of a request changes pc and val of that request only.
LEMMA GotoFacts ==
    ASSUME TypeOK, NEW r \in Reqs, req[r].pc # "idle",
           NEW pc \in Steps, NEW v \in Nat, Goto(r, pc, v)
    PROVE  /\ req' \in [Reqs -> Request]
           /\ req'[r].pc = pc /\ req'[r].val = v /\ req'[r].op = req[r].op
           /\ req'[r].inst = req[r].inst /\ req'[r].key = req[r].key
           /\ req'[r].floor = req[r].floor
           /\ \A s \in Reqs : s # r => req'[s] = req[s]
  <1> DEFINE q == [req[r] EXCEPT !.pc = pc, !.val = v]
  <1>1. req[r] \in Request
    BY DEF TypeOK
  <1>2. /\ q \in Request /\ q.pc = pc /\ q.val = v /\ q.op = req[r].op
        /\ q.inst = req[r].inst /\ q.key = req[r].key /\ q.floor = req[r].floor
    BY <1>1 DEF Request
  <1>3. req' = [req EXCEPT ![r] = q]
    BY DEF Goto
  <1> HIDE DEF q
  <1> QED
    BY <1>2, <1>3 DEF TypeOK

\* local.Set leaves its process with nothing new but the payload it is given.
LEMMA LocalPutFacts ==
    ASSUME CacheTypeOK, NEW i \in Instances, NEW k \in Key, NEW v \in Nat,
           LocalPut(i, k, v)
    PROVE  /\ local' \in [Instances -> SUBSET Entry]
           /\ setBuf' \in [Instances -> Seq(Item)]
           /\ \A j \in Instances, l \in Key, w \in Nat :
                Near(j, l, w)' => Near(j, l, w) \/ (j = i /\ l = k /\ w = v)
  <1> DEFINE e == [key |-> k, val |-> v]
             it == [op |-> "new", key |-> k, val |-> v]
  <1>1. e \in Entry /\ it \in Item
    BY DEF Entry, Item
  <1>2. CASE /\ local' = [local EXCEPT ![i] = With(@, k, v)]
             /\ UNCHANGED setBuf
    <2>1. With(local[i], k, v) \subseteq local[i] \cup {e}
      BY DEF With, Without
    <2>2. \A j \in Instances : local'[j] \subseteq local[j] \cup (IF j = i THEN {e} ELSE {})
      BY <1>2, <2>1 DEF CacheTypeOK
    <2>3. local' \in [Instances -> SUBSET Entry]
      BY <1>1, <1>2, <2>1 DEF CacheTypeOK
    <2>4. ASSUME NEW j \in Instances, NEW l \in Key, NEW w \in Nat, Near(j, l, w)'
          PROVE  Near(j, l, w) \/ (j = i /\ l = k /\ w = v)
      BY <1>2, <2>2, <2>4 DEF Near
    <2> QED
      BY <1>2, <2>3, <2>4 DEF CacheTypeOK
  <1>3. CASE setBuf' = [setBuf EXCEPT ![i] = Append(@, it)] /\ UNCHANGED local
    <2> HIDE DEF it
    <2>1. setBuf[i] \in Seq(Item) /\ setBuf'[i] = Append(setBuf[i], it)
      BY <1>3 DEF CacheTypeOK
    <2>2. /\ Append(setBuf[i], it) \in Seq(Item)
          /\ \A n \in DOMAIN setBuf'[i] :
               \/ n \in DOMAIN setBuf[i] /\ setBuf'[i][n] = setBuf[i][n]
               \/ setBuf'[i][n] = it
      BY <1>1, <2>1
    <2>3. setBuf' \in [Instances -> Seq(Item)]
      BY <1>3, <2>2 DEF CacheTypeOK
    <2>4. \A j \in Instances : j # i => setBuf'[j] = setBuf[j]
      BY <1>3 DEF CacheTypeOK
    <2>5. ASSUME NEW j \in Instances, NEW l \in Key, NEW w \in Nat, Near(j, l, w)'
          PROVE  Near(j, l, w) \/ (j = i /\ l = k /\ w = v)
      BY <1>3, <2>2, <2>4, <2>5 DEF Near, it
    <2> QED
      BY <1>3, <2>3, <2>5 DEF CacheTypeOK
  <1>4. CASE UNCHANGED <<local, setBuf>>
    BY <1>4 DEF CacheTypeOK, Near
  <1> QED
    BY <1>2, <1>3, <1>4 DEF LocalPut

\* Deleting, evicting, working through the queue and restarting bring nothing
\* new near a process.
LEMMA LocalRemoveFacts ==
    ASSUME CacheTypeOK, NEW i \in Instances, NEW k \in Key,
           LocalRemove(i, k) \/ QueueDelete(i, k)
    PROVE  /\ local' \in [Instances -> SUBSET Entry]
           /\ setBuf' \in [Instances -> Seq(Item)]
           /\ \A j \in Instances, l \in Key, w \in Nat : Near(j, l, w)' => Near(j, l, w)
  <1>1. CASE LocalRemove(i, k)
    <2>1. \A j \in Instances : local'[j] \subseteq local[j]
      BY <1>1 DEF LocalRemove, Without, CacheTypeOK
    <2>2. local' \in [Instances -> SUBSET Entry] /\ setBuf' = setBuf
      BY <1>1 DEF LocalRemove, Without, CacheTypeOK
    <2> QED
      BY <2>1, <2>2 DEF Near, CacheTypeOK
  <1>2. CASE QueueDelete(i, k)
    <2> DEFINE it == [op |-> "del", key |-> k, val |-> 0]
    <2>1. it \in Item /\ it.op # "new"
      BY DEF Item
    <2>2. setBuf' = [setBuf EXCEPT ![i] = Append(@, it)] /\ UNCHANGED local
      BY <1>2 DEF QueueDelete
    <2> HIDE DEF it
    <2>3. setBuf[i] \in Seq(Item) /\ setBuf'[i] = Append(setBuf[i], it)
      BY <2>2 DEF CacheTypeOK
    <2>4. /\ Append(setBuf[i], it) \in Seq(Item)
          /\ \A n \in DOMAIN setBuf'[i] :
               \/ n \in DOMAIN setBuf[i] /\ setBuf'[i][n] = setBuf[i][n]
               \/ setBuf'[i][n] = it
      BY <2>1, <2>3
    <2>5. setBuf' \in [Instances -> Seq(Item)]
      BY <2>2, <2>4 DEF CacheTypeOK
    <2>6. \A j \in Instances : j # i => setBuf'[j] = setBuf[j]
      BY <2>2 DEF CacheTypeOK
    <2>7. ASSUME NEW j \in Instances, NEW l \in Key, NEW w \in Nat, Near(j, l, w)'
          PROVE  Near(j, l, w)
      BY <2>1, <2>2, <2>4, <2>6, <2>7 DEF Near
    <2> QED
      BY <2>2, <2>5, <2>7 DEF CacheTypeOK
  <1> QED
    BY <1>1, <1>2

LEMMA CacheStepFacts ==
    ASSUME CacheTypeOK, NEW i \in Instances,
           ApplySetBuf(i) \/ Evict(i) \/ LocalReset(i)
    PROVE  /\ CacheTypeOK' /\ redis' = redis
           /\ \A j \in Instances, l \in Key, w \in Nat : Near(j, l, w)' => Near(j, l, w)
  <1>1. CASE ApplySetBuf(i)
    <2> DEFINE item == Head(setBuf[i])
    <2>1. setBuf[i] \in Seq(Item) /\ setBuf[i] # <<>>
      BY <1>1 DEF ApplySetBuf, CacheTypeOK
    <2>2. item \in Item /\ item = setBuf[i][1] /\ 1 \in DOMAIN setBuf[i]
      BY <2>1
    <2>3. /\ Tail(setBuf[i]) \in Seq(Item)
          /\ \A n \in DOMAIN Tail(setBuf[i]) :
               n + 1 \in DOMAIN setBuf[i] /\ Tail(setBuf[i])[n] = setBuf[i][n + 1]
      BY <2>1
    <2>4. setBuf' = [setBuf EXCEPT ![i] = Tail(@)] /\ redis' = redis
      BY <1>1 DEF ApplySetBuf
    <2>5. setBuf' \in [Instances -> Seq(Item)]
      BY <2>3, <2>4 DEF CacheTypeOK
    <2>6. /\ local' \in [Instances -> SUBSET Entry]
          /\ \A j \in Instances : j # i => local'[j] = local[j]
          /\ local'[i] \subseteq local[i] \cup
               (IF item.op = "new" THEN {[key |-> item.key, val |-> item.val]} ELSE {})
      <3> HIDE DEF item
      <3>1. [key |-> item.key, val |-> item.val] \in Entry
        BY <2>2 DEF Item, Entry
      <3>2. \/ item.op = "del" /\ local' = [local EXCEPT ![i] = Without(@, item.key)]
            \/ item.op = "new" /\ local' = [local EXCEPT ![i] = With(@, item.key, item.val)]
            \/ local' = local
        BY <1>1 DEF ApplySetBuf, item
      <3> QED
        BY <3>1, <3>2 DEF With, Without, CacheTypeOK
    <2>7. ASSUME NEW j \in Instances, NEW l \in Key, NEW w \in Nat, Near(j, l, w)'
          PROVE  Near(j, l, w)
      <3>1. CASE j # i
        BY <2>4, <2>6, <2>7, <3>1 DEF Near, CacheTypeOK
      <3>2. CASE j = i /\ [key |-> l, val |-> w] \in local'[i]
        <4>1. CASE [key |-> l, val |-> w] \in local[i]
          BY <3>2, <4>1 DEF Near
        <4>2. CASE /\ item.op = "new"
                   /\ [key |-> l, val |-> w] = [key |-> item.key, val |-> item.val]
          <5>1. item = [op |-> "new", key |-> l, val |-> w]
            BY <2>2, <4>2 DEF Item
          <5> QED
            BY <2>2, <3>2, <5>1 DEF Near
        <4> QED
          BY <2>6, <3>2, <4>1, <4>2
      <3>3. CASE j = i /\ \E n \in DOMAIN setBuf'[i] :
                            setBuf'[i][n] = [op |-> "new", key |-> l, val |-> w]
        <4>1. setBuf'[i] = Tail(setBuf[i])
          BY <2>4 DEF CacheTypeOK
        <4> QED
          BY <2>3, <3>3, <4>1 DEF Near
      <3> QED
        BY <2>7, <3>1, <3>2, <3>3 DEF Near
    <2> QED
      BY <2>4, <2>5, <2>6, <2>7 DEF CacheTypeOK
  <1>2. CASE Evict(i)
    <2>1. PICK e \in local[i] : local' = [local EXCEPT ![i] = @ \ {e}]
      BY <1>2 DEF Evict
    <2>2. UNCHANGED <<setBuf, redis>>
      BY <1>2 DEF Evict
    <2>3. local' \in [Instances -> SUBSET Entry] /\ \A j \in Instances : local'[j] \subseteq local[j]
      BY <2>1 DEF CacheTypeOK
    <2> QED
      BY <2>2, <2>3 DEF Near, CacheTypeOK
  <1>3. CASE LocalReset(i)
    BY <1>3 DEF LocalReset, Near, CacheTypeOK
  <1> QED
    BY <1>1, <1>2, <1>3
-----------------------------------------------------------------------------
(* Type correctness *)

\* What TypeOK says of a request in flight, beyond its record type.
WellFormed(q) ==
    q.pc # "idle" =>
      /\ q.op # "none" /\ q.inst \in Instances /\ q.key \in Key
      /\ q.op = "list" <=> q.key.obj \in Pages

LEMMA InitTypeOK == Init => TypeOK
  <1> SUFFICES ASSUME Init PROVE TypeOK
    OBVIOUS
  <1>1. Idle \in Request
    BY DEF Idle, Request, Steps
  <1>2. CacheTypeOK
    BY DEF Init, CacheInit, CacheTypeOK
  <1>3. \A r \in Reqs : req[r] = Idle /\ req[r].pc = "idle"
    BY DEF Init, Idle
  <1> QED
    BY <1>1, <1>2, <1>3 DEF Init, TypeOK

\* A step that keeps caches and database typed, and changes requests only to
\* well-formed ones.
LEMMA TypeStep ==
    ASSUME TypeOK, CacheTypeOK', db' \in [IDs -> [ver : Nat, live : BOOLEAN]],
           commits' \in Nat, restarts' \in Nat, listVer' \in [Instances -> Nat],
           acked' \in [Instances -> Nat], tainted' \subseteq IDs,
           req' \in [Reqs -> Request],
           \A s \in Reqs : req'[s] = req[s] \/ WellFormed(req'[s])
    PROVE  TypeOK'
  BY DEF TypeOK, WellFormed

\* A request that goes on stays well formed, one that fails is idle.
LEMMA GotoTyped ==
    ASSUME TypeOK, NEW r \in Reqs, req[r].pc # "idle",
           NEW pc \in Steps, NEW v \in Nat, Goto(r, pc, v)
    PROVE  /\ req' \in [Reqs -> Request]
           /\ \A s \in Reqs : req'[s] = req[s] \/ WellFormed(req'[s])
  BY GotoFacts DEF TypeOK, WellFormed

LEMMA FailTyped ==
    ASSUME TypeOK, NEW r \in Reqs, Fail(r)
    PROVE  /\ req' \in [Reqs -> Request]
           /\ req'[r] = Idle
           /\ \A s \in Reqs : s # r => req'[s] = req[s]
           /\ \A s \in Reqs : req'[s] = req[s] \/ WellFormed(req'[s])
  <1>1. Idle \in Request /\ Idle.pc = "idle"
    BY DEF Idle, Request, Steps
  <1> QED
    BY <1>1 DEF Fail, TypeOK, WellFormed

\* The locals of a request in flight.
LEMMA InFlightTyped ==
    ASSUME TypeOK, NEW r \in Reqs, req[r].pc # "idle"
    PROVE  /\ req[r].inst \in Instances /\ req[r].key \in Key /\ req[r].key.obj \in Objects
           /\ req[r].val \in Nat /\ req[r].floor \in Nat /\ req[r].pc \in Steps
           /\ req[r].op # "list" => req[r].key.obj \in IDs
           /\ req[r].op \in Mutations \cup {"get", "list"}
  BY DEF TypeOK, Request, Key, Pages

LEMMA BeginTyped ==
    ASSUME TypeOK, NEW r \in Reqs, NEW i \in Instances,
           NEW op \in Mutations \cup {"get", "list"}, NEW pc \in Steps,
           NEW k \in Key, op = "list" <=> k.obj \in Pages, NEW f \in Nat,
           Begin(r, i, op, pc, k, f), tainted' \subseteq IDs
    PROVE  /\ TypeOK'
           /\ req'[r] = [pc |-> pc, op |-> op, inst |-> i, key |-> k,
                         val |-> 0, floor |-> f]
           /\ \A s \in Reqs : s # r => req'[s] = req[s]
  <1> DEFINE q == [pc |-> pc, op |-> op, inst |-> i, key |-> k,
                   val |-> 0, floor |-> f]
  <1>1. q \in Request /\ WellFormed(q)
    BY DEF Request, WellFormed, Mutations
  <1>2. req' = [req EXCEPT ![r] = q]
    BY DEF Begin
  <1> HIDE DEF q
  <1>3. /\ req' \in [Reqs -> Request] /\ req'[r] = q
        /\ \A s \in Reqs : s # r => req'[s] = req[s]
    BY <1>1, <1>2 DEF TypeOK
  <1>4. UNCHANGED <<local, setBuf, redis, db, commits, listVer, restarts, acked>>
    BY DEF Begin, cacheVars
  <1>5. TypeOK'
    BY <1>1, <1>3, <1>4 DEF TypeOK, CacheTypeOK, WellFormed
  <1> QED
    BY <1>3, <1>5 DEF q

LEMMA CommitTyped ==
    ASSUME TypeOK, NEW r \in Reqs, req[r].pc # "idle", req[r].op \in Mutations, Commit(r)
    PROVE  db' \in [IDs -> [ver : Nat, live : BOOLEAN]] /\ commits' = commits + 1
  <1> DEFINE row == [ver |-> commits + 1, live |-> req[r].op # "delete"]
  <1>1. row \in [ver : Nat, live : BOOLEAN]
    BY DEF TypeOK
  <1>2. db' = [db EXCEPT ![req[r].key.obj] = row] /\ commits' = commits + 1
    BY DEF Commit
  <1> HIDE DEF row
  <1> QED
    BY <1>1, <1>2 DEF TypeOK

LEMMA RedisTyped ==
    ASSUME CacheTypeOK, NEW k \in Key, NEW v \in Nat,
           RedisPut(k, v) \/ RedisRemove(k) \/ UNCHANGED redis
    PROVE  redis' \in SUBSET Entry
  <1>1. [key |-> k, val |-> v] \in Entry
    BY DEF Entry
  <1> QED
    BY <1>1 DEF RedisPut, RedisRemove, With, Without, CacheTypeOK

LEMMA RequestStepTyped ==
    ASSUME TypeOK, PcOK, NEW r \in Reqs, RequestStep(r)
    PROVE  TypeOK'
  <1>0. CacheTypeOK /\ commits \in Nat
    BY DEF TypeOK
  <1>1. CASE LocalGet(r)
    <2>1. req[r].pc # "idle" /\ UNCHANGED <<local, setBuf, redis, db, commits, listVer,
                                           restarts, acked, tainted>>
      BY <1>1 DEF LocalGet, At, cacheVars
    <2>2. \E pc \in Steps, v \in Nat : Goto(r, pc, v)
      BY <1>0, <1>1, <2>1, InFlightTyped DEF LocalGet, Steps, CacheTypeOK, Entry
    <2> QED
      BY <2>1, <2>2, GotoTyped DEF TypeOK, CacheTypeOK, WellFormed
  <1>2. CASE RedisGet(r)
    <2>1. req[r].pc # "idle" /\ UNCHANGED <<local, setBuf, redis, db, commits, listVer,
                                           restarts, acked, tainted>>
      BY <1>2 DEF RedisGet, At, cacheVars
    <2>2. \E pc \in Steps, v \in Nat : Goto(r, pc, v)
      BY <1>0, <1>2 DEF RedisGet, Steps, CacheTypeOK, Entry
    <2> QED
      BY <2>1, <2>2, GotoTyped DEF TypeOK, CacheTypeOK, WellFormed
  <1>3. CASE Warm(r) \/ LocalSet(r)
    <2>1. req[r].pc # "idle" /\ UNCHANGED <<redis, db, commits, listVer,
                                           restarts, acked, tainted>>
      BY <1>3 DEF Warm, LocalSet, At
    <2>2. LocalPut(req[r].inst, req[r].key, req[r].val)
      BY <1>3 DEF Warm, LocalSet
    <2>3. CacheTypeOK'
      BY <1>0, <2>1, <2>2, InFlightTyped, LocalPutFacts DEF CacheTypeOK
    <2>4. \E pc \in Steps, v \in Nat : Goto(r, pc, v)
      BY <1>3, <2>1, InFlightTyped DEF Warm, LocalSet, Steps
    <2> QED
      BY <2>1, <2>3, <2>4, GotoTyped DEF TypeOK, WellFormed
  <1>4. CASE BaseWrite(r)
    <2>1. /\ req[r].pc # "idle" /\ req[r].op \in Mutations
          /\ UNCHANGED <<local, setBuf, redis, listVer, restarts, acked>>
      BY <1>4 DEF BaseWrite, At, cacheVars
    <2>2. CASE /\ Commit(r) /\ UNCHANGED tainted
               /\ Goto(r, AfterWrite(req[r].op), commits + 1)
      <3>1. AfterWrite(req[r].op) \in Steps
        BY DEF AfterWrite, Steps
      <3> QED
        BY <1>0, <2>1, <2>2, <3>1, CommitTyped, GotoTyped DEF TypeOK, CacheTypeOK, WellFormed
    <2>3. CASE Fail(r) /\ UNCHANGED <<db, commits, tainted>>
      BY <2>1, <2>3, FailTyped DEF TypeOK, CacheTypeOK, WellFormed
    <2>4. CASE Commit(r) /\ Fail(r) /\ tainted' = tainted \cup {req[r].key.obj}
      <3>1. tainted' \subseteq IDs
        BY <2>1, <2>4, InFlightTyped DEF TypeOK, Mutations
      <3> QED
        BY <1>0, <2>1, <2>4, <3>1, CommitTyped, FailTyped DEF TypeOK, CacheTypeOK, WellFormed
    <2> QED
      BY <1>4, <2>2, <2>3, <2>4 DEF BaseWrite
  <1>5. CASE BaseRead(r)
    <2>1. req[r].pc # "idle" /\ UNCHANGED <<local, setBuf, redis, db, commits, listVer,
                                           restarts, acked, tainted>>
      BY <1>5 DEF BaseRead, At, cacheVars
    <2>2. CASE Fail(r)
      BY <2>1, <2>2, FailTyped DEF TypeOK, CacheTypeOK, WellFormed
    <2>3. CASE \E v \in Nat : Goto(r, "local_set", v)
      BY <2>1, <2>3, GotoTyped DEF TypeOK, CacheTypeOK, WellFormed, Steps
    <2>4. Fail(r) \/ \E v \in Nat : Goto(r, "local_set", v)
      <3>1. req[r].op = "get" => db[req[r].key.obj].ver \in Nat
        BY <2>1, InFlightTyped DEF TypeOK
      <3> QED
        BY <1>0, <1>5, <3>1 DEF BaseRead
    <2> QED
      BY <2>2, <2>3, <2>4
  <1>6. CASE LocalDel(r) \/ QueueDel(r)
    <2>1. req[r].pc # "idle" /\ UNCHANGED <<redis, db, commits, listVer,
                                           restarts, acked, tainted>>
      BY <1>6 DEF LocalDel, QueueDel, At
    <2>2. LocalRemove(req[r].inst, req[r].key) \/ QueueDelete(req[r].inst, req[r].key)
      BY <1>6 DEF LocalDel, QueueDel
    <2>3. CacheTypeOK'
      BY <1>0, <2>1, <2>2, InFlightTyped, LocalRemoveFacts DEF CacheTypeOK
    <2>4. \E pc \in Steps, v \in Nat : Goto(r, pc, v)
      BY <1>6, <2>1, InFlightTyped DEF LocalDel, QueueDel, Steps
    <2> QED
      BY <2>1, <2>3, <2>4, GotoTyped DEF TypeOK, WellFormed
  <1>7. CASE RedisDel(r)
    <2>1. /\ req[r].pc = "redis_del" /\ Goto(r, "bump", req[r].val)
          /\ UNCHANGED <<local, setBuf, db, commits, listVer, restarts, acked>>
          /\ RedisRemove(req[r].key) \/ UNCHANGED redis
          /\ tainted' \subseteq tainted \cup {req[r].key.obj}
      BY <1>7 DEF RedisDel, RedisRemoveSkipped, At
    <2>2. CacheTypeOK'
      BY <1>0, <2>1, InFlightTyped, RedisTyped DEF CacheTypeOK
    <2>3. req[r].key.obj \in IDs
      BY <2>1, InFlightTyped DEF PcOK, Mutations
    <2> QED
      BY <2>1, <2>2, <2>3, InFlightTyped, GotoTyped DEF TypeOK, WellFormed, Steps
  <1>8. CASE Bump(r)
    <2>1. /\ req[r].pc # "idle" /\ Goto(r, AfterBump(req[r].op), req[r].val)
          /\ listVer' = [listVer EXCEPT ![req[r].inst] = @ + 1]
          /\ UNCHANGED <<local, setBuf, redis, db, commits, restarts, acked, tainted>>
      BY <1>8 DEF Bump, At, cacheVars
    <2>2. AfterBump(req[r].op) \in Steps /\ listVer' \in [Instances -> Nat]
      BY <2>1, InFlightTyped DEF AfterBump, Steps, TypeOK
    <2> QED
      BY <2>1, <2>2, InFlightTyped, GotoTyped DEF TypeOK, CacheTypeOK, WellFormed
  <1>9. CASE RedisSet(r)
    <2>1. /\ req[r].pc # "idle" /\ Goto(r, "return", req[r].val)
          /\ UNCHANGED <<local, setBuf, db, commits, listVer, restarts, acked, tainted>>
          /\ RedisPut(req[r].key, req[r].val)
      BY <1>9 DEF RedisSet, At
    <2>2. CacheTypeOK'
      BY <1>0, <2>1, InFlightTyped, RedisTyped DEF CacheTypeOK
    <2> QED
      BY <2>1, <2>2, InFlightTyped, GotoTyped DEF TypeOK, WellFormed, Steps
  <1>10. CASE Return(r)
    <2>1. /\ req[r].pc # "idle" /\ Fail(r)
          /\ UNCHANGED <<local, setBuf, redis, db, commits, listVer, restarts, tainted>>
          /\ \/ acked' = [acked EXCEPT ![req[r].inst] = req[r].val]
             \/ acked' = acked
      BY <1>10 DEF Return, At, Fail, cacheVars
    <2>2. acked' \in [Instances -> Nat]
      BY <2>1, InFlightTyped DEF TypeOK
    <2> QED
      BY <2>1, <2>2, FailTyped DEF TypeOK, CacheTypeOK, WellFormed
  <1> QED
    BY <1>1, <1>2, <1>3, <1>4, <1>5, <1>6, <1>7, <1>8, <1>9, <1>10 DEF RequestStep

\* A request moves along the steps of its method.
LEMMA RequestStepPc ==
    ASSUME TypeOK, PcOK, NEW r \in Reqs, RequestStep(r)
    PROVE  PcOK'
  <1>0. TypeOK'
    BY RequestStepTyped
  <1>1. ASSUME Fail(r) PROVE PcOK'
    BY <1>1, FailTyped DEF PcOK, Idle, Mutations
  <1>2. ASSUME req[r].pc # "idle", NEW pc \in Steps, NEW v \in Nat, Goto(r, pc, v),
               req[r].op \in Mutations => pc \notin {"local_get", "redis_get", "warm"},
               req[r].op \notin Mutations =>
                 pc \notin {"local_del", "queue_del", "redis_del", "bump"}
        PROVE  PcOK'
    <2>1. pc # "idle"
      BY DEF Steps
    <2> QED
      BY <1>2, <2>1, GotoFacts DEF PcOK
  <1>3. CASE LocalGet(r)
    <2>1. req[r].pc = "local_get" /\ req[r].op \notin Mutations
      BY <1>3 DEF LocalGet, At, PcOK
    <2>2. \E v \in Nat : Goto(r, "return", v) \/ Goto(r, "redis_get", v)
      BY <1>3, <2>1, InFlightTyped DEF LocalGet, TypeOK, CacheTypeOK, Entry
    <2> QED
      BY <1>2, <2>1, <2>2 DEF Steps
  <1>4. CASE RedisGet(r)
    <2>1. req[r].pc = "redis_get" /\ req[r].op \notin Mutations
      BY <1>4 DEF RedisGet, At, PcOK
    <2>2. \E v \in Nat : Goto(r, "warm", v) \/ Goto(r, "base", v)
      BY <1>4, <2>1 DEF RedisGet, TypeOK, CacheTypeOK, Entry
    <2> QED
      BY <1>2, <2>1, <2>2 DEF Steps
  <1>5. CASE BaseWrite(r)
    <2>1. req[r].pc = "base" /\ req[r].op \in Mutations /\ commits + 1 \in Nat
      BY <1>5 DEF BaseWrite, At, TypeOK
    <2>2. AfterWrite(req[r].op) \in {"bump", "local_del"}
      BY DEF AfterWrite
    <2>3. Fail(r) \/ Goto(r, AfterWrite(req[r].op), commits + 1)
      BY <1>5 DEF BaseWrite
    <2> QED
      BY <1>1, <1>2, <2>1, <2>2, <2>3 DEF Steps
  <1>6. CASE BaseRead(r)
    <2>1. req[r].pc = "base" /\ req[r].op \notin Mutations
      BY <1>6 DEF BaseRead, At, Mutations
    <2>2. Fail(r) \/ \E v \in Nat : Goto(r, "local_set", v)
      <3>1. req[r].op = "get" => db[req[r].key.obj].ver \in Nat
        BY <2>1, InFlightTyped DEF TypeOK
      <3> QED
        BY <1>6, <3>1 DEF BaseRead, TypeOK
    <2> QED
      BY <1>1, <1>2, <2>1, <2>2 DEF Steps
  <1>7. CASE Warm(r) \/ LocalSet(r) \/ RedisSet(r)
    <2>1. req[r].pc # "idle"
      BY <1>7 DEF Warm, LocalSet, RedisSet, At
    <2>2. Goto(r, "return", req[r].val) \/ Goto(r, "redis_set", req[r].val)
      BY <1>7 DEF Warm, LocalSet, RedisSet
    <2> QED
      BY <1>2, <2>1, <2>2, InFlightTyped DEF Steps
  <1>8. CASE LocalDel(r) \/ QueueDel(r) \/ RedisDel(r) \/ Bump(r)
    <2>1. req[r].pc \in {"local_del", "queue_del", "redis_del", "bump"}
      BY <1>8 DEF LocalDel, QueueDel, RedisDel, Bump, At
    <2>2. req[r].op \in Mutations
      BY <2>1 DEF PcOK
    <2>3. \E pc \in {"queue_del", "redis_del", "bump", "return", "local_set"} :
            Goto(r, pc, req[r].val)
      BY <1>8 DEF LocalDel, QueueDel, RedisDel, Bump, AfterBump
    <2> QED
      BY <1>2, <2>1, <2>2, <2>3, InFlightTyped DEF Steps
  <1>9. CASE Return(r)
    BY <1>1, <1>9 DEF Return, Fail
  <1> QED
    BY <1>3, <1>4, <1>5, <1>6, <1>7, <1>8, <1>9 DEF RequestStep

\* The start of a request, of whichever kind.
BeginSome(r, i) ==
    \/ \E id \in IDs : \/ BeginCreate(r, i, id)
                       \/ \E op \in {"update", "delete"} : BeginChange(r, i, op, id)
                       \/ BeginGet(r, i, id)
    \/ \E page \in Pages : BeginList(r, i, page)

LEMMA BeginFacts ==
    ASSUME TypeOK, NEW r \in Reqs, NEW i \in Instances, BeginSome(r, i)
    PROVE  /\ TypeOK' /\ req[r].pc = "idle"
           /\ UNCHANGED <<local, setBuf, redis, commits, listVer, acked>>
           /\ \A s \in Reqs : s # r => req'[s] = req[s]
           /\ req'[r].inst = i /\ req'[r].val = 0
           /\ \/ req'[r].op \in Mutations /\ req'[r].pc = "base" /\ req'[r].floor = 0
              \/ req'[r].op = "get" /\ req'[r].pc = "local_get" /\ req'[r].floor = 0
              \/ /\ req'[r].op = "list" /\ req'[r].pc = "local_get"
                 /\ req'[r].key.ver = listVer[i] /\ req'[r].floor = acked[i]
  <1>1. ASSUME NEW id \in IDs, NEW op \in Mutations \cup {"get"},
               NEW pc \in {"base", "local_get"}, op = "get" <=> pc = "local_get",
               Begin(r, i, op, pc, cacheKeyUser(id), 0), tainted' \subseteq tainted \cup {id}
        PROVE  /\ TypeOK'
               /\ \A s \in Reqs : s # r => req'[s] = req[s]
               /\ req'[r].inst = i /\ req'[r].val = 0 /\ req'[r].floor = 0
               /\ req'[r].op = op /\ req'[r].pc = pc
    <2>1. cacheKeyUser(id) \in Key /\ cacheKeyUser(id).obj \notin Pages
      BY CachedUserServiceAssumption DEF cacheKeyUser, Key, Pages
    <2>2. op # "list" /\ tainted' \subseteq IDs /\ pc \in Steps
      BY <1>1 DEF TypeOK, Mutations, Steps
    <2>3. /\ TypeOK'
          /\ req'[r] = [pc |-> pc, op |-> op, inst |-> i, key |-> cacheKeyUser(id),
                        val |-> 0, floor |-> 0]
          /\ \A s \in Reqs : s # r => req'[s] = req[s]
      BY <1>1, <2>1, <2>2, BeginTyped
    <2> QED
      BY <2>3
  <1>2. /\ req[r].pc = "idle"
        /\ UNCHANGED <<local, setBuf, redis, commits, listVer, acked>>
    BY DEF BeginSome, BeginCreate, BeginChange, BeginGet, BeginList, Begin, cacheVars
  <1>3. ASSUME NEW id \in IDs, BeginCreate(r, i, id)
        PROVE  /\ Begin(r, i, "create", "base", cacheKeyUser(id), 0)
               /\ tainted' \subseteq tainted \cup {id}
    BY <1>3 DEF BeginCreate
  <1>4. ASSUME NEW id \in IDs, NEW op \in {"update", "delete"}, BeginChange(r, i, op, id)
        PROVE  /\ Begin(r, i, op, "base", cacheKeyUser(id), 0)
               /\ tainted' \subseteq tainted \cup {id}
    BY <1>4 DEF BeginChange
  <1>5. ASSUME NEW id \in IDs, BeginGet(r, i, id)
        PROVE  /\ Begin(r, i, "get", "local_get", cacheKeyUser(id), 0)
               /\ tainted' \subseteq tainted \cup {id}
    BY <1>5 DEF BeginGet
  <1>6. CASE \/ \E id \in IDs : BeginCreate(r, i, id)
             \/ \E id \in IDs, op \in {"update", "delete"} : BeginChange(r, i, op, id)
    <2>1. PICK id \in IDs, op \in Mutations :
            /\ Begin(r, i, op, "base", cacheKeyUser(id), 0)
            /\ tainted' \subseteq tainted \cup {id}
      BY <1>3, <1>4, <1>6 DEF Mutations
    <2>2. op # "get"
      BY DEF Mutations
    <2> QED
      BY <1>1, <1>2, <2>1, <2>2
  <1>7. CASE \E id \in IDs : BeginGet(r, i, id)
    BY <1>1, <1>2, <1>5, <1>7
  <1>8. CASE \E page \in Pages : BeginList(r, i, page)
    <2>1. PICK page \in Pages : BeginList(r, i, page)
      BY <1>8
    <2> DEFINE k == cacheKeyList(i, page)
    <2>2. k \in Key /\ k.obj \in Pages /\ k.ver = listVer[i] /\ acked[i] \in Nat
      BY DEF cacheKeyList, Key, Pages, TypeOK
    <2>3. tainted' \subseteq IDs /\ Begin(r, i, "list", "local_get", k, acked[i])
      BY <2>1 DEF BeginList, TypeOK
    <2> HIDE DEF k
    <2>4. "list" \in Mutations \cup {"get", "list"} /\ "local_get" \in Steps
      BY DEF Steps
    <2>5. /\ TypeOK'
          /\ req'[r] = [pc |-> "local_get", op |-> "list", inst |-> i, key |-> k,
                        val |-> 0, floor |-> acked[i]]
          /\ \A s \in Reqs : s # r => req'[s] = req[s]
      BY <2>2, <2>3, <2>4, BeginTyped
    <2> QED
      BY <1>2, <2>2, <2>5
  <1> QED
    BY <1>6, <1>7, <1>8 DEF BeginSome

LEMMA RestartFacts ==
    ASSUME TypeOK, NEW i \in Instances, Restart(i)
    PROVE  /\ TypeOK' /\ UNCHANGED <<redis, commits, acked>> /\ LocalReset(i)
           /\ \A j \in Instances : j # i => listVer'[j] = listVer[j]
           /\ \A s \in Reqs : req'[s] = IF req[s].inst = i THEN Idle ELSE req[s]
  <1>1. Idle \in Request /\ Idle.pc = "idle"
    BY DEF Idle, Request, Steps
  <1>2. /\ LocalReset(i) /\ listVer' = [listVer EXCEPT ![i] = 0]
        /\ req' = [s \in Reqs |-> IF req[s].inst = i THEN Idle ELSE req[s]]
        /\ UNCHANGED <<db, commits, acked>> /\ restarts' = restarts + 1
        /\ tainted' \subseteq tainted \cup IDs
    BY DEF Restart
  <1>3. req' \in [Reqs -> Request]
        /\ \A s \in Reqs : req'[s] = req[s] \/ WellFormed(req'[s])
    BY <1>1, <1>2 DEF TypeOK, WellFormed
  <1>4. CacheTypeOK' /\ redis' = redis
    BY <1>2, CacheStepFacts DEF TypeOK
  <1>5. TypeOK'
    BY <1>2, <1>3, <1>4 DEF TypeOK, WellFormed
  <1> QED
    BY <1>2, <1>4, <1>5 DEF TypeOK

LEMMA CacheOnlyFacts ==
    ASSUME TypeOK, CacheStep
    PROVE  /\ TypeOK' /\ UNCHANGED <<commits, listVer, acked, req>>
           /\ redis' \subseteq redis
           /\ \A j \in Instances, l \in Key, w \in Nat : Near(j, l, w)' => Near(j, l, w)
  <1>1. UNCHANGED <<db, commits, listVer, req, restarts, acked, tainted>>
    BY DEF CacheStep
  <1>2. CASE \E i \in Instances : ApplySetBuf(i) \/ Evict(i)
    BY <1>1, <1>2, CacheStepFacts DEF TypeOK
  <1>3. CASE RedisExpire
    <2>1. redis' \subseteq redis /\ UNCHANGED <<local, setBuf>>
      BY <1>3 DEF RedisExpire
    <2> QED
      BY <1>1, <2>1 DEF TypeOK, CacheTypeOK, Near
  <1> QED
    BY <1>2, <1>3 DEF CacheStep

\* One step of the specification, by kind.
LEMMA NextKinds ==
    ASSUME Next
    PROVE  \/ \E r \in Reqs, i \in Instances : BeginSome(r, i)
           \/ \E r \in Reqs : RequestStep(r)
           \/ CacheStep
           \/ \E i \in Instances : Restart(i)
  BY DEF Next, BeginSome

LEMMA InitShape == Init => TypeOK /\ PcOK
  <1> SUFFICES ASSUME Init PROVE PcOK
    BY InitTypeOK
  <1> QED
    BY DEF Init, PcOK, Idle, Mutations

LEMMA NextShape == TypeOK /\ PcOK /\ [Next]_vars => TypeOK' /\ PcOK'
  <1> SUFFICES ASSUME TypeOK, PcOK, [Next]_vars PROVE TypeOK' /\ PcOK'
    OBVIOUS
  <1>1. CASE UNCHANGED vars
    BY <1>1 DEF vars, TypeOK, CacheTypeOK, PcOK
  <1>2. ASSUME NEW r \in Reqs, RequestStep(r) PROVE TypeOK' /\ PcOK'
    BY <1>2, RequestStepTyped, RequestStepPc
  <1>3. ASSUME NEW r \in Reqs, NEW i \in Instances, BeginSome(r, i)
        PROVE  TypeOK' /\ PcOK'
    BY <1>3, BeginFacts DEF PcOK, Mutations
  <1>4. CASE CacheStep
    BY <1>4, CacheOnlyFacts DEF PcOK
  <1>5. ASSUME NEW i \in Instances, Restart(i) PROVE TypeOK' /\ PcOK'
    BY <1>5, RestartFacts DEF PcOK, Idle, Mutations
  <1> QED
    BY <1>1, <1>2, <1>3, <1>4, <1>5, NextKinds

LEMMA ShapeAlways == Spec => [](TypeOK /\ PcOK)
  BY InitShape, NextShape, PTL DEF Spec

\* Caches, queues, versions and requests are well typed in every reachable
\* state of every configuration, faults and restarts included.
THEOREM TypeCorrect == Spec => []TypeOK
  BY ShapeAlways, PTL
-----------------------------------------------------------------------------
(* Fresh lists *)

\* What a step may do to a request without endangering the lists: nothing,
\* end it, or move it on without passing the bump.
Steady(s) ==
    \/ req'[s] = req[s]
    \/ req'[s] = Idle
    \/ /\ req'[s].op = req[s].op /\ req'[s].inst = req[s].inst
       /\ req'[s].key = req[s].key /\ req'[s].floor = req[s].floor
       /\ req[s].op \in Mutations =>
            /\ req'[s].val <= commits'
            /\ req'[s].pc \in {"local_set", "redis_set", "return"} =>
                 /\ req[s].pc \in {"local_set", "redis_set", "return"}
                 /\ req'[s].val = req[s].val

\* A payload stays fresh while versions and acknowledgements stay put.
LEMMA FreshKept ==
    ASSUME TypeOK, TypeOK', NEW i \in Instances, NEW k \in Key, NEW v \in Nat,
           FreshFor(i, k, v), listVer'[i] = listVer[i], acked' = acked,
           \A s \in Reqs : Steady(s)
    PROVE  FreshFor(i, k, v)'
  <1>0. Idle.op = "none" /\ "none" \notin Mutations
    BY DEF Idle, Mutations
  <1>1. \A s \in Reqs : Bumped(s, i)' => Bumped(s, i) /\ req'[s].val = req[s].val
    BY <1>0 DEF Steady, Bumped
  <1>2. \A s \in Reqs : req'[s].op = "list" /\ req'[s].inst = i /\ req'[s].key = k =>
          /\ req[s].op = "list" /\ req[s].inst = i /\ req[s].key = k
          /\ req'[s].floor = req[s].floor
    BY <1>0 DEF Steady
  <1> QED
    BY <1>1, <1>2 DEF FreshFor

\* A step that moves requests steadily, and after which a process holds only
\* what it held before or what is fresh, preserves the invariant.
LEMMA SteadyPreserves ==
    ASSUME ListInv, TypeOK', PcOK', RedisOff',
           UNCHANGED <<listVer, acked>>, commits' >= commits,
           \A s \in Reqs : Steady(s),
           \A i \in Instances, k \in Key, v \in Nat :
             k.obj \in Pages /\ Held(i, k, v)' => Held(i, k, v) \/ FreshFor(i, k, v)
    PROVE  ListInv'
  <1> USE DEF ListInv
  <1>1. HeldFresh'
    BY FreshKept DEF HeldFresh
  <1>2. Bounded'
    <2>1. commits \in Nat /\ commits' \in Nat /\ acked \in [Instances -> Nat]
          /\ listVer \in [Instances -> Nat]
          /\ \A s \in Reqs : req[s] \in Request /\ req'[s] \in Request
      BY DEF TypeOK
    <2>2. \A i \in Instances : acked'[i] <= commits'
      BY <2>1 DEF Bounded
    <2>3. ASSUME NEW s \in Reqs
          PROVE  /\ req'[s].floor <= commits'
                 /\ req'[s].op \in Mutations => req'[s].val <= commits'
                 /\ req'[s].op = "list" => req'[s].key.ver <= listVer'[req'[s].inst]
      <3>1. CASE req'[s] = Idle
        BY <2>1, <3>1 DEF Idle, Mutations
      <3>2. CASE req'[s] = req[s]
        BY <2>1, <3>2 DEF Bounded, Request
      <3>3. CASE req'[s] # req[s] /\ req'[s] # Idle
        BY <2>1, <3>3 DEF Bounded, Request, Steady
      <3> QED
        BY <3>1, <3>2, <3>3
    <2> QED
      BY <2>2, <2>3 DEF Bounded
  <1> QED
    BY <1>1, <1>2

\* A request that goes on to pc is steady, unless it passes the bump.
LEMMA GotoSteady ==
    ASSUME TypeOK, NEW r \in Reqs, req[r].pc # "idle",
           NEW pc \in Steps, NEW v \in Nat, Goto(r, pc, v),
           req[r].op \in Mutations =>
             /\ v <= commits'
             /\ pc \in {"local_set", "redis_set", "return"} =>
                  /\ req[r].pc \in {"local_set", "redis_set", "return"}
                  /\ v = req[r].val
    PROVE  \A s \in Reqs : Steady(s)
  BY GotoFacts DEF Steady

\* After it, a process holds what it held, or what the request has in hand.
LEMMA GotoHeld ==
    ASSUME TypeOK, NEW r \in Reqs, req[r].pc # "idle",
           NEW pc \in Steps, NEW w \in Nat, Goto(r, pc, w),
           NEW i \in Instances, NEW k \in Key, NEW v \in Nat, Held(i, k, v)'
    PROVE  \/ Near(i, k, v)'
           \/ [key |-> k, val |-> v] \in redis'
           \/ Held(i, k, v)
           \/ /\ req[r].op = "list" /\ req[r].inst = i /\ req[r].key = k /\ w = v
              /\ pc \in {"warm", "local_set", "redis_set", "return"}
  BY GotoFacts DEF Held, HasList

\* The payload in hand of a list is held by its process.
LEMMA InHand ==
    ASSUME NEW r \in Reqs, HasList(r)
    PROVE  Held(req[r].inst, req[r].key, req[r].val)
  BY DEF Held

\* A request about a key of the list is a list.
LEMMA PageIsList ==
    ASSUME TypeOK, NEW r \in Reqs, req[r].pc # "idle", req[r].key.obj \in Pages
    PROVE  req[r].op = "list" /\ req[r].op \notin Mutations
  BY DEF TypeOK, Mutations

LEMMA RequestStepFresh ==
    ASSUME ListInv, ListKeysOwned, NEW r \in Reqs, RequestStep(r),
           ~Bump(r), ~Return(r)
    PROVE  ListInv'
  <1> USE DEF ListInv
  <1>0. TypeOK' /\ PcOK' /\ CacheTypeOK /\ commits \in Nat
    BY RequestStepTyped, RequestStepPc DEF TypeOK
  <1>1. CASE LocalGet(r)
    <2>1. /\ req[r].pc = "local_get" /\ req[r].op \notin Mutations
          /\ UNCHANGED <<local, setBuf, redis, commits, listVer, acked>>
      BY <1>1 DEF LocalGet, At, cacheVars, PcOK
    <2>2. \E v \in Nat : \/ Goto(r, "redis_get", v)
                         \/ /\ Goto(r, "return", v)
                            /\ [key |-> req[r].key, val |-> v] \in local[req[r].inst]
      <3>1. \A e \in local[req[r].inst] : e \in Entry
        BY <1>0, <2>1, InFlightTyped DEF CacheTypeOK
      <3> QED
        BY <1>1, <3>1 DEF LocalGet, Entry
    <2>3. PICK v \in Nat, pc \in {"redis_get", "return"} :
            /\ Goto(r, pc, v)
            /\ pc = "return" => [key |-> req[r].key, val |-> v] \in local[req[r].inst]
      BY <2>2
    <2>4. pc \in Steps
      BY DEF Steps
    <2>5. \A s \in Reqs : Steady(s)
      BY <2>1, <2>3, <2>4, GotoSteady
    <2>6. ASSUME NEW i \in Instances, NEW k \in Key, NEW w \in Nat, Held(i, k, w)'
          PROVE  Held(i, k, w)
      BY <2>1, <2>3, <2>4, <2>6, GotoHeld DEF Held, Near
    <2> QED
      BY <1>0, <2>1, <2>5, <2>6, SteadyPreserves DEF RedisOff
  <1>2. CASE RedisGet(r)
    <2>1. /\ req[r].pc = "redis_get" /\ req[r].op \notin Mutations
          /\ UNCHANGED <<local, setBuf, redis, commits, listVer, acked>>
      BY <1>2 DEF RedisGet, At, cacheVars, PcOK
    <2>2. \E v \in Nat : \/ Goto(r, "base", v)
                         \/ /\ Goto(r, "warm", v)
                            /\ [key |-> req[r].key, val |-> v] \in redis
      <3>1. \A e \in redis : e \in Entry
        BY <1>0 DEF CacheTypeOK
      <3> QED
        BY <1>2, <3>1 DEF RedisGet, Entry
    <2>3. PICK v \in Nat, pc \in {"base", "warm"} :
            /\ Goto(r, pc, v)
            /\ pc = "warm" => [key |-> req[r].key, val |-> v] \in redis
      BY <2>2
    <2>4. pc \in Steps
      BY DEF Steps
    <2>5. \A s \in Reqs : Steady(s)
      BY <2>1, <2>3, <2>4, GotoSteady
    <2>6. ASSUME NEW i \in Instances, NEW k \in Key, NEW w \in Nat, Held(i, k, w)'
          PROVE  Held(i, k, w)
      BY <2>1, <2>3, <2>4, <2>6, GotoHeld DEF Held, Near
    <2> QED
      BY <1>0, <2>1, <2>5, <2>6, SteadyPreserves DEF RedisOff
  <1>3. CASE Warm(r) \/ LocalSet(r)
    <2> DEFINE pc == IF Warm(r) THEN "return" ELSE "redis_set"
               i0 == req[r].inst
               k0 == req[r].key
               v0 == req[r].val
    <2>1. /\ req[r].pc \in {"warm", "local_set"}
          /\ UNCHANGED <<redis, commits, listVer, acked>>
          /\ LocalPut(i0, k0, v0) /\ Goto(r, pc, v0)
      BY <1>3 DEF Warm, LocalSet, At
    <2>2. i0 \in Instances /\ k0 \in Key /\ v0 \in Nat /\ pc \in Steps
      BY <2>1, InFlightTyped DEF Steps
    <2>3. req[r].op \in Mutations => req[r].pc = "local_set" /\ v0 <= commits
      BY <2>1 DEF PcOK, Bounded
    <2>4. \A s \in Reqs : Steady(s)
      BY <2>1, <2>2, <2>3, GotoSteady
    <2>5. ASSUME NEW i \in Instances, NEW k \in Key, NEW v \in Nat, k.obj \in Pages,
                 Held(i, k, v)'
          PROVE  Held(i, k, v)
      <3>1. \/ Near(i, k, v)' \/ [key |-> k, val |-> v] \in redis' \/ Held(i, k, v)
            \/ req[r].op = "list" /\ i0 = i /\ k0 = k /\ v0 = v
        BY <2>1, <2>2, <2>5, GotoHeld
      <3>2. Near(i, k, v)' => Near(i, k, v) \/ (i = i0 /\ k = k0 /\ v = v0)
        BY <1>0, <2>1, <2>2, LocalPutFacts
      <3>3. i = i0 /\ k = k0 /\ v = v0 => Held(i, k, v)
        <4>1. k0.obj \in Pages => HasList(r)
          BY <2>1, PageIsList DEF HasList
        <4> QED
          BY <2>5, <4>1, InHand
      <3> QED
        BY <2>1, <3>1, <3>2, <3>3 DEF Held
    <2> QED
      BY <1>0, <2>1, <2>4, <2>5, SteadyPreserves DEF RedisOff
  <1>4. CASE BaseWrite(r)
    <2>1. /\ req[r].pc = "base" /\ req[r].op \in Mutations
          /\ UNCHANGED <<local, setBuf, redis, listVer, acked>>
      BY <1>4 DEF BaseWrite, At, cacheVars
    <2>2. commits' \in {commits, commits + 1}
      BY <1>4 DEF BaseWrite, Commit
    <2>3. CASE Fail(r)
      <3>1. \A s \in Reqs : Steady(s)
        BY <2>3, FailTyped DEF Steady
      <3>2. ASSUME NEW i \in Instances, NEW k \in Key, NEW v \in Nat, Held(i, k, v)'
            PROVE  Held(i, k, v)
        BY <2>1, <2>3, <3>2, FailTyped DEF Held, Near, HasList, Idle
      <3> QED
        BY <1>0, <2>1, <2>2, <3>1, <3>2, SteadyPreserves DEF RedisOff
    <2>4. CASE Commit(r) /\ Goto(r, AfterWrite(req[r].op), commits + 1)
      <3>1. PICK pc \in {"bump", "local_del"} : Goto(r, pc, commits + 1)
        BY <2>4 DEF AfterWrite
      <3>2. pc \in Steps /\ commits' = commits + 1 /\ commits + 1 \in Nat
        BY <1>0, <2>4 DEF Steps, Commit
      <3>3. \A s \in Reqs : Steady(s)
        BY <1>0, <2>1, <3>1, <3>2, GotoSteady
      <3>4. ASSUME NEW i \in Instances, NEW k \in Key, NEW v \in Nat, Held(i, k, v)'
            PROVE  Held(i, k, v)
        BY <2>1, <3>1, <3>2, <3>4, GotoHeld DEF Held, Near
      <3> QED
        BY <1>0, <2>1, <3>2, <3>3, <3>4, SteadyPreserves DEF RedisOff
    <2> QED
      BY <1>4, <2>3, <2>4 DEF BaseWrite
  <1>5. CASE BaseRead(r)
    <2>1. /\ req[r].pc = "base" /\ req[r].op \notin Mutations
          /\ UNCHANGED <<local, setBuf, redis, commits, listVer, acked>>
      BY <1>5 DEF BaseRead, At, cacheVars, Mutations
    <2>2. CASE Fail(r)
      <3>1. \A s \in Reqs : Steady(s)
        BY <2>2, FailTyped DEF Steady
      <3>2. ASSUME NEW i \in Instances, NEW k \in Key, NEW v \in Nat, Held(i, k, v)'
            PROVE  Held(i, k, v)
        BY <2>1, <2>2, <3>2, FailTyped DEF Held, Near, HasList, Idle
      <3> QED
        BY <1>0, <2>1, <3>1, <3>2, SteadyPreserves DEF RedisOff
    <2>3. ASSUME NEW w \in Nat, Goto(r, "local_set", w), req[r].op = "list" => w = commits
          PROVE  ListInv'
      <3>1. "local_set" \in Steps
        BY DEF Steps
      <3>2. \A s \in Reqs : Steady(s)
        BY <2>1, <2>3, <3>1, GotoSteady
      <3>3. ASSUME NEW i \in Instances, NEW k \in Key, NEW v \in Nat, k.obj \in Pages,
                   Held(i, k, v)'
            PROVE  Held(i, k, v) \/ FreshFor(i, k, v)
        <4>1. \/ Held(i, k, v)
              \/ req[r].op = "list" /\ req[r].inst = i /\ req[r].key = k /\ w = v
          BY <2>1, <2>3, <3>1, <3>3, GotoHeld DEF Held, Near
        <4>2. ASSUME req[r].op = "list", req[r].inst = i, req[r].key = k, v = commits
              PROVE  FreshFor(i, k, v)
          BY <4>2 DEF FreshFor, Bounded, Bumped, TypeOK, Request
        <4> QED
          BY <2>3, <4>1, <4>2
      <3> QED
        BY <1>0, <2>1, <3>2, <3>3, SteadyPreserves DEF RedisOff
    <2>4. \/ Fail(r)
          \/ \E w \in Nat : Goto(r, "local_set", w) /\ (req[r].op = "list" => w = commits)
      <3>1. req[r].op = "get" => db[req[r].key.obj].ver \in Nat
        BY <2>1, InFlightTyped DEF TypeOK
      <3> QED
        BY <1>0, <1>5, <3>1 DEF BaseRead
    <2> QED
      BY <2>2, <2>3, <2>4
  <1>6. CASE LocalDel(r) \/ QueueDel(r) \/ RedisDel(r)
    <2>1. /\ req[r].pc \in {"local_del", "queue_del", "redis_del"}
          /\ UNCHANGED <<commits, listVer, acked>>
          /\ \E pc \in {"queue_del", "redis_del", "bump"} : Goto(r, pc, req[r].val)
      BY <1>6 DEF LocalDel, QueueDel, RedisDel, At
    <2>2. PICK pc \in {"queue_del", "redis_del", "bump"} : Goto(r, pc, req[r].val)
      BY <2>1
    <2>3. /\ pc \in Steps /\ req[r].val \in Nat /\ req[r].inst \in Instances
          /\ req[r].key \in Key
      BY <2>1, InFlightTyped DEF Steps
    <2>4. redis' \subseteq redis
          /\ \A j \in Instances, l \in Key, w \in Nat : Near(j, l, w)' => Near(j, l, w)
      <3>1. CASE LocalDel(r) \/ QueueDel(r)
        BY <1>0, <2>3, <3>1, LocalRemoveFacts DEF LocalDel, QueueDel
      <3>2. CASE RedisDel(r)
        BY <3>2 DEF RedisDel, RedisRemove, RedisRemoveSkipped, Without, Near
      <3> QED
        BY <1>6, <3>1, <3>2
    <2>5. \A s \in Reqs : Steady(s)
      BY <2>1, <2>2, <2>3, GotoSteady DEF Bounded
    <2>6. ASSUME NEW i \in Instances, NEW k \in Key, NEW v \in Nat, Held(i, k, v)'
          PROVE  Held(i, k, v)
      BY <2>1, <2>2, <2>3, <2>4, <2>6, GotoHeld DEF Held
    <2> QED
      BY <1>0, <2>1, <2>4, <2>5, <2>6, SteadyPreserves DEF RedisOff
  <1>7. CASE RedisSet(r)
    <2> DEFINE i0 == req[r].inst
               k0 == req[r].key
               v0 == req[r].val
    <2>1. /\ req[r].pc = "redis_set" /\ UNCHANGED <<local, setBuf, commits, listVer, acked>>
          /\ RedisPut(k0, v0) /\ Goto(r, "return", v0)
      BY <1>7 DEF RedisSet, At
    <2>2. i0 \in Instances /\ k0 \in Key /\ v0 \in Nat /\ "return" \in Steps
      BY <2>1, InFlightTyped DEF Steps
    <2>3. \A s \in Reqs : Steady(s)
      BY <2>1, <2>2, GotoSteady DEF Bounded
    <2>4. \/ redis' = redis
          \/ RedisOn /\ redis' \subseteq redis \cup {[key |-> k0, val |-> v0]}
      BY <2>1 DEF RedisPut, With, Without
    <2>5. ASSUME NEW i \in Instances, NEW k \in Key, NEW v \in Nat, k.obj \in Pages,
                 Held(i, k, v)'
          PROVE  Held(i, k, v)
      <3>1. \/ Near(i, k, v)' \/ [key |-> k, val |-> v] \in redis' \/ Held(i, k, v)
            \/ req[r].op = "list" /\ i0 = i /\ k0 = k /\ v0 = v
        BY <2>1, <2>2, <2>5, GotoHeld
      <3>2. Near(i, k, v)' => Near(i, k, v)
        BY <2>1 DEF Near
      <3>3. RedisOn => i = i0
        BY <2>2 DEF ListKeysOwned
      <3>4. i = i0 /\ k = k0 /\ v = v0 => Held(i, k, v)
        <4>1. k0.obj \in Pages => HasList(r)
          BY <2>1, PageIsList DEF HasList
        <4> QED
          BY <2>5, <4>1, InHand
      <3> QED
        BY <2>4, <3>1, <3>2, <3>3, <3>4 DEF Held
    <2> QED
      BY <1>0, <2>1, <2>3, <2>4, <2>5, SteadyPreserves DEF RedisOff
  <1> QED
    BY <1>1, <1>2, <1>3, <1>4, <1>5, <1>6, <1>7 DEF RequestStep

\* No payload is under the version that a bump begins.
LEMMA BumpFresh ==
    ASSUME ListInv, NEW r \in Reqs, RequestStep(r), Bump(r)
    PROVE  ListInv'
  <1> USE DEF ListInv
  <1> DEFINE i0 == req[r].inst
             pc == AfterBump(req[r].op)
  <1>1. /\ req[r].pc = "bump" /\ Goto(r, pc, req[r].val)
        /\ listVer' = [listVer EXCEPT ![i0] = @ + 1]
        /\ UNCHANGED <<local, setBuf, redis, commits, acked>>
    BY DEF Bump, At, cacheVars
  <1>2. TypeOK' /\ PcOK' /\ RedisOff'
    BY <1>1, RequestStepTyped, RequestStepPc DEF RedisOff
  <1>3. req[r].op \in Mutations /\ req[r].op # "list"
    BY <1>1 DEF PcOK, Mutations
  <1>4. i0 \in Instances /\ pc \in {"return", "local_set"} /\ pc \in Steps
        /\ req[r].val \in Nat
    BY <1>1, InFlightTyped DEF AfterBump, Steps
  <1> HIDE DEF pc
  <1>5. /\ req'[r].op = req[r].op /\ req'[r].inst = i0 /\ req'[r].val = req[r].val
        /\ req'[r].floor = req[r].floor
        /\ \A s \in Reqs : s # r => req'[s] = req[s]
    BY <1>1, <1>4, GotoFacts
  <1>6. /\ \A i \in Instances : listVer[i] \in Nat
        /\ listVer'[i0] = listVer[i0] + 1
        /\ \A i \in Instances : i # i0 => listVer'[i] = listVer[i]
    BY <1>1, <1>4 DEF TypeOK
  <1>7. HeldFresh'
    <2> SUFFICES ASSUME NEW i \in Instances, NEW k \in Key, NEW v \in Nat,
                        k.obj \in Pages, Held(i, k, v)'
                 PROVE  FreshFor(i, k, v)'
      BY DEF HeldFresh
    <2>1. Held(i, k, v)
      BY <1>1, <1>3, <1>4, GotoHeld DEF Held, Near
    <2>2. FreshFor(i, k, v)
      BY <2>1 DEF HeldFresh
    <2>3. k.ver \in Nat
      BY DEF Key
    <2>4. k.ver <= listVer'[i]
      BY <1>6, <2>2, <2>3 DEF FreshFor
    <2>5. k.ver = listVer'[i] => i # i0 /\ k.ver = listVer[i]
      BY <1>6, <2>2, <2>3 DEF FreshFor
    <2>6. \A s \in Reqs : i # i0 /\ Bumped(s, i)' => Bumped(s, i) /\ req'[s].val = req[s].val
      BY <1>5 DEF Bumped
    <2>7. \A s \in Reqs : req'[s].op = "list" => req'[s] = req[s]
      BY <1>3, <1>5
    <2> QED
      BY <1>1, <2>2, <2>4, <2>5, <2>6, <2>7 DEF FreshFor
  <1>8. Bounded'
    <2>1. \A s \in Reqs : req'[s].op = "list" =>
            req'[s] = req[s] /\ (req[s].pc # "idle" => req[s].inst \in Instances)
      BY <1>3, <1>5, InFlightTyped
    <2>2. \A s \in Reqs : req[s].op = "list" =>
            req[s].pc # "idle" /\ req[s].inst \in Instances /\ req[s].key.ver \in Nat
      BY InFlightTyped DEF PcOK, Idle, Key
    <2> QED
      BY <1>1, <1>3, <1>4, <1>5, <1>6, <2>1, <2>2 DEF Bounded
  <1> QED
    BY <1>2, <1>7, <1>8

\* A mutation is acknowledged after its bump, when every payload under the
\* current version shows it.
LEMMA ReturnFresh ==
    ASSUME ListInv, NEW r \in Reqs, RequestStep(r), Return(r)
    PROVE  ListInv'
  <1> USE DEF ListInv
  <1> DEFINE i0 == req[r].inst
  <1>1. /\ req[r].pc = "return" /\ Fail(r)
        /\ UNCHANGED <<local, setBuf, redis, commits, listVer>>
        /\ \/ /\ acked' = [acked EXCEPT ![i0] = req[r].val]
              /\ req[r].op \in Mutations
           \/ acked' = acked
    BY DEF Return, At, Fail, cacheVars
  <1>2. TypeOK' /\ PcOK' /\ RedisOff'
    BY <1>1, RequestStepTyped, RequestStepPc DEF RedisOff
  <1>3. req'[r] = Idle /\ \A s \in Reqs : s # r => req'[s] = req[s]
    BY <1>1, FailTyped
  <1>4. Idle.op = "none" /\ Idle.pc = "idle" /\ Idle.floor = 0 /\ "none" \notin Mutations
    BY DEF Idle, Mutations
  <1>5. i0 \in Instances /\ req[r].val \in Nat
    BY <1>1, InFlightTyped
  <1>6. \A i \in Instances :
          acked'[i] = acked[i] \/ (Bumped(r, i) /\ acked'[i] = req[r].val)
    BY <1>1, <1>5 DEF TypeOK, Bumped
  <1>7. HeldFresh'
    <2> SUFFICES ASSUME NEW i \in Instances, NEW k \in Key, NEW v \in Nat,
                        k.obj \in Pages, Held(i, k, v)'
                 PROVE  FreshFor(i, k, v)'
      BY DEF HeldFresh
    <2>1. Held(i, k, v)
      BY <1>1, <1>3, <1>4 DEF Held, Near, HasList
    <2>2. FreshFor(i, k, v)
      BY <2>1 DEF HeldFresh
    <2>3. \A s \in Reqs : Bumped(s, i)' => Bumped(s, i) /\ req'[s] = req[s]
      BY <1>3, <1>4 DEF Bumped
    <2>4. \A s \in Reqs : req'[s].op = "list" => req'[s] = req[s]
      BY <1>3, <1>4
    <2> QED
      BY <1>1, <1>6, <2>2, <2>3, <2>4 DEF FreshFor
  <1>8. Bounded'
    BY <1>1, <1>3, <1>4, <1>5, <1>6 DEF Bounded, Bumped, TypeOK
  <1> QED
    BY <1>2, <1>7, <1>8

\* A list begins with a key whose payloads show all that is acknowledged.
LEMMA BeginFresh ==
    ASSUME ListInv, NEW r \in Reqs, NEW i0 \in Instances, BeginSome(r, i0), PcOK'
    PROVE  ListInv'
  <1> USE DEF ListInv
  <1>1. /\ TypeOK' /\ req[r].pc = "idle"
        /\ UNCHANGED <<local, setBuf, redis, commits, listVer, acked>>
        /\ \A s \in Reqs : s # r => req'[s] = req[s]
        /\ req'[r].inst = i0 /\ req'[r].val = 0
        /\ \/ req'[r].op \in Mutations /\ req'[r].pc = "base" /\ req'[r].floor = 0
           \/ req'[r].op = "get" /\ req'[r].pc = "local_get" /\ req'[r].floor = 0
           \/ /\ req'[r].op = "list" /\ req'[r].pc = "local_get"
              /\ req'[r].key.ver = listVer[i0] /\ req'[r].floor = acked[i0]
    BY BeginFacts
  <1>2. "list" \notin Mutations /\ "get" \notin Mutations
    BY DEF Mutations
  <1>3. HeldFresh'
    <2> SUFFICES ASSUME NEW i \in Instances, NEW k \in Key, NEW v \in Nat,
                        k.obj \in Pages, Held(i, k, v)'
                 PROVE  FreshFor(i, k, v)'
      BY DEF HeldFresh
    <2>1. Held(i, k, v)
      BY <1>1 DEF Held, Near, HasList
    <2>2. FreshFor(i, k, v)
      BY <2>1 DEF HeldFresh
    <2>3. \A s \in Reqs : Bumped(s, i)' => Bumped(s, i) /\ req'[s] = req[s]
      BY <1>1, <1>2 DEF Bumped
    <2>4. ASSUME NEW s \in Reqs, req'[s].op = "list", req'[s].inst = i, req'[s].key = k
          PROVE  v >= req'[s].floor
      <3>1. CASE s # r
        BY <1>1, <2>2, <2>4, <3>1 DEF FreshFor
      <3>2. CASE s = r
        BY <1>1, <1>2, <2>2, <2>4, <3>2 DEF FreshFor
      <3> QED
        BY <3>1, <3>2
    <2> QED
      BY <1>1, <2>2, <2>3, <2>4 DEF FreshFor
  <1>4. Bounded'
    <2>1. commits \in Nat /\ \A i \in Instances : listVer[i] \in Nat
      BY DEF TypeOK
    <2> QED
      BY <1>1, <1>2, <2>1 DEF Bounded
  <1> QED
    BY <1>1, <1>3, <1>4 DEF RedisOff

\* A restart empties the process; without Redis nothing old comes back.
LEMMA RestartFresh ==
    ASSUME ListInv, ListKeysOwned, NEW i0 \in Instances, Restart(i0), PcOK'
    PROVE  ListInv'
  <1> USE DEF ListInv
  <1>1. ~RedisOn
    BY DEF Restart, ListKeysOwned, TypeOK
  <1>2. /\ TypeOK' /\ UNCHANGED <<redis, commits, acked>> /\ LocalReset(i0)
        /\ \A j \in Instances : j # i0 => listVer'[j] = listVer[j]
        /\ \A s \in Reqs : req'[s] = IF req[s].inst = i0 THEN Idle ELSE req[s]
    BY RestartFacts
  <1>3. redis' = {} /\ RedisOff'
    BY <1>1, <1>2 DEF RedisOff
  <1>4. Idle.op = "none" /\ Idle.pc = "idle" /\ Idle.floor = 0 /\ Idle.inst = Nil
        /\ "none" \notin Mutations
    BY DEF Idle, Mutations
  <1>5. \A s \in Reqs : Steady(s)
    BY <1>2 DEF Steady
  <1>6. HeldFresh'
    <2> SUFFICES ASSUME NEW i \in Instances, NEW k \in Key, NEW v \in Nat,
                        k.obj \in Pages, Held(i, k, v)'
                 PROVE  FreshFor(i, k, v)'
      BY DEF HeldFresh
    <2>1. Near(i, k, v)' => i # i0 /\ Near(i, k, v)
      BY <1>2 DEF LocalReset, Near, TypeOK, CacheTypeOK
    <2>2. ASSUME NEW s \in Reqs, HasList(s)', req'[s].inst = i
          PROVE  i # i0 /\ req'[s] = req[s]
      BY <1>2, <1>4, <2>2 DEF HasList
    <2>3. i # i0 /\ Held(i, k, v)
      BY <1>3, <2>1, <2>2 DEF Held, HasList
    <2>4. FreshFor(i, k, v) /\ listVer'[i] = listVer[i]
      BY <1>2, <2>3 DEF HeldFresh
    <2> QED
      BY <1>2, <1>5, <2>4, FreshKept
  <1>7. Bounded'
    <2>1. \A s \in Reqs : req[s].op = "list" =>
            req[s].pc # "idle" /\ req[s].inst \in Instances
      BY InFlightTyped DEF PcOK, Idle
    <2> QED
      BY <1>2, <1>4, <2>1 DEF Bounded, TypeOK
  <1> QED
    BY <1>2, <1>3, <1>6, <1>7

LEMMA InitListInv == Init => ListInv
  <1> SUFFICES ASSUME Init PROVE ListInv
    OBVIOUS
  <1>1. TypeOK /\ PcOK
    BY InitShape
  <1>2. /\ redis = {} /\ \A i \in Instances : local[i] = {} /\ setBuf[i] = <<>>
        /\ \A i \in Instances : acked[i] = 0
        /\ \A r \in Reqs : req[r].op = "none" /\ req[r].floor = 0
        /\ commits = 0 /\ "none" \notin Mutations
    BY DEF Init, CacheInit, Idle, Mutations
  <1>3. HeldFresh
    BY <1>2 DEF HeldFresh, Held, Near, HasList
  <1> QED
    BY <1>1, <1>2, <1>3 DEF ListInv, RedisOff, Bounded

LEMMA NextListInv ==
    ASSUME ListKeysOwned
    PROVE  ListInv /\ [Next]_vars => ListInv'
  <1> SUFFICES ASSUME ListInv, [Next]_vars PROVE ListInv'
    OBVIOUS
  <1>0. TypeOK' /\ PcOK'
    BY NextShape DEF ListInv
  <1>1. CASE UNCHANGED vars
    BY <1>1 DEF vars, ListInv, TypeOK, CacheTypeOK, PcOK, RedisOff, HeldFresh, Held, Near,
                HasList, FreshFor, Bumped, Bounded
  <1>2. ASSUME NEW r \in Reqs, RequestStep(r) PROVE ListInv'
    BY <1>2, RequestStepFresh, BumpFresh, ReturnFresh
  <1>3. ASSUME NEW r \in Reqs, NEW i \in Instances, BeginSome(r, i) PROVE ListInv'
    BY <1>0, <1>3, BeginFresh
  <1>4. CASE CacheStep
    <2>1. /\ UNCHANGED <<commits, listVer, acked, req>> /\ redis' \subseteq redis
          /\ \A j \in Instances, l \in Key, w \in Nat : Near(j, l, w)' => Near(j, l, w)
      BY <1>4, CacheOnlyFacts DEF ListInv
    <2>2. \A s \in Reqs : Steady(s)
      BY <2>1 DEF Steady
    <2>3. \A i \in Instances, k \in Key, v \in Nat : Held(i, k, v)' => Held(i, k, v)
      BY <2>1 DEF Held, HasList
    <2>4. RedisOff' /\ commits' >= commits
      BY <2>1 DEF ListInv, RedisOff, TypeOK
    <2> QED
      BY <1>0, <2>1, <2>2, <2>3, <2>4, SteadyPreserves
  <1>5. ASSUME NEW i \in Instances, Restart(i) PROVE ListInv'
    BY <1>0, <1>5, RestartFresh
  <1> QED
    BY <1>1, <1>2, <1>3, <1>4, <1>5, NextKinds

\* Without Redis, or with it and one process that never restarts, a list
\* shows every mutation its process acknowledged before the list began: for
\* any number of requests, users, pages and commits, any order of evictions,
\* queue processing and expiry, with database and Redis faults and, without
\* Redis, with any number of processes and restarts.
THEOREM ListsAreFresh ==
    ASSUME ListKeysOwned
    PROVE  Spec => []ListFresh
  <1>1. ListInv => ListFresh
    <2> SUFFICES ASSUME ListInv, NEW r \in Reqs, HasList(r)
                 PROVE  req[r].val >= req[r].floor
      BY DEF ListFresh
    <2>1. /\ req[r].pc # "idle" /\ req[r].op = "list"
          /\ Held(req[r].inst, req[r].key, req[r].val)
      BY InHand DEF HasList
    <2>2. /\ req[r].inst \in Instances /\ req[r].key \in Key /\ req[r].val \in Nat
          /\ req[r].key.obj \in Pages
      BY <2>1, InFlightTyped DEF ListInv, TypeOK
    <2> QED
      BY <2>1, <2>2 DEF ListInv, HeldFresh, FreshFor
  <1>2. Init => ListInv
    BY InitListInv
  <1>3. ListInv /\ [Next]_vars => ListInv'
    BY NextListInv
  <1> QED
    BY <1>1, <1>2, <1>3, PTL DEF Spec
=============================================================================
