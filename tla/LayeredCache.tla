---------------------------- MODULE LayeredCache ----------------------------
(***************************************************************************)
(* cache.Layered (internal/cache/cache.go): a ristretto cache in every     *)
(* server process in front of a Redis that the processes share, or of none *)
(* when main() could not reach one.  The methods are sequences of calls    *)
(* that other goroutines interleave with, so each call is an operator of   *)
(* its own here; CachedUserService strings them together.                  *)
(*                                                                         *)
(* Ristretto and Redis are external, modelled from how the code uses them. *)
(* Ristretto's Set changes a present entry at once but queues a new one    *)
(* (and drops it when the queue is full); Del removes the entry at once    *)
(* and then queues a delete, waiting for room; one goroutine works through *)
(* the queue.  Admission and eviction are up to its policy.                *)
(***************************************************************************)
EXTENDS Naturals, Sequences

CONSTANTS
    Instances,      \* server processes
    Objects,        \* what a payload is about: a user or a page of the list
    RedisOn,        \* whether there is a Redis: l.redis # nil
    RedisFaults,    \* whether Redis calls may fail
    BufCap          \* ristretto's set buffer, 32 * 1024 items in reality

ASSUME LayeredCacheAssumption ==
    /\ RedisOn \in BOOLEAN /\ RedisFaults \in BOOLEAN
    /\ BufCap \in Nat \ {0}

VARIABLES
    local,          \* local[i]: the entries of ristretto in process i
    setBuf,         \* setBuf[i]: its queue
    redis           \* the entries of Redis

cacheVars == <<local, setBuf, redis>>

\* ver is the version number in the key of a list, 0 in the key of a user.
Key == [obj : Objects, ver : Nat]

\* A payload is told apart by the number of the commit it was read at.
Entry == [key : Key, val : Nat]

\* What waits in the queue: the entry to add, or a key (val 0) to delete.
Item == [op : {"new", "del"}, key : Key, val : Nat]

CacheTypeOK ==
    /\ local \in [Instances -> SUBSET Entry]
    /\ setBuf \in [Instances -> Seq(Item)]
    /\ redis \in SUBSET Entry

CacheInit ==
    /\ local = [i \in Instances |-> {}]
    /\ setBuf = [i \in Instances |-> <<>>]
    /\ redis = {}

Has(entries, k) == \E e \in entries : e.key = k

Without(entries, k) == {e \in entries : e.key # k}

With(entries, k, v) == Without(entries, k) \cup {[key |-> k, val |-> v]}
-----------------------------------------------------------------------------
(* Ristretto *)

\* local.Set(key, val, len(val))
LocalPut(i, k, v) ==
    \/ /\ Has(local[i], k)
       /\ local' = [local EXCEPT ![i] = With(@, k, v)]
       /\ UNCHANGED setBuf
    \/ /\ ~Has(local[i], k) /\ Len(setBuf[i]) < BufCap
       /\ setBuf' = [setBuf EXCEPT ![i] =
                       Append(@, [op |-> "new", key |-> k, val |-> v])]
       /\ UNCHANGED local
    \/ /\ ~Has(local[i], k) /\ Len(setBuf[i]) = BufCap
       /\ UNCHANGED <<local, setBuf>>

\* local.Del(key), first half: the entry goes.
LocalRemove(i, k) ==
    /\ local' = [local EXCEPT ![i] = Without(@, k)]
    /\ UNCHANGED setBuf

\* local.Del(key), second half: waits for room and queues the delete.
QueueDelete(i, k) ==
    /\ Len(setBuf[i]) < BufCap
    /\ setBuf' = [setBuf EXCEPT ![i] =
                    Append(@, [op |-> "del", key |-> k, val |-> 0])]
    /\ UNCHANGED local

\* Ristretto's goroutine takes the next item: it adds a new entry unless the
\* key is there or the policy refuses it, and removes a deleted one.
ApplySetBuf(i) ==
    /\ setBuf[i] # <<>>
    /\ LET item == Head(setBuf[i]) IN
         \/ /\ item.op = "del"
            /\ local' = [local EXCEPT ![i] = Without(@, item.key)]
         \/ /\ item.op = "new" /\ ~Has(local[i], item.key)
            /\ local' = [local EXCEPT ![i] = With(@, item.key, item.val)]
         \/ /\ item.op = "new"
            /\ UNCHANGED local
    /\ setBuf' = [setBuf EXCEPT ![i] = Tail(@)]
    /\ UNCHANGED redis

Evict(i) ==
    /\ \E e \in local[i] : local' = [local EXCEPT ![i] = @ \ {e}]
    /\ UNCHANGED <<setBuf, redis>>

\* The process ends and starts again; what it held in memory is gone.
LocalReset(i) ==
    /\ local' = [local EXCEPT ![i] = {}]
    /\ setBuf' = [setBuf EXCEPT ![i] = <<>>]
    /\ UNCHANGED redis
-----------------------------------------------------------------------------
(* Redis.  An error is ignored by Set and Delete and is a miss to Get. *)

\* redis.Set(ctx, key, val, ttl)
RedisPut(k, v) ==
    \/ RedisOn /\ redis' = With(redis, k, v)
    \/ (~RedisOn \/ RedisFaults) /\ UNCHANGED redis

\* redis.Del(ctx, key), when it succeeds
RedisRemove(k) ==
    /\ RedisOn
    /\ redis' = Without(redis, k)

\* redis.Del(ctx, key), when there is no Redis or its error is ignored
RedisRemoveSkipped == UNCHANGED redis /\ (RedisOn => RedisFaults)

\* An entry outlives ttl, or Redis evicts it.
RedisExpire ==
    /\ \E e \in redis : redis' = redis \ {e}
    /\ UNCHANGED <<local, setBuf>>
=============================================================================
