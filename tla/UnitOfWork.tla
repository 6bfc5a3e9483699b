----------------------------- MODULE UnitOfWork -----------------------------
(***************************************************************************)
(* userService.WithTx (internal/core/usersvc.go) over userTxRepo and       *)
(* txUserRepo (internal/storage/postgres/user_repo.go).  The function a    *)
(* caller passes in is any sequence of statements; it may go on after an   *)
(* error, finish the transaction itself, return an error or panic.         *)
(* Postgres (read committed, row locks) and database/sql (the pool, the    *)
(* goroutine that rolls back when the context is done) are external.       *)
(***************************************************************************)
EXTENDS PostgresRepo, FiniteSets

CONSTANTS
    Units,      \* calls of WithTx
    Rows,       \* the users that statements name
    OtherRows,  \* bound: the rows that other requests write
    Pools,      \* numbers of connections, 25 in db.go
    Backends    \* subset of {"memory", "postgres"}

VARIABLES
    backend,
    pool,
    users,      \* the committed table
    pc,         \* where a call of WithTx is
    tx,         \* its transaction: "none", "open", "failed" (the server refuses
                \* further statements) or "done"
    pend,       \* the rows it has written and not committed
    stmt,       \* the statement under way, or Nil
    dead,       \* whether its context is done
    fate,       \* history: "open", "committed", "undone"
    answer      \* what WithTx returned

db == <<users, fate>>
locals == <<pc, tx, pend, stmt, dead, answer>>
vars == <<backend, pool, db, locals>>

Statement == [op : {"create", "get", "update", "delete"}, row : Rows]

ASSUME UnitsAssumption ==
    /\ IsFiniteSet(Units)
    /\ OtherRows \subseteq User /\ Rows \subseteq User
    /\ Pools \subseteq Nat \ {0}
    /\ Backends \subseteq {"memory", "postgres"}
    /\ Nil \notin Statement

Active(u) == tx[u] \in {"open", "failed"}

\* A connection is in use from BeginTx to the end of the transaction.
InUse == {u \in Units : Active(u)}

TypeOK ==
    /\ backend \in Backends /\ pool \in Pools
    /\ users \in [IDs -> User \cup {Nil}]
    /\ pc \in [Units -> {"idle", "begin", "fn", "stmt", "commit", "rollback", "over"}]
    /\ tx \in [Units -> {"none", "open", "failed", "done"}]
    /\ pend \in [Units -> [IDs -> User \cup {Nil}]]
    /\ stmt \in [Units -> Statement \cup {Nil}]
    /\ \A u \in Units : stmt[u] # Nil <=> pc[u] = "stmt"
    /\ dead \in [Units -> BOOLEAN]
    /\ fate \in [Units -> {"open", "committed", "undone"}]
    /\ answer \in [Units -> {"none", "nil", "error", "panic"}]

Init ==
    /\ backend \in Backends
    /\ pool \in Pools
    /\ users = [id \in IDs |-> Nil]
    /\ pc = [u \in Units |-> "idle"]
    /\ tx = [u \in Units |-> "none"]
    /\ pend = [u \in Units |-> [id \in IDs |-> Nil]]
    /\ stmt = [u \in Units |-> Nil]
    /\ dead = [u \in Units |-> FALSE]
    /\ fate = [u \in Units |-> "open"]
    /\ answer = [u \in Units |-> "none"]

-----------------------------------------------------------------------------
\* A unit sees the committed rows, and its own.
View(u) == [id \in IDs |-> IF pend[u][id] # Nil THEN pend[u][id] ELSE users[id]]

\* external: the row, or the entry of its email in the UNIQUE index, was
\* touched by a transaction that is not decided yet.
Locks(v, row) ==
    \E id \in IDs :
        /\ pend[v][id] # Nil
        /\ \/ id = row.id
           \/ pend[v][id].email = row.email
           \/ users[id] # Nil /\ users[id].email = row.email

WaitsFor(u, v) ==
    u # v /\ pc[u] = "stmt" /\ stmt[u].op # "get" /\ Locks(v, stmt[u].row)

\* The transaction ends: the server drops it or makes its rows the committed
\* ones, and its connection goes back to the pool.
EndTx(u, applied) ==
    /\ tx' = [tx EXCEPT ![u] = "done"]
    /\ pend' = [pend EXCEPT ![u] = [id \in IDs |-> Nil]]
    /\ users' = IF applied THEN View(u) ELSE users
    /\ fate' = [fate EXCEPT ![u] = IF applied THEN "committed" ELSE "undone"]

\* Mutant: the transaction is begun with a context of its own.
CancelledNever(u) == FALSE

\* The context that WithTx passes on to the database is the caller's.
Cancelled(u) == dead[u]

\* WithTx returns without having had a transaction.
Refuse(u) ==
    /\ pc' = [pc EXCEPT ![u] = "over"]
    /\ answer' = [answer EXCEPT ![u] = "error"]
    /\ fate' = [fate EXCEPT ![u] = "undone"]
    /\ UNCHANGED <<backend, pool, users, tx, pend, stmt, dead>>

\* WithTx: the in-memory store is no TxStarter.
WithTx(u) ==
    /\ pc[u] = "idle"
    /\ \/ backend = "memory" /\ Refuse(u)
       \/ /\ backend = "postgres"
          /\ pc' = [pc EXCEPT ![u] = "begin"]
          /\ UNCHANGED <<backend, pool, db, tx, pend, stmt, dead, answer>>

\* UserRepo.BeginTx: waits for a connection until the context is done.
BeginTx(u) ==
    /\ pc[u] = "begin"
    /\ \/ (Cancelled(u) \/ DBFaults) /\ Refuse(u)
       \/ /\ ~Cancelled(u)
          /\ Cardinality(InUse) < pool
          /\ pc' = [pc EXCEPT ![u] = "fn"]
          /\ tx' = [tx EXCEPT ![u] = "open"]
          /\ UNCHANGED <<backend, pool, db, pend, stmt, dead, answer>>

\* The function calls a method of txUserRepo.  On a transaction that has
\* failed or ended, or with a context that is done, it is just an error.
Call(u) ==
    /\ pc[u] = "fn" /\ tx[u] = "open" /\ ~dead[u]
    /\ pc' = [pc EXCEPT ![u] = "stmt"]
    /\ stmt' \in {[stmt EXCEPT ![u] = s] : s \in Statement}
    /\ UNCHANGED <<backend, pool, db, tx, pend, dead, answer>>

\* The statements of txUserRepo are those of UserRepo.
TxOutcomes(u, s) ==
    CASE s.op = "create" -> PgCreate(View(u), s.row)
      [] s.op = "get"    -> PgGet(View(u), s.row.id)
      [] s.op = "update" -> PgUpdate(View(u), s.row)
      [] s.op = "delete" -> PgDelete(View(u), s.row.id)

\* Mutant: the rows of a query are not closed.
ReturnUnclosed(u) == pc' = [pc EXCEPT ![u] = "fn"] /\ UNCHANGED stmt

Return(u) ==
    /\ pc' = [pc EXCEPT ![u] = "fn"]
    /\ stmt' = [stmt EXCEPT ![u] = Nil]

\* The server executes the statement once no lock is in its way.  Any error
\* but "no such row" makes it refuse the rest of the transaction.
ExecStatement(u) ==
    /\ pc[u] = "stmt" /\ tx[u] = "open"
    /\ \A v \in Units : ~WaitsFor(u, v)
    /\ \E o \in TxOutcomes(u, stmt[u]) :
          LET id == stmt[u].row.id
          IN  /\ pend' = IF stmt[u].op # "get" /\ o.err = "nil"
                         THEN [pend EXCEPT ![u][id] = o.users[id]] ELSE pend
              /\ tx' = IF o.err = "other" THEN [tx EXCEPT ![u] = "failed"] ELSE tx
    /\ Return(u)
    /\ UNCHANGED <<backend, pool, db, dead, answer>>

\* A statement that waits ends with an error when the context is done, when
\* the transaction is gone, or when Postgres finds it in a deadlock with
\* another unit (longer cycles are left to the context).
StatementEnds(u) ==
    \/ Cancelled(u)
    \/ ~Active(u)
    \/ \E v \in Units : WaitsFor(u, v) /\ WaitsFor(v, u)

FailStatement(u) ==
    /\ pc[u] = "stmt" /\ StatementEnds(u)
    /\ tx' = IF Active(u) THEN [tx EXCEPT ![u] = "failed"] ELSE tx
    /\ Return(u)
    /\ UNCHANGED <<backend, pool, db, pend, dead, answer>>

\* Mutant: the answer of the server is not looked at.
CommitOutcomesUnchecked(u) ==
    IF ~Active(u) \/ Cancelled(u) THEN {"undone"}
    ELSE IF tx[u] = "failed" THEN {"unchecked"}
    ELSE {"committed"}

\* external: what comes of sql.Tx.Commit.  The server answers a commit of a
\* failed transaction with a rollback; the answer to a commit may be lost,
\* before or after it is done.
CommitOutcomes(u) ==
    IF ~Active(u) \/ Cancelled(u) \/ tx[u] = "failed" THEN {"undone"}
    ELSE {"committed"} \cup (IF DBFaults THEN {"undone", "lost"} ELSE {})

Applied(o) == o \in {"committed", "lost"}
Nils(o) == o \in {"committed", "unchecked"}

\* Commit on a live transaction ends it; otherwise it changes nothing.
TxCommit(u, applied) ==
    IF Active(u) /\ ~Cancelled(u) THEN EndTx(u, applied)
    ELSE UNCHANGED <<tx, pend, users, fate>>

TxRollback(u) ==
    IF Active(u) THEN EndTx(u, FALSE) ELSE UNCHANGED <<tx, pend, users, fate>>

\* The function may call Commit or Rollback itself: UnitOfWork has both.
FnFinishesTx(u) ==
    /\ pc[u] = "fn" /\ Active(u)
    /\ TxRollback(u) \/ \E o \in CommitOutcomes(u) : TxCommit(u, Applied(o))
    /\ UNCHANGED <<backend, pool, pc, stmt, dead, answer>>

\* It returns nil, or an error, or it panics.
FnReturns(u) ==
    /\ pc[u] = "fn"
    /\ \/ pc' = [pc EXCEPT ![u] = "commit"] /\ UNCHANGED answer
       \/ /\ pc' = [pc EXCEPT ![u] = "rollback"]
          /\ answer' \in {[answer EXCEPT ![u] = a] : a \in {"error", "panic"}}
    /\ UNCHANGED <<backend, pool, db, tx, pend, stmt, dead>>

\* WithTx commits: committed is set only when Commit returned nil.
Commit(u) ==
    /\ pc[u] = "commit"
    /\ \E o \in CommitOutcomes(u) :
          /\ TxCommit(u, Applied(o))
          /\ answer' = [answer EXCEPT ![u] = IF Nils(o) THEN "nil" ELSE "error"]
          /\ pc' = [pc EXCEPT ![u] = IF Nils(o) THEN "over" ELSE "rollback"]
    /\ UNCHANGED <<backend, pool, stmt, dead>>

\* Mutant: the deferred function rolls back only when there was an error.
RollbackIfError(u) == answer[u] = "error"

\* The deferred function rolls back whatever is not committed.
MustRollback(u) == TRUE

\* The deferred Rollback; on a transaction that has ended it is an error that
\* is dropped.
Rollback(u) ==
    /\ pc[u] = "rollback"
    /\ IF MustRollback(u) THEN TxRollback(u)
       ELSE UNCHANGED <<tx, pend, users, fate>>
    /\ pc' = [pc EXCEPT ![u] = "over"]
    /\ UNCHANGED <<backend, pool, stmt, dead, answer>>

\* The request's context is done: the client is gone or the 30 s are over.
CtxDone(u) ==
    /\ pc[u] \notin {"idle", "over"} /\ ~dead[u]
    /\ dead' = [dead EXCEPT ![u] = TRUE]
    /\ UNCHANGED <<backend, pool, db, pc, tx, pend, stmt, answer>>

\* external: the goroutine of database/sql that waits for the context.
AwaitDone(u) ==
    /\ Cancelled(u) /\ Active(u)
    /\ EndTx(u, FALSE)
    /\ UNCHANGED <<backend, pool, pc, stmt, dead, answer>>

-----------------------------------------------------------------------------
\* UserRepo's Create, Update or Delete for another request, outside of any
\* transaction, with every outcome, errors after the change included.
OtherWrite(row) ==
    /\ backend = "postgres" /\ \A u \in Units : ~Locks(u, row)
    /\ \E o \in PgCreate(users, row) \cup PgUpdate(users, row) \cup PgDelete(users, row.id) :
          users' = o.users
    /\ UNCHANGED <<backend, pool, fate, locals>>

\* The process goes on with requests that touch nothing of this.
OtherRequests == UNCHANGED vars

-----------------------------------------------------------------------------
Ends(u) == BeginTx(u) \/ ExecStatement(u) \/ FailStatement(u) \/ Commit(u) \/ Rollback(u)

Next ==
    \/ \E u \in Units : WithTx(u) \/ Call(u) \/ FnFinishesTx(u) \/ FnReturns(u)
                       \/ Ends(u) \/ CtxDone(u) \/ AwaitDone(u)
    \/ \E row \in OtherRows : OtherWrite(row)
    \/ OtherRequests

\* Calls of the database end, the middleware's timeout makes every context
\* done, and database/sql notices.  Nothing is assumed of the function: it
\* may never return.
Fairness ==
    \A u \in Units : WF_vars(Ends(u)) /\ WF_vars(CtxDone(u)) /\ WF_vars(AwaitDone(u))

Spec == Init /\ [][Next]_vars /\ Fairness

-----------------------------------------------------------------------------
\* When WithTx has returned, its connection is back in the pool, whether the
\* function failed, panicked, finished the transaction itself or the context
\* ended first; and no more connections are in use than the pool has.
ConnectionsReturned ==
    /\ \A u \in Units : pc[u] = "over" => ~Active(u)
    /\ Cardinality(InUse) <= pool

\* The answer of WithTx is out when its deferred rollback is done.
told == [u \in Units |-> IF pc[u] = "over" THEN answer[u] ELSE "none"]

Atomic == INSTANCE AtomicUnits WITH written <- pend, answer <- told

\* Units are atomic and isolated, and their callers are told the truth: every
\* behaviour of WithTx is one of AtomicUnits.
AtomicSpec == Atomic!Spec

\* A unit that waits for a connection, a lock or the server gets out, and a
\* connection comes back when the context ends, even when another unit's (or
\* its own) function never returns.
WaitsEnd ==
    \A u \in Units :
        pc[u] \in {"begin", "stmt", "commit", "rollback"} \/ (dead[u] /\ Active(u))
            ~> pc[u] \in {"fn", "over"} /\ (dead[u] => ~Active(u))
=============================================================================
