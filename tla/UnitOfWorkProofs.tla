-------------------------- MODULE UnitOfWorkProofs --------------------------
(***************************************************************************)
(* Theorems about UnitOfWork, for any number of units, rows and            *)
(* connections: connections are returned, and WithTx implements            *)
(* AtomicUnits.                                                            *)
(***************************************************************************)
EXTENDS UnitOfWork, FiniteSetTheorems, TLAPS

Nothing == [id \in IDs |-> Nil]

\* What the place of a call says of its transaction, its fate and its answer.
Linked(u) ==
    /\ pc[u] \in {"idle", "begin"} => tx[u] = "none" /\ fate[u] = "open"
    /\ pc[u] \in {"fn", "stmt", "commit", "rollback"} => tx[u] # "none"
    /\ pc[u] \in {"idle", "begin", "fn", "stmt", "commit"} => answer[u] = "none"
    /\ pc[u] = "rollback" => answer[u] \in {"error", "panic"}
    /\ pc[u] = "over" => ~Active(u) /\ fate[u] # "open" /\ answer[u] # "none"
    /\ Active(u) => fate[u] = "open"
    /\ tx[u] = "done" => fate[u] # "open"
    /\ ~Active(u) => pend[u] = Nothing
    /\ answer[u] = "nil" => fate[u] = "committed"

\* No two units have written the same row.
Isolated ==
    \A u, v \in Units : \A id \in IDs :
        u # v => pend[u][id] = Nil \/ pend[v][id] = Nil

Inv == TypeOK /\ (\A u \in Units : Linked(u)) /\ Isolated
-----------------------------------------------------------------------------
(* What a statement can do to a table. *)

Table == [IDs -> User \cup {Nil}]

\* It changes at most the row it names, to another user's value.
LEMMA StatementOutcome ==
    ASSUME NEW table \in Table, NEW row \in User,
           NEW o \in PgCreate(table, row) \cup PgUpdate(table, row)
                     \cup PgGet(table, row.id) \cup PgDelete(table, row.id)
    PROVE  /\ o.users \in Table
           /\ \A id \in IDs : id # row.id => o.users[id] = table[id]
  <1>1. row.id \in IDs
    BY DEF User
  <1>2. CASE o \in PgCreate(table, row)
    BY <1>1, <1>2 DEF PgCreate, Exec, Outcome, Table
  <1>3. CASE o \in PgGet(table, row.id)
    BY <1>1, <1>3 DEF PgGet, Exec, Outcome, Table
  <1>4. CASE o \in PgUpdate(table, row)
    <2> DEFINE new == [table[row.id] EXCEPT !.name = row.name, !.email = row.email,
                                            !.updatedAt = row.updatedAt]
    <2>1. LiveIn(table, row.id) => new \in User
      BY <1>1 DEF LiveIn, Table, User
    <2>2. \/ o.users = table
          \/ LiveIn(table, row.id) /\ o.users = [table EXCEPT ![row.id] = new]
      BY <1>4 DEF PgUpdate, Exec, Outcome
    <2> QED
      BY <1>1, <2>1, <2>2 DEF Table
  <1>5. CASE o \in PgDelete(table, row.id)
    <2> DEFINE new == [table[row.id] EXCEPT !.deleted = TRUE]
    <2>1. LiveIn(table, row.id) => new \in User
      BY <1>1 DEF LiveIn, Table, User
    <2>2. \/ o.users = table
          \/ LiveIn(table, row.id) /\ o.users = [table EXCEPT ![row.id] = new]
      BY <1>5 DEF PgDelete, SoftDeleted, Exec, Outcome
    <2> QED
      BY <1>1, <2>1, <2>2 DEF Table
  <1> QED
    BY <1>2, <1>3, <1>4, <1>5

\* What a unit sees is a table.
LEMMA ViewTable == ASSUME TypeOK, NEW u \in Units PROVE View(u) \in Table
  BY DEF TypeOK, View, Table
-----------------------------------------------------------------------------
(* One lemma for each kind of step: it keeps Inv, and is a step of AtomicUnits *)
(* or none.                                                                    *)

AtomicStep == [Atomic!Next]_<<users, pend, fate, told>>

\* A call that goes on without a change to the table, to rows or fates.
LEMMA QuietStep ==
    ASSUME Inv, NEW u \in Units,
           \/ WithTx(u) /\ ~Refuse(u)
           \/ BeginTx(u) /\ ~Refuse(u)
           \/ Call(u) \/ FailStatement(u) \/ FnReturns(u) \/ CtxDone(u)
    PROVE  Inv' /\ AtomicStep
  <1> USE DEF Inv, TypeOK, Linked, Active, db
  <1>1. CASE WithTx(u) /\ ~Refuse(u)
    <2>1. TypeOK' /\ (\A v \in Units : Linked(v)') /\ told' = told
      BY <1>1 DEF WithTx, told
    <2> QED
      BY <1>1, <2>1 DEF WithTx, Isolated, AtomicStep
  <1>2. CASE BeginTx(u) /\ ~Refuse(u)
    <2>1. /\ pc[u] = "begin"
          /\ pc' = [pc EXCEPT ![u] = "fn"] /\ tx' = [tx EXCEPT ![u] = "open"]
          /\ UNCHANGED <<backend, pool, db, pend, stmt, dead, answer>>
      BY <1>2 DEF BeginTx
    <2>2. TypeOK' /\ (\A v \in Units : Linked(v)') /\ told' = told
      BY <2>1 DEF told
    <2> QED
      BY <2>1, <2>2 DEF Isolated, AtomicStep
  <1>3. CASE Call(u)
    <2>1. TypeOK' /\ (\A v \in Units : Linked(v)') /\ told' = told
      BY <1>3, UnitsAssumption DEF Call, told
    <2> QED
      BY <1>3, <2>1 DEF Call, Isolated, AtomicStep
  <1>4. CASE FailStatement(u)
    <2>1. TypeOK' /\ (\A v \in Units : Linked(v)') /\ told' = told
      BY <1>4 DEF FailStatement, Return, told
    <2> QED
      BY <1>4, <2>1 DEF FailStatement, Isolated, AtomicStep
  <1>5. CASE FnReturns(u)
    <2>1. \/ pc' = [pc EXCEPT ![u] = "commit"] /\ answer' = answer
          \/ /\ pc' = [pc EXCEPT ![u] = "rollback"]
             /\ \E a \in {"error", "panic"} : answer' = [answer EXCEPT ![u] = a]
      BY <1>5 DEF FnReturns
    <2>2. pc[u] = "fn" /\ UNCHANGED <<backend, pool, db, tx, pend, stmt, dead>>
      BY <1>5 DEF FnReturns
    <2>3. TypeOK'
      <3>1. pc' \in [Units -> {"idle", "begin", "fn", "stmt", "commit", "rollback", "over"}]
        BY <2>1
      <3>2. answer' \in [Units -> {"none", "nil", "error", "panic"}]
        BY <2>1
      <3>3. \A v \in Units : stmt'[v] # Nil <=> pc'[v] = "stmt"
        BY <2>1, <2>2
      <3> QED
        BY <2>2, <3>1, <3>2, <3>3
    <2>4. (\A v \in Units : Linked(v)') /\ told' = told
      BY <2>1, <2>2 DEF told
    <2> QED
      BY <2>2, <2>3, <2>4 DEF Isolated, AtomicStep
  <1>6. CASE CtxDone(u)
    <2>1. TypeOK' /\ (\A v \in Units : Linked(v)') /\ told' = told
      BY <1>6 DEF CtxDone, told
    <2> QED
      BY <1>6, <2>1 DEF CtxDone, Isolated, AtomicStep
  <1> QED
    BY <1>1, <1>2, <1>3, <1>4, <1>5, <1>6

\* The caller is refused a transaction: undone, and told so.
LEMMA RefuseStep ==
    ASSUME Inv, NEW u \in Units, pc[u] \in {"idle", "begin"}, Refuse(u)
    PROVE  Inv' /\ AtomicStep
  <1> USE DEF Inv, TypeOK, Linked, Active, Refuse
  <1>1. TypeOK' /\ (\A v \in Units : Linked(v)') /\ Isolated'
    BY DEF Isolated
  <1>2. told' = [told EXCEPT ![u] = "error"] /\ told[u] = "none"
    BY DEF told
  <1>3. Atomic!Decide(u)
    BY DEF Atomic!Decide, Atomic!Nothing, Nothing
  <1>4. Atomic!Tell(u)
    BY <1>2 DEF Atomic!Tell
  <1> QED
    BY <1>1, <1>3, <1>4 DEF AtomicStep, Atomic!Next

\* A transaction ends: the unit is decided, and nothing is left pending.
LEMMA EndTxStep ==
    ASSUME Inv, NEW u \in Units, NEW applied \in BOOLEAN, Active(u), EndTx(u, applied)
    PROVE  /\ users' \in Table
           /\ pend' \in [Units -> Table]
           /\ fate' \in [Units -> {"open", "committed", "undone"}]
           /\ fate'[u] = IF applied THEN "committed" ELSE "undone"
           /\ tx'[u] = "done" /\ pend'[u] = Nothing
           /\ \A v \in Units \ {u} :
                 fate'[v] = fate[v] /\ tx'[v] = tx[v] /\ pend'[v] = pend[v]
           /\ Isolated'
           /\ Atomic!Decide(u)
  <1> USE DEF Inv, TypeOK, EndTx, Nothing
  <1>1. users' \in Table
    BY ViewTable DEF Table
  <1>2. Nothing \in Table
    BY DEF Table
  <1>3. pend' \in [Units -> Table]
    BY <1>2 DEF Table
  <1>4. Isolated'
    BY DEF Isolated
  <1>5. View(u) = [id \in IDs |-> IF pend[u][id] # Nil THEN pend[u][id] ELSE users[id]]
    BY DEF View
  <1>6. Atomic!Decide(u)
    <2>1. fate[u] = "open"
      BY DEF Linked
    <2>2. pend' = [pend EXCEPT ![u] = Atomic!Nothing]
      BY DEF Atomic!Nothing
    <2> QED
      BY <1>5, <2>1, <2>2 DEF Atomic!Decide
  <1> QED
    BY <1>1, <1>3, <1>4, <1>6

\* Commit or Rollback of the transaction, whoever calls it.
LEMMA TxEnds ==
    ASSUME NEW u \in Units
    PROVE  /\ TxRollback(u) =>
                 \/ Active(u) /\ EndTx(u, FALSE)
                 \/ ~Active(u) /\ UNCHANGED <<tx, pend, users, fate>>
           /\ \A o \in CommitOutcomes(u) :
                 /\ Applied(o) \in BOOLEAN
                 /\ Nils(o) => Applied(o)
                 /\ TxCommit(u, Applied(o)) =>
                       \/ Active(u) /\ EndTx(u, Applied(o))
                       \/ ~Nils(o) /\ UNCHANGED <<tx, pend, users, fate>>
  <1>1. TxRollback(u) =>
           \/ Active(u) /\ EndTx(u, FALSE)
           \/ ~Active(u) /\ UNCHANGED <<tx, pend, users, fate>>
    BY DEF TxRollback
  <1>2. ASSUME NEW o \in CommitOutcomes(u)
        PROVE  /\ Applied(o) \in BOOLEAN
               /\ Nils(o) => Applied(o) /\ Active(u) /\ ~Cancelled(u)
    BY DEF CommitOutcomes, Applied, Nils
  <1>3. ASSUME NEW o \in CommitOutcomes(u), TxCommit(u, Applied(o))
        PROVE  \/ Active(u) /\ EndTx(u, Applied(o))
               \/ ~Nils(o) /\ UNCHANGED <<tx, pend, users, fate>>
    BY <1>2, <1>3 DEF TxCommit, Cancelled
  <1> QED
    BY <1>1, <1>2, <1>3

\* The function ends the transaction itself.
LEMMA FnFinishesTxStep ==
    ASSUME Inv, NEW u \in Units, FnFinishesTx(u)
    PROVE  Inv' /\ AtomicStep
  <1>1. \/ \E applied \in BOOLEAN : Active(u) /\ EndTx(u, applied)
        \/ UNCHANGED <<tx, pend, users, fate>>
    BY TxEnds DEF FnFinishesTx
  <1>2. told' = told
    BY DEF FnFinishesTx, told
  <1>3. CASE UNCHANGED <<tx, pend, users, fate>>
    BY <1>2, <1>3
    DEF Inv, TypeOK, Linked, Active, Isolated, FnFinishesTx, AtomicStep
  <1>4. ASSUME NEW applied \in BOOLEAN, Active(u), EndTx(u, applied)
        PROVE  Inv' /\ AtomicStep
    <2>1. TypeOK'
      BY <1>4, EndTxStep DEF Inv, TypeOK, FnFinishesTx, EndTx, Table
    <2>2. \A v \in Units : Linked(v)'
      BY <1>4, EndTxStep DEF Inv, TypeOK, Linked, Active, FnFinishesTx
    <2> QED
      BY <1>2, <1>4, <2>1, <2>2, EndTxStep DEF Inv, AtomicStep, Atomic!Next
  <1> QED
    BY <1>1, <1>3, <1>4

\* database/sql ends it.
LEMMA AwaitDoneStep ==
    ASSUME Inv, NEW u \in Units, AwaitDone(u)
    PROVE  Inv' /\ AtomicStep
  <1>1. Active(u) /\ EndTx(u, FALSE) /\ told' = told
    BY DEF AwaitDone, told
  <1>2. TypeOK'
    BY <1>1, EndTxStep DEF Inv, TypeOK, AwaitDone, EndTx, Table
  <1>3. ASSUME NEW v \in Units PROVE Linked(v)'
    <2>1. UNCHANGED <<pc, answer>>
      BY DEF AwaitDone
    <2> QED
      BY <1>1, <2>1, EndTxStep DEF Inv, Linked, Active
  <1> QED
    BY <1>1, <1>2, <1>3, EndTxStep DEF Inv, AtomicStep, Atomic!Next

\* WithTx commits and returns nil, or goes on to roll back.
LEMMA CommitStep ==
    ASSUME Inv, NEW u \in Units, Commit(u)
    PROVE  Inv' /\ AtomicStep
  <1> PICK o \in CommitOutcomes(u) :
          /\ TxCommit(u, Applied(o))
          /\ answer' = [answer EXCEPT ![u] = IF Nils(o) THEN "nil" ELSE "error"]
          /\ pc' = [pc EXCEPT ![u] = IF Nils(o) THEN "over" ELSE "rollback"]
    BY DEF Commit
  <1>1. pc[u] = "commit" /\ UNCHANGED <<backend, pool, stmt, dead>>
    BY DEF Commit
  <1>2. /\ Applied(o) \in BOOLEAN /\ (Nils(o) => Applied(o))
        /\ \/ Active(u) /\ EndTx(u, Applied(o))
           \/ ~Nils(o) /\ UNCHANGED <<tx, pend, users, fate>>
    BY TxEnds
  <1>3. told' = IF Nils(o) THEN [told EXCEPT ![u] = "nil"] ELSE told
    BY <1>1, <1>2 DEF Inv, TypeOK, told
  <1>4. told[u] = "none"
    BY <1>1 DEF told
  <1>5. CASE ~Nils(o) /\ UNCHANGED <<tx, pend, users, fate>>
    BY <1>1, <1>3, <1>5 DEF Inv, TypeOK, Linked, Active, Isolated, AtomicStep
  <1>6. CASE Active(u) /\ EndTx(u, Applied(o))
    <2>1. TypeOK'
      <3>1. pc' \in [Units -> {"idle", "begin", "fn", "stmt", "commit", "rollback", "over"}]
        BY DEF Inv, TypeOK
      <3>2. answer' \in [Units -> {"none", "nil", "error", "panic"}]
        BY DEF Inv, TypeOK
      <3>3. \A v \in Units : stmt'[v] # Nil <=> pc'[v] = "stmt"
        BY <1>1 DEF Inv, TypeOK
      <3>4. tx' \in [Units -> {"none", "open", "failed", "done"}]
        BY <1>6 DEF Inv, TypeOK, EndTx
      <3> QED
        BY <1>1, <1>2, <1>6, <3>1, <3>2, <3>3, <3>4, EndTxStep DEF Inv, TypeOK, Table
    <2>2. ASSUME NEW v \in Units PROVE Linked(v)'
      <3>1. pc'[u] = IF Nils(o) THEN "over" ELSE "rollback"
        BY <1>1 DEF Inv, TypeOK
      <3>2. answer'[u] = IF Nils(o) THEN "nil" ELSE "error"
        BY <1>1 DEF Inv, TypeOK, Linked
      <3>3. v # u => pc'[v] = pc[v] /\ answer'[v] = answer[v]
        BY <1>1 DEF Inv, TypeOK
      <3>4. CASE v = u
        BY <1>1, <1>2, <1>6, <3>1, <3>2, <3>4, EndTxStep DEF Linked, Active
      <3>5. CASE v # u
        BY <1>1, <1>2, <1>6, <3>3, <3>5, EndTxStep DEF Inv, Linked, Active
      <3> QED
        BY <3>4, <3>5
    <2>3. Atomic!Decide(u) /\ Isolated'
      BY <1>2, <1>6, EndTxStep
    <2>4. Nils(o) => Atomic!Tell(u)
      BY <1>2, <1>3, <1>4, <1>6, EndTxStep DEF Atomic!Tell
    <2> QED
      BY <1>2, <1>3, <2>1, <2>2, <2>3, <2>4 DEF Inv, AtomicStep, Atomic!Next
  <1> QED
    BY <1>2, <1>5, <1>6

\* The deferred rollback, after which the caller is told.
LEMMA RollbackStep ==
    ASSUME Inv, NEW u \in Units, Rollback(u)
    PROVE  Inv' /\ AtomicStep
  <1>1. /\ pc[u] = "rollback" /\ pc' = [pc EXCEPT ![u] = "over"]
        /\ UNCHANGED <<backend, pool, stmt, dead, answer>>
    BY DEF Rollback
  <1>2. \/ Active(u) /\ EndTx(u, FALSE)
        \/ ~Active(u) /\ UNCHANGED <<tx, pend, users, fate>>
    BY TxEnds DEF Rollback, MustRollback
  <1>3. told[u] = "none" /\ \E a \in {"error", "panic"} : told' = [told EXCEPT ![u] = a]
    BY <1>1 DEF Inv, TypeOK, Linked, told
  <1>4. CASE ~Active(u) /\ UNCHANGED <<tx, pend, users, fate>>
    <2>1. fate[u] # "open"
      BY <1>1, <1>4 DEF Inv, TypeOK, Linked, Active
    <2>2. Inv'
      BY <1>1, <1>4, <2>1 DEF Inv, TypeOK, Linked, Active, Isolated
    <2>3. Atomic!Tell(u)
      BY <1>3, <1>4, <2>1 DEF Atomic!Tell
    <2> QED
      BY <1>4, <2>2, <2>3 DEF AtomicStep, Atomic!Next
  <1>5. CASE Active(u) /\ EndTx(u, FALSE)
    <2>1. TypeOK'
      BY <1>1, <1>5, EndTxStep DEF Inv, TypeOK, EndTx, Table
    <2>2. ASSUME NEW v \in Units PROVE Linked(v)'
      <3>1. pc'[u] = "over"
        BY <1>1 DEF Inv, TypeOK
      <3>2. answer'[u] = answer[u] /\ answer[u] \in {"error", "panic"}
        BY <1>1 DEF Inv, TypeOK, Linked
      <3>3. v # u => pc'[v] = pc[v] /\ answer'[v] = answer[v]
        BY <1>1 DEF Inv, TypeOK
      <3>4. CASE v = u
        BY <1>1, <1>5, <3>1, <3>2, <3>4, EndTxStep DEF Linked, Active
      <3>5. CASE v # u
        <4>1. fate'[v] = fate[v] /\ tx'[v] = tx[v] /\ pend'[v] = pend[v]
          BY <1>5, <3>5, EndTxStep
        <4> QED
          BY <3>3, <3>5, <4>1 DEF Inv, Linked, Active
      <3> QED
        BY <3>4, <3>5
    <2>3. Atomic!Decide(u) /\ Isolated'
      BY <1>5, EndTxStep
    <2>4. Atomic!Tell(u)
      BY <1>3, <1>5, EndTxStep DEF Atomic!Tell
    <2> QED
      BY <2>1, <2>2, <2>3, <2>4 DEF Inv, AtomicStep, Atomic!Next
  <1> QED
    BY <1>2, <1>4, <1>5

\* A statement writes a row that no other unit has written, or nothing.
LEMMA ExecStatementStep ==
    ASSUME Inv, NEW u \in Units, ExecStatement(u)
    PROVE  Inv' /\ AtomicStep
  <1>1. stmt[u] \in Statement /\ stmt[u].row \in User /\ stmt[u].row.id \in IDs
    BY UnitsAssumption DEF Inv, TypeOK, ExecStatement, Statement, User
  <1> DEFINE id == stmt[u].row.id
  <1>2. PICK o \in TxOutcomes(u, stmt[u]) :
          /\ pend' = IF stmt[u].op # "get" /\ o.err = "nil"
                     THEN [pend EXCEPT ![u][id] = o.users[id]] ELSE pend
          /\ tx' = IF o.err = "other" THEN [tx EXCEPT ![u] = "failed"] ELSE tx
    BY DEF ExecStatement
  <1>3. /\ pc[u] = "stmt" /\ tx[u] = "open" /\ fate[u] = "open"
        /\ pc' = [pc EXCEPT ![u] = "fn"] /\ stmt' = [stmt EXCEPT ![u] = Nil]
        /\ UNCHANGED <<backend, pool, users, fate, dead, answer>>
    BY DEF Inv, Linked, Active, ExecStatement, Return, db
  <1>4. o.users[id] \in User \cup {Nil}
    <2>1. o \in PgCreate(View(u), stmt[u].row) \cup PgUpdate(View(u), stmt[u].row)
                  \cup PgGet(View(u), id) \cup PgDelete(View(u), id)
      BY <1>1, <1>2 DEF TxOutcomes, Statement
    <2> QED
      BY <1>1, <2>1, StatementOutcome, ViewTable DEF Inv, Table
  <1>5. /\ pend' \in [Units -> Table]
        /\ \A v \in Units \ {u} : pend'[v] = pend[v]
        /\ \A i \in IDs : i # id => pend'[u][i] = pend[u][i]
    BY <1>1, <1>2, <1>4 DEF Inv, TypeOK, Table
  <1>6. pend'[u][id] # pend[u][id] => \A v \in Units \ {u} : pend[v][id] = Nil
    <2>1. stmt[u].op # "get" => \A v \in Units \ {u} : ~Locks(v, stmt[u].row)
      BY <1>3 DEF ExecStatement, WaitsFor
    <2> QED
      BY <1>1, <1>2, <2>1 DEF Locks
  <1>7. TypeOK'
    <2>1. \A v \in Units : stmt'[v] # Nil <=> pc'[v] = "stmt"
      BY <1>3 DEF Inv, TypeOK
    <2>2. tx' \in [Units -> {"none", "open", "failed", "done"}]
      BY <1>2 DEF Inv, TypeOK
    <2>3. /\ pc' \in [Units -> {"idle", "begin", "fn", "stmt", "commit", "rollback", "over"}]
          /\ stmt' \in [Units -> Statement \cup {Nil}]
      BY <1>3 DEF Inv, TypeOK
    <2> QED
      BY <1>3, <1>5, <2>1, <2>2, <2>3 DEF Inv, TypeOK, Table
  <1>8. ASSUME NEW v \in Units PROVE Linked(v)'
    <2>1. tx'[v] = tx[v] \/ (v = u /\ tx'[u] = "failed")
      BY <1>2 DEF Inv, TypeOK
    <2>2. CASE v = u
      BY <1>3, <2>1, <2>2 DEF Inv, TypeOK, Linked, Active
    <2>3. CASE v # u
      BY <1>3, <1>5, <2>1, <2>3 DEF Inv, TypeOK, Linked, Active
    <2> QED
      BY <2>2, <2>3
  <1>9. Isolated'
    BY <1>5, <1>6 DEF Inv, Isolated
  <1>10. AtomicStep
    <2>1. told' = told
      BY <1>3 DEF Inv, TypeOK, told
    <2>2. Atomic!Write(u)
      BY <1>3, <1>5, <1>6, <2>1 DEF Atomic!Write, Atomic!Tables, Table
    <2> QED
      BY <2>2 DEF AtomicStep, Atomic!Next
  <1> QED
    BY <1>7, <1>8, <1>9, <1>10 DEF Inv

\* Another request writes a row that no unit has written.
LEMMA OtherWriteStep ==
    ASSUME Inv, NEW row \in OtherRows, OtherWrite(row)
    PROVE  Inv' /\ AtomicStep
  <1>1. row \in User /\ row.id \in IDs
    BY UnitsAssumption DEF User
  <1>2. UNCHANGED <<backend, pool, pc, tx, pend, stmt, dead, answer, fate>>
    BY DEF OtherWrite, locals
  <1>3. PICK o \in PgCreate(users, row) \cup PgUpdate(users, row) \cup PgDelete(users, row.id) :
          users' = o.users
    BY DEF OtherWrite
  <1>4. users' \in Table /\ \A id \in IDs : id # row.id => users'[id] = users[id]
    BY <1>1, <1>3, StatementOutcome DEF Inv, TypeOK, Table
  <1>5. TypeOK'
    BY <1>2, <1>4 DEF Inv, TypeOK, Table
  <1>6. (\A u \in Units : Linked(u)') /\ Isolated' /\ told' = told
    BY <1>2 DEF Inv, Linked, Active, Isolated, told
  <1>7. \A u \in Units : pend[u][row.id] = Nil
    BY <1>1 DEF OtherWrite, Locks
  <1>8. Atomic!Others
    BY <1>1, <1>2, <1>4, <1>6, <1>7 DEF Atomic!Others, Atomic!Tables, Table
  <1> QED
    BY <1>5, <1>6, <1>8 DEF Inv, AtomicStep, Atomic!Next
-----------------------------------------------------------------------------
(* All steps *)

LEMMA InitInv == Init => Inv /\ Atomic!Init
  BY DEF Init, Inv, TypeOK, Linked, Active, Isolated, Nothing, told, Atomic!Init, Atomic!Nothing

LEMMA NextInv == Inv /\ [Next]_vars => Inv' /\ AtomicStep
  <1> SUFFICES ASSUME Inv, [Next]_vars PROVE Inv' /\ AtomicStep
    OBVIOUS
  <1>1. ASSUME NEW u \in Units, WithTx(u) \/ BeginTx(u) PROVE Inv' /\ AtomicStep
    <2>1. CASE Refuse(u)
      BY <1>1, <2>1, RefuseStep DEF WithTx, BeginTx
    <2> QED
      BY <1>1, <2>1, QuietStep
  <1>2. ASSUME NEW u \in Units,
               Call(u) \/ FailStatement(u) \/ FnReturns(u) \/ CtxDone(u)
        PROVE  Inv' /\ AtomicStep
    BY <1>2, QuietStep
  <1>3. ASSUME NEW u \in Units,
               FnFinishesTx(u) \/ ExecStatement(u) \/ Commit(u) \/ Rollback(u) \/ AwaitDone(u)
        PROVE  Inv' /\ AtomicStep
    BY <1>3, FnFinishesTxStep, ExecStatementStep, CommitStep, RollbackStep, AwaitDoneStep
  <1>4. ASSUME NEW row \in OtherRows, OtherWrite(row) PROVE Inv' /\ AtomicStep
    BY <1>4, OtherWriteStep
  <1>5. CASE UNCHANGED vars
    BY <1>5 DEF vars, db, locals, Inv, TypeOK, Linked, Active, Isolated, AtomicStep, told
  <1> QED
    BY <1>1, <1>2, <1>3, <1>4, <1>5 DEF Next, Ends, OtherRequests

\* Every call of WithTx keeps to its types, and what the invariant says of it.
THEOREM Invariant == Spec => []Inv
  <1>1. Init => Inv
    BY InitInv
  <1>2. Inv /\ [Next]_vars => Inv'
    BY NextInv
  <1> QED
    BY <1>1, <1>2, PTL DEF Spec

\* The variables have their types in every reachable state (TypeOK).
THEOREM TypeCorrect == Spec => []TypeOK
  <1>1. Inv => TypeOK
    BY DEF Inv
  <1> QED
    BY <1>1, Invariant, PTL

\* Whatever the functions do and the database answers, WithTx of usersvc.go
\* implements the atomic and isolated units of AtomicUnits.
THEOREM Atomicity == Spec => AtomicSpec
  <1>1. Init => Atomic!Init
    BY InitInv
  <1>2. Inv /\ [Next]_vars => [Atomic!Next]_(Atomic!vars)
    BY NextInv DEF AtomicStep, Atomic!vars
  <1> QED
    BY <1>1, <1>2, Invariant, PTL DEF Spec, AtomicSpec, Atomic!Spec
-----------------------------------------------------------------------------
(* Connections *)

\* A step takes no connection, or BeginTx takes one while the pool has one.
LEMMA InUseStep ==
    ASSUME Inv, [Next]_vars
    PROVE  /\ pool' = pool
           /\ \/ InUse' \subseteq InUse
              \/ \E u \in Units : InUse' = InUse \cup {u} /\ Cardinality(InUse) < pool
  <1> USE DEF InUse, Active
  <1>1. ASSUME NEW u \in Units, BeginTx(u)
        PROVE  /\ pool' = pool
               /\ \/ InUse' \subseteq InUse
                  \/ InUse' = InUse \cup {u} /\ Cardinality(InUse) < pool
    <2>1. CASE Refuse(u)
      BY <2>1 DEF Refuse
    <2>2. CASE ~Refuse(u)
      <3>1. Cardinality(InUse) < pool /\ pool' = pool /\ tx' = [tx EXCEPT ![u] = "open"]
        BY <1>1, <2>2 DEF BeginTx
      <3>2. InUse' = InUse \cup {u}
        BY <3>1 DEF Inv, TypeOK
      <3> QED
        BY <3>1, <3>2
    <2> QED
      BY <2>1, <2>2
  <1>2. ASSUME NEW u \in Units, FnFinishesTx(u) \/ Commit(u) \/ Rollback(u) \/ AwaitDone(u)
        PROVE  pool' = pool /\ InUse' \subseteq InUse
    <2>1. pool' = pool /\ (tx' = tx \/ tx' = [tx EXCEPT ![u] = "done"])
      BY <1>2 DEF FnFinishesTx, Commit, Rollback, AwaitDone, TxCommit, TxRollback, EndTx
    <2> QED
      BY <2>1 DEF Inv, TypeOK
  <1>3. ASSUME NEW u \in Units, ExecStatement(u) \/ FailStatement(u)
        PROVE  pool' = pool /\ InUse' \subseteq InUse
    <2>1. /\ pool' = pool
          /\ tx' = tx \/ (tx[u] \in {"open", "failed"} /\ tx' = [tx EXCEPT ![u] = "failed"])
      BY <1>3 DEF ExecStatement, FailStatement
    <2> QED
      BY <2>1 DEF Inv, TypeOK
  <1>4. ASSUME NEW u \in Units, WithTx(u) \/ Call(u) \/ FnReturns(u) \/ CtxDone(u)
        PROVE  pool' = pool /\ tx' = tx
    BY <1>4 DEF WithTx, Refuse, Call, FnReturns, CtxDone
  <1>5. ASSUME NEW row \in OtherRows, OtherWrite(row) PROVE pool' = pool /\ tx' = tx
    BY <1>5 DEF OtherWrite, locals
  <1>6. CASE UNCHANGED vars
    BY <1>6 DEF vars, locals
  <1> QED
    BY <1>1, <1>2, <1>3, <1>4, <1>5, <1>6 DEF Next, Ends, OtherRequests

\* WithTx always gives its connection back, and the pool's limit holds
\* (ConnectionsReturned), for any number of units and connections.
THEOREM Connections == Spec => []ConnectionsReturned
  <1> DEFINE Within == Cardinality(InUse) \in Nat /\ Cardinality(InUse) <= pool
  <1>1. Init => Within
    <2> SUFFICES ASSUME Init PROVE Within
      OBVIOUS
    <2>1. InUse = {}
      BY DEF Init, InUse, Active
    <2> QED
      BY <2>1, FS_EmptySet, UnitsAssumption DEF Init
  <1>2. Inv /\ Within /\ [Next]_vars => Within'
    <2> SUFFICES ASSUME Inv, Within, [Next]_vars PROVE Within'
      OBVIOUS
    <2>1. IsFiniteSet(InUse)
      BY FS_Subset, UnitsAssumption DEF InUse
    <2>2. pool \in Nat /\ pool' = pool
      BY InUseStep, UnitsAssumption DEF Inv, TypeOK
    <2>3. CASE InUse' \subseteq InUse
      <3>1. IsFiniteSet(InUse') /\ Cardinality(InUse') <= Cardinality(InUse)
        BY <2>1, <2>3, FS_Subset
      <3> QED
        BY <2>2, <3>1, FS_CardinalityType
    <2>4. ASSUME NEW u \in Units, InUse' = InUse \cup {u}, Cardinality(InUse) < pool
          PROVE  Within'
      <3>1. Cardinality(InUse') \in {Cardinality(InUse), Cardinality(InUse) + 1}
        BY <2>1, <2>4, FS_AddElement
      <3> QED
        BY <2>2, <2>4, <3>1
    <2> QED
      BY <2>3, <2>4, InUseStep
  <1>3. Inv /\ Within => ConnectionsReturned
    BY DEF Inv, Linked, ConnectionsReturned
  <1> QED
    BY <1>1, <1>2, <1>3, Invariant, PTL DEF Spec
=============================================================================
