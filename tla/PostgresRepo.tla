---------------------------- MODULE PostgresRepo ----------------------------
(***************************************************************************)
(* postgres.UserRepo (internal/storage/postgres/user_repo.go) over the     *)
(* users table of migrations/0001 and 0002: id is the primary key, email   *)
(* is UNIQUE over all rows, soft-deleted ones included.  Every method is   *)
(* one SQL statement, hence atomic.  The statement can also fail on the    *)
(* way: the error then comes back either with the statement undone or,     *)
(* when the connection or the request's context dies after the server has  *)
(* executed it, with the statement done.                                   *)
(***************************************************************************)
EXTENDS Users

CONSTANT DBFaults        \* whether statements may fail on the way

ASSUME DBFaultsAssumption == DBFaults \in BOOLEAN

\* external: the UNIQUE index of the users table
EmailTaken(table, u) ==
    \E id \in DOMAIN table :
        id # u.id /\ table[id] # Nil /\ table[id].email = u.email

\* external: what becomes of a statement that would leave the table as given
Exec(before, after, e) ==
    {Outcome(after, e)}
      \cup (IF DBFaults THEN {Outcome(before, "other"), Outcome(after, "other")}
                        ELSE {})

\* INSERT INTO users
PgCreate(table, u) ==
    IF table[u.id] # Nil \/ EmailTaken(table, u)
    THEN {Outcome(table, "other")}
    ELSE Exec(table, [table EXCEPT ![u.id] = u], "nil")

\* SELECT ... WHERE id=$1 AND deleted_at IS NULL
PgGet(table, id) ==
    Exec(table, table, IF LiveIn(table, id) THEN "nil" ELSE "not_found")

\* Mutant: the UNIQUE index does not cover updates.
PgUpdateUnchecked(table, u) ==
    IF ~LiveIn(table, u.id)
    THEN Exec(table, table, "not_found")
    ELSE Exec(table,
              [table EXCEPT ![u.id] = [@ EXCEPT !.name = u.name, !.email = u.email,
                                                !.updatedAt = u.updatedAt]],
              "nil")

\* UPDATE users SET name, email, updated_at WHERE id=$1 AND deleted_at IS NULL
PgUpdate(table, u) ==
    IF ~LiveIn(table, u.id)
    THEN Exec(table, table, "not_found")
    ELSE IF EmailTaken(table, u)
    THEN {Outcome(table, "other")}
    ELSE Exec(table,
              [table EXCEPT ![u.id] = [@ EXCEPT !.name = u.name, !.email = u.email,
                                                !.updatedAt = u.updatedAt]],
              "nil")

\* UPDATE users SET deleted_at WHERE id=$1 AND deleted_at IS NULL
PgDelete(table, id) ==
    IF LiveIn(table, id)
    THEN Exec(table, SoftDeleted(table, id), "nil")
    ELSE Exec(table, table, "not_found")
=============================================================================
