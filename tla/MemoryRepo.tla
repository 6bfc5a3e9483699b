----------------------------- MODULE MemoryRepo -----------------------------
(***************************************************************************)
(* InMemoryUserRepo (internal/core/user_repo_memory.go): a map guarded by  *)
(* one RWMutex.  Every method holds the lock from its first to its last    *)
(* statement, so each is one atomic function of the table.  A method is    *)
(* modelled by the set of its possible outcomes: the table after the call  *)
(* and the error returned.                                                 *)
(***************************************************************************)
EXTENDS Users

\* Create: refuses an id that is already there ("duplicate id"), even one
\* that is soft-deleted; there is no constraint on the email.
MemCreate(table, u) ==
    IF table[u.id] # Nil
    THEN {Outcome(table, "other")}
    ELSE {Outcome([table EXCEPT ![u.id] = u], "nil")}

\* Get: a copy of the row; the outcome's err says whether there is one.
MemGet(table, id) ==
    {Outcome(table, IF LiveIn(table, id) THEN "nil" ELSE "not_found")}

\* Mutant: Update does not look at the row it replaces.
MemUpdateBlind(table, u) == {Outcome([table EXCEPT ![u.id] = u], "nil")}

\* Mutant: Update checks the email once the row is written.
MemUpdateChecksLate(table, u) ==
    IF LiveIn(table, u.id)
    THEN {Outcome([table EXCEPT ![u.id] = u],
                  IF \E id \in DOMAIN table :
                       id # u.id /\ table[id] # Nil /\ table[id].email = u.email
                  THEN "other" ELSE "nil")}
    ELSE {Outcome(table, "not_found")}

\* Update: stores the caller's copy whole, creation time included.
MemUpdate(table, u) ==
    IF LiveIn(table, u.id)
    THEN {Outcome([table EXCEPT ![u.id] = u], "nil")}
    ELSE {Outcome(table, "not_found")}

\* Delete: sets DeletedAt in place.
MemDelete(table, id) ==
    IF LiveIn(table, id)
    THEN {Outcome(SoftDeleted(table, id), "nil")}
    ELSE {Outcome(table, "not_found")}
=============================================================================
