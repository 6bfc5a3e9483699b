------------------------------- MODULE Users -------------------------------
(***************************************************************************)
(* The user record (internal/core/user.go), the errors a repository call   *)
(* may return (internal/core/errors.go) and the shape of such a call.      *)
(***************************************************************************)
EXTENDS Naturals

CONSTANTS
    IDs,            \* user ids; uuid.New() returns any of them
    Names,          \* names once trimmed
    Addrs,          \* mail addresses
    Nil             \* Go's nil: a missing row, an absent field of a patch

\* A stored email is a whole string: a bare address, or an address with a
\* display name in front ("alice <a@b.c>").
Email == [addr : Addrs, form : {"plain", "display"}]

\* deleted stands for DeletedAt # nil; times are readings of a clock.
User == [id : IDs, name : Names, email : Email,
         createdAt : Nat, updatedAt : Nat, deleted : BOOLEAN]

ASSUME NilAssumption == Nil \notin User

\* "other" is every error that is none of the package's own: a duplicate id,
\* a violated constraint, a lost connection.  Nothing returns ErrConflict.
Errs == {"nil", "not_found", "validation", "other"}

\* The rows that Get, Update and Delete see.
LiveIn(table, id) == table[id] # Nil /\ ~table[id].deleted

\* The table with DeletedAt set in one row.
SoftDeleted(table, id) == [table EXCEPT ![id] = [@ EXCEPT !.deleted = TRUE]]

\* One outcome of a repository call: the table after it, the error returned.
Outcome(table, e) == [users |-> table, err |-> e]
=============================================================================
