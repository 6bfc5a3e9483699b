--------------------------- MODULE UserDirectory ---------------------------
(***************************************************************************)
(* What the UserRepository interface (internal/core/usersvc.go) promises   *)
(* to the rest of the system, whichever store implements it: a row is      *)
(* inserted once, overwritten while it is live, soft-deleted at most once  *)
(* and then never touched again; the id and the creation time of a row     *)
(* never change.  UserService.tla is shown to implement this module.       *)
(***************************************************************************)
CONSTANTS
    IDs,    \* the user ids (uuid.UUID)
    User,   \* the set of core.User values
    Nil     \* Go's nil: here, "no row with this id"

VARIABLE users      \* users[id] is the row of the id, or Nil

Init == users = [id \in IDs |-> Nil]

Live(id) == users[id] # Nil /\ ~users[id].deleted

\* The row of this id becomes a live user with this id; no other row changes.
Put(id) ==
    /\ users'[id] \in User
    /\ users'[id].id = id /\ ~users'[id].deleted
    /\ users' = [users EXCEPT ![id] = users'[id]]

Insert(id) ==
    /\ users[id] = Nil
    /\ Put(id)

Overwrite(id) ==
    /\ Live(id)
    /\ Put(id)
    /\ users'[id].createdAt = users[id].createdAt

SoftDelete(id) ==
    /\ Live(id)
    /\ users' = [users EXCEPT ![id] = [@ EXCEPT !.deleted = TRUE]]

Next == \E id \in IDs : Insert(id) \/ Overwrite(id) \/ SoftDelete(id)

Spec == Init /\ [][Next]_users
=============================================================================
