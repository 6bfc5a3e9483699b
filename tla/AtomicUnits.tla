---------------------------- MODULE AtomicUnits ----------------------------
(***************************************************************************)
(* What WithTx promises (UserService in internal/core/usersvc.go): a unit  *)
(* of work is decided once.  Until then only it sees what it has written   *)
(* and nobody else writes the same rows; committed, all of it is there     *)
(* from one step to the next; undone, nothing of it ever is.  A caller     *)
(* that is told nil knows that its unit is committed.  UnitOfWork.tla      *)
(* implements this.                                                        *)
(***************************************************************************)
CONSTANTS
    Units,     \* calls of WithTx
    IDs,       \* user ids
    User,      \* values of rows
    Nil        \* no row, nothing written

VARIABLES
    users,     \* the table
    written,   \* of each unit that is not decided: the rows it has written
    fate,      \* of each unit: "open", "committed" or "undone"
    answer     \* what its caller was told: "none", "nil", "error" or "panic"

vars == <<users, written, fate, answer>>

Tables == [IDs -> User \cup {Nil}]
Nothing == [id \in IDs |-> Nil]

Init ==
    /\ users = Nothing
    /\ written = [u \in Units |-> Nothing]
    /\ fate = [u \in Units |-> "open"]
    /\ answer = [u \in Units |-> "none"]

Write(u) ==
    /\ fate[u] = "open"
    /\ written' \in [Units -> Tables]
    /\ \A v \in Units \ {u} : written'[v] = written[v]
    /\ \A id \in IDs : written'[u][id] # written[u][id] =>
          \A v \in Units \ {u} : written[v][id] = Nil
    /\ UNCHANGED <<users, fate, answer>>

Decide(u) ==
    /\ fate[u] = "open"
    /\ \/ /\ fate' = [fate EXCEPT ![u] = "committed"]
          /\ users' = [id \in IDs |->
                          IF written[u][id] # Nil THEN written[u][id] ELSE users[id]]
       \/ /\ fate' = [fate EXCEPT ![u] = "undone"]
          /\ UNCHANGED users
    /\ written' = [written EXCEPT ![u] = Nothing]

\* The caller hears of a unit only once it is decided; an error or a panic
\* does not tell how.
Tell(u) ==
    /\ answer[u] = "none"
    /\ fate'[u] # "open"
    /\ \E a \in {"nil", "error", "panic"} :
          /\ answer' = [answer EXCEPT ![u] = a]
          /\ a = "nil" => fate'[u] = "committed"

\* Other requests write single rows that no unit has written.
Others ==
    /\ users' \in Tables
    /\ \E id \in IDs :
          /\ \A u \in Units : written[u][id] = Nil
          /\ \A other \in IDs \ {id} : users'[other] = users[other]
    /\ UNCHANGED <<written, fate, answer>>

Next ==
    \/ \E u \in Units :
          \/ Write(u)
          \/ Decide(u) /\ (Tell(u) \/ UNCHANGED answer)
          \/ UNCHANGED <<users, written, fate>> /\ Tell(u)
    \/ Others

Spec == Init /\ [][Next]_vars
=============================================================================
