---------------------------- MODULE MCUnitOfWork ----------------------------
(* Rows for UnitOfWork. *)
EXTENDS UnitOfWork

CONSTANTS u1, u2, n1, a1, a2

Row(id, addr) ==
    [id |-> id, name |-> n1, email |-> [addr |-> addr, form |-> "plain"],
     createdAt |-> 0, updatedAt |-> 0, deleted |-> FALSE]

\* Others give the first user the address that units want for the second.
MCRows == {Row(u1, a1), Row(u2, a2)}

MCOtherRows == {Row(u1, a2)}
=============================================================================
