-------------------------- MODULE GraphQLResolvers --------------------------
(***************************************************************************)
(* How a call of a resolver may end.  The router wires the resolvers of    *)
(* graph/resolver/schema.resolvers.go, which all panic; the ones of        *)
(* graph/resolver/user.resolvers.go call the user service but have other   *)
(* receivers and are not wired yet.  An outcome is one of                  *)
(*   "value"   a value, for a mutation with its effect on the store        *)
(*   "nil"     no value and no error                                       *)
(*   "err"     an error, nothing done                                      *)
(*   "late"    an error although the mutation has been done (a statement   *)
(*             whose answer was lost)                                      *)
(*   "panic"                                                               *)
(***************************************************************************)

\* schema.resolvers.go
Wired(field) == {"panic"}

\* user.resolvers.go: an id that is no UUID and an error of the service are
\* both an error; List of the in-memory store may panic on a huge page.
Unwired(field) ==
    CASE field = "users" -> {"value", "err", "panic"}
      [] field = "user" -> {"value", "err"}
      [] field \in {"createUser", "updateUser", "deleteUser"} -> {"value", "err", "late"}

\* executionContext.introspectSchema and introspectType: a name that is no
\* type gives nil.  NewDefaultServer enables introspection.
Introspect(field) == IF field = "type" THEN {"value", "nil"} ELSE {"value"}

RootOutcomes(wired, field) ==
    IF field \in {"schema", "type"} THEN Introspect(field)
    ELSE IF wired THEN Wired(field) ELSE Unwired(field)
=============================================================================
