------------------------------ MODULE MCGraphQL ------------------------------
(* Documents for GraphQLExecutor. *)
EXTENDS GraphQLExecutor

N(parent, on, field) == [parent |-> parent, on |-> on, field |-> field]

\* { users { id deletedAt } user { name } type { fields { name } } }, a list of two
Lists == [op |-> "Query", nodes |->
    << N(0, "Query", "users"), N(1, "List", "User"), N(2, "User", "id"),
       N(2, "User", "deletedAt"), N(1, "List", "User"), N(5, "User", "id"),
       N(0, "Query", "user"), N(7, "User", "name"),
       N(0, "Query", "type"), N(9, "Type", "kind") >>]

\* { a: users { } b: users { name } user { email } }, an empty list and one of one
Aliases == [op |-> "Query", nodes |->
    << N(0, "Query", "users"), N(0, "Query", "users"), N(2, "List", "User"),
       N(3, "User", "name"), N(0, "Query", "user"), N(5, "User", "email") >>]

\* { schema { types { fields(includeDeprecated) { type { ofType { kind } } }
\*            enumValues { name } } directives { args { name defaultValue } } } }
Introspection == [op |-> "Query", nodes |->
    << N(0, "Query", "schema"), N(1, "Schema", "types"), N(2, "List", "Type"),
       N(3, "Type", "fields"), N(4, "List", "Field"), N(5, "Field", "type"),
       N(6, "Type", "ofType"), N(7, "Type", "kind"),
       N(3, "Type", "enumValues"), N(9, "List", "EnumValue"), N(10, "EnumValue", "name"),
       N(1, "Schema", "directives"), N(12, "List", "Directive"),
       N(13, "Directive", "args"), N(14, "List", "InputValue"),
       N(15, "InputValue", "name"), N(15, "InputValue", "defaultValue") >>]

\* mutation { createUser { id } updateUser { id deletedAt } deleteUser }
Mutations == [op |-> "Mutation", nodes |->
    << N(0, "Mutation", "createUser"), N(1, "User", "id"),
       N(0, "Mutation", "updateUser"), N(3, "User", "id"), N(3, "User", "deletedAt"),
       N(0, "Mutation", "deleteUser") >>]

MCDocs == {Lists, Aliases, Introspection, Mutations}

MCWirings == {TRUE, FALSE}
=============================================================================
