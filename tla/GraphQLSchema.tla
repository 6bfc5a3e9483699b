--------------------------- MODULE GraphQLSchema ---------------------------
(***************************************************************************)
(* The fields of the executable schema that gqlgen generates from          *)
(* graph/schema.graphqls (graph/generated/generated.go), one entry for     *)
(* every field function _T_f and its fieldContext_T_f: the kind of value   *)
(* it marshals, whether a null is an error there, and whether it has       *)
(* arguments, whose coercion may fail.  The introspection types __Schema,  *)
(* __Type, ... are named without underscores.                              *)
(***************************************************************************)

Entry(kind, nonNull, args) == [kind |-> kind, nonNull |-> nonNull, args |-> args]

\* T! and T of a scalar (a list of scalars included), an object and a list.
Leaf == Entry("leaf", TRUE, FALSE)
OptLeaf == Entry("leaf", FALSE, FALSE)
Object == Entry("object", TRUE, FALSE)
OptObject == Entry("object", FALSE, FALSE)
List == Entry("list", TRUE, FALSE)
OptList == Entry("list", FALSE, FALSE)

\* The field takes arguments.
Args(entry) == [entry EXCEPT !.args = TRUE]

MutationFields == [createUser |-> Args(Object), updateUser |-> Args(Object),
                   deleteUser |-> Args(Leaf)]

\* type and schema are __type and __schema.
QueryFields == [users |-> Args(List), user |-> Args(OptObject),
                type |-> Args(OptObject), schema |-> OptObject]

UserFields == [id |-> Leaf, name |-> Leaf, email |-> Leaf, createdAt |-> Leaf,
               updatedAt |-> Leaf, deletedAt |-> OptLeaf]

DirectiveFields == [name |-> Leaf, description |-> OptLeaf, locations |-> Leaf,
                    args |-> List, isRepeatable |-> Leaf]

EnumValueFields == [name |-> Leaf, description |-> OptLeaf, isDeprecated |-> Leaf,
                    deprecationReason |-> OptLeaf]

FieldFields == [name |-> Leaf, description |-> OptLeaf, args |-> List,
                type |-> Object, isDeprecated |-> Leaf, deprecationReason |-> OptLeaf]

InputValueFields == [name |-> Leaf, description |-> OptLeaf, type |-> Object,
                     defaultValue |-> OptLeaf]

SchemaFields == [description |-> OptLeaf, types |-> List, queryType |-> Object,
                 mutationType |-> OptObject, subscriptionType |-> OptObject,
                 directives |-> List]

TypeFields == [kind |-> Leaf, name |-> OptLeaf, description |-> OptLeaf,
               fields |-> Args(OptList), interfaces |-> OptList,
               possibleTypes |-> OptList, enumValues |-> Args(OptList),
               inputFields |-> OptList, ofType |-> OptObject,
               specifiedByURL |-> OptLeaf]

Types == [Mutation |-> MutationFields, Query |-> QueryFields, User |-> UserFields,
          Directive |-> DirectiveFields, EnumValue |-> EnumValueFields,
          Field |-> FieldFields, InputValue |-> InputValueFields,
          Schema |-> SchemaFields, Type |-> TypeFields]
=============================================================================
