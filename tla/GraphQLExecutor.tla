--------------------------- MODULE GraphQLExecutor ---------------------------
(***************************************************************************)
(* One operation through the generated executor                            *)
(* (graph/generated/generated.go).  A document is the tree of the values   *)
(* the operation asks for: node 0 is the operation, every other node a     *)
(* selected field, or an element of a list, and comes after its parent and *)
(* its earlier siblings.  Parsing and validation of the query, the locks   *)
(* around errors and FieldSet are gqlgen's own and external.  No field is  *)
(* ever deferred (the maps named deferred stay empty), no complexity limit *)
(* is configured, and the schema has no subscription.                      *)
(***************************************************************************)
EXTENDS GraphQLSchema, GraphQLResolvers, Integers, Sequences, FiniteSets

CONSTANTS
    Docs,      \* the documents
    Wirings    \* subset of BOOLEAN: TRUE is what the router wires

Node == [parent : Nat, on : DOMAIN Types \cup {"List"}, field : STRING]

\* The entry of a node; the elements of all lists are T!.
EntryOf(d, n) ==
    CASE n = 0 -> OptObject
      [] n # 0 /\ d.nodes[n].on = "List" -> Object
      [] OTHER -> Types[d.nodes[n].on][d.nodes[n].field]

\* What gqlgen's validation lets through: the operation selects fields of its
\* root type, an object fields of its type, a list stands above its elements,
\* and nothing is selected below a scalar.
WellFormed(d) ==
    /\ d.op \in {"Query", "Mutation"}
    /\ d.nodes \in Seq(Node)
    /\ \A n \in DOMAIN d.nodes :
          LET node == d.nodes[n]
          IN  /\ node.parent \in 0 .. n - 1
              /\ IF node.parent = 0 THEN node.on = d.op
                                    ELSE node.on \notin {"Query", "Mutation"}
              /\ EntryOf(d, node.parent).kind =
                    IF node.on = "List" THEN "list" ELSE "object"
              /\ node.on # "List" => node.field \in DOMAIN Types[node.on]

ASSUME DocsAssumption == \A d \in Docs : WellFormed(d)

VARIABLES
    doc,        \* the document
    wired,      \* which resolvers are in place
    st,         \* of each node: "wait", "call", "run", "ok" or "null"
    out,        \* how the node's resolver ended, "none" before
    invalids,   \* FieldSet.Invalids, resp. the null elements of an Array
    errors,     \* the errors of the response: the nodes they are about
    applied,    \* the mutations that took effect, in order
    handed      \* responses the handler has handed out; 2 stands for nil

vars == <<doc, wired, st, out, invalids, errors, applied, handed>>

Nodes == DOMAIN doc.nodes

AllNodes == {0} \cup Nodes

Info(n) == EntryOf(doc, n)

NonNull(n) == Info(n).nonNull

Children(n) == {c \in Nodes : doc.nodes[c].parent = n}

IsRoot(n) == n # 0 /\ doc.nodes[n].parent = 0

Done(n) == st[n] \in {"ok", "null"}

TypeOK ==
    /\ doc \in Docs
    /\ wired \in Wirings
    /\ st \in [AllNodes -> {"wait", "call", "run", "ok", "null"}]
    /\ out \in [AllNodes -> {"none", "args", "value", "nil", "err", "late", "panic"}]
    /\ invalids \in [AllNodes -> Nat]
    /\ errors \in Seq(Nodes)
    /\ applied \in Seq(Nodes)
    /\ handed \in 0 .. 2

Init ==
    /\ doc \in Docs
    /\ wired \in Wirings
    /\ st = [n \in AllNodes |-> "wait"]
    /\ out = [n \in AllNodes |-> "none"]
    /\ invalids = [n \in AllNodes |-> 0]
    /\ errors = <<>>
    /\ applied = <<>>
    /\ handed = 0

-----------------------------------------------------------------------------
\* Mutant: the fields of a mutation run on goroutines of their own.
ConcurrentMutations(n) ==
    \/ doc.nodes[n].on \in {"List", "Mutation"}
    \/ doc.nodes[n].on = "Query" /\ doc.nodes[n].field \in {"users", "user"}

\* Nodes that run on a goroutine of their own: the fields users and user of a
\* query (FieldSet.Concurrently) and the elements of a list.
Concurrent(n) ==
    \/ doc.nodes[n].on = "List"
    \/ doc.nodes[n].on = "Query" /\ doc.nodes[n].field \in {"users", "user"}

\* The loop of _Query, _Mutation, _User, ... reaches its fields in order, each
\* after the one before is done; Dispatch starts the concurrent ones last.
Reached(n) ==
    LET p == doc.nodes[n].parent
    IN  /\ st[p] = "run"
        /\ \A s \in Children(p) :
              ~Concurrent(s) /\ (Concurrent(n) \/ s < n) => Done(s)

\* Mutant: a null in a nullable field counts as well.
CountedAll(n) == n # 0

\* Mutant: _Query does not count a null of users.
CountedBelowRoot(n) == n # 0 /\ NonNull(n) /\ ~IsRoot(n)

\* The nulls that are counted against the parent.
Counted(n) == n # 0 /\ NonNull(n)

\* Mutant: a null takes one away from Invalids.
CompleteDown(n, result) ==
    /\ st' = [st EXCEPT ![n] = result]
    /\ invalids' = IF result = "null" /\ Counted(n)
                   THEN [invalids EXCEPT ![doc.nodes[n].parent] = @ - 1]
                   ELSE invalids

\* Node n has its result: the parent's out.Values and Invalids.
Complete(n, result) ==
    /\ st' = [st EXCEPT ![n] = result]
    /\ invalids' = IF result = "null" /\ Counted(n)
                   THEN [invalids EXCEPT ![doc.nodes[n].parent] = @ + 1]
                   ELSE invalids

\* The response handler of Exec is called for the first time.
Exec ==
    /\ handed = 0 /\ st[0] = "wait"
    /\ st' = [st EXCEPT ![0] = "run"]
    /\ out' = [out EXCEPT ![0] = "value"]
    /\ UNCHANGED <<doc, wired, invalids, errors, applied, handed>>

\* The coercion of arguments (field_T_f_args) fails, or panics, in the
\* fieldContext function, which records it: the field function gives null.
FieldContextFails(n) ==
    /\ st[n] = "wait" /\ Reached(n) /\ Info(n).args
    /\ out' = [out EXCEPT ![n] = "args"]
    /\ errors' = Append(errors, n)
    /\ Complete(n, "null")
    /\ UNCHANGED <<doc, wired, applied, handed>>

\* The field function calls its resolver.
FieldContext(n) ==
    /\ st[n] = "wait" /\ Reached(n)
    /\ st' = [st EXCEPT ![n] = "call"]
    /\ UNCHANGED <<doc, wired, out, invalids, errors, applied, handed>>

\* Fields of User and of the introspection types read a struct: only a
\* nullable one can be nil.
Outcomes(n) ==
    IF IsRoot(n) THEN RootOutcomes(wired, doc.nodes[n].field)
    ELSE IF NonNull(n) THEN {"value"} ELSE {"value", "nil"}

\* Mutant: the panic is recovered and not recorded.
ReportedErr(n, o) == o \in {"err", "late"} \/ (o = "nil" /\ NonNull(n))

\* What the field function records: an error, a recovered panic, a nil that
\* the schema does not allow.
Reported(n, o) == o \in {"err", "late", "panic"} \/ (o = "nil" /\ NonNull(n))

\* The resolver ends.  A leaf is marshalled at once, an object or a list
\* starts on its fields or elements.
Resolve(n) ==
    /\ st[n] = "call"
    /\ \E o \in Outcomes(n) :
          /\ out' = [out EXCEPT ![n] = o]
          /\ applied' = IF doc.nodes[n].on = "Mutation" /\ o \in {"value", "late"}
                        THEN Append(applied, n) ELSE applied
          /\ errors' = IF Reported(n, o) THEN Append(errors, n) ELSE errors
          /\ CASE o # "value" -> Complete(n, "null")
               [] o = "value" /\ Info(n).kind = "leaf" -> Complete(n, "ok")
               [] OTHER -> /\ st' = [st EXCEPT ![n] = "run"]
                           /\ UNCHANGED invalids
    /\ UNCHANGED <<doc, wired, handed>>

\* Mutant: an element that ends with a null does not call wg.Done.
JoinedOk(n) == \A c \in Children(n) : st[c] = "ok"

\* The loop is through and the WaitGroup is at zero.
Joined(n) == \A c \in Children(n) : Done(c)

\* An object with an invalid field, or a list with a null element, is null;
\* null climbs without another error.
Finish(n) ==
    /\ st[n] = "run" /\ Joined(n)
    /\ Complete(n, IF invalids[n] > 0 THEN "null" ELSE "ok")
    /\ handed' = IF n = 0 THEN 1 ELSE handed
    /\ UNCHANGED <<doc, wired, out, errors, applied>>

\* Further calls of the response handler: nil, nothing was deferred.
ExecAgain ==
    /\ handed = 1
    /\ handed' = 2
    /\ UNCHANGED <<doc, wired, st, out, invalids, errors, applied>>

\* A goroutine of the operation takes its next step.
Step ==
    \/ \E n \in Nodes : FieldContextFails(n) \/ FieldContext(n) \/ Resolve(n)
    \/ \E n \in AllNodes : Finish(n)

\* The process goes on with other requests.
OtherRequests == UNCHANGED vars

Next == Exec \/ Step \/ ExecAgain \/ OtherRequests

\* The transport calls the handler and the goroutines run; every resolver ends.
Fairness == WF_vars(Exec) /\ WF_vars(Step)

Spec == Init /\ [][Next]_vars /\ Fairness

-----------------------------------------------------------------------------
\* The nodes above a node.
Above == LET up[n \in AllNodes] ==
                 IF n = 0 THEN {} ELSE {doc.nodes[n].parent} \cup up[doc.nodes[n].parent]
         IN  up

\* The client sees a node whose ancestors all have a value.
Visible(n) == \A a \in Above[n] : st[a] = "ok"

Failed(n) == out[n] \in {"args", "err", "late", "panic"} \/ (out[n] = "nil" /\ NonNull(n))

\* Whatever fails and in whatever order the goroutines end, the client never
\* finds a null where the schema promises a value.
NoForbiddenNull ==
    handed > 0 => \A n \in Nodes : Visible(n) /\ NonNull(n) => st[n] = "ok"

\* Nothing is thrown away needlessly: a null is nil itself or failed, or lies
\* above such a node with only non-null nodes in between.  In particular a
\* query keeps its users when its user is missing or fails.
NullsCaused ==
    \A n \in AllNodes : st[n] = "null" =>
        \E d \in AllNodes :
            /\ d = n \/ n \in Above[d]
            /\ out[d] \notin {"none", "value"}
            /\ \A m \in ({d} \cup Above[d]) \ {n} : n \in Above[m] => NonNull(m)

\* Every failure is reported exactly once, whichever goroutine it happens on,
\* a recovered panic included; nothing else is reported.
ErrorsOnce ==
    /\ \A n \in Nodes : Failed(n) <=> \E i \in DOMAIN errors : errors[i] = n
    /\ \A i, j \in DOMAIN errors : errors[i] = errors[j] => i = j

\* Mutations take effect one after the other: when one has been applied all
\* fields before it are complete.  A failed one does not stop the ones after
\* it, nor undo the ones before it, although data is then null.
EffectsInOrder ==
    /\ \A i \in DOMAIN applied : \A m \in Nodes :
          IsRoot(m) /\ m < applied[i] => Done(m)
    /\ handed > 0 =>
          \A n \in Nodes : IsRoot(n) =>
              /\ out[n] # "none"
              /\ (doc.op = "Mutation" /\ out[n] \in {"value", "late"}) <=>
                 (\E i \in DOMAIN applied : applied[i] = n)

\* Every operation is answered: no goroutine that fails or panics leaves the
\* join of its FieldSet or list waiting.
Answered == <>(handed > 0)
=============================================================================
