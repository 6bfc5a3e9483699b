---------------------------- MODULE GraphQLProofs ----------------------------
(***************************************************************************)
(* Theorems about GraphQLExecutor, for any well-formed documents and any   *)
(* order of the goroutines: errors are reported once, mutations run in     *)
(* order, nulls are where the schema allows them and nowhere needlessly.   *)
(***************************************************************************)
EXTENDS GraphQLExecutor, SequenceTheorems, WellFoundedInduction, TLAPS

\* A node has an outcome once its resolver has ended, and only "value" goes
\* on to fields, elements or a scalar.
OutMatches ==
    \A n \in AllNodes :
        /\ out[n] = "none" <=> st[n] \in {"wait", "call"}
        /\ st[n] \in {"run", "ok"} => out[n] = "value"
        /\ n = 0 => out[0] \in {"none", "value"} /\ st[0] # "call"

\* The join: what has finished by itself has finished below.
ChildrenDone ==
    \A n \in AllNodes : Done(n) /\ out[n] = "value" => \A c \in Children(n) : Done(c)

\* A field has been reached after the ones before it.
Begun ==
    \A n \in Nodes : st[n] # "wait" =>
        \A s \in Children(doc.nodes[n].parent) :
            ~Concurrent(s) /\ (Concurrent(n) \/ s < n) => Done(s)

BadChild(n) == \E c \in Children(n) : NonNull(c) /\ st[c] = "null"

\* Invalids is positive when a null has been counted.
NullsCounted == \A n \in AllNodes : invalids[n] > 0 <=> BadChild(n)

\* A value has no forbidden null right below it, a null has a reason.
OkWhole == \A n \in AllNodes : st[n] = "ok" => \A c \in Children(n) : NonNull(c) => st[c] = "ok"

NullLocal ==
    \A n \in AllNodes : st[n] = "null" => out[n] \notin {"none", "value"} \/ BadChild(n)

\* The mutations that took effect are listed.
Takes(n) == doc.nodes[n].on = "Mutation" /\ out[n] \in {"value", "late"}

AppliedMatches ==
    \A n \in Nodes : Takes(n) <=> \E i \in DOMAIN applied : applied[i] = n

HandedDone == handed > 0 => Done(0)

ExecInv ==
    /\ TypeOK /\ OutMatches /\ ChildrenDone /\ Begun /\ NullsCounted /\ OkWhole
    /\ NullLocal /\ ErrorsOnce /\ AppliedMatches /\ HandedDone
-----------------------------------------------------------------------------
(* Documents *)

LEMMA Tree ==
    ASSUME TypeOK
    PROVE  /\ Nodes \subseteq Nat \ {0} /\ AllNodes = {0} \cup Nodes
           /\ \A n \in Nodes : /\ doc.nodes[n].parent \in AllNodes
                               /\ doc.nodes[n].parent < n
                               /\ n \in Children(doc.nodes[n].parent)
           /\ \A n \in AllNodes : \A c \in Children(n) :
                c \in Nodes /\ doc.nodes[c].parent = n /\ n < c
           /\ \A n \in AllNodes : Info(n).kind = "leaf" => Children(n) = {}
           /\ \A n \in Nodes : IsRoot(n) <=> doc.nodes[n].on \in {"Query", "Mutation"}
           /\ \A n \in Nodes : IsRoot(n) => doc.nodes[n].on = doc.op
  <1>1. WellFormed(doc)
    BY DocsAssumption DEF TypeOK
  <1>2. doc.nodes \in Seq(Node) /\ Nodes = 1 .. Len(doc.nodes) /\ Len(doc.nodes) \in Nat
    BY <1>1 DEF WellFormed, Nodes
  <1>3. Nodes \subseteq Nat \ {0} /\ AllNodes = {0} \cup Nodes
    BY <1>2 DEF AllNodes
  <1>4. \A n \in Nodes :
          /\ doc.nodes[n].parent \in 0 .. n - 1
          /\ IF doc.nodes[n].parent = 0 THEN doc.nodes[n].on = doc.op
             ELSE doc.nodes[n].on \notin {"Query", "Mutation"}
          /\ Info(doc.nodes[n].parent).kind =
               IF doc.nodes[n].on = "List" THEN "list" ELSE "object"
    BY <1>1 DEF WellFormed, Nodes, Info
  <1>5. \A n \in Nodes : doc.nodes[n].parent \in AllNodes /\ doc.nodes[n].parent < n
    BY <1>2, <1>3, <1>4
  <1>6. \A n \in AllNodes : Info(n).kind = "leaf" => Children(n) = {}
    BY <1>4 DEF Children
  <1>7. \A n \in Nodes : IsRoot(n) <=> doc.nodes[n].on \in {"Query", "Mutation"}
    BY <1>1, <1>3, <1>4 DEF IsRoot, WellFormed
  <1>8. \A n \in Nodes : IsRoot(n) => doc.nodes[n].on = doc.op
    BY <1>4 DEF IsRoot
  <1> QED
    BY <1>3, <1>5, <1>6, <1>7, <1>8 DEF Children

\* The document of an operation does not change.
LEMMA SameTree ==
    ASSUME doc' = doc
    PROVE  /\ Nodes' = Nodes /\ AllNodes' = AllNodes
           /\ \A n : /\ Children(n)' = Children(n) /\ Info(n)' = Info(n)
                     /\ NonNull(n)' = NonNull(n) /\ Concurrent(n)' = Concurrent(n)
                     /\ IsRoot(n)' = IsRoot(n)
  BY DEF Nodes, AllNodes, Children, Info, NonNull, Concurrent, IsRoot

LEMMA OutcomesTyped ==
    ASSUME TypeOK, NEW n \in Nodes
    PROVE  Outcomes(n) \subseteq {"value", "nil", "err", "late", "panic"}
  <1>1. CASE IsRoot(n)
    <2>1. WellFormed(doc)
      BY DocsAssumption DEF TypeOK
    <2>2. doc.nodes[n].on \in {"Query", "Mutation"}
      BY <1>1, Tree
    <2>3. doc.nodes[n].field \in DOMAIN Types[doc.nodes[n].on]
      BY <2>1, <2>2 DEF WellFormed, Nodes
    <2>4. DOMAIN Types["Query"] = {"users", "user", "type", "schema"}
          /\ DOMAIN Types["Mutation"] = {"createUser", "updateUser", "deleteUser"}
      BY DEF Types, QueryFields, MutationFields
    <2>5. doc.nodes[n].field \in {"users", "user", "type", "schema",
                                  "createUser", "updateUser", "deleteUser"}
      BY <2>2, <2>3, <2>4
    <2>6. RootOutcomes(wired, doc.nodes[n].field)
          \subseteq {"value", "nil", "err", "late", "panic"}
      BY <2>5 DEF RootOutcomes, Introspect, Wired, Unwired
    <2> QED
      BY <1>1, <2>6 DEF Outcomes
  <1>2. CASE ~IsRoot(n)
    BY <1>2 DEF Outcomes
  <1> QED
    BY <1>1, <1>2
-----------------------------------------------------------------------------
(* A node on its way, and a node that ends *)

\* The parts of the invariant that a response is made of.
Shape == OutMatches /\ ChildrenDone /\ Begun /\ NullsCounted /\ OkWhole /\ NullLocal

LEMMA MoveKeeps ==
    ASSUME TypeOK, Shape, doc' = doc, NEW n \in AllNodes, NEW y \in {"call", "run"},
           st' = [st EXCEPT ![n] = y], UNCHANGED invalids,
           st[n] \in {"wait", "call"}, n = 0 => y = "run",
           st[n] = "wait" => n = 0 \/ Reached(n),
           out' = IF y = "run" THEN [out EXCEPT ![n] = "value"] ELSE out
    PROVE  Shape'
  <1> USE DEF Shape
  <1>1. /\ st'[n] = y /\ \A m \in AllNodes : m # n => st'[m] = st[m]
        /\ \A m \in AllNodes : m # n => out'[m] = out[m]
        /\ out[n] = "none" /\ out'[n] = IF y = "run" THEN "value" ELSE "none"
        /\ \A m \in AllNodes : Done(m)' <=> Done(m)
        /\ ~Done(n)
    BY DEF TypeOK, Done, OutMatches
  <1>2. /\ Nodes' = Nodes /\ AllNodes' = AllNodes
        /\ \A m : Children(m)' = Children(m) /\ NonNull(m)' = NonNull(m)
                  /\ Concurrent(m)' = Concurrent(m)
    BY SameTree
  <1>3. /\ Nodes \subseteq AllNodes /\ 0 \in AllNodes /\ 0 \notin Nodes
        /\ \A m \in Nodes : doc.nodes[m].parent \in AllNodes
        /\ \A m \in AllNodes : Children(m) \subseteq Nodes
    BY Tree
  <1>4. OutMatches'
    BY <1>1, <1>2 DEF OutMatches
  <1>5. ChildrenDone'
    BY <1>1, <1>2, <1>3 DEF ChildrenDone
  <1>6. Begun'
    <2> SUFFICES ASSUME NEW m \in Nodes, st'[m] # "wait",
                        NEW s \in Children(doc.nodes[m].parent),
                        ~Concurrent(s), Concurrent(m) \/ s < m
                 PROVE  Done(s)'
      BY <1>2 DEF Begun
    <2>1. s \in AllNodes
      BY <1>3
    <2>2. CASE st[m] = "wait"
      <3>1. m = n /\ n # 0 /\ Reached(n)
        BY <1>1, <1>3, <2>2
      <3> QED
        BY <1>1, <2>1, <3>1 DEF Reached
    <2>3. CASE st[m] # "wait"
      BY <1>1, <2>1, <2>3 DEF Begun
    <2> QED
      BY <2>2, <2>3
  <1>7. \A m \in AllNodes : BadChild(m)' <=> BadChild(m)
    BY <1>1, <1>2, <1>3 DEF BadChild, Done
  <1>8. NullsCounted'
    BY <1>2, <1>7 DEF NullsCounted
  <1>9. OkWhole'
    BY <1>1, <1>2, <1>3 DEF OkWhole, Done
  <1>10. NullLocal'
    BY <1>1, <1>2, <1>7 DEF NullLocal
  <1> QED
    BY <1>4, <1>5, <1>6, <1>8, <1>9, <1>10

LEMMA CompleteKeeps ==
    ASSUME TypeOK, Shape, doc' = doc, NEW n \in AllNodes, NEW result \in {"ok", "null"},
           NEW o \in {"args", "value", "nil", "err", "late", "panic"},
           Complete(n, result), out' = [out EXCEPT ![n] = o],
           st[n] \in {"wait", "call", "run"}, n = 0 => st[n] = "run" /\ o = "value",
           st[n] = "wait" => n = 0 \/ Reached(n),
           o = "value" => Joined(n),
           result = "ok" => o = "value" /\ ~BadChild(n),
           result = "null" => o # "value" \/ BadChild(n)
    PROVE  /\ Shape'
           /\ st' \in [AllNodes -> {"wait", "call", "run", "ok", "null"}]
           /\ invalids' \in [AllNodes -> Nat]
  <1> USE DEF Shape
  <1>1. /\ st'[n] = result /\ \A m \in AllNodes : m # n => st'[m] = st[m]
        /\ out'[n] = o /\ \A m \in AllNodes : m # n => out'[m] = out[m]
        /\ \A m \in AllNodes : Done(m) => Done(m)' /\ m # n
        /\ Done(n)' /\ ~Done(n)
        /\ st' \in [AllNodes -> {"wait", "call", "run", "ok", "null"}]
    BY DEF TypeOK, Done, Complete
  <1>2. /\ Nodes' = Nodes /\ AllNodes' = AllNodes
        /\ \A m : Children(m)' = Children(m) /\ NonNull(m)' = NonNull(m)
                  /\ Concurrent(m)' = Concurrent(m)
    BY SameTree
  <1>3. /\ AllNodes = {0} \cup Nodes /\ 0 \notin Nodes
        /\ \A m \in Nodes : doc.nodes[m].parent \in AllNodes
                            /\ m \in Children(doc.nodes[m].parent)
        /\ \A m \in AllNodes : \A c \in Children(m) : c \in Nodes /\ doc.nodes[c].parent = m
        /\ \A m \in AllNodes : m \notin Children(m)
    BY Tree
  <1>4. OutMatches'
    BY <1>1, <1>2 DEF OutMatches
  <1>5. ChildrenDone'
    <2> SUFFICES ASSUME NEW m \in AllNodes, Done(m)', out'[m] = "value", NEW c \in Children(m)
                 PROVE  Done(c)'
      BY <1>2 DEF ChildrenDone
    <2>1. CASE m = n
      BY <1>1, <1>3, <2>1 DEF Joined
    <2>2. CASE m # n
      BY <1>1, <1>3, <2>2 DEF ChildrenDone, Done
    <2> QED
      BY <2>1, <2>2
  <1>6. Begun'
    <2> SUFFICES ASSUME NEW m \in Nodes, st'[m] # "wait",
                        NEW s \in Children(doc.nodes[m].parent),
                        ~Concurrent(s), Concurrent(m) \/ s < m
                 PROVE  Done(s)'
      BY <1>2 DEF Begun
    <2>1. s \in AllNodes
      BY <1>3
    <2>2. CASE st[m] = "wait"
      <3>1. m = n /\ n # 0 /\ Reached(n)
        BY <1>1, <1>3, <2>2
      <3> QED
        BY <1>1, <2>1, <3>1 DEF Reached
    <2>3. CASE st[m] # "wait"
      BY <1>1, <2>1, <2>3 DEF Begun
    <2> QED
      BY <2>2, <2>3
  <1>7. \A m \in AllNodes : /\ BadChild(m) => BadChild(m)'
                            /\ BadChild(m)' => BadChild(m) \/ (n \in Children(m) /\ NonNull(n)
                                                               /\ result = "null")
                            /\ n \in Children(m) /\ NonNull(n) /\ result = "null"
                               => BadChild(m)'
    BY <1>1, <1>2, <1>3 DEF BadChild, Done
  <1>8. NullsCounted' /\ invalids' \in [AllNodes -> Nat]
    <2>1. CASE result = "null" /\ Counted(n)
      <3> DEFINE p == doc.nodes[n].parent
      <3>1. n \in Nodes /\ p \in AllNodes /\ n \in Children(p) /\ NonNull(n)
        BY <1>3, <2>1 DEF Counted
      <3>2. invalids' = [invalids EXCEPT ![p] = @ + 1]
        BY <2>1 DEF Complete
      <3>3. /\ invalids'[p] > 0 /\ invalids' \in [AllNodes -> Nat]
            /\ \A m \in AllNodes : m # p => invalids'[m] = invalids[m]
        BY <3>1, <3>2 DEF TypeOK
      <3>4. BadChild(p)' /\ \A m \in AllNodes : m # p => (BadChild(m)' <=> BadChild(m))
        BY <1>3, <1>7, <2>1, <3>1
      <3> QED
        BY <1>2, <3>1, <3>3, <3>4 DEF NullsCounted
    <2>2. CASE ~(result = "null" /\ Counted(n))
      <3>1. invalids' = invalids
        BY <2>2 DEF Complete
      <3>2. \A m \in AllNodes : BadChild(m)' <=> BadChild(m)
        BY <1>3, <1>7, <2>2 DEF Counted
      <3> QED
        BY <1>2, <3>1, <3>2 DEF NullsCounted, TypeOK
    <2> QED
      BY <2>1, <2>2
  <1>9. OkWhole'
    <2> SUFFICES ASSUME NEW m \in AllNodes, st'[m] = "ok", NEW c \in Children(m), NonNull(c)
                 PROVE  st'[c] = "ok"
      BY <1>2 DEF OkWhole
    <2>1. c \in AllNodes
      BY <1>3
    <2>2. CASE m = n
      <3>1. Done(c) /\ st[c] # "null" /\ c # n
        BY <1>1, <1>3, <2>2 DEF Joined, BadChild
      <3> QED
        BY <1>1, <2>1, <3>1 DEF Done
    <2>3. CASE m # n
      <3>1. st[m] = "ok" /\ st[c] = "ok"
        BY <1>1, <2>3 DEF OkWhole
      <3> QED
        BY <1>1, <2>1, <3>1 DEF Done
    <2> QED
      BY <2>2, <2>3
  <1>10. NullLocal'
    <2>1. \A m \in AllNodes : m # n /\ st'[m] = "null" =>
            out'[m] \notin {"none", "value"} \/ BadChild(m)'
      BY <1>1, <1>7 DEF NullLocal
    <2>2. st'[n] = "null" => out'[n] \notin {"none", "value"} \/ BadChild(n)'
      BY <1>1, <1>7
    <2> QED
      BY <1>2, <2>1, <2>2 DEF NullLocal
  <1> QED
    BY <1>1, <1>4, <1>5, <1>6, <1>8, <1>9, <1>10
-----------------------------------------------------------------------------
(* What the response lists *)

LEMMA AppendFacts ==
    ASSUME NEW S, NEW s \in Seq(S), NEW x \in S
    PROVE  /\ Append(s, x) \in Seq(S)
           /\ \A y : (\E i \in DOMAIN Append(s, x) : Append(s, x)[i] = y)
                     <=> y = x \/ \E i \in DOMAIN s : s[i] = y
           /\ (\A i, j \in DOMAIN s : s[i] = s[j] => i = j) /\ (\A i \in DOMAIN s : s[i] # x)
              => \A i, j \in DOMAIN Append(s, x) :
                   Append(s, x)[i] = Append(s, x)[j] => i = j
  <1> DEFINE t == Append(s, x)
  <1>1. /\ t \in Seq(S) /\ Len(t) = Len(s) + 1 /\ Len(s) \in Nat
        /\ DOMAIN s = 1 .. Len(s) /\ DOMAIN t = 1 .. Len(t)
        /\ t[Len(t)] = x /\ \A i \in DOMAIN s : t[i] = s[i]
    OBVIOUS
  <1> HIDE DEF t
  <1>2. \A i \in DOMAIN t : i = Len(t) \/ i \in DOMAIN s
    BY <1>1
  <1>3. Len(t) \in DOMAIN t /\ Len(t) \notin DOMAIN s /\ DOMAIN s \subseteq DOMAIN t
    BY <1>1
  <1>4. \A y : (\E i \in DOMAIN t : t[i] = y) <=> y = x \/ \E i \in DOMAIN s : s[i] = y
    BY <1>1, <1>2, <1>3
  <1>5. ASSUME \A i, j \in DOMAIN s : s[i] = s[j] => i = j, \A i \in DOMAIN s : s[i] # x
        PROVE  \A i, j \in DOMAIN t : t[i] = t[j] => i = j
    BY <1>1, <1>2, <1>5
  <1> QED
    BY <1>1, <1>4, <1>5 DEF t

\* The errors after a step of node n that ends with outcome o.
LEMMA ErrorsKept ==
    ASSUME TypeOK, ErrorsOnce, doc' = doc, NEW n \in AllNodes, NEW o,
           out' = [out EXCEPT ![n] = o], n \in Nodes => ~Failed(n),
           \/ n \in Nodes /\ Failed(n)' /\ errors' = Append(errors, n)
           \/ ~Failed(n)' /\ errors' = errors
           \/ n = 0 /\ errors' = errors
    PROVE  ErrorsOnce' /\ errors' \in Seq(Nodes)
  <1>1. Nodes' = Nodes /\ \A m : NonNull(m)' = NonNull(m)
    BY SameTree
  <1>2. 0 \notin Nodes /\ AllNodes = {0} \cup Nodes
    BY Tree
  <1>3. \A m \in Nodes : m # n => (Failed(m)' <=> Failed(m))
    BY <1>1, <1>2 DEF Failed, TypeOK
  <1>4. errors \in Seq(Nodes)
    BY DEF TypeOK
  <1>5. CASE n \in Nodes /\ Failed(n)' /\ errors' = Append(errors, n)
    <2>1. \A i \in DOMAIN errors : errors[i] # n
      BY <1>5 DEF ErrorsOnce
    <2>2. \A i, j \in DOMAIN errors : errors[i] = errors[j] => i = j
      BY DEF ErrorsOnce
    <2>3. /\ errors' \in Seq(Nodes)
          /\ \A y : (\E i \in DOMAIN errors' : errors'[i] = y)
                    <=> y = n \/ \E i \in DOMAIN errors : errors[i] = y
          /\ \A i, j \in DOMAIN errors' : errors'[i] = errors'[j] => i = j
      BY <1>4, <1>5, <2>1, <2>2, AppendFacts
    <2>4. \A m \in Nodes : Failed(m)' <=> \E i \in DOMAIN errors' : errors'[i] = m
      BY <1>3, <1>5, <2>3 DEF ErrorsOnce
    <2> QED
      BY <1>1, <2>3, <2>4 DEF ErrorsOnce
  <1>6. CASE errors' = errors /\ (n = 0 \/ ~Failed(n)')
    <2>1. \A m \in Nodes : Failed(m)' <=> Failed(m)
      BY <1>2, <1>3, <1>6
    <2> QED
      BY <1>1, <1>4, <1>6, <2>1 DEF ErrorsOnce
  <1> QED
    BY <1>5, <1>6

\* The mutations applied after it.
LEMMA AppliedKept ==
    ASSUME TypeOK, AppliedMatches, doc' = doc, NEW n \in AllNodes, NEW o,
           out' = [out EXCEPT ![n] = o], n \in Nodes => ~Takes(n),
           \/ n \in Nodes /\ Takes(n)' /\ applied' = Append(applied, n)
           \/ ~Takes(n)' /\ applied' = applied
           \/ n = 0 /\ applied' = applied
    PROVE  AppliedMatches' /\ applied' \in Seq(Nodes)
  <1>1. Nodes' = Nodes
    BY SameTree
  <1>2. 0 \notin Nodes /\ AllNodes = {0} \cup Nodes
    BY Tree
  <1>3. \A m \in Nodes : m # n => (Takes(m)' <=> Takes(m))
    BY <1>2 DEF Takes, TypeOK
  <1>4. applied \in Seq(Nodes)
    BY DEF TypeOK
  <1>5. CASE n \in Nodes /\ Takes(n)' /\ applied' = Append(applied, n)
    <2>1. /\ applied' \in Seq(Nodes)
          /\ \A y : (\E i \in DOMAIN applied' : applied'[i] = y)
                    <=> y = n \/ \E i \in DOMAIN applied : applied[i] = y
      BY <1>4, <1>5, AppendFacts
    <2>2. \A m \in Nodes : Takes(m)' <=> \E i \in DOMAIN applied' : applied'[i] = m
      BY <1>3, <1>5, <2>1 DEF AppliedMatches
    <2> QED
      BY <1>1, <2>1, <2>2 DEF AppliedMatches
  <1>6. CASE applied' = applied /\ (n = 0 \/ ~Takes(n)')
    <2>1. \A m \in Nodes : Takes(m)' <=> Takes(m)
      BY <1>2, <1>3, <1>6
    <2> QED
      BY <1>1, <1>4, <1>6, <2>1 DEF AppliedMatches
  <1> QED
    BY <1>5, <1>6
-----------------------------------------------------------------------------
(* The steps *)

LEMMA InitExec == Init => ExecInv
  <1> SUFFICES ASSUME Init PROVE ExecInv
    OBVIOUS
  <1>1. TypeOK
    BY DEF Init, TypeOK
  <1>2. \A m \in AllNodes : Children(m) \subseteq AllNodes
    BY DEF Children, AllNodes
  <1>3. OutMatches /\ ChildrenDone /\ Begun
    BY DEF Init, OutMatches, ChildrenDone, Begun, Done, AllNodes
  <1>4. NullsCounted /\ OkWhole /\ NullLocal
    BY <1>2 DEF Init, NullsCounted, OkWhole, NullLocal, BadChild
  <1>5. ErrorsOnce /\ AppliedMatches /\ HandedDone
    BY DEF Init, ErrorsOnce, Failed, AppliedMatches, Takes, HandedDone, AllNodes
  <1> QED
    BY <1>1, <1>3, <1>4, <1>5 DEF ExecInv

\* A response that is handed out stays complete.
LEMMA HandedKept ==
    ASSUME TypeOK, HandedDone, st' \in [AllNodes -> {"wait", "call", "run", "ok", "null"}],
           Done(0) => Done(0)', handed' = handed \/ Done(0)'
    PROVE  HandedDone'
  BY DEF HandedDone

LEMMA ExecKeeps ==
    ASSUME ExecInv, Exec
    PROVE  ExecInv'
  <1>1. /\ doc' = doc /\ wired' = wired /\ 0 \in AllNodes /\ 0 \notin Nodes
        /\ st' = [st EXCEPT ![0] = "run"] /\ out' = [out EXCEPT ![0] = "value"]
        /\ UNCHANGED <<invalids, errors, applied, handed>> /\ st[0] = "wait" /\ handed = 0
    BY Tree DEF Exec, ExecInv, AllNodes
  <1>2. Shape'
    BY <1>1, MoveKeeps DEF ExecInv, Shape
  <1>3. ErrorsOnce' /\ AppliedMatches'
    BY <1>1, ErrorsKept, AppliedKept DEF ExecInv
  <1>4. TypeOK'
    BY <1>1, SameTree DEF ExecInv, TypeOK
  <1>5. HandedDone'
    BY <1>1 DEF HandedDone
  <1> QED
    BY <1>2, <1>3, <1>4, <1>5 DEF ExecInv, Shape

LEMMA FieldContextKeeps ==
    ASSUME ExecInv, NEW n \in Nodes, FieldContext(n)
    PROVE  ExecInv'
  <1>1. /\ doc' = doc /\ wired' = wired /\ n \in AllNodes /\ n # 0
        /\ st' = [st EXCEPT ![n] = "call"] /\ st[n] = "wait" /\ Reached(n)
        /\ UNCHANGED <<out, invalids, errors, applied, handed>>
    BY Tree DEF FieldContext, ExecInv, AllNodes
  <1>2. Shape'
    <2>1. PICK y \in {"call", "run"} : y = "call" /\ st' = [st EXCEPT ![n] = y]
      BY <1>1
    <2>2. TypeOK /\ Shape /\ out' = out /\ invalids' = invalids
      BY <1>1 DEF ExecInv, Shape
    <2> QED
      BY <1>1, <2>1, <2>2, MoveKeeps
  <1>3. Nodes' = Nodes /\ AllNodes' = AllNodes /\ \A m : NonNull(m)' = NonNull(m)
    BY <1>1, SameTree
  <1>4. ErrorsOnce' /\ AppliedMatches'
    BY <1>1, <1>3 DEF ExecInv, ErrorsOnce, Failed, AppliedMatches, Takes
  <1>5. TypeOK'
    BY <1>1, <1>3 DEF ExecInv, TypeOK
  <1>6. HandedDone'
    BY <1>1 DEF ExecInv, HandedDone, Done, TypeOK
  <1> QED
    BY <1>2, <1>4, <1>5, <1>6 DEF ExecInv, Shape

LEMMA FieldContextFailsKeeps ==
    ASSUME ExecInv, NEW n \in Nodes, FieldContextFails(n)
    PROVE  ExecInv'
  <1>1. /\ doc' = doc /\ wired' = wired /\ n \in AllNodes /\ n # 0
        /\ st[n] = "wait" /\ Reached(n) /\ out[n] = "none"
        /\ out' = [out EXCEPT ![n] = "args"] /\ out'[n] = "args"
        /\ errors' = Append(errors, n) /\ Complete(n, "null")
        /\ UNCHANGED <<applied, handed>>
    BY Tree DEF FieldContextFails, ExecInv, AllNodes, OutMatches, TypeOK
  <1>2. /\ Shape' /\ invalids' \in [AllNodes -> Nat]
        /\ st' \in [AllNodes -> {"wait", "call", "run", "ok", "null"}]
    BY <1>1, CompleteKeeps DEF ExecInv, Shape
  <1>3. ErrorsOnce' /\ errors' \in Seq(Nodes)
    BY <1>1, ErrorsKept DEF ExecInv, Failed
  <1>4. AppliedMatches' /\ applied' \in Seq(Nodes)
    BY <1>1, AppliedKept DEF ExecInv, Takes
  <1>5. TypeOK'
    BY <1>1, <1>2, <1>3, <1>4, SameTree DEF ExecInv, TypeOK
  <1>6. HandedDone'
    BY <1>1 DEF ExecInv, HandedDone, Done, Complete, TypeOK
  <1> QED
    BY <1>2, <1>3, <1>4, <1>5, <1>6 DEF ExecInv, Shape

LEMMA ResolveKeeps ==
    ASSUME ExecInv, NEW n \in Nodes, Resolve(n)
    PROVE  ExecInv'
  <1>1. PICK o \in Outcomes(n) :
          /\ out' = [out EXCEPT ![n] = o]
          /\ applied' = IF doc.nodes[n].on = "Mutation" /\ o \in {"value", "late"}
                        THEN Append(applied, n) ELSE applied
          /\ errors' = IF Reported(n, o) THEN Append(errors, n) ELSE errors
          /\ CASE o # "value" -> Complete(n, "null")
               [] o = "value" /\ Info(n).kind = "leaf" -> Complete(n, "ok")
               [] OTHER -> /\ st' = [st EXCEPT ![n] = "run"]
                           /\ UNCHANGED invalids
    BY DEF Resolve
  <1>2. o \in {"value", "nil", "err", "late", "panic"}
    BY OutcomesTyped DEF ExecInv
  <1>3. /\ doc' = doc /\ UNCHANGED <<wired, handed>> /\ n \in AllNodes /\ n # 0
        /\ st[n] = "call" /\ out[n] = "none" /\ out'[n] = o
    BY <1>1, Tree DEF Resolve, ExecInv, AllNodes, OutMatches, TypeOK
  <1>4. \A m : NonNull(m)' = NonNull(m)
    BY <1>3, SameTree
  <1>5. ErrorsOnce' /\ errors' \in Seq(Nodes)
    <2>1. Failed(n)' <=> Reported(n, o)
      BY <1>2, <1>3, <1>4 DEF Failed, Reported
    <2>2. ~Failed(n)
      BY <1>3 DEF Failed
    <2> QED
      BY <1>1, <1>3, <2>1, <2>2, ErrorsKept DEF ExecInv
  <1>6. AppliedMatches' /\ applied' \in Seq(Nodes)
    <2>1. Takes(n)' <=> doc.nodes[n].on = "Mutation" /\ o \in {"value", "late"}
      BY <1>3 DEF Takes
    <2>2. ~Takes(n)
      BY <1>3 DEF Takes
    <2> QED
      BY <1>1, <1>3, <2>1, <2>2, AppliedKept DEF ExecInv
  <1>7. /\ Shape' /\ invalids' \in [AllNodes -> Nat]
        /\ st' \in [AllNodes -> {"wait", "call", "run", "ok", "null"}]
    <2>1. CASE o # "value"
      BY <1>1, <1>2, <1>3, <2>1, CompleteKeeps DEF ExecInv, Shape
    <2>2. CASE o = "value" /\ Info(n).kind = "leaf"
      <3>1. Children(n) = {}
        BY <1>3, <2>2, Tree DEF ExecInv
      <3>2. Joined(n) /\ ~BadChild(n) /\ Complete(n, "ok")
        BY <1>1, <2>2, <3>1 DEF Joined, BadChild
      <3> QED
        BY <1>1, <1>3, <2>2, <3>2, CompleteKeeps DEF ExecInv, Shape
    <2>3. CASE o = "value" /\ Info(n).kind # "leaf"
      <3>1. st' = [st EXCEPT ![n] = "run"] /\ UNCHANGED invalids
        BY <1>1, <2>3
      <3> QED
        BY <1>1, <1>3, <2>3, <3>1, MoveKeeps DEF ExecInv, Shape, TypeOK
    <2> QED
      BY <2>1, <2>2, <2>3
  <1>8. TypeOK'
    BY <1>1, <1>2, <1>3, <1>5, <1>6, <1>7, SameTree DEF ExecInv, TypeOK
  <1>9. HandedDone'
    <2>1. \A m \in AllNodes : m # n => st'[m] = st[m]
      BY <1>1, <1>2 DEF Complete, ExecInv, TypeOK
    <2> QED
      BY <1>3, <2>1 DEF ExecInv, HandedDone, Done, AllNodes
  <1> QED
    BY <1>5, <1>6, <1>7, <1>8, <1>9 DEF ExecInv, Shape

LEMMA FinishKeeps ==
    ASSUME ExecInv, NEW n \in AllNodes, Finish(n)
    PROVE  ExecInv'
  <1> DEFINE result == IF invalids[n] > 0 THEN "null" ELSE "ok"
  <1>1. /\ UNCHANGED <<doc, wired, out, errors, applied>>
        /\ st[n] = "run" /\ Joined(n) /\ Complete(n, result) /\ out[n] = "value"
        /\ handed' = IF n = 0 THEN 1 ELSE handed
        /\ out' = [out EXCEPT ![n] = "value"]
    BY DEF Finish, ExecInv, OutMatches, TypeOK
  <1>2. result \in {"ok", "null"}
    OBVIOUS
  <1>3. result = "null" => BadChild(n)
    BY DEF ExecInv, NullsCounted
  <1>4. result = "ok" => ~BadChild(n)
    BY DEF ExecInv, NullsCounted
  <1> HIDE DEF result
  <1>5. /\ Shape' /\ invalids' \in [AllNodes -> Nat]
        /\ st' \in [AllNodes -> {"wait", "call", "run", "ok", "null"}]
    BY <1>1, <1>2, <1>3, <1>4, CompleteKeeps DEF ExecInv, Shape
  <1>6. Nodes' = Nodes /\ AllNodes' = AllNodes /\ \A m : NonNull(m)' = NonNull(m)
    BY <1>1, SameTree
  <1>7. ErrorsOnce' /\ AppliedMatches'
    BY <1>1, <1>6 DEF ExecInv, ErrorsOnce, Failed, AppliedMatches, Takes
  <1>8. TypeOK'
    <2>1. handed' \in 0 .. 2
      BY <1>1 DEF ExecInv, TypeOK
    <2>2. doc' \in Docs /\ wired' \in Wirings /\ errors' \in Seq(Nodes)
          /\ applied' \in Seq(Nodes)
          /\ out' \in [AllNodes -> {"none", "args", "value", "nil", "err", "late", "panic"}]
      BY <1>1 DEF ExecInv, TypeOK
    <2> QED
      BY <1>5, <1>6, <2>1, <2>2 DEF TypeOK
  <1>9. HandedDone'
    <2>1. st'[n] = result /\ \A m \in AllNodes : m # n => st'[m] = st[m]
      BY <1>1 DEF Complete, ExecInv, TypeOK
    <2> QED
      BY <1>1, <1>2, <2>1 DEF ExecInv, HandedDone, Done, AllNodes
  <1> QED
    BY <1>5, <1>7, <1>8, <1>9 DEF ExecInv, Shape

LEMMA NextExec == ExecInv /\ [Next]_vars => ExecInv'
  <1> SUFFICES ASSUME ExecInv, [Next]_vars PROVE ExecInv'
    OBVIOUS
  <1>1. CASE UNCHANGED vars
    BY <1>1 DEF vars, ExecInv, TypeOK, OutMatches, ChildrenDone, Begun, NullsCounted, OkWhole,
                NullLocal, ErrorsOnce, AppliedMatches, HandedDone, Done, BadChild, Takes,
                Failed, Nodes, AllNodes, Children, Info, NonNull, Concurrent
  <1>2. CASE Exec
    BY <1>2, ExecKeeps
  <1>3. CASE Step
    BY <1>3, FieldContextFailsKeeps, FieldContextKeeps, ResolveKeeps, FinishKeeps DEF Step
  <1>4. CASE ExecAgain
    <2>1. UNCHANGED <<doc, wired, st, out, invalids, errors, applied>>
          /\ handed = 1 /\ handed' = 2
      BY <1>4 DEF ExecAgain
    <2>2. TypeOK' /\ HandedDone'
      BY <2>1 DEF ExecInv, TypeOK, HandedDone, Done, Nodes, AllNodes
    <2>3. (OutMatches /\ ChildrenDone /\ Begun /\ NullsCounted /\ OkWhole /\ NullLocal)'
      BY <2>1 DEF ExecInv, OutMatches, ChildrenDone, Begun, NullsCounted, OkWhole, NullLocal,
                  Done, BadChild, Nodes, AllNodes, Children, Info, NonNull, Concurrent
    <2>4. (ErrorsOnce /\ AppliedMatches)'
      BY <2>1 DEF ExecInv, ErrorsOnce, AppliedMatches, Takes, Failed, Nodes, Info, NonNull
    <2> QED
      BY <2>2, <2>3, <2>4 DEF ExecInv
  <1> QED
    BY <1>1, <1>2, <1>3, <1>4 DEF Next, OtherRequests
-----------------------------------------------------------------------------
(* Induction over the nodes *)

LEMMA Induct ==
    ASSUME NEW S, \A n \in Nat : (\A m \in Nat : m < n => m \in S) => n \in S
    PROVE  Nat \subseteq S
  <1> DEFINE T == Nat \ S
             R == OpToRel(<, Nat)
  <1>1. SUFFICES ASSUME T # {} PROVE FALSE
    OBVIOUS
  <1>2. \A x, y \in Nat : y < x => <<y, x>> \in R
    BY DEF OpToRel
  <1>3. IsWellFoundedOn(R, Nat)
    BY NatLessThanWellFounded
  <1>4. T \subseteq Nat
    OBVIOUS
  <1> HIDE DEF T, R
  <1>5. PICK n \in T : \A m \in T : ~(<<m, n>> \in R)
    BY <1>1, <1>3, <1>4, WFMin
  <1>6. \A m \in Nat : m < n => m \in S
    BY <1>2, <1>4, <1>5 DEF T
  <1> QED
    BY <1>4, <1>5, <1>6 DEF T

\* Above satisfies the equation that defines it.
LEMMA AboveEquation ==
    ASSUME TypeOK
    PROVE  Above = [n \in AllNodes |-> IF n = 0 THEN {}
                     ELSE {doc.nodes[n].parent} \cup Above[doc.nodes[n].parent]]
  <1> DEFINE Up(g, n) == IF n = 0 THEN {}
                         ELSE {doc.nodes[n].parent} \cup g[doc.nodes[n].parent]
             Solves(g, k) == \A n \in AllNodes : n <= k => g[n] = Up(g, n)
             S == {k \in Nat : \E g \in [AllNodes -> SUBSET AllNodes] : Solves(g, k)}
  <1>1. /\ AllNodes \subseteq Nat /\ 0 \in AllNodes
        /\ \A n \in AllNodes : n # 0 =>
             doc.nodes[n].parent \in AllNodes /\ doc.nodes[n].parent < n
    BY Tree
  <1>2. ASSUME NEW k \in Nat, \A m \in Nat : m < k => m \in S PROVE k \in S
    <2>1. CASE k = 0
      <3> DEFINE g == [n \in AllNodes |-> {}]
      <3>1. g \in [AllNodes -> SUBSET AllNodes] /\ Solves(g, k)
        BY <1>1, <2>1
      <3> QED
        BY <3>1
    <2>2. CASE k # 0
      <3>1. PICK g \in [AllNodes -> SUBSET AllNodes] : Solves(g, k - 1)
        <4>1. k - 1 \in Nat /\ k - 1 < k
          BY <2>2
        <4> QED
          BY <1>2, <4>1
      <3> DEFINE h == [n \in AllNodes |-> IF n = k THEN Up(g, k) ELSE g[n]]
      <3>2. k \in AllNodes => Up(g, k) \in SUBSET AllNodes
        BY <1>1, <2>2
      <3>3. h \in [AllNodes -> SUBSET AllNodes]
        BY <3>2
      <3>4. \A n \in AllNodes : n # k => h[n] = g[n]
        OBVIOUS
      <3>5. ASSUME NEW n \in AllNodes, n <= k PROVE Up(h, n) = Up(g, n)
        <4> HIDE DEF h
        <4>1. CASE n # 0
          <5>1. doc.nodes[n].parent \in AllNodes /\ doc.nodes[n].parent # k
            BY <1>1, <3>5, <4>1
          <5>2. h[doc.nodes[n].parent] = g[doc.nodes[n].parent]
            BY <3>4, <5>1
          <5> QED
            BY <4>1, <5>2
        <4> QED
          BY <4>1
      <3>6. ASSUME NEW n \in AllNodes, n <= k PROVE h[n] = Up(h, n)
        <4>1. CASE n = k
          BY <3>5, <3>6, <4>1
        <4>2. CASE n # k
          <5>1. n <= k - 1
            BY <1>1, <3>6, <4>2
          <5> QED
            BY <3>1, <3>4, <3>5, <3>6, <4>2, <5>1
        <4> QED
          BY <4>1, <4>2
      <3> QED
        BY <3>3, <3>6
    <2> QED
      BY <2>1, <2>2
  <1>3. Nat \subseteq S
    <2> HIDE DEF S
    <2> QED
      BY <1>2, Induct
  <1>4. PICK g \in [AllNodes -> SUBSET AllNodes] : \A n \in AllNodes : g[n] = Up(g, n)
    <2>1. PICK k \in Nat : \A n \in AllNodes : n <= k
      <3>1. WellFormed(doc)
        BY DocsAssumption DEF TypeOK
      <3>2. Len(doc.nodes) \in Nat /\ Nodes = 1 .. Len(doc.nodes)
        BY <3>1 DEF WellFormed, Nodes
      <3>3. \A n \in AllNodes : n <= Len(doc.nodes)
        BY <3>2 DEF AllNodes
      <3> QED
        BY <3>2, <3>3
    <2>2. PICK g \in [AllNodes -> SUBSET AllNodes] : Solves(g, k)
      BY <1>3
    <2>3. \A n \in AllNodes : g[n] = Up(g, n)
      BY <2>1, <2>2
    <2> QED
      BY <2>3
  <1>5. g = [n \in AllNodes |-> Up(g, n)]
    BY <1>4
  <1>6. Above = CHOOSE f : f = [n \in AllNodes |-> Up(f, n)]
    BY DEF Above
  <1>7. Above = [n \in AllNodes |-> Up(Above, n)]
    <2> DEFINE P(f) == f = [n \in AllNodes |-> Up(f, n)]
    <2>1. P(g) /\ Above = CHOOSE f : P(f)
      BY <1>5, <1>6
    <2> HIDE DEF P
    <2>2. P(Above)
      BY <2>1
    <2> QED
      BY <2>2 DEF P
  <1> QED
    BY <1>7

\* The nodes above a node are an ascending chain from the operation.
LEMMA AboveFacts ==
    ASSUME TypeOK
    PROVE  /\ Above[0] = {}
           /\ \A n \in Nodes : Above[n] = {doc.nodes[n].parent} \cup Above[doc.nodes[n].parent]
           /\ \A n \in AllNodes : \A a \in Above[n] : a \in AllNodes /\ a < n
           /\ \A n \in AllNodes : \A a \in Above[n] : Above[a] \subseteq Above[n]
           /\ \A n \in AllNodes : \A x, y \in {n} \cup Above[n] :
                x = y \/ x \in Above[y] \/ y \in Above[x]
  <1>1. /\ AllNodes \subseteq Nat /\ 0 \in AllNodes
        /\ \A n \in AllNodes : n # 0 =>
             doc.nodes[n].parent \in AllNodes /\ doc.nodes[n].parent < n
        /\ \A n \in Nodes : n # 0 /\ n \in AllNodes
    BY Tree
  <1>2. /\ Above[0] = {}
        /\ \A n \in AllNodes : n # 0 =>
             Above[n] = {doc.nodes[n].parent} \cup Above[doc.nodes[n].parent]
    BY <1>1, AboveEquation
  <1>3. \A n \in AllNodes : \A a \in Above[n] : a \in AllNodes /\ a < n
    <2> DEFINE S == {k \in Nat : k \in AllNodes =>
                                   \A a \in Above[k] : a \in AllNodes /\ a < k}
    <2>1. ASSUME NEW k \in Nat, \A m \in Nat : m < k => m \in S PROVE k \in S
      <3> SUFFICES ASSUME k \in AllNodes, NEW a \in Above[k] PROVE a \in AllNodes /\ a < k
        OBVIOUS
      <3> DEFINE p == doc.nodes[k].parent
      <3>1. k # 0 /\ p \in AllNodes /\ p < k /\ p \in Nat /\ (a = p \/ a \in Above[p])
        BY <1>1, <1>2
      <3>2. CASE a \in Above[p]
        <4>1. a \in AllNodes /\ a < p
          BY <2>1, <3>1, <3>2
        <4> QED
          BY <1>1, <3>1, <4>1
      <3> QED
        BY <3>1, <3>2
    <2> HIDE DEF S
    <2>2. Nat \subseteq S
      BY <2>1, Induct
    <2> QED
      BY <1>1, <2>2 DEF S
  <1>4. \A n \in AllNodes : \A a \in Above[n] : Above[a] \subseteq Above[n]
    <2> DEFINE S == {k \in Nat : k \in AllNodes =>
                                   \A a \in Above[k] : Above[a] \subseteq Above[k]}
    <2>1. ASSUME NEW k \in Nat, \A m \in Nat : m < k => m \in S PROVE k \in S
      <3> SUFFICES ASSUME k \in AllNodes, NEW a \in Above[k] PROVE Above[a] \subseteq Above[k]
        OBVIOUS
      <3> DEFINE p == doc.nodes[k].parent
      <3>1. /\ k # 0 /\ p \in AllNodes /\ p < k /\ p \in Nat /\ (a = p \/ a \in Above[p])
            /\ Above[p] \subseteq Above[k]
        BY <1>1, <1>2
      <3>2. CASE a \in Above[p]
        BY <2>1, <3>1, <3>2
      <3> QED
        BY <3>1, <3>2
    <2> HIDE DEF S
    <2>2. Nat \subseteq S
      BY <2>1, Induct
    <2> QED
      BY <1>1, <2>2 DEF S
  <1>5. \A n \in AllNodes : \A x, y \in {n} \cup Above[n] :
          x = y \/ x \in Above[y] \/ y \in Above[x]
    <2> DEFINE S == {k \in Nat : k \in AllNodes =>
                       \A x, y \in {k} \cup Above[k] :
                          x = y \/ x \in Above[y] \/ y \in Above[x]}
    <2>1. ASSUME NEW k \in Nat, \A m \in Nat : m < k => m \in S PROVE k \in S
      <3> SUFFICES ASSUME k \in AllNodes, NEW x \in {k} \cup Above[k], NEW y \in {k} \cup Above[k]
                   PROVE  x = y \/ x \in Above[y] \/ y \in Above[x]
        OBVIOUS
      <3>1. CASE x = k \/ y = k
        BY <3>1
      <3>2. CASE x # k /\ y # k
        <4> DEFINE p == doc.nodes[k].parent
        <4>1. /\ k # 0 /\ p \in AllNodes /\ p < k /\ p \in Nat
              /\ x \in {p} \cup Above[p] /\ y \in {p} \cup Above[p]
          BY <1>1, <1>2, <3>2
        <4> QED
          BY <2>1, <4>1
      <3> QED
        BY <3>1, <3>2
    <2> HIDE DEF S
    <2>2. Nat \subseteq S
      BY <2>1, Induct
    <2> QED
      BY <1>1, <2>2 DEF S
  <1> QED
    BY <1>1, <1>2, <1>3, <1>4, <1>5
-----------------------------------------------------------------------------
(* The theorems *)

LEMMA ExecAlways == Spec => []ExecInv
  BY InitExec, NextExec, PTL DEF Spec

\* The states of nodes, the counts of Invalids, the errors and the mutations
\* are well typed in every operation.
THEOREM TypeCorrect == Spec => []TypeOK
  <1>1. ExecInv => TypeOK
    BY DEF ExecInv
  <1> QED
    BY <1>1, ExecAlways, PTL

\* Every failure, panics included, is in the errors of the response exactly
\* once, and nothing else is.
THEOREM ErrorsReported == Spec => []ErrorsOnce
  <1>1. ExecInv => ErrorsOnce
    BY DEF ExecInv
  <1> QED
    BY <1>1, ExecAlways, PTL

\* Mutations take effect in the order of the document, each after the ones
\* before it are complete, and all of them are called whatever fails.
THEOREM MutationsInOrder == Spec => []EffectsInOrder
  <1>1. ExecInv => EffectsInOrder
    <2> SUFFICES ASSUME ExecInv PROVE EffectsInOrder
      OBVIOUS
    <2>1. TypeOK /\ OutMatches /\ ChildrenDone /\ Begun /\ AppliedMatches /\ HandedDone
      BY DEF ExecInv
    <2>2. ASSUME NEW i \in DOMAIN applied, NEW m \in Nodes, IsRoot(m), m < applied[i]
          PROVE  Done(m)
      <3> DEFINE n == applied[i]
      <3>1. n \in Nodes /\ doc.nodes[n].on = "Mutation" /\ out[n] # "none"
        <4>1. n \in Nodes
          BY <2>1 DEF TypeOK
        <4>2. Takes(n)
          BY <2>1, <4>1 DEF AppliedMatches
        <4> QED
          BY <4>1, <4>2 DEF Takes
      <3> HIDE DEF n
      <3>2. IsRoot(n) /\ doc.nodes[m].on = "Mutation"
        BY <2>1, <2>2, <3>1, Tree
      <3>3. m \in Children(doc.nodes[n].parent) /\ ~Concurrent(m)
        BY <2>2, <3>2 DEF Children, Concurrent, IsRoot
      <3>4. st[n] # "wait"
        BY <2>1, <3>1 DEF OutMatches, AllNodes
      <3> QED
        BY <2>1, <2>2, <3>1, <3>3, <3>4 DEF Begun, n
    <2>3. ASSUME handed > 0, NEW n \in Nodes, IsRoot(n)
          PROVE  /\ out[n] # "none"
                 /\ (doc.op = "Mutation" /\ out[n] \in {"value", "late"}) <=>
                    (\E i \in DOMAIN applied : applied[i] = n)
      <3>1. Done(0) /\ out[0] = "value" /\ 0 \in AllNodes
        BY <2>1, <2>3 DEF HandedDone, OutMatches, AllNodes, Done
      <3>2. Done(n)
        BY <2>1, <2>3, <3>1 DEF ChildrenDone, Children, IsRoot
      <3>3. out[n] # "none"
        BY <2>1, <3>2 DEF OutMatches, Done, AllNodes
      <3>4. doc.nodes[n].on = doc.op
        BY <2>1, <2>3, Tree
      <3> QED
        BY <2>1, <3>3, <3>4 DEF AppliedMatches, Takes
    <2> QED
      BY <2>2, <2>3 DEF EffectsInOrder
  <1> QED
    BY <1>1, ExecAlways, PTL

\* The client never finds a null where the schema promises a value.
THEOREM NullsAllowed == Spec => []NoForbiddenNull
  <1>1. ExecInv => NoForbiddenNull
    <2> SUFFICES ASSUME ExecInv, NEW n \in Nodes, Visible(n), NonNull(n) PROVE st[n] = "ok"
      BY DEF NoForbiddenNull
    <2> DEFINE p == doc.nodes[n].parent
    <2>1. TypeOK /\ OkWhole
      BY DEF ExecInv
    <2>2. p \in Above[n] /\ p \in AllNodes /\ n \in Children(p)
      BY <2>1, AboveFacts, Tree
    <2>3. st[p] = "ok"
      BY <2>2 DEF Visible
    <2> QED
      BY <2>1, <2>2, <2>3 DEF OkWhole
  <1> QED
    BY <1>1, ExecAlways, PTL

\* What NullsCaused demands of a null node.
Cause(n) ==
    \E d \in AllNodes :
        /\ d = n \/ n \in Above[d]
        /\ out[d] \notin {"none", "value"}
        /\ \A m \in ({d} \cup Above[d]) \ {n} : n \in Above[m] => NonNull(m)

\* The cause of a null child is the cause of its parent.
LEMMA CauseClimbs ==
    ASSUME TypeOK, NEW n \in AllNodes, NEW c \in Children(n), NonNull(c), Cause(c)
    PROVE  Cause(n)
  <1>1. PICK d \in AllNodes :
          /\ d = c \/ c \in Above[d]
          /\ out[d] \notin {"none", "value"}
          /\ \A m \in ({d} \cup Above[d]) \ {c} : c \in Above[m] => NonNull(m)
    BY DEF Cause
  <1>2. c \in Nodes /\ c \in AllNodes /\ doc.nodes[c].parent = n /\ AllNodes \subseteq Nat
    BY Tree
  <1>3. Above[c] = {n} \cup Above[n] /\ n \in Above[d] /\ c \in {d} \cup Above[d]
    BY <1>1, <1>2, AboveFacts
  <1>4. ASSUME NEW m \in ({d} \cup Above[d]) \ {n}, n \in Above[m] PROVE NonNull(m)
    <2>1. CASE m = c
      BY <2>1
    <2>2. CASE m # c
      <3>1. c \in Above[m] \/ m \in Above[c]
        BY <1>3, <1>4, <2>2, AboveFacts
      <3>2. m \in AllNodes /\ m \in Nat /\ n < m /\ n \in Nat
        BY <1>1, <1>2, <1>4, AboveFacts
      <3>3. m \notin Above[c]
        <4> SUFFICES ASSUME m \in Above[n] PROVE FALSE
          BY <1>3, <1>4
        <4>1. m < n
          BY AboveFacts
        <4> QED
          BY <3>2, <4>1
      <3> QED
        BY <1>1, <1>4, <2>2, <3>1, <3>3
    <2> QED
      BY <2>1, <2>2
  <1> QED
    BY <1>1, <1>3, <1>4 DEF Cause

\* Every null is nil or failed itself, or lies above such a node with only
\* non-null nodes in between: nothing is thrown away needlessly.
THEOREM NullsHaveCause == Spec => []NullsCaused
  <1>1. ExecInv => NullsCaused
    <2> SUFFICES ASSUME ExecInv PROVE \A n \in AllNodes : st[n] = "null" => Cause(n)
      BY DEF NullsCaused, Cause
    <2>1. TypeOK /\ NullLocal
      BY DEF ExecInv
    <2>2. PICK L \in Nat : \A n \in AllNodes : n \in Nat /\ n <= L
      <3>1. WellFormed(doc)
        BY <2>1, DocsAssumption DEF TypeOK
      <3>2. Len(doc.nodes) \in Nat /\ Nodes = 1 .. Len(doc.nodes)
        BY <3>1 DEF WellFormed, Nodes
      <3>3. \A n \in AllNodes : n \in Nat /\ n <= Len(doc.nodes)
        BY <3>2 DEF AllNodes
      <3> QED
        BY <3>2, <3>3
    <2> DEFINE S == {k \in Nat : \A n \in AllNodes : n + k = L /\ st[n] = "null" => Cause(n)}
    <2>3. ASSUME NEW k \in Nat, \A j \in Nat : j < k => j \in S PROVE k \in S
      <3> SUFFICES ASSUME NEW n \in AllNodes, n + k = L, st[n] = "null" PROVE Cause(n)
        OBVIOUS
      <3>1. CASE out[n] \notin {"none", "value"}
        <4>1. \A m \in ({n} \cup Above[n]) \ {n} : n \notin Above[m]
          <5> SUFFICES ASSUME NEW m \in Above[n], n \in Above[m] PROVE FALSE
            OBVIOUS
          <5>1. m < n /\ n < m /\ m \in Nat /\ n \in Nat
            BY <2>1, <2>2, AboveFacts
          <5> QED
            BY <5>1
        <4> QED
          BY <3>1, <4>1 DEF Cause
      <3>2. CASE BadChild(n)
        <4>1. PICK c \in Children(n) : NonNull(c) /\ st[c] = "null"
          BY <3>2 DEF BadChild
        <4>2. c \in AllNodes /\ n < c
          BY <2>1, Tree
        <4>3. L - c \in Nat /\ L - c < k /\ c + (L - c) = L
          BY <2>2, <4>2
        <4>4. Cause(c)
          BY <2>3, <4>1, <4>2, <4>3
        <4> QED
          BY <2>1, <4>1, <4>4, CauseClimbs
      <3> QED
        BY <2>1, <3>1, <3>2 DEF NullLocal
    <2> HIDE DEF S
    <2>4. Nat \subseteq S
      BY <2>3, Induct
    <2> SUFFICES ASSUME NEW n \in AllNodes, st[n] = "null" PROVE Cause(n)
      OBVIOUS
    <2>5. L - n \in Nat /\ n + (L - n) = L
      BY <2>2
    <2> QED
      BY <2>4, <2>5 DEF S
  <1> QED
    BY <1>1, ExecAlways, PTL
=============================================================================
