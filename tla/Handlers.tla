------------------------------ MODULE Handlers ------------------------------
(***************************************************************************)
(* What the handlers of the router (internal/http/router/router.go and     *)
(* internal/http/handlers/users.go) may answer.  An answer is what the     *)
(* handler does to its ResponseWriter: the content type it sets, whether   *)
(* it calls WriteHeader and with which code, and whether it writes a body. *)
(* A handler may also panic.                                               *)
(***************************************************************************)
EXTENDS Naturals

Codes == {200, 201, 204, 400, 401, 404, 409, 500, 503}

Answer == [code : Codes, ctype : {"none", "json", "problem", "text"},
           explicit : BOOLEAN, body : BOOLEAN]

\* render.JSON
JSON(code) == [code |-> code, ctype |-> "json", explicit |-> TRUE, body |-> TRUE]

\* render.Problem
Problem(code) == [code |-> code, ctype |-> "problem", explicit |-> TRUE, body |-> TRUE]

\* http.Error, and the ping of chi's Heartbeat
Text(code) == [code |-> code, ctype |-> "text", explicit |-> TRUE, body |-> TRUE]

\* w.WriteHeader alone
Bare(code) == [code |-> code, ctype |-> "none", explicit |-> TRUE, body |-> FALSE]

\* A body without a WriteHeader: net/http makes it a 200.
Page == [code |-> 200, ctype |-> "text", explicit |-> FALSE, body |-> TRUE]

\* Mutant: the default case is missing, and Go's zero value is the status.
HTTPStatusNoDefault(err) ==
    CASE err = "not_found"  -> 404
      [] err = "conflict"   -> 409
      [] err = "validation" -> 400
      [] OTHER              -> 0

\* errs.HTTPStatus, on the errors of package core; "other" is any other error,
\* an error of the JSON decoder included.
HTTPStatus(err) ==
    CASE err = "not_found"  -> 404
      [] err = "conflict"   -> 409
      [] err = "validation" -> 400
      [] OTHER              -> 500

\* The answers to the errors the service returns; it never returns a conflict.
Failed == {Problem(HTTPStatus(e)) : e \in {"not_found", "validation", "other"}}

V1 == {"list", "create", "get", "update", "delete"}

Routes == V1 \cup {"ping", "health", "ready", "docs"}

\* The routes' handlers: a bad body of create goes through HTTPStatus, a bad
\* id or a bad body of the others is a 400.
Answers(route) ==
    CASE route = "list"   -> {JSON(200), Problem(HTTPStatus("other"))}
      [] route = "create" -> {JSON(201), Problem(400)} \cup Failed
      [] route = "get"    -> {JSON(200), Problem(400)} \cup Failed
      [] route = "update" -> {JSON(200), Problem(400)} \cup Failed
      [] route = "delete" -> {Bare(204), Problem(400)} \cup Failed
      [] route = "ping"   -> {Text(200)}
      [] route = "health" -> {JSON(200)}
      [] route = "ready"  -> {JSON(200), Text(503)}
      [] route = "docs"   -> {Page}

\* Without a database readyz dereferences nil; a page number beyond the range
\* of int makes the slice bounds of the in-memory List negative.
MayPanic(route, inMemory) == inMemory /\ route \in {"ready", "list"}

MustPanic(route, inMemory) == inMemory /\ route = "ready"
=============================================================================
