---------------------------- MODULE UserService ----------------------------
(***************************************************************************)
(* userService (internal/core/usersvc.go) over either store.  Requests run *)
(* concurrently, each on its own goroutine; a repository call is atomic,   *)
(* but Create builds its user before it calls the repository, and Update   *)
(* is Get, merge, time stamp and Update, with other requests in between.   *)
(***************************************************************************)
EXTENDS MemoryRepo, PostgresRepo

CONSTANTS
    NameInputs,     \* the raw names clients send, a subset of RawName
    EmailInputs,    \* the raw emails clients send, a subset of RawEmail
    Reqs,           \* goroutines serving requests
    Backends,       \* the stores main() may pick, of "memory", "postgres"
    MaxClock        \* bound on the clock

\* A raw name: some text, blank, or text with white space around it.
RawName == [text : Names, form : {"plain", "padded", "blank"}]

\* A raw email by the shape of the string: a bare address in lower case, the
\* same with capitals in it, "Display Name <address>", an empty string, or
\* something mail.ParseAddress rejects.
RawEmail == [addr : Addrs,
             form : {"plain", "variant", "display", "blank", "malformed"}]

ASSUME UserServiceAssumption ==
    /\ NameInputs \subseteq RawName /\ EmailInputs \subseteq RawEmail
    /\ Backends \subseteq {"memory", "postgres"}
    /\ MaxClock \in Nat
    /\ Nil \notin RawName /\ Nil \notin RawEmail

VARIABLES
    backend,    \* the store picked at start-up
    users,      \* the table: users[id] is a User or Nil
    clock,      \* the wall clock, read by time.Now()
    req         \* req[r]: where request r is, and its locals

vars == <<backend, users, clock, req>>

\* u is the user under construction or the copy read by Update, fields the
\* fields its patch names, err what the request last returned.
Request == [pc : {"idle", "create", "stamp", "update"}, u : User \cup {Nil},
            fields : SUBSET {"name", "email"}, err : Errs]

TypeOK ==
    /\ backend \in {"memory", "postgres"}
    /\ users \in [IDs -> User \cup {Nil}]
    /\ clock \in Nat
    /\ req \in [Reqs -> Request]
    /\ \A r \in Reqs : req[r].pc # "idle" => req[r].u \in User

Idle(e) == [pc |-> "idle", u |-> Nil, fields |-> {}, err |-> e]

Init ==
    /\ backend \in Backends
    /\ users = [id \in IDs |-> Nil]
    /\ clock = 0
    /\ req = [r \in Reqs |-> Idle("nil")]
-----------------------------------------------------------------------------
(* The repository behind the service *)

RepoCreate(u) ==
    IF backend = "memory" THEN MemCreate(users, u) ELSE PgCreate(users, u)

RepoGet(id) ==
    IF backend = "memory" THEN MemGet(users, id) ELSE PgGet(users, id)

RepoUpdate(u) ==
    IF backend = "memory" THEN MemUpdate(users, u) ELSE PgUpdate(users, u)

RepoDelete(id) ==
    IF backend = "memory" THEN MemDelete(users, id) ELSE PgDelete(users, id)
-----------------------------------------------------------------------------
(* Validation and normalisation *)

\* The handler's validate:"required,email" tag on the body of POST /users; a
\* PATCH has no such tag.
PassesValidator(e) == e.form \in {"plain", "variant"}

NameOK(n) == n.form # "blank"

EmailOK(e) == e.form \notin {"blank", "malformed"}

\* Lower case and trim.  mail.ParseAddress only judges the string: what it
\* parsed is thrown away, so a display name stays part of the email.
normalizeEmail(e) ==
    [addr |-> e.addr, form |-> IF e.form = "display" THEN "display" ELSE "plain"]

NewUser(id, n, e) ==
    [id |-> id, name |-> n.text, email |-> normalizeEmail(e),
     createdAt |-> clock, updatedAt |-> clock, deleted |-> FALSE]

\* Mutant: Update forgets to normalise the email.
MergeRaw(u, n, e) ==
    [u EXCEPT !.name  = IF n = Nil THEN @ ELSE n.text,
              !.email = IF e = Nil THEN @ ELSE e]

\* The copy u with the fields that the patch (n, e) names replaced.
Merge(u, n, e) ==
    [u EXCEPT !.name  = IF n = Nil THEN @ ELSE n.text,
              !.email = IF e = Nil THEN @ ELSE normalizeEmail(e)]
-----------------------------------------------------------------------------
(* The operations.  A request returns by going back to "idle". *)

Return(r, e) == req' = [req EXCEPT ![r] = Idle(e)]

\* A request whose operation is one repository call returns its outcome.
ReturnOutcome(r, outcomes) ==
    \E o \in outcomes : users' = o.users /\ Return(r, o.err)

\* Create up to the call of the repository.
Create(r, n, e) ==
    /\ req[r].pc = "idle"
    /\ \/ /\ ~(NameOK(n) /\ EmailOK(e))
          /\ Return(r, "validation")
       \/ /\ NameOK(n) /\ EmailOK(e)
          /\ \E id \in IDs :
               req' = [req EXCEPT ![r] = [@ EXCEPT !.pc = "create",
                                                   !.u = NewUser(id, n, e)]]
    /\ UNCHANGED <<backend, users, clock>>

CreateInRepo(r) ==
    /\ req[r].pc = "create"
    /\ ReturnOutcome(r, RepoCreate(req[r].u))
    /\ UNCHANGED <<backend, clock>>

\* Get returns what the repository returns.
Get(r, id) ==
    /\ req[r].pc = "idle"
    /\ ReturnOutcome(r, RepoGet(id))
    /\ UNCHANGED <<backend, clock>>

\* Update reads first, so an unknown id is reported before a bad field; the
\* patch is merged into the copy.
Update(r, id, n, e) ==
    /\ req[r].pc = "idle"
    /\ \E o \in RepoGet(id) :
         \/ /\ o.err # "nil"
            /\ Return(r, o.err)
         \/ /\ o.err = "nil"
            /\ ~(n # Nil => NameOK(n)) \/ ~(e # Nil => EmailOK(e))
            /\ Return(r, "validation")
         \/ /\ o.err = "nil"
            /\ n # Nil => NameOK(n)
            /\ e # Nil => EmailOK(e)
            /\ req' = [req EXCEPT ![r] =
                         [@ EXCEPT !.pc = "stamp",
                                   !.u = Merge(users[id], n, e),
                                   !.fields = {f \in {"name", "email"} :
                                                 \/ f = "name" /\ n # Nil
                                                 \/ f = "email" /\ e # Nil}]]
    /\ UNCHANGED <<backend, users, clock>>

\* Mutant: Update stamps the wrong field.
UpdateStampCreated(r) ==
    /\ req[r].pc = "stamp"
    /\ req' = [req EXCEPT ![r] =
                 [@ EXCEPT !.pc = "update",
                           !.u = [req[r].u EXCEPT !.createdAt = clock]]]
    /\ UNCHANGED <<backend, users, clock>>

\* u.UpdatedAt = time.Now().UTC()
UpdateStamp(r) ==
    /\ req[r].pc = "stamp"
    /\ req' = [req EXCEPT ![r] =
                 [@ EXCEPT !.pc = "update",
                           !.u = [req[r].u EXCEPT !.updatedAt = clock]]]
    /\ UNCHANGED <<backend, users, clock>>

UpdateInRepo(r) ==
    /\ req[r].pc = "update"
    /\ ReturnOutcome(r, RepoUpdate(req[r].u))
    /\ UNCHANGED <<backend, clock>>

Delete(r, id) ==
    /\ req[r].pc = "idle"
    /\ ReturnOutcome(r, RepoDelete(id))
    /\ UNCHANGED <<backend, clock>>

\* external: the wall clock, assumed never to go back
Tick ==
    /\ clock < MaxClock
    /\ clock' = clock + 1
    /\ UNCHANGED <<backend, users, req>>

Next ==
    \/ Tick
    \/ \E r \in Reqs :
         \/ \E n \in NameInputs, e \in EmailInputs :
              PassesValidator(e) /\ Create(r, n, e)
         \/ CreateInRepo(r)
         \/ \E id \in IDs :
              \/ Get(r, id)
              \/ \E n \in NameInputs \cup {Nil}, e \in EmailInputs \cup {Nil} :
                   Update(r, id, n, e)
              \/ Delete(r, id)
         \/ UpdateStamp(r)
         \/ UpdateInRepo(r)

Spec == Init /\ [][Next]_vars
-----------------------------------------------------------------------------
(* Properties *)

\* Time stamps are ordered: a row was created no later than it was last
\* updated, and both are in the past, whatever order concurrent requests
\* take their stamps and reach the store in.
TimestampsOrdered ==
    \A id \in IDs : users[id] # Nil =>
        /\ users[id].createdAt <= users[id].updatedAt
        /\ users[id].updatedAt <= clock

\* In Postgres no two rows, deleted ones included, hold the same address
\* unless one of them holds it in display form: normalisation before every
\* write makes the UNIQUE index see through capitals and white space.
PlainAddressUnique ==
    backend = "postgres" =>
        \A i, j \in IDs :
            /\ i # j /\ users[i] # Nil /\ users[j] # Nil
            /\ users[i].email.form # "display"
            /\ users[j].email.form # "display"
            => users[i].email.addr # users[j].email.addr

Directory == INSTANCE UserDirectory

\* The service implements UserDirectory over both stores: whatever requests
\* overlap, a soft-deleted row is never touched again, no insert replaces a
\* row, and an update never moves a row's creation time.
DirectorySpec == Directory!Spec

\* A request that is refused leaves the table alone: a "not_found" or a
\* "validation" from either store, and any error of the in-memory store.
RefusalChangesNothing ==
    [][\A r \in Reqs :
         /\ req'[r] # req[r] /\ req'[r].pc = "idle"
         /\ \/ req'[r].err \in {"not_found", "validation"}
            \/ req'[r].err = "other" /\ backend = "memory"
         => users' = users]_vars

\* What "merge-patch updates" (README) says of PATCH: the write of an update
\* changes no field that its patch did not name.
MergePatchTouchesNamedFields ==
    [][\A r \in Reqs :
         req[r].pc = "update" /\ req'[r].pc = "idle" /\ users' # users =>
            /\ "name" \notin req[r].fields =>
                 users'[req[r].u.id].name = users[req[r].u.id].name
            /\ "email" \notin req[r].fields =>
                 users'[req[r].u.id].email = users[req[r].u.id].email]_vars

\* No two users share a stored email: what the UNIQUE index of migrations/0001
\* enforces, used by the proofs.
StoredEmailUnique ==
    \A i, j \in IDs :
        i # j /\ users[i] # Nil /\ users[j] # Nil
        => users[i].email # users[j].email
=============================================================================
