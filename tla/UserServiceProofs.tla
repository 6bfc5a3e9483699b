------------------------- MODULE UserServiceProofs -------------------------
(***************************************************************************)
(* Theorems about UserService, for any number of requests, ids, names and  *)
(* addresses, over both stores and with database faults.                   *)
(***************************************************************************)
EXTENDS UserService, TLAPS

\* Rows are filed under their own id.
RowsKeyed == \A id \in IDs : users[id] # Nil => users[id].id = id

\* A user that a request holds is not deleted and has ordered stamps, and the
\* copy an update works on has the creation time of its row, which is there.
InFlight ==
    \A r \in Reqs : req[r].pc # "idle" =>
        /\ ~req[r].u.deleted
        /\ req[r].u.createdAt <= req[r].u.updatedAt
        /\ req[r].u.updatedAt <= clock
        /\ req[r].pc # "create" =>
             /\ users[req[r].u.id] # Nil
             /\ users[req[r].u.id].createdAt = req[r].u.createdAt

\* The UNIQUE index at work: in Postgres no two rows share a stored email.
PgEmailsUnique == backend = "postgres" => StoredEmailUnique

IInv == TypeOK /\ RowsKeyed /\ TimestampsOrdered /\ InFlight /\ PgEmailsUnique
-----------------------------------------------------------------------------
(* What a repository call can do to the table. *)

\* A create fails, or inserts under an id that was free, in Postgres with an
\* email that was free too.
LEMMA CreateOutcome ==
    ASSUME TypeOK, NEW u \in User, NEW o \in RepoCreate(u)
    PROVE  /\ o.err \in {"nil", "other"}
           /\ \/ o.users = users
              \/ /\ users[u.id] = Nil
                 /\ o.users = [users EXCEPT ![u.id] = u]
                 /\ backend = "postgres" => ~EmailTaken(users, u)
           /\ o.err = "other" /\ backend = "memory" => o.users = users
  BY DEF RepoCreate, MemCreate, PgCreate, Exec, Outcome

\* A read leaves the table alone, and succeeds only for a live row.
LEMMA GetOutcome ==
    ASSUME TypeOK, NEW id \in IDs, NEW o \in RepoGet(id)
    PROVE  /\ o.err \in {"nil", "not_found", "other"}
           /\ o.users = users
           /\ o.err = "nil" => LiveIn(users, id)
  BY DEF RepoGet, MemGet, PgGet, Exec, Outcome

\* An update that finds the creation time unchanged fails, or puts exactly
\* the caller's user in the place of a live row.
LEMMA UpdateOutcome ==
    ASSUME TypeOK, RowsKeyed, NEW u \in User, ~u.deleted,
           users[u.id] # Nil => users[u.id].createdAt = u.createdAt,
           NEW o \in RepoUpdate(u)
    PROVE  /\ o.err \in {"nil", "not_found", "other"}
           /\ \/ o.users = users
              \/ /\ LiveIn(users, u.id)
                 /\ o.users = [users EXCEPT ![u.id] = u]
                 /\ backend = "postgres" => ~EmailTaken(users, u)
           /\ o.err = "not_found" => o.users = users
           /\ o.err = "other" /\ backend = "memory" => o.users = users
  <1> DEFINE row == [users[u.id] EXCEPT !.name = u.name, !.email = u.email,
                                        !.updatedAt = u.updatedAt]
  <1>1. u.id \in IDs
    BY DEF User
  <1>2. ASSUME LiveIn(users, u.id) PROVE row = u
    <2>1. users[u.id] \in User
      BY <1>1, <1>2 DEF LiveIn, TypeOK
    <2>2. users[u.id].id = u.id /\ users[u.id].deleted = u.deleted
      BY <1>1, <1>2, <2>1 DEF LiveIn, RowsKeyed, User
    <2> QED
      BY <1>2, <2>1, <2>2 DEF LiveIn, User
  <1> QED
    BY <1>1, <1>2 DEF RepoUpdate, MemUpdate, PgUpdate, Exec, Outcome

\* A delete fails, or marks a live row.
LEMMA DeleteOutcome ==
    ASSUME TypeOK, NEW id \in IDs, NEW o \in RepoDelete(id)
    PROVE  /\ o.err \in {"nil", "not_found", "other"}
           /\ \/ o.users = users
              \/ /\ LiveIn(users, id)
                 /\ o.users = SoftDeleted(users, id)
           /\ o.err = "not_found" => o.users = users
           /\ o.err = "other" /\ backend = "memory" => o.users = users
  BY DEF RepoDelete, MemDelete, PgDelete, Exec, Outcome
-----------------------------------------------------------------------------
(* The four things a request can do in one step *)

\* It returns, and the table is what it was.
Returns(r, e) == Return(r, e) /\ UNCHANGED <<backend, users, clock>>

\* It starts to hold the user of q, or changes the one it holds.
Holds(r, q) ==
    /\ q.pc # "idle" /\ q.u \in User /\ ~q.u.deleted
    /\ q.u.createdAt <= q.u.updatedAt /\ q.u.updatedAt <= clock
    /\ q.pc # "create" => /\ users[q.u.id] # Nil
                          /\ users[q.u.id].createdAt = q.u.createdAt
    /\ req' = [req EXCEPT ![r] = q]
    /\ UNCHANGED <<backend, users, clock>>

\* It puts the user it held into the table, over no row or a live one whose
\* creation time it shares, and returns.
Puts(r, u, e) ==
    /\ ~u.deleted /\ u.createdAt <= u.updatedAt /\ u.updatedAt <= clock
    /\ users[u.id] # Nil => /\ LiveIn(users, u.id)
                            /\ users[u.id].createdAt = u.createdAt
    /\ backend = "postgres" => ~EmailTaken(users, u)
    /\ users' = [users EXCEPT ![u.id] = u]
    /\ e \in {"nil", "other"} /\ (e = "other" => backend # "memory")
    /\ Return(r, e) /\ UNCHANGED <<backend, clock>>

\* It soft-deletes a live row, and returns.
Marks(r, id, e) ==
    /\ LiveIn(users, id) /\ users' = SoftDeleted(users, id)
    /\ e \in {"nil", "other"} /\ (e = "other" => backend # "memory")
    /\ Return(r, e) /\ UNCHANGED <<backend, clock>>

RequestStep(r) ==
    \/ \E e \in Errs : Returns(r, e)
    \/ \E q \in Request : Holds(r, q)
    \/ \E u \in User, e \in Errs : Puts(r, u, e)
    \/ \E id \in IDs, e \in Errs : Marks(r, id, e)

\* Every step but a tick of the clock is one of the four: the request's own
\* checks, with IInv, leave nothing else to the repository.
LEMMA NextIsRequestStep ==
    ASSUME IInv, Next
    PROVE  Tick \/ \E r \in Reqs : RequestStep(r)
  <1> SUFFICES ASSUME ~Tick
               PROVE  \E r \in Reqs : RequestStep(r)
    OBVIOUS
  <1> USE DEF IInv
  <1>1. ASSUME NEW r \in Reqs, NEW n \in NameInputs, NEW e \in EmailInputs,
               Create(r, n, e)
        PROVE  RequestStep(r)
    <2>1. CASE ~(NameOK(n) /\ EmailOK(e))
      BY <1>1, <2>1 DEF Create, RequestStep, Returns, Errs
    <2>2. CASE NameOK(n) /\ EmailOK(e)
      <3>1. PICK id \in IDs :
              req' = [req EXCEPT ![r] = [@ EXCEPT !.pc = "create",
                                                  !.u = NewUser(id, n, e)]]
        BY <1>1, <2>2 DEF Create
      <3> DEFINE q == [req[r] EXCEPT !.pc = "create", !.u = NewUser(id, n, e)]
      <3>2. n \in RawName /\ e \in RawEmail
        BY UserServiceAssumption
      <3>3. NewUser(id, n, e) \in User /\ ~NewUser(id, n, e).deleted
            /\ NewUser(id, n, e).createdAt = clock /\ NewUser(id, n, e).updatedAt = clock
        BY <3>2 DEF NewUser, normalizeEmail, User, Email, RawName, RawEmail, TypeOK
      <3>4. q \in Request /\ q.pc = "create" /\ q.u = NewUser(id, n, e)
        BY <3>3 DEF TypeOK, Request
      <3>5. req' = [req EXCEPT ![r] = q]
        BY <3>1
      <3>6. clock \in Nat /\ UNCHANGED <<backend, users, clock>>
        BY <1>1 DEF Create, TypeOK
      <3> HIDE DEF q
      <3>7. Holds(r, q)
        BY <3>3, <3>4, <3>5, <3>6 DEF Holds
      <3> QED
        BY <3>4, <3>7 DEF RequestStep
    <2> QED
      BY <2>1, <2>2
  <1>2. ASSUME NEW r \in Reqs, CreateInRepo(r)
        PROVE  RequestStep(r)
    <2> DEFINE u == req[r].u
    <2>1. /\ u \in User /\ ~u.deleted
          /\ u.createdAt <= u.updatedAt /\ u.updatedAt <= clock
      BY <1>2 DEF CreateInRepo, TypeOK, InFlight
    <2>2. PICK o \in RepoCreate(u) : users' = o.users /\ Return(r, o.err)
      BY <1>2 DEF CreateInRepo, ReturnOutcome
    <2> HIDE DEF u
    <2>3. /\ o.err \in {"nil", "other"}
          /\ \/ o.users = users
             \/ /\ users[u.id] = Nil
                /\ o.users = [users EXCEPT ![u.id] = u]
                /\ backend = "postgres" => ~EmailTaken(users, u)
          /\ o.err = "other" /\ backend = "memory" => o.users = users
      BY <2>1, CreateOutcome
    <2>4. Returns(r, o.err) \/ Puts(r, u, o.err)
      BY <1>2, <2>1, <2>2, <2>3 DEF CreateInRepo, Returns, Puts
    <2> QED
      BY <2>1, <2>3, <2>4 DEF RequestStep, Errs
  <1>3. ASSUME NEW r \in Reqs, NEW id \in IDs, Get(r, id)
        PROVE  RequestStep(r)
    BY <1>3, GetOutcome DEF Get, ReturnOutcome, RequestStep, Returns, Errs
  <1>4. ASSUME NEW r \in Reqs, NEW id \in IDs, NEW n \in NameInputs \cup {Nil},
               NEW e \in EmailInputs \cup {Nil}, Update(r, id, n, e)
        PROVE  RequestStep(r)
    <2> DEFINE fs == {f \in {"name", "email"} : \/ f = "name" /\ n # Nil
                                                \/ f = "email" /\ e # Nil}
               u == Merge(users[id], n, e)
               q == [req[r] EXCEPT !.pc = "stamp", !.u = u, !.fields = fs]
    <2>1. PICK o \in RepoGet(id) :
            \/ Return(r, o.err) \/ Return(r, "validation")
            \/ o.err = "nil" /\ req' = [req EXCEPT ![r] = q]
      BY <1>4 DEF Update
    <2>2. o.err \in Errs /\ "validation" \in Errs /\ (o.err = "nil" => LiveIn(users, id))
      BY GetOutcome DEF Errs
    <2>3. CASE Return(r, o.err) \/ Return(r, "validation")
      BY <1>4, <2>2, <2>3 DEF Update, RequestStep, Returns
    <2>4. CASE o.err = "nil" /\ req' = [req EXCEPT ![r] = q]
      <3>1. users[id] \in User /\ users[id].id = id /\ ~users[id].deleted
            /\ users[id].createdAt <= users[id].updatedAt
            /\ users[id].updatedAt <= clock
        BY <2>2, <2>4 DEF LiveIn, TypeOK, RowsKeyed, TimestampsOrdered
      <3>2. (n # Nil => n \in RawName) /\ (e # Nil => e \in RawEmail)
        BY UserServiceAssumption
      <3>3. u \in User /\ u.id = id /\ ~u.deleted
            /\ u.createdAt = users[id].createdAt /\ u.updatedAt = users[id].updatedAt
        BY <3>1, <3>2 DEF Merge, normalizeEmail, User, Email, RawName, RawEmail
      <3> HIDE DEF u
      <3>4. q \in Request /\ q.pc = "stamp" /\ q.u = u
        BY <3>3 DEF TypeOK, Request
      <3> HIDE DEF q
      <3>5. Holds(r, q)
        BY <1>4, <2>2, <2>4, <3>1, <3>3, <3>4 DEF Update, Holds, LiveIn
      <3> QED
        BY <3>4, <3>5 DEF RequestStep
    <2> QED
      BY <2>1, <2>3, <2>4
  <1>5. ASSUME NEW r \in Reqs, NEW id \in IDs, Delete(r, id)
        PROVE  RequestStep(r)
    <2>1. PICK o \in RepoDelete(id) : users' = o.users /\ Return(r, o.err)
      BY <1>5 DEF Delete, ReturnOutcome
    <2>2. /\ o.err \in {"nil", "not_found", "other"}
          /\ \/ o.users = users
             \/ LiveIn(users, id) /\ o.users = SoftDeleted(users, id)
          /\ o.err = "not_found" => o.users = users
          /\ o.err = "other" /\ backend = "memory" => o.users = users
      BY DeleteOutcome
    <2>3. Returns(r, o.err) \/ Marks(r, id, o.err)
      BY <1>5, <2>1, <2>2 DEF Delete, Returns, Marks
    <2> QED
      BY <2>2, <2>3 DEF RequestStep, Errs
  <1>6. ASSUME NEW r \in Reqs, UpdateStamp(r)
        PROVE  RequestStep(r)
    <2> DEFINE u == [req[r].u EXCEPT !.updatedAt = clock]
               q == [req[r] EXCEPT !.pc = "update", !.u = u]
    <2>1. /\ req[r].u \in User /\ ~req[r].u.deleted
          /\ req[r].u.createdAt <= req[r].u.updatedAt /\ req[r].u.updatedAt <= clock
          /\ users[req[r].u.id] # Nil
          /\ users[req[r].u.id].createdAt = req[r].u.createdAt
          /\ clock \in Nat
      BY <1>6 DEF UpdateStamp, TypeOK, InFlight
    <2>2. u \in User /\ ~u.deleted /\ u.id = req[r].u.id
          /\ u.createdAt = req[r].u.createdAt /\ u.updatedAt = clock
      BY <2>1 DEF User
    <2>3. u.createdAt <= u.updatedAt
      BY <2>1, <2>2 DEF User
    <2>4. req' = [req EXCEPT ![r] = q] /\ UNCHANGED <<backend, users, clock>>
      BY <1>6 DEF UpdateStamp
    <2> HIDE DEF u
    <2>5. q \in Request /\ q.pc = "update" /\ q.u = u
      BY <2>2 DEF TypeOK, Request
    <2> HIDE DEF q
    <2>6. Holds(r, q)
      BY <2>1, <2>2, <2>3, <2>4, <2>5 DEF Holds
    <2> QED
      BY <2>5, <2>6 DEF RequestStep
  <1>7. ASSUME NEW r \in Reqs, UpdateInRepo(r)
        PROVE  RequestStep(r)
    <2> DEFINE u == req[r].u
    <2>1. /\ u \in User /\ ~u.deleted
          /\ u.createdAt <= u.updatedAt /\ u.updatedAt <= clock
          /\ users[u.id] # Nil /\ users[u.id].createdAt = u.createdAt
      BY <1>7 DEF UpdateInRepo, TypeOK, InFlight
    <2>2. PICK o \in RepoUpdate(u) : users' = o.users /\ Return(r, o.err)
      BY <1>7 DEF UpdateInRepo, ReturnOutcome
    <2> HIDE DEF u
    <2>3. /\ o.err \in {"nil", "not_found", "other"}
          /\ \/ o.users = users
             \/ /\ LiveIn(users, u.id)
                /\ o.users = [users EXCEPT ![u.id] = u]
                /\ backend = "postgres" => ~EmailTaken(users, u)
          /\ o.err = "not_found" => o.users = users
          /\ o.err = "other" /\ backend = "memory" => o.users = users
      BY <2>1, UpdateOutcome
    <2>4. Returns(r, o.err) \/ Puts(r, u, o.err)
      BY <1>7, <2>1, <2>2, <2>3 DEF UpdateInRepo, Returns, Puts
    <2> QED
      BY <2>1, <2>3, <2>4 DEF RequestStep, Errs
  <1> QED
    BY <1>1, <1>2, <1>3, <1>4, <1>5, <1>6, <1>7 DEF Next
-----------------------------------------------------------------------------
(* The inductive invariant *)

\* A request that puts an acceptable user into the table and returns.
LEMMA PutPreserves ==
    ASSUME IInv, NEW r \in Reqs, NEW e \in Errs, NEW u \in User,
           Puts(r, u, e)
    PROVE  IInv'
  <1> USE DEF IInv, Puts
  <1>1. u.id \in IDs /\ u # Nil
    BY NilAssumption DEF User
  <1>2. TypeOK'
    BY <1>1 DEF TypeOK, Return, Idle, Request
  <1>3. RowsKeyed' /\ TimestampsOrdered'
    BY <1>1 DEF TypeOK, RowsKeyed, TimestampsOrdered
  <1>4. InFlight'
    BY <1>1 DEF TypeOK, InFlight, Return, Idle
  <1>5. PgEmailsUnique'
    BY <1>1 DEF TypeOK, PgEmailsUnique, StoredEmailUnique, EmailTaken
  <1> QED
    BY <1>2, <1>3, <1>4, <1>5

\* A request that soft-deletes a row and returns.
LEMMA DeletePreserves ==
    ASSUME IInv, NEW r \in Reqs, NEW e \in Errs, NEW id \in IDs,
           Marks(r, id, e)
    PROVE  IInv'
  <1> USE DEF IInv, Marks
  <1> DEFINE row == [users[id] EXCEPT !.deleted = TRUE]
  <1>1. users[id] \in User
    BY DEF TypeOK, LiveIn
  <1>2. /\ row \in User
        /\ row.id = users[id].id /\ row.email = users[id].email
        /\ row.createdAt = users[id].createdAt
        /\ row.updatedAt = users[id].updatedAt
    BY <1>1 DEF User
  <1>3. row # Nil
    BY <1>2, NilAssumption
  <1>4. users' = [users EXCEPT ![id] = row]
    BY DEF SoftDeleted
  <1> HIDE DEF row
  <1>5. TypeOK'
    BY <1>2, <1>4 DEF TypeOK, Return, Idle, Request
  <1>6. RowsKeyed' /\ TimestampsOrdered'
    BY <1>1, <1>2, <1>3, <1>4, NilAssumption DEF TypeOK, RowsKeyed, TimestampsOrdered
  <1>7. InFlight'
    BY <1>2, <1>3, <1>4 DEF TypeOK, InFlight, Return, Idle
  <1>8. PgEmailsUnique'
    BY <1>1, <1>2, <1>3, <1>4, NilAssumption DEF TypeOK, PgEmailsUnique, StoredEmailUnique
  <1> QED
    BY <1>5, <1>6, <1>7, <1>8

\* A request that returns and leaves the table alone.
LEMMA ReturnPreserves ==
    ASSUME IInv, NEW r \in Reqs, NEW e \in Errs, Returns(r, e)
    PROVE  IInv'
  BY DEF Returns, IInv, TypeOK, RowsKeyed, TimestampsOrdered, InFlight, PgEmailsUnique,
         StoredEmailUnique, Return, Idle, Request

\* A request that starts to hold a user, or changes the one it holds.
LEMMA HoldPreserves ==
    ASSUME IInv, NEW r \in Reqs, NEW q \in Request, Holds(r, q)
    PROVE  IInv'
  <1> USE DEF Holds
  <1>1. TypeOK'
    BY DEF IInv, TypeOK
  <1>2. InFlight'
    BY DEF IInv, TypeOK, InFlight
  <1> QED
    BY <1>1, <1>2 DEF IInv, TypeOK, RowsKeyed, TimestampsOrdered, PgEmailsUnique,
                      StoredEmailUnique

LEMMA InitIInv == Init => IInv
  BY UserServiceAssumption
  DEF Init, Idle, IInv, TypeOK, RowsKeyed, TimestampsOrdered, InFlight,
      PgEmailsUnique, StoredEmailUnique, Request, Errs

LEMMA NextIInv == IInv /\ [Next]_vars => IInv'
  <1> SUFFICES ASSUME IInv, [Next]_vars PROVE IInv'
    OBVIOUS
  <1>1. CASE UNCHANGED vars
    BY <1>1 DEF vars, IInv, TypeOK, RowsKeyed, TimestampsOrdered, InFlight,
                PgEmailsUnique, StoredEmailUnique
  <1>2. CASE Tick
    <2>1. clock \in Nat /\ clock' = clock + 1 /\ UNCHANGED <<backend, users, req>>
      BY <1>2 DEF Tick, IInv, TypeOK
    <2>2. TypeOK' /\ RowsKeyed' /\ PgEmailsUnique'
      BY <2>1 DEF IInv, TypeOK, RowsKeyed, PgEmailsUnique, StoredEmailUnique
    <2>3. TimestampsOrdered'
      BY <2>1 DEF IInv, TypeOK, TimestampsOrdered, User
    <2>4. InFlight'
      BY <2>1 DEF IInv, TypeOK, InFlight, User
    <2> QED
      BY <2>2, <2>3, <2>4 DEF IInv
  <1>3. ASSUME NEW r \in Reqs, RequestStep(r) PROVE IInv'
    BY <1>3, ReturnPreserves, HoldPreserves, PutPreserves, DeletePreserves
    DEF RequestStep
  <1> QED
    BY <1>1, <1>2, <1>3, NextIsRequestStep

THEOREM IInvAlways == Spec => []IInv
  BY InitIInv, NextIInv, PTL DEF Spec
-----------------------------------------------------------------------------
(* The theorems *)

\* The table and every request in flight are well typed in every reachable
\* state, over both stores.
THEOREM TypeCorrect == Spec => []TypeOK
  BY IInvAlways, PTL DEF IInv

\* No interleaving of requests makes a row older than its own creation, or
\* stamps it in the future.
THEOREM TimestampsCorrect == Spec => []TimestampsOrdered
  BY IInvAlways, PTL DEF IInv

\* Over Postgres, two rows hold the same address only if one of them holds it
\* in display form: this is the UNIQUE index seen through normalizeEmail.
THEOREM PlainAddressesUnique == Spec => []PlainAddressUnique
  <1>1. IInv => PlainAddressUnique
    <2> SUFFICES ASSUME IInv, backend = "postgres", NEW i \in IDs, NEW j \in IDs,
                        i # j, users[i] # Nil, users[j] # Nil,
                        users[i].email.form # "display",
                        users[j].email.form # "display"
                 PROVE  users[i].email.addr # users[j].email.addr
      BY DEF PlainAddressUnique
    <2>1. users[i].email \in Email /\ users[j].email \in Email
      BY DEF IInv, TypeOK, User
    <2>2. users[i].email # users[j].email
      BY DEF IInv, PgEmailsUnique, StoredEmailUnique
    <2> QED
      BY <2>1, <2>2 DEF Email
  <1> QED
    BY <1>1, IInvAlways, PTL

\* The service, whichever store it runs on and however requests overlap,
\* implements the directory that UserRepository promises.
THEOREM ServiceImplementsDirectory == Spec => DirectorySpec
  <1>1. Init => Directory!Init
    BY DEF Init, Directory!Init
  <1>2. IInv /\ [Next]_vars => [Directory!Next]_users
    <2> SUFFICES ASSUME IInv, Next PROVE [Directory!Next]_users
      BY DEF vars
    <2>1. CASE Tick
      BY <2>1 DEF Tick
    <2>2. ASSUME NEW r \in Reqs, RequestStep(r) PROVE [Directory!Next]_users
      <3>1. CASE \E e \in Errs : Returns(r, e)
        BY <3>1 DEF Returns
      <3>2. CASE \E q \in Request : Holds(r, q)
        BY <3>2 DEF Holds
      <3>3. ASSUME NEW u \in User, NEW e \in Errs, Puts(r, u, e)
            PROVE  Directory!Next
        <4>1. u.id \in IDs /\ users'[u.id] = u
          BY <3>3 DEF Puts, User, IInv, TypeOK
        <4>2. Directory!Put(u.id)
          BY <3>3, <4>1 DEF Puts, Directory!Put
        <4>3. Directory!Insert(u.id) \/ Directory!Overwrite(u.id)
          BY <3>3, <4>1, <4>2 DEF Puts, LiveIn, Directory!Insert, Directory!Overwrite,
                                  Directory!Live
        <4> QED
          BY <4>1, <4>3 DEF Directory!Next
      <3>4. ASSUME NEW id \in IDs, NEW e \in Errs, Marks(r, id, e)
            PROVE  Directory!Next
        <4>1. Directory!SoftDelete(id)
          BY <3>4 DEF Marks, SoftDeleted, LiveIn, Directory!SoftDelete, Directory!Live
        <4> QED
          BY <4>1 DEF Directory!Next
      <3> QED
        BY <2>2, <3>1, <3>2, <3>3, <3>4 DEF RequestStep
    <2> QED
      BY <2>1, <2>2, NextIsRequestStep
  <1> QED
    BY <1>1, <1>2, IInvAlways, PTL DEF Spec, DirectorySpec, Directory!Spec

\* A request that reports "not_found" or "validation", or any error of the
\* in-memory store, has changed nothing.
THEOREM RefusalsChangeNothing == Spec => RefusalChangesNothing
  <1> DEFINE Refused(r) ==
        /\ req'[r] # req[r] /\ req'[r].pc = "idle"
        /\ \/ req'[r].err \in {"not_found", "validation"}
           \/ req'[r].err = "other" /\ backend = "memory"
  <1>1. ASSUME IInv, Next, NEW s \in Reqs, Refused(s) PROVE users' = users
    <2>1. CASE Tick
      BY <2>1 DEF Tick
    <2>2. ASSUME NEW r \in Reqs, RequestStep(r) PROVE users' = users
      <3>1. ASSUME NEW e \in Errs, Return(r, e) PROVE r = s /\ req'[s].err = e
        BY <1>1, <3>1 DEF Return, Idle, IInv, TypeOK
      <3> QED
        BY <1>1, <2>2, <3>1 DEF RequestStep, Returns, Holds, Puts, Marks
    <2> QED
      BY <1>1, <2>1, <2>2, NextIsRequestStep
  <1>2. IInv /\ [Next]_vars => [\A r \in Reqs : Refused(r) => users' = users]_vars
    BY <1>1
  <1> QED
    BY <1>2, IInvAlways, PTL DEF Spec, RefusalChangesNothing
=============================================================================
