-------------------------- MODULE ServerLifecycle --------------------------
(***************************************************************************)
(* The life of a server process: main of cmd/server/main.go from the       *)
(* configuration to the exit, and main of cmd/api/main.go, the placeholder *)
(* that shares its end.  Beside it run the goroutine of ListenAndServe and *)
(* one per connection (net/http, external), under the timeouts main sets   *)
(* and the one of the middleware (internal/middleware/timeout.go).         *)
(***************************************************************************)
EXTENDS Configuration, FiniteSets

CONSTANTS
    Reqs,             \* requests, each on its own connection
    Programs,         \* subset of {"server", "api"}
    Grace,            \* 20 s for Shutdown
    ApiGrace,         \* 5 s for the placeholder's
    HandlerTimeout,   \* 30 s for the context of a handler
    HeaderTimeout     \* 5 s for the header of a request

ASSUME LifecycleAssumption ==
    /\ Programs \subseteq {"server", "api"}
    /\ {Grace, ApiGrace, HandlerTimeout, HeaderTimeout} \subseteq Nat \ {0}

VARIABLES
    program,
    pc,         \* where main is
    cfg,        \* what was loaded
    store,      \* "none", "memory", "open" or "closed" (the pool of db.go)
    cached,     \* "none", "local" or "shared": the layers of the cache
    listener,   \* "none", "starting", "binding", "open", "broken" (its error is
                \* on the way to logger.Fatal) or "closed"
    pending,    \* a signal is in the channel
    elapsed,    \* ticks since Shutdown began
    phase,      \* of a request: "none", "new" (connected), "running", "ended"
    age,        \* ticks since it connected, or since its header was read
    stored,     \* whether its handler has written to the store
    result,     \* what became of it: "none", "answered", "lost", "cut"
    closed,     \* whether main has closed the connections
    end         \* how the process ended: "none", "clean", "fatal", "killed"

main == <<pc, cfg, store, cached, closed, end>>
server == <<listener, pending, elapsed>>
requests == <<phase, age, stored, result>>
vars == <<program, main, server, requests>>

NoConfig == [inmemory |-> TRUE, write |-> 0, level |-> TRUE, cost |-> 1, redis |-> FALSE]

Cap == HandlerTimeout + 1       \* bound: ages past the last timeout are one
GraceOf == IF program = "server" THEN Grace ELSE ApiGrace

Stopping == {"shutdown", "close", "deferred"}

TypeOK ==
    /\ program \in Programs /\ cfg \in Config
    /\ pc \in {"config", "logger", "store", "redis", "cache", "serve", "notify", "wait",
               "exited"} \cup Stopping
    /\ store \in {"none", "memory", "open", "closed"}
    /\ cached \in {"none", "local", "shared"}
    /\ listener \in {"none", "starting", "binding", "open", "broken", "closed"}
    /\ pc \in Stopping => listener # "open"
    /\ pending \in BOOLEAN /\ elapsed \in 0 .. GraceOf
    /\ phase \in [Reqs -> {"none", "new", "running", "ended"}]
    /\ age \in [Reqs -> 0 .. Cap]
    /\ stored \in [Reqs -> BOOLEAN]
    /\ result \in [Reqs -> {"none", "answered", "lost", "cut"}]
    /\ closed \in BOOLEAN
    /\ end \in {"none", "clean", "fatal", "killed"}

Init ==
    /\ program \in Programs
    /\ pc = (IF program = "server" THEN "config" ELSE "serve")
    /\ cfg = NoConfig
    /\ store = "none" /\ cached = "none"
    /\ listener = "none" /\ pending = FALSE /\ elapsed = 0
    /\ phase = [r \in Reqs |-> "none"]
    /\ age = [r \in Reqs |-> 0]
    /\ stored = [r \in Reqs |-> FALSE]
    /\ result = [r \in Reqs |-> "none"]
    /\ closed = FALSE /\ end = "none"

-----------------------------------------------------------------------------
\* The process is gone, and with it every request that was under way.
Exit(how) ==
    /\ pc' = "exited" /\ end' = how
    /\ listener' = "closed"
    /\ result' = [r \in Reqs |-> IF phase[r] = "running" THEN "cut" ELSE result[r]]
    /\ phase' = [r \in Reqs |-> IF phase[r] = "none" THEN "none" ELSE "ended"]
    /\ UNCHANGED <<program, cfg, cached, closed, pending, elapsed, age, stored>>

\* log.Fatalf and logger.Fatal end the process without the deferred calls.
Fatal == Exit("fatal") /\ UNCHANGED store

LoadConfig ==
    /\ pc = "config"
    /\ \E e \in Environment :
          \/ ~Loads(e) /\ Fatal
          \/ /\ Loads(e)
             /\ cfg' = Load(e)
             /\ pc' = "logger"
             /\ UNCHANGED <<program, store, cached, closed, end, server, requests>>

NewLogger ==
    /\ pc = "logger"
    /\ \/ ~cfg.level /\ Fatal
       \/ /\ cfg.level
          /\ pc' = "store"
          /\ UNCHANGED <<program, cfg, store, cached, closed, end, server, requests>>

\* The in-memory store, or postgres.Open with a ping of at most 5 s.
OpenStore ==
    /\ pc = "store"
    /\ \/ /\ store' = IF cfg.inmemory THEN "memory" ELSE "open"
          /\ pc' = "redis"
          /\ UNCHANGED <<program, cfg, cached, closed, end, server, requests>>
       \/ ~cfg.inmemory /\ Fatal

\* Redis is used if it answers a ping now, and never tried again.
PingRedis ==
    /\ pc = "redis"
    /\ cached' \in IF cfg.redis THEN {"local", "shared"} ELSE {"local"}
    /\ pc' = "cache"
    /\ UNCHANGED <<program, cfg, store, closed, end, server, requests>>

\* external: ristretto refuses a cost of 0.  The service then goes without
\* any cache.
NewCache ==
    /\ pc = "cache"
    /\ cached' = IF cfg.cost = 0 THEN "none" ELSE cached
    /\ pc' = "serve"
    /\ UNCHANGED <<program, cfg, store, closed, end, server, requests>>

\* go ListenAndServe, before signals are asked for.
Serve ==
    /\ pc = "serve"
    /\ listener' = "starting"
    /\ pc' = "notify"
    /\ UNCHANGED <<program, cfg, store, cached, closed, end, pending, elapsed, requests>>

Notify ==
    /\ pc = "notify"
    /\ pc' = "wait"
    /\ UNCHANGED <<program, cfg, store, cached, closed, end, server, requests>>

\* <-stop, and Shutdown closes the listener.
BeginShutdown ==
    /\ pc = "wait" /\ pending
    /\ pending' = FALSE
    /\ pc' = "shutdown"
    /\ listener' = IF listener = "open" THEN "closed" ELSE listener
    /\ UNCHANGED <<program, cfg, store, cached, closed, end, elapsed, requests>>

\* Mutant: Shutdown looks at connections that have sent nothing only.
DrainedOfNew == \A r \in Reqs : phase[r] # "new"

\* external: what Shutdown waits for.
Drained == \A r \in Reqs : phase[r] \notin {"new", "running"}

\* Mutant: Shutdown is given a context without a timeout.
GraceNever == FALSE

\* Mutant: the server has the placeholder's 5 s.
GraceShort == elapsed >= ApiGrace

GraceOver == elapsed >= GraceOf

\* Shutdown returns nil, or an error when its context is done; only the server
\* looks at the error.
EndShutdown ==
    /\ pc = "shutdown"
    /\ \/ Drained /\ pc' = "deferred"
       \/ GraceOver /\ pc' = (IF program = "server" THEN "close" ELSE "deferred")
    /\ UNCHANGED <<program, cfg, store, cached, closed, end, server, requests>>

\* srv.Close closes the connections of handlers that still run.
CloseServer ==
    /\ pc = "close"
    /\ closed' = TRUE
    /\ pc' = "deferred"
    /\ UNCHANGED <<program, cfg, store, cached, end, server, requests>>

\* The deferred calls, then main returns: with the pool closed, the last
\* handlers run into its error until the process is gone.
CloseStore ==
    /\ pc = "deferred" /\ store = "open"
    /\ store' = "closed"
    /\ UNCHANGED <<program, pc, cfg, cached, closed, end, server, requests>>

Return ==
    /\ pc = "deferred" /\ store # "open"
    /\ Exit("clean") /\ UNCHANGED store

Main ==
    \/ LoadConfig \/ NewLogger \/ OpenStore \/ PingRedis \/ NewCache \/ Serve \/ Notify
    \/ BeginShutdown \/ EndShutdown \/ CloseServer \/ CloseStore \/ Return

-----------------------------------------------------------------------------
\* Mutant: the listener is opened whether or not Shutdown has been called.
ListensAnyway == "open"

\* external: Serve returns ErrServerClosed when Shutdown came first.
Listens == IF pc \in Stopping THEN "closed" ELSE "open"

\* external: ListenAndServe asks whether Shutdown has been called, binds the
\* port, which may fail, and Serve asks again.
Listen ==
    /\ pc # "exited"
    /\ \/ /\ listener = "starting"
          /\ listener' = IF pc \in Stopping THEN "closed" ELSE "binding"
       \/ /\ listener = "binding"
          /\ listener' \in {Listens, "broken"}
    /\ UNCHANGED <<program, main, pending, elapsed, requests>>

\* external: the open listener breaks down, and Serve returns the error.
AcceptFails ==
    /\ pc # "exited" /\ listener = "open"
    /\ listener' = "broken"
    /\ UNCHANGED <<program, main, pending, elapsed, requests>>

\* The goroutine ends the process for the error, whenever it comes to it: the
\* shutdown may have begun since.
ListenerFatal ==
    /\ pc # "exited" /\ listener = "broken"
    /\ Fatal

\* SIGINT or SIGTERM.  Before Notify it kills the process; the channel keeps
\* one signal, those after it are dropped, during the shutdown too.
Signal ==
    /\ pc # "exited"
    /\ \/ pc \in {"wait"} \cup Stopping
          /\ pending' = TRUE
          /\ UNCHANGED <<program, main, listener, elapsed, requests>>
       \/ pc \notin {"wait"} \cup Stopping
          /\ Exit("killed") /\ UNCHANGED store

-----------------------------------------------------------------------------
Connect(r) ==
    /\ listener = "open" /\ phase[r] = "none"
    /\ phase' = [phase EXCEPT ![r] = "new"]
    /\ UNCHANGED <<program, main, server, age, stored, result>>

\* The header has come, perhaps after Shutdown has begun, or not in time.
ReadHeader(r) ==
    /\ phase[r] = "new"
    /\ \/ /\ age[r] <= HeaderTimeout /\ phase' = [phase EXCEPT ![r] = "running"]
       \/ /\ age[r] >= HeaderTimeout /\ phase' = [phase EXCEPT ![r] = "ended"]
    /\ age' = [age EXCEPT ![r] = 0]
    /\ UNCHANGED <<program, main, server, stored, result>>

\* The handler's statement succeeds.  That of a database needs the context of
\* the Timeout middleware not to be done; the memory store does not look at it.
Store(r) ==
    /\ phase[r] = "running" /\ ~stored[r]
    /\ store = "memory" \/ (store = "open" /\ age[r] <= HandlerTimeout)
    /\ stored' = [stored EXCEPT ![r] = TRUE]
    /\ UNCHANGED <<program, main, server, phase, age, result>>

\* Mutant: the read timeout is set for both.
LateReading(r) == cfg.write # 0 /\ age[r] > ReadTimeout

\* The write timeout counts from the header.
Late(r) == cfg.write # 0 /\ age[r] > cfg.write

\* The handler returns, whenever it likes, and the answer goes out or not.
Finish(r) ==
    /\ phase[r] = "running"
    /\ phase' = [phase EXCEPT ![r] = "ended"]
    /\ result' = [result EXCEPT ![r] = IF closed \/ Late(r) THEN "lost" ELSE "answered"]
    /\ UNCHANGED <<program, main, server, age, stored>>

\* Five seconds go by.
Tick ==
    /\ pc # "exited"
    /\ age' = [r \in Reqs |-> IF phase[r] \in {"new", "running"} /\ age[r] < Cap
                              THEN age[r] + 1 ELSE age[r]]
    /\ elapsed' = IF pc \in Stopping /\ elapsed < GraceOf THEN elapsed + 1 ELSE elapsed
    /\ UNCHANGED <<program, main, listener, pending, phase, stored, result>>

Gone == pc = "exited" /\ UNCHANGED vars

Next ==
    \/ Main \/ Listen \/ AcceptFails \/ ListenerFatal \/ Signal \/ Tick \/ Gone
    \/ \E r \in Reqs : Connect(r) \/ ReadHeader(r) \/ Store(r) \/ Finish(r)

\* main goes on and time goes by.  Nothing is assumed of the handlers: a body
\* that is slow to come, or a profile, may keep one busy for good.
Fairness == WF_vars(Main) /\ WF_vars(Tick)

Spec == Init /\ [][Next]_vars /\ Fairness

-----------------------------------------------------------------------------
\* The process goes down under a request, cutting it off, only when its grace
\* is over, when a signal comes before main has asked for signals, or when the
\* listener breaks down; a request that has begun is otherwise left to end.
CutOnlyAfterGrace ==
    \A r \in Reqs :
        result[r] = "cut" =>
            elapsed = GraceOf \/ end # "clean"

\* The pool is closed under a handler only when the grace is over: db.Close is
\* deferred and runs after Shutdown.
StoreOutlivesHandlers ==
    store = "closed" /\ elapsed < GraceOf => \A r \in Reqs : phase[r] # "running"

\* A client that is not told of a write that was made: its handler took longer
\* than the write timeout allows (half of what its context does), or the
\* process was over.
LostWriteCaused ==
    \A r \in Reqs :
        stored[r] /\ result[r] \in {"lost", "cut"} =>
            \/ cfg.write # 0 /\ age[r] > cfg.write
            \/ elapsed = GraceOf
            \/ end \in {"fatal", "killed"}

\* Once a signal is in the channel the process ends, whatever the handlers do
\* and however many signals follow.
Terminates == pending ~> pc = "exited"
=============================================================================
