----------------------- MODULE ServerLifecycleProofs -----------------------
(***************************************************************************)
(* Theorems about ServerLifecycle, for any number of requests and any      *)
(* timeouts: what a stopping process does to the requests under way.       *)
(***************************************************************************)
EXTENDS ServerLifecycle, TLAPS

Busy(r) == phase[r] \in {"new", "running"}

\* No request before there is a listener; no new one once main is stopping.
Listening ==
    /\ pc \in {"config", "logger", "store", "redis", "cache", "serve"} =>
         listener = "none" /\ \A r \in Reqs : phase[r] = "none"
    /\ pc \in Stopping \cup {"exited"} => listener # "open"
    /\ pc = "exited" => \A r \in Reqs : ~Busy(r)

\* main passes Shutdown with nothing left to do or nothing left of the grace,
\* and only then closes connections and pool.
Drawn ==
    /\ pc = "close" \/ closed => elapsed = GraceOf
    /\ pc = "deferred" => elapsed = GraceOf \/ \A r \in Reqs : ~Busy(r)
    /\ store = "closed" => pc \in {"deferred", "exited"}
    /\ end # "none" => pc = "exited"

\* What became of a request, and why.
Fates ==
    \A r \in Reqs :
        /\ result[r] # "none" => phase[r] = "ended"
        /\ result[r] = "cut" => elapsed = GraceOf \/ end \in {"fatal", "killed"}
        /\ result[r] = "lost" =>
             \/ cfg.write # 0 /\ age[r] > cfg.write
             \/ elapsed = GraceOf

Inv == TypeOK /\ Listening /\ Drawn /\ Fates
-----------------------------------------------------------------------------
LEMMA TypesOK ==
    /\ GraceOf \in Nat \ {0} /\ Cap \in Nat
    /\ \A e \in Environment : Load(e) \in Config
  BY LifecycleAssumption, TimeoutsAssumption
  DEF GraceOf, Cap, Environment, Load, Config, Duration, parseInt64Env

LEMMA InitInv == Init => Inv
  <1> SUFFICES ASSUME Init PROVE Inv
    OBVIOUS
  <1>1. NoConfig \in Config
    BY TimeoutsAssumption DEF NoConfig, Config
  <1>2. elapsed \in 0 .. GraceOf /\ age \in [Reqs -> 0 .. Cap]
    <2>1. 0 \in 0 .. GraceOf /\ 0 \in 0 .. Cap
      BY TypesOK
    <2> QED
      BY <2>1 DEF Init
  <1>3. pc \in {"config", "serve"}
    BY DEF Init
  <1>4. TypeOK
    BY <1>1, <1>2, <1>3 DEF Init, TypeOK, Stopping
  <1> QED
    BY <1>3, <1>4 DEF Init, Inv, Listening, Drawn, Fates, Busy, Stopping

\* The end of the process, however it comes.
LEMMA ExitStep ==
    ASSUME Inv, NEW how \in {"clean", "fatal", "killed"}, Exit(how), UNCHANGED store,
           pc # "exited",
           how = "clean" => elapsed = GraceOf \/ \A r \in Reqs : ~Busy(r)
    PROVE  Inv'
  <1> USE DEF Exit
  <1>1. TypeOK'
    BY DEF Inv, TypeOK, Stopping, GraceOf
  <1>2. Listening'
    BY DEF Inv, TypeOK, Listening, Busy, Stopping
  <1>3. Drawn'
    BY DEF Inv, Drawn, GraceOf
  <1>4. Fates'
    BY DEF Inv, TypeOK, Fates, Drawn, Busy, GraceOf
  <1> QED
    BY <1>1, <1>2, <1>3, <1>4 DEF Inv

\* A step of main up to the shutdown, or into it.
LEMMA MainStep == ASSUME Inv, Main PROVE Inv'
  <1> USE DEF Inv, main, server, requests, Stopping
  <1>1. CASE pc = "config" /\ ~Fatal /\ LoadConfig
    <2>1. cfg' \in Config /\ pc' = "logger"
          /\ UNCHANGED <<program, store, cached, closed, end, server, requests>>
      BY <1>1, TypesOK DEF LoadConfig
    <2>2. TypeOK'
      BY <2>1 DEF TypeOK, GraceOf
    <2> QED
      BY <1>1, <2>1, <2>2 DEF Listening, Drawn, Fates, Busy, GraceOf
  <1>2. CASE ~Fatal /\ (NewLogger \/ OpenStore \/ PingRedis \/ NewCache)
    <2>1. /\ pc \in {"logger", "store", "redis", "cache"}
          /\ pc' \in {"store", "redis", "cache", "serve"}
          /\ store' \in {store, "memory", "open"} /\ cached' \in {cached, "none", "local", "shared"}
          /\ UNCHANGED <<program, cfg, closed, end, server, requests>>
      BY <1>2 DEF NewLogger, OpenStore, PingRedis, NewCache
    <2>2. TypeOK'
      BY <2>1 DEF TypeOK, GraceOf
    <2> QED
      BY <2>1, <2>2 DEF Listening, Drawn, Fates, Busy, GraceOf
  <1>3. CASE Serve \/ Notify
    <2>1. TypeOK'
      BY <1>3 DEF Serve, Notify, TypeOK, GraceOf
    <2> QED
      BY <1>3, <2>1 DEF Serve, Notify, Listening, Drawn, Fates, Busy, GraceOf
  <1>4. CASE BeginShutdown
    <2>1. TypeOK'
      BY <1>4 DEF BeginShutdown, TypeOK, GraceOf
    <2> QED
      BY <1>4, <2>1 DEF BeginShutdown, TypeOK, Listening, Drawn, Fates, Busy, GraceOf
  <1>5. CASE EndShutdown
    <2>1. elapsed >= GraceOf => elapsed = GraceOf
      BY TypesOK DEF TypeOK
    <2>2. TypeOK'
      BY <1>5 DEF EndShutdown, TypeOK, GraceOf
    <2> QED
      BY <1>5, <2>1, <2>2
      DEF EndShutdown, Drained, GraceOver, Listening, Drawn, Fates, Busy, GraceOf
  <1>6. CASE CloseServer \/ CloseStore
    <2>1. TypeOK'
      BY <1>6 DEF CloseServer, CloseStore, TypeOK, GraceOf
    <2> QED
      BY <1>6, <2>1 DEF CloseServer, CloseStore, Listening, Drawn, Fates, Busy, GraceOf
  <1>7. CASE Return
    BY <1>7, ExitStep DEF Return, Drawn
  <1>8. CASE Fatal /\ pc # "exited"
    BY <1>8, ExitStep DEF Fatal
  <1> QED
    BY <1>1, <1>2, <1>3, <1>4, <1>5, <1>6, <1>7, <1>8
    DEF Main, LoadConfig, NewLogger, OpenStore, PingRedis, NewCache

\* The listener's goroutine and the signals.
LEMMA ServerStep == ASSUME Inv, Listen \/ AcceptFails \/ ListenerFatal \/ Signal PROVE Inv'
  <1> USE DEF Inv, main, requests, Stopping
  <1>1. CASE Fatal /\ pc # "exited"
    BY <1>1, ExitStep DEF Fatal
  <1>2. CASE Exit("killed") /\ UNCHANGED store /\ pc # "exited"
    BY <1>2, ExitStep
  <1>3. CASE Listen \/ AcceptFails
    <2>1. /\ pc # "exited" /\ listener \in {"starting", "binding", "open"}
          /\ listener' \in {"binding", "open", "broken", "closed"}
          /\ pc \in Stopping => listener' # "open"
          /\ UNCHANGED <<program, main, pending, elapsed, requests>>
      BY <1>3 DEF Listen, Listens, AcceptFails
    <2>2. TypeOK'
      BY <2>1 DEF TypeOK, GraceOf
    <2> QED
      BY <2>1, <2>2 DEF TypeOK, Listening, Drawn, Fates, Busy, GraceOf
  <1>4. CASE pending' = TRUE /\ UNCHANGED <<program, main, listener, elapsed, requests>>
    BY <1>4 DEF TypeOK, Listening, Drawn, Fates, Busy, GraceOf
  <1> QED
    BY <1>1, <1>2, <1>3, <1>4 DEF ListenerFatal, Signal

\* A request goes on.
LEMMA RequestStep ==
    ASSUME Inv, NEW r \in Reqs, Connect(r) \/ ReadHeader(r) \/ Store(r) \/ Finish(r)
    PROVE  Inv'
  <1> USE DEF Inv, main, server, Stopping
  <1>1. CASE Connect(r)
    BY <1>1 DEF Connect, TypeOK, Listening, Drawn, Fates, Busy, GraceOf
  <1>2. CASE ReadHeader(r)
    <2>1. /\ phase[r] = "new" /\ \E p \in {"running", "ended"} : phase' = [phase EXCEPT ![r] = p]
          /\ age' = [age EXCEPT ![r] = 0]
          /\ UNCHANGED <<program, main, server, stored, result>>
      BY <1>2 DEF ReadHeader
    <2>2. TypeOK'
      BY <2>1, TypesOK DEF TypeOK, GraceOf
    <2> QED
      BY <2>1, <2>2 DEF TypeOK, Listening, Drawn, Fates, Busy, GraceOf
  <1>3. CASE Store(r)
    BY <1>3 DEF Store, TypeOK, Listening, Drawn, Fates, Busy, GraceOf
  <1>4. CASE Finish(r)
    <2>1. TypeOK'
      BY <1>4 DEF Finish, TypeOK, GraceOf
    <2>2. Fates'
      BY <1>4 DEF Finish, TypeOK, Late, Drawn, Fates, GraceOf
    <2> QED
      BY <1>4, <2>1, <2>2 DEF Finish, TypeOK, Listening, Drawn, Busy, GraceOf
  <1> QED
    BY <1>1, <1>2, <1>3, <1>4

\* Time goes by for what is under way; a request that has ended keeps its age.
LEMMA TickStep == ASSUME Inv, Tick PROVE Inv'
  <1> USE DEF Inv, main, Tick
  <1>1. TypeOK'
    BY TypesOK DEF TypeOK, GraceOf, Stopping
  <1>2. elapsed = GraceOf => elapsed' = GraceOf'
    BY TypesOK DEF GraceOf
  <1>3. Listening' /\ Drawn'
    BY <1>2 DEF Listening, Drawn, Busy, Stopping
  <1>4. Fates'
    BY <1>2 DEF TypeOK, Fates
  <1> QED
    BY <1>1, <1>3, <1>4

THEOREM Invariant == Spec => []Inv
  <1>1. Inv /\ [Next]_vars => Inv'
    <2> SUFFICES ASSUME Inv, [Next]_vars PROVE Inv'
      OBVIOUS
    <2>1. CASE UNCHANGED vars
      BY <2>1 DEF vars, main, server, requests, Inv, TypeOK, Listening, Drawn, Fates, Busy,
                  Stopping, GraceOf
    <2> QED
      BY <2>1, MainStep, ServerStep, RequestStep, TickStep DEF Next, Gone
  <1> QED
    BY <1>1, InitInv, PTL DEF Spec

\* The variables have their types, and a stopping main no open listener.
THEOREM TypeCorrect == Spec => []TypeOK
  <1>1. Inv => TypeOK
    BY DEF Inv
  <1> QED
    BY <1>1, Invariant, PTL

\* No request is cut off before its time (CutOnlyAfterGrace), for any number
\* of requests and any of the timeouts of main.go.
THEOREM Cut == Spec => []CutOnlyAfterGrace
  <1>1. Inv => CutOnlyAfterGrace
    BY DEF Inv, Fates, CutOnlyAfterGrace
  <1> QED
    BY <1>1, Invariant, PTL

\* The pool outlives the handlers (StoreOutlivesHandlers).
THEOREM StoreLast == Spec => []StoreOutlivesHandlers
  <1>1. Inv => StoreOutlivesHandlers
    BY TypesOK DEF Inv, TypeOK, Drawn, Listening, Busy, StoreOutlivesHandlers
  <1> QED
    BY <1>1, Invariant, PTL

\* A lost answer to a write has one of the three causes of LostWriteCaused.
THEOREM LostWrite == Spec => []LostWriteCaused
  <1>1. Inv => LostWriteCaused
    BY DEF Inv, Fates, LostWriteCaused
  <1> QED
    BY <1>1, Invariant, PTL
=============================================================================
