--------------------------- MODULE Configuration ---------------------------
(***************************************************************************)
(* What config.Load (internal/config/config.go) makes of the environment,  *)
(* as far as the life of the process depends on it.  Names of the app,     *)
(* origins, log wording and the lists of keys are left out (HttpPipeline   *)
(* takes the keys as they are once parsed); so is the read timeout once it *)
(* has parsed.  Durations are in ticks of five seconds, 0 is none.         *)
(***************************************************************************)
EXTENDS Naturals

CONSTANTS
    ReadTimeout,    \* 10 s
    WriteTimeout    \* 15 s

ASSUME TimeoutsAssumption == ReadTimeout \in Nat /\ WriteTimeout \in Nat

\* "other" is a text that does not parse, or a value Validate refuses.
Environment ==
    [port : {"unset", "number", "other"},
     read : {"unset", "zero", "other"}, write : {"unset", "zero", "other"},
     dsn : BOOLEAN, inmemory : BOOLEAN,
     mode : {"unset", "dev", "prod", "other"},
     level : {"unset", "level", "other"},
     cost : {"unset", "zero", "other"},
     redis : BOOLEAN]

\* time.ParseDuration of the text, or of the default.
Duration(text, default) == IF text = "zero" THEN 0 ELSE default

\* The three values that must parse.
Parses(e) == "other" \notin {e.port, e.read, e.write}

\* CACHE_MAX_COST and its like: what does not parse silently becomes the
\* default, which is 1 here; 0 stays.
parseInt64Env(text) == IF text = "zero" THEN 0 ELSE 1

Validate(e) == (e.inmemory \/ e.dsn) /\ e.mode # "other"

Loads(e) == Parses(e) /\ Validate(e)

Load(e) ==
    [inmemory |-> e.inmemory,
     write |-> Duration(e.write, WriteTimeout),
     level |-> e.level # "other",
     cost |-> parseInt64Env(e.cost),
     redis |-> e.redis]

Config == [inmemory : BOOLEAN, write : {0, WriteTimeout}, level : BOOLEAN,
           cost : {0, 1}, redis : BOOLEAN]
=============================================================================
