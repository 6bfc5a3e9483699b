---------------------------- MODULE HttpPipeline ----------------------------
(***************************************************************************)
(* The chain of middleware that router.New (internal/http/router/          *)
(* router.go) puts around every handler, and net/http's ResponseWriter     *)
(* under it.  RequestID, Recovery, Logging, Timeout, CORS, Gzip and ETag   *)
(* wrap each other in this order; Logging, Gzip and ETag hand their inner  *)
(* handlers a writer of their own.  A request goes in through the chain,   *)
(* is answered, and comes out through the chain again; a panic skips the   *)
(* way out up to Recovery, running the deferred calls.                     *)
(***************************************************************************)
EXTENDS Handlers, Sequences

CONSTANTS
    Keys,           \* API keys clients send
    CurrentKeys,    \* cfg.APIKeys
    OldKeys,        \* cfg.OldAPIKeys
    Expiry,         \* cfg.APIKeyExpiries: some keys' day of expiry
    MaxDay,         \* bound on the calendar
    Nil             \* a header that is not there

ASSUME HttpPipelineAssumption ==
    /\ CurrentKeys \subseteq Keys /\ OldKeys \subseteq Keys
    /\ DOMAIN Expiry \subseteq Keys /\ \A k \in DOMAIN Expiry : Expiry[k] \in Nat
    /\ MaxDay \in Nat /\ Nil \notin Keys

\* inm: If-None-Match names the tag of the body that the handler will write;
\* since is the day the request came in.
Request == [since : 0 .. MaxDay, options : BOOLEAN, route : Routes, origin : {"none", "allowed", "foreign"},
            gzip : BOOLEAN, inm : BOOLEAN,
            xApiKey : Keys \cup {Nil}, authorization : Keys \cup {Nil}]

Headers == {"request_id", "cors", "gzip", "json", "problem", "text", "etag",
            "warning", "www_authenticate"}

Chunks == {"entity", "gzip(entity)", "gzip()", "error"}

VARIABLES
    inMemory,       \* main() runs without a database
    day,            \* time.Now(), in days
    pc,             \* where the request is
    in,             \* the request
    answer,         \* what the innermost code to answer did
    hdr,            \* the header map all writers share
    wire,           \* what net/http has sent: status 0 is nothing yet
    sw,             \* statusWriter.status
    rr,             \* respRecorder: status, and whether it has a body
    gz,             \* whether the gzip.Writer has been given the body
    log             \* the status that Logging has logged, or 0

vars == <<inMemory, day, pc, in, answer, hdr, wire, sw, rr, gz, log>>

TypeOK ==
    /\ inMemory \in BOOLEAN /\ day \in 0 .. MaxDay /\ gz \in BOOLEAN
    /\ pc \in {"idle", "cors", "gzip", "auth", "handler", "etag", "gzip_out", "log",
               "panic", "recover", "finish", "done"}
    /\ in \in Request \cup {Nil} /\ answer \in Answer \cup {Nil}
    /\ hdr \subseteq Headers
    /\ wire.status \in Codes \cup {0} /\ wire.hdr \subseteq Headers
    /\ wire.body \in Seq(Chunks)
    /\ sw \in Codes \cup {304}
    /\ rr.status \in Codes /\ rr.body \in BOOLEAN
    /\ log \in Codes \cup {0, 304}

Unsent == [status |-> 0, hdr |-> {}, body |-> <<>>]

Init ==
    /\ inMemory \in BOOLEAN
    /\ day = 0
    /\ pc = "idle" /\ in = Nil /\ answer = Nil
    /\ hdr = {} /\ wire = Unsent
    /\ sw = 200 /\ rr = [status |-> 200, body |-> FALSE] /\ gz = FALSE
    /\ log = 0
-----------------------------------------------------------------------------
(* external: net/http's ResponseWriter *)

\* The first WriteHeader sends the headers as they are; a later one is
\* superfluous.
RawWriteHeader(w, code, h) ==
    IF w.status = 0 THEN [w EXCEPT !.status = code, !.hdr = h] ELSE w

\* Write sends the headers if need be; a 204 and a 304 take no body.
RawWrite(w, chunk, h) ==
    LET v == RawWriteHeader(w, 200, h)
    IN  IF v.status \in {204, 304} THEN v ELSE [v EXCEPT !.body = Append(@, chunk)]
-----------------------------------------------------------------------------
(* The way in *)

\* net/http calls the chain: RequestID, and the entry of Recovery, Logging
\* and Timeout, which only wrap.
Accept(req) ==
    /\ pc = "idle" /\ req.since = day
    /\ in' = req /\ answer' = Nil
    /\ hdr' = {"request_id"} /\ wire' = Unsent
    /\ sw' = 200 /\ rr' = [status |-> 200, body |-> FALSE] /\ gz' = FALSE
    /\ log' = 0
    /\ pc' = "cors"
    /\ UNCHANGED <<inMemory, day>>

\* CORS answers OPTIONS itself.
CORS ==
    /\ pc = "cors"
    /\ hdr' = IF in.origin = "allowed" THEN hdr \cup {"cors"} ELSE hdr
    /\ \/ /\ in.options
          /\ answer' = Bare(204)
          /\ sw' = 204 /\ wire' = RawWriteHeader(wire, 204, hdr')
          /\ pc' = "log"
       \/ /\ ~in.options
          /\ pc' = "gzip"
          /\ UNCHANGED <<answer, sw, wire>>
    /\ UNCHANGED <<inMemory, day, in, rr, gz, log>>

\* Gzip wraps the writer if the client accepts gzip; then the entry of ETag,
\* and the router.
Gzip ==
    /\ pc = "gzip"
    /\ hdr' = IF in.gzip THEN hdr \cup {"gzip"} ELSE hdr
    /\ pc' = IF in.route \in V1 THEN "auth" ELSE "handler"
    /\ UNCHANGED <<inMemory, day, in, answer, wire, sw, rr, gz, log>>

\* Mutant: the recorder keeps the status to itself.
AnswerWithHeld(a, h) ==
    /\ answer' = a
    /\ hdr' = h \cup ({a.ctype} \ {"none"})
    /\ rr' = [status |-> a.code, body |-> a.body]
    /\ pc' = "etag"
    /\ UNCHANGED <<sw, wire>>

\* Mutant: a status goes to net/http's writer and past statusWriter.
AnswerWithUnlogged(a, h) ==
    /\ answer' = a
    /\ hdr' = h \cup ({a.ctype} \ {"none"})
    /\ rr' = [status |-> a.code, body |-> a.body]
    /\ wire' = IF a.explicit THEN RawWriteHeader(wire, a.code, hdr') ELSE wire
    /\ pc' = "etag"
    /\ UNCHANGED sw

\* An answer a through ETag's recorder: WriteHeader goes down to the wire at
\* once, the body stays in the recorder.
AnswerWith(a, h) ==
    /\ answer' = a
    /\ hdr' = h \cup ({a.ctype} \ {"none"})
    /\ rr' = [status |-> a.code, body |-> a.body]
    /\ IF a.explicit
       THEN sw' = a.code /\ wire' = RawWriteHeader(wire, a.code, hdr')
       ELSE UNCHANGED <<sw, wire>>
    /\ pc' = "etag"

candidate == IF in.xApiKey # Nil THEN in.xApiKey ELSE in.authorization

\* Mutant: a key is still good on its day of expiry.
isExpiredLate(key) == key \in DOMAIN Expiry /\ day > Expiry[key]

isExpired(key) == key \in DOMAIN Expiry /\ day >= Expiry[key]

\* APIKeyAuthWithOpts lets everything pass when no key is configured.
Auth ==
    /\ pc = "auth"
    /\ \/ /\ \/ CurrentKeys = {} /\ OldKeys = {}
             \/ candidate \in CurrentKeys /\ ~isExpired(candidate)
          /\ pc' = "handler"
          /\ UNCHANGED <<answer, hdr, rr, sw, wire>>
       \/ /\ candidate \in OldKeys \ CurrentKeys /\ ~isExpired(candidate)
          /\ hdr' = hdr \cup {"warning"}
          /\ pc' = "handler"
          /\ UNCHANGED <<answer, rr, sw, wire>>
       \/ /\ CurrentKeys \cup OldKeys # {}
          /\ candidate \in CurrentKeys \cup OldKeys => isExpired(candidate)
          /\ AnswerWith(Text(401), hdr \cup {"www_authenticate"})
    /\ UNCHANGED <<inMemory, day, in, gz, log>>

Handler ==
    /\ pc = "handler"
    /\ \/ /\ ~MustPanic(in.route, inMemory)
          /\ \E a \in Answers(in.route) : AnswerWith(a, hdr)
       \/ /\ MayPanic(in.route, inMemory)
          /\ pc' = "panic"
          /\ UNCHANGED <<answer, hdr, rr, sw, wire>>
    /\ UNCHANGED <<inMemory, day, in, gz, log>>
-----------------------------------------------------------------------------
(* The way out *)

\* ETag: only now is the tag known, and only the body of a 200 with JSON is
\* passed on, into the gzip.Writer if there is one.
ETag ==
    /\ pc = "etag"
    /\ \/ /\ rr.status = 200 /\ "json" \in hdr /\ rr.body
          /\ hdr' = hdr \cup {"etag"}
          /\ \/ /\ in.inm
                /\ sw' = 304 /\ wire' = RawWriteHeader(wire, 304, hdr')
                /\ UNCHANGED gz
             \/ /\ ~in.inm /\ in.gzip
                /\ gz' = TRUE
                /\ UNCHANGED <<sw, wire>>
             \/ /\ ~in.inm /\ ~in.gzip
                /\ wire' = RawWrite(wire, "entity", hdr')
                /\ UNCHANGED <<sw, gz>>
       \/ /\ ~(rr.status = 200 /\ "json" \in hdr /\ rr.body)
          /\ UNCHANGED <<hdr, sw, wire, gz>>
    /\ pc' = "gzip_out"
    /\ UNCHANGED <<inMemory, day, in, answer, rr, log>>

\* Mutant: nobody closes the gzip.Writer, which has the stream in its buffer.
GzipCloseForgotten == wire' = wire

\* The deferred gz.Close() writes the stream, an empty one too.
GzipClose ==
    wire' = IF in.gzip THEN RawWrite(wire, IF gz THEN "gzip(entity)" ELSE "gzip()", hdr)
                       ELSE wire

GzipOut ==
    /\ pc = "gzip_out"
    /\ GzipClose
    /\ pc' = "log"
    /\ UNCHANGED <<inMemory, day, in, answer, hdr, sw, rr, gz, log>>

\* The rest of Logging; Recovery has nothing to recover.
Logging ==
    /\ pc = "log"
    /\ log' = sw
    /\ pc' = "finish"
    /\ UNCHANGED <<inMemory, day, in, answer, hdr, wire, sw, rr, gz>>

\* A panic runs the deferred gz.Close() on its way to Recovery.
Unwind ==
    /\ pc = "panic"
    /\ GzipClose
    /\ pc' = "recover"
    /\ UNCHANGED <<inMemory, day, in, answer, hdr, sw, rr, gz, log>>

\* Mutant: Recovery clears the header map before it answers.
RecoveryClearsHeaders ==
    /\ pc = "recover"
    /\ answer' = Text(500)
    /\ hdr' = {"text"}
    /\ wire' = RawWrite(RawWriteHeader(wire, 500, hdr'), "error", hdr')
    /\ pc' = "finish"
    /\ UNCHANGED <<inMemory, day, in, sw, rr, gz, log>>

\* Recovery answers with http.Error on the writer it was given: net/http's.
Recovery ==
    /\ pc = "recover"
    /\ answer' = Text(500)
    /\ hdr' = (hdr \ {"json", "problem"}) \cup {"text"}
    /\ wire' = RawWrite(RawWriteHeader(wire, 500, hdr'), "error", hdr')
    /\ pc' = "finish"
    /\ UNCHANGED <<inMemory, day, in, sw, rr, gz, log>>

\* external: net/http sends a 200 if nobody has sent anything.
Finish ==
    /\ pc = "finish"
    /\ wire' = RawWriteHeader(wire, 200, hdr)
    /\ pc' = "done"
    /\ UNCHANGED <<inMemory, day, in, answer, hdr, sw, rr, gz, log>>

\* The connection is ready for the next request.
Again ==
    /\ pc = "done"
    /\ pc' = "idle" /\ in' = Nil /\ answer' = Nil
    /\ hdr' = {} /\ wire' = Unsent
    /\ sw' = 200 /\ rr' = [status |-> 200, body |-> FALSE] /\ gz' = FALSE
    /\ log' = 0
    /\ UNCHANGED <<inMemory, day>>

Midnight ==
    /\ day < MaxDay
    /\ day' = day + 1
    /\ UNCHANGED <<inMemory, pc, in, answer, hdr, wire, sw, rr, gz, log>>

Next ==
    \/ \E req \in Request : Accept(req)
    \/ CORS \/ Gzip \/ Auth \/ Handler
    \/ ETag \/ GzipOut \/ Logging
    \/ Unwind \/ Recovery \/ Finish \/ Again
    \/ Midnight

Spec == Init /\ [][Next]_vars
-----------------------------------------------------------------------------
(* Properties *)

Panicked == pc = "done" /\ log = 0

\* The client gets the status that was chosen for it, through all the writers:
\* the handler's, 401 from the key check, 204 from CORS, 500 after a panic.
\* A panic while gzip is on is the one exception: the deferred gz.Close()
\* writes to the wire, and so sends a 200, before Recovery sends its 500.
StatusDelivered ==
    pc = "done" /\ ~(Panicked /\ in.gzip) => wire.status = answer.code

\* What is logged is what was sent, unless If-None-Match matched.
LogIsTrue ==
    pc = "done" /\ log # 0 /\ ~in.inm => log = wire.status

\* Whatever happens to a request, its id and, for an allowed origin, the CORS
\* headers reach the client: errors, refusals and panics included.
HeadersSurvive ==
    pc = "done" => /\ "request_id" \in wire.hdr
                   /\ in.origin = "allowed" => "cors" \in wire.hdr

\* A request to /v1 that got past the key check carries a configured key: in
\* X-API-Key, which counts alone if it is there, or else in Authorization; the
\* key had not expired when the request came in, even if the day changed while
\* it was served; the client of a retired key is warned, and no other.
KeyHolders ==
    pc = "done" /\ in.route \in V1 /\ ~in.options /\ wire.status # 401
    /\ CurrentKeys \cup OldKeys # {} =>
        /\ candidate \in CurrentKeys \cup OldKeys
        /\ candidate \in DOMAIN Expiry => in.since < Expiry[candidate]
        /\ "warning" \in wire.hdr <=> candidate \notin CurrentKeys

\* A body that is declared to be gzip is one gzip stream, and nothing else,
\* unless a panic went through Gzip.
GzipWellFormed ==
    pc = "done" /\ "gzip" \in wire.hdr /\ wire.status # 204 /\ ~Panicked =>
        wire.body \in {<<"gzip(entity)">>, <<"gzip()">>}

\* What "view interactive docs at /docs" says: the page gets to the client.
DocsServed ==
    pc = "done" /\ in.route = "docs" /\ ~in.options =>
        wire.body \in {<<"entity">>, <<"gzip(entity)">>}
=============================================================================
