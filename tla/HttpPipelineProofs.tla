------------------------- MODULE HttpPipelineProofs -------------------------
(***************************************************************************)
(* Theorems about HttpPipeline, for any keys, expiries and calendar: what  *)
(* reaches the client and the log through the nested writers.              *)
(***************************************************************************)
EXTENDS HttpPipeline, TLAPS

Wire == [status : Codes \cup {0}, hdr : SUBSET Headers, body : Seq(Chunks)]

Typed ==
    /\ TypeOK
    /\ wire \in Wire /\ rr \in [status : Codes, body : BOOLEAN]

\* The steps before anything is sent.
WayIn == {"cors", "gzip", "auth", "handler", "panic"}

\* Headers that nothing takes back, and that are never set once headers have
\* been sent.
Lasting == {"request_id", "cors", "gzip", "warning"}

Unanswered ==
    pc \in WayIn => /\ wire = Unsent /\ sw = 200 /\ ~gz /\ log = 0
                    /\ hdr \subseteq Lasting

\* What the middleware on the way in has put into the header map, and that it
\* is sent as it is.
Headed ==
    pc # "idle" =>
        /\ in \in Request /\ in.since <= day
        /\ "request_id" \in hdr
        /\ pc # "cors" /\ in.origin = "allowed" => "cors" \in hdr
        /\ in.options => pc \in {"cors", "log", "finish", "done"}
        /\ "gzip" \in hdr <=> in.gzip /\ ~in.options /\ pc \notin {"cors", "gzip"}
        /\ wire.status # 0 => wire.hdr \cap Lasting = hdr \cap Lasting

\* An answer at the recorder of ETag.
Recorded ==
    pc = "etag" =>
        /\ answer \in Answer /\ log = 0 /\ ~gz
        /\ rr = [status |-> answer.code, body |-> answer.body]
        /\ "json" \in hdr => answer.explicit
        /\ wire.body = <<>>
        /\ IF answer.explicit THEN wire.status = answer.code /\ sw = answer.code
           ELSE wire.status = 0 /\ sw = 200 /\ answer.code = 200

\* The status the client has or will have, as it comes out of the chain.
Answered ==
    /\ pc \in {"gzip_out", "log"} \/ (pc \in {"finish", "done"} /\ log # 0) =>
          /\ answer \in Answer
          /\ \/ wire.status = answer.code
             \/ wire.status = 0 /\ answer.code = 200 /\ pc # "done"
    /\ pc \in {"finish", "done"} /\ log = 0 =>
          wire.status # 0 /\ (wire.status = answer.code \/ in.gzip)
    /\ pc = "done" => wire.status # 0
    /\ pc \in {"recover", "gzip_out", "log"} => log = 0
    /\ pc = "recover" => wire.status = 0 \/ in.gzip

\* The status for the log.
Logged ==
    /\ pc \in {"gzip_out", "log"} /\ ~in.inm =>
          sw = wire.status \/ (wire.status = 0 /\ sw = 200)
    /\ pc \in {"finish", "done"} /\ log # 0 /\ ~in.inm =>
          log = wire.status \/ (wire.status = 0 /\ log = 200 /\ pc = "finish")

\* The body of an answer in gzip.
Zipped ==
    /\ pc = "gzip_out" /\ in.gzip => wire.body = <<>>
    /\ /\ pc = "log" \/ (pc \in {"finish", "done"} /\ log # 0)
       /\ in.gzip /\ ~in.options
       =>
             wire.status = 204 \/ wire.body \in {<<"gzip(entity)">>, <<"gzip()">>}

Passed ==
    /\ candidate \in CurrentKeys \cup OldKeys
    /\ candidate \in DOMAIN Expiry => in.since < Expiry[candidate]
    /\ "warning" \in hdr <=> candidate \notin CurrentKeys

\* The key check is passed, or its 401 is on the wire.
Checked ==
    CurrentKeys \cup OldKeys # {} =>
        /\ pc \in {"cors", "gzip", "auth"} => "warning" \notin hdr
        /\ pc # "idle" /\ in.route \in V1 /\ ~in.options =>
             \/ pc \in {"cors", "gzip", "auth"}
             \/ Passed
             \/ pc \in {"etag", "gzip_out", "log", "finish", "done"} /\ wire.status = 401

Inv == Typed /\ Unanswered /\ Headed /\ Recorded /\ Answered /\ Logged /\ Zipped /\ Checked
-----------------------------------------------------------------------------
\* What a ResponseWriter of net/http does with a status, and with a body.
LEMMA RawWriteHeaderSends ==
    ASSUME NEW w \in Wire, NEW code \in Codes, NEW h \in SUBSET Headers
    PROVE  /\ RawWriteHeader(w, code, h) \in Wire
           /\ RawWriteHeader(w, code, h).status = IF w.status = 0 THEN code ELSE w.status
           /\ RawWriteHeader(w, code, h).hdr = IF w.status = 0 THEN h ELSE w.hdr
           /\ RawWriteHeader(w, code, h).body = w.body
  BY DEF RawWriteHeader, Wire

LEMMA RawWriteSends ==
    ASSUME NEW w \in Wire, NEW chunk \in Chunks, NEW h \in SUBSET Headers
    PROVE  /\ RawWrite(w, chunk, h) \in Wire
           /\ RawWrite(w, chunk, h).status = IF w.status = 0 THEN 200 ELSE w.status
           /\ RawWrite(w, chunk, h).hdr = IF w.status = 0 THEN h ELSE w.hdr
           /\ w.status # 204 =>
                 RawWrite(w, chunk, h).body = Append(w.body, chunk)
  <1> DEFINE v == RawWriteHeader(w, 200, h)
  <1>1. /\ v \in Wire /\ v.body = w.body /\ v.status = IF w.status = 0 THEN 200 ELSE w.status
        /\ v.hdr = IF w.status = 0 THEN h ELSE w.hdr
    BY RawWriteHeaderSends DEF Codes
  <1>2. v.status # 304
    BY <1>1 DEF Wire, Codes
  <1>3. RawWrite(w, chunk, h) =
           IF v.status = 204 THEN v ELSE [v EXCEPT !.body = Append(v.body, chunk)]
    BY <1>1, <1>2 DEF RawWrite, Wire
  <1>4. Append(v.body, chunk) \in Seq(Chunks)
    BY <1>1 DEF Wire
  <1> DEFINE r == RawWrite(w, chunk, h)
  <1> HIDE DEF v, r
  <1>5. CASE v.status = 204
    <2>1. r = v
      BY <1>3, <1>5 DEF r
    <2>2. w.status # 204 => FALSE
      BY <1>1, <1>5
    <2> QED
      BY <1>1, <2>1, <2>2 DEF r
  <1>6. CASE v.status # 204
    <2>1. r = [v EXCEPT !.body = Append(v.body, chunk)]
      BY <1>3, <1>6 DEF r
    <2>2. r \in Wire /\ r.status = v.status /\ r.hdr = v.hdr /\ r.body = Append(v.body, chunk)
      BY <1>1, <1>4, <2>1 DEF Wire
    <2> QED
      BY <1>1, <2>2 DEF r
  <1> QED
    BY <1>5, <1>6

LEMMA UnsentWire == Unsent \in Wire /\ Unsent.status = 0 /\ Unsent.body = <<>>
  BY DEF Unsent, Wire

\* What is answered without a WriteHeader is a 200 and no JSON.
LEMMA AnswersAre ==
    ASSUME NEW route \in Routes, NEW a \in Answers(route)
    PROVE  /\ a \in Answer
           /\ ~a.explicit => a.code = 200 /\ a.ctype # "json"
  <1>1. /\ JSON(200) \in Answer /\ JSON(201) \in Answer /\ Problem(400) \in Answer
        /\ Problem(404) \in Answer /\ Problem(500) \in Answer /\ Bare(204) \in Answer
        /\ Text(200) \in Answer /\ Text(503) \in Answer /\ Page \in Answer
    BY DEF Answer, JSON, Problem, Text, Bare, Page, Codes
  <1>2. Failed = {Problem(404), Problem(400), Problem(500)}
    BY DEF Failed, HTTPStatus
  <1>3. HTTPStatus("other") = 500
    BY DEF HTTPStatus
  <1>4. a \in {JSON(200), JSON(201), Problem(400), Problem(404), Problem(500), Bare(204),
              Text(200), Text(503), Page}
    <2>1. CASE route = "list"
      BY <1>3, <2>1 DEF Answers
    <2>2. CASE route \in {"create", "get", "update", "delete"}
      BY <1>2, <2>2 DEF Answers
    <2>3. CASE route \in {"ping", "health", "ready", "docs"}
      BY <2>3 DEF Answers
    <2> QED
      BY <2>1, <2>2, <2>3 DEF Routes, V1
  <1>5. /\ JSON(200).explicit /\ JSON(201).explicit /\ Problem(400).explicit
        /\ Problem(404).explicit /\ Problem(500).explicit /\ Bare(204).explicit
        /\ Text(200).explicit /\ Text(503).explicit
        /\ Page.code = 200 /\ Page.ctype = "text"
    BY DEF JSON, Problem, Text, Bare, Page
  <1> QED
    BY <1>1, <1>4, <1>5

LEMMA TextsAre ==
    /\ Text(401) \in Answer /\ Text(401).explicit /\ Text(401).code = 401 /\ Text(401).ctype = "text"
    /\ Text(500) \in Answer /\ Text(500).code = 500
    /\ Bare(204) \in Answer /\ Bare(204).code = 204
  BY DEF Text, Bare, Answer, Codes
-----------------------------------------------------------------------------
LEMMA InitInv == Init => Inv
  <1> SUFFICES ASSUME Init PROVE Inv
    OBVIOUS
  <1>1. wire \in Wire /\ rr \in [status : Codes, body : BOOLEAN]
    BY UnsentWire DEF Init, Codes
  <1>2. /\ wire.status = 0 /\ wire.hdr \subseteq Headers /\ wire.body \in Seq(Chunks)
        /\ sw = 200 /\ rr.status = 200 /\ rr.body = FALSE
    BY <1>1 DEF Init, Wire, Unsent
  <1>3. day \in 0 .. MaxDay
    BY HttpPipelineAssumption DEF Init
  <1>4. Typed
    BY <1>1, <1>2, <1>3 DEF Init, Typed, TypeOK, Codes
  <1> QED
    BY <1>4 DEF Init, Inv, Unanswered, Headed, Recorded, Answered, Logged, Zipped, Checked, WayIn

LEMMA AcceptStep == ASSUME Inv, NEW req \in Request, Accept(req) PROVE Inv'
  <1> USE DEF Accept, Inv
  <1>1. Typed'
    BY UnsentWire DEF Typed, TypeOK, Wire, Codes, Headers
  <1>2. Headed'
    BY UnsentWire DEF Headed, Typed, TypeOK, Request
  <1> QED
    BY <1>1, <1>2
    DEF Unanswered, Recorded, Answered, Logged, Zipped, Checked, WayIn, Lasting

LEMMA CORSStep == ASSUME Inv, CORS PROVE Inv'
  <1> USE DEF Inv
  <1>1. /\ pc = "cors" /\ in \in Request /\ wire = Unsent /\ log = 0 /\ sw = 200 /\ ~gz
        /\ hdr \subseteq Lasting /\ hdr' \in {hdr, hdr \cup {"cors"}}
        /\ hdr' \subseteq Lasting
        /\ in.origin = "allowed" => "cors" \in hdr'
        /\ UNCHANGED <<inMemory, day, in, rr, gz, log>>
    BY DEF CORS, Unanswered, Headed, WayIn, Lasting
  <1>2. CASE in.options
    <2>1. /\ answer' = Bare(204) /\ sw' = 204 /\ pc' = "log"
          /\ wire' = RawWriteHeader(wire, 204, hdr')
      BY <1>2 DEF CORS
    <2>2. /\ wire' \in Wire /\ wire'.status = 204 /\ wire'.hdr = hdr' /\ wire'.body = <<>>
      <3>1. 204 \in Codes /\ hdr' \in SUBSET Headers
        BY <1>1 DEF Codes, Headers, Lasting
      <3> QED
        BY <1>1, <2>1, <3>1, RawWriteHeaderSends, UnsentWire
    <2>3. Typed'
      <3>1. wire'.status \in Codes \cup {0} /\ wire'.hdr \subseteq Headers /\ wire'.body \in Seq(Chunks)
        BY <2>2 DEF Wire
      <3> QED
        BY <1>1, <2>1, <2>2, <3>1, TextsAre DEF Typed, TypeOK, Codes, Headers, Lasting
    <2>4. Headed'
      BY <1>1, <1>2, <2>1, <2>2 DEF Headed
    <2>5. Checked'
      BY <1>1, <1>2, <2>1 DEF Checked
    <2> QED
      BY <1>1, <1>2, <2>1, <2>2, <2>3, <2>4, <2>5, TextsAre
      DEF Unanswered, Recorded, Answered, Logged, Zipped, WayIn
  <1>3. CASE ~in.options
    <2>1. pc' = "gzip" /\ UNCHANGED <<answer, sw, wire>>
      BY <1>3 DEF CORS
    <2>2. Typed'
      BY <1>1, <2>1 DEF Typed, TypeOK, Headers, Lasting
    <2>3. Headed'
      BY <1>1, <1>3, <2>1, UnsentWire DEF Headed
    <2>4. Checked'
      BY <1>1, <2>1 DEF Checked
    <2> QED
      BY <1>1, <2>1, <2>2, <2>3, <2>4
      DEF Unanswered, Recorded, Answered, Logged, Zipped, WayIn
  <1> QED
    BY <1>2, <1>3

LEMMA GzipStep == ASSUME Inv, Gzip PROVE Inv'
  <1> USE DEF Inv
  <1>1. /\ pc = "gzip" /\ in \in Request /\ wire = Unsent /\ pc' \in {"auth", "handler"}
        /\ in.route \in V1 => pc' = "auth"
        /\ hdr \subseteq Lasting /\ hdr' \subseteq Lasting
        /\ hdr' = IF in.gzip THEN hdr \cup {"gzip"} ELSE hdr
        /\ UNCHANGED <<inMemory, day, in, answer, wire, sw, rr, gz, log>>
    BY DEF Gzip, Unanswered, Headed, WayIn, Lasting
  <1>2. Typed'
    BY <1>1 DEF Typed, TypeOK, Headers, Lasting
  <1>3. Headed'
    BY <1>1, UnsentWire DEF Headed
  <1>4. Checked'
    BY <1>1 DEF Checked
  <1> QED
    BY <1>1, <1>2, <1>3, <1>4 DEF Unanswered, Recorded, Answered, Logged, Zipped, WayIn

\* Whatever is answered comes to the recorder.
LEMMA AnswerStep ==
    ASSUME Inv, pc \in {"auth", "handler"}, NEW a \in Answer,
           NEW h \in SUBSET (Lasting \cup {"www_authenticate"}),
           AnswerWith(a, h), UNCHANGED <<inMemory, day, in, gz, log>>,
           hdr \subseteq h, h \subseteq hdr \cup {"www_authenticate"},
           ~a.explicit => a.code = 200 /\ a.ctype # "json"
    PROVE  /\ Typed' /\ Unanswered' /\ Headed' /\ Recorded' /\ Answered' /\ Logged' /\ Zipped'
           /\ wire'.status = IF a.explicit THEN a.code ELSE 0
           /\ pc' = "etag"
           /\ "warning" \in hdr' <=> "warning" \in hdr
  <1> USE DEF Inv
  <1>1. /\ in \in Request /\ wire = Unsent /\ log = 0 /\ sw = 200 /\ ~gz /\ ~in.options
        /\ in.since <= day /\ "request_id" \in hdr /\ in.origin = "allowed" => "cors" \in hdr
        /\ "gzip" \in hdr <=> in.gzip
    BY DEF Unanswered, Headed, WayIn
  <1>2. /\ answer' = a /\ pc' = "etag" /\ rr' = [status |-> a.code, body |-> a.body]
        /\ hdr' = h \cup ({a.ctype} \ {"none"})
    BY DEF AnswerWith
  <1>3. /\ a.code \in Codes /\ a.body \in BOOLEAN /\ a.explicit \in BOOLEAN
        /\ a.ctype \in {"none", "json", "problem", "text"}
    BY DEF Answer
  <1>4. /\ hdr' \in SUBSET Headers
        /\ "request_id" \in hdr' <=> "request_id" \in hdr
        /\ "cors" \in hdr' <=> "cors" \in hdr
        /\ "gzip" \in hdr' <=> "gzip" \in hdr
        /\ "warning" \in hdr' <=> "warning" \in hdr
        /\ "json" \in hdr' => a.ctype = "json"
    <2>1. \A x : x \in hdr' <=> x \in h \/ (x = a.ctype /\ x # "none")
      BY <1>2
    <2>2. \A x \in Lasting : x # a.ctype /\ (x \in h <=> x \in hdr)
      BY <1>3 DEF Lasting
    <2>3. "json" \notin h /\ h \subseteq Headers
      BY DEF Headers, Lasting
    <2>4. hdr' \subseteq Headers
      BY <1>3, <2>1, <2>3 DEF Headers
    <2>5. \A x \in Lasting : x \in hdr' <=> x \in hdr
      BY <2>1, <2>2
    <2> QED
      BY <2>1, <2>3, <2>4, <2>5 DEF Lasting
  <1>5. /\ wire' \in Wire /\ wire'.body = <<>>
        /\ IF a.explicit THEN wire'.status = a.code /\ wire'.hdr = hdr' /\ sw' = a.code
           ELSE wire'.status = 0 /\ sw' = 200
    <2>1. CASE a.explicit
      <3>1. wire' = RawWriteHeader(wire, a.code, hdr') /\ sw' = a.code
        BY <2>1 DEF AnswerWith
      <3> QED
        BY <1>1, <1>3, <1>4, <2>1, <3>1, RawWriteHeaderSends, UnsentWire
    <2>2. CASE ~a.explicit
      BY <1>1, <2>2, UnsentWire DEF AnswerWith
    <2> QED
      BY <1>3, <2>1, <2>2
  <1>6. Typed'
    <2>1. /\ wire'.status \in Codes \cup {0} /\ wire'.hdr \subseteq Headers /\ wire'.body \in Seq(Chunks)
          /\ rr'.status \in Codes /\ rr'.body \in BOOLEAN /\ rr' \in [status : Codes, body : BOOLEAN]
          /\ sw' \in Codes
      BY <1>2, <1>3, <1>5 DEF Wire, Codes
    <2> QED
      BY <1>1, <1>2, <1>3, <1>4, <1>5, <2>1 DEF Typed, TypeOK
  <1>7. Headed'
    BY <1>1, <1>2, <1>3, <1>4, <1>5 DEF Headed
  <1>8. Recorded'
    BY <1>1, <1>2, <1>3, <1>4, <1>5 DEF Recorded
  <1>9. Unanswered' /\ Answered' /\ Logged' /\ Zipped'
    BY <1>1, <1>2 DEF Unanswered, Answered, Logged, Zipped, WayIn
  <1> QED
    BY <1>2, <1>3, <1>4, <1>5, <1>6, <1>7, <1>8, <1>9

LEMMA AuthStep == ASSUME Inv, Auth PROVE Inv'
  <1> USE DEF Inv
  <1>1. /\ pc = "auth" /\ in \in Request /\ wire = Unsent /\ log = 0 /\ hdr \subseteq Lasting
        /\ in.since <= day /\ day \in Nat /\ in.since \in Nat
        /\ CurrentKeys \cup OldKeys # {} => "warning" \notin hdr
        /\ UNCHANGED <<inMemory, day, in, gz, log>>
    BY HttpPipelineAssumption
    DEF Auth, Unanswered, Headed, WayIn, Checked, Typed, TypeOK, Request
  <1>2. ASSUME pc' = "handler", hdr' \in {hdr, hdr \cup {"warning"}},
               UNCHANGED <<answer, rr, sw, wire>>,
               CurrentKeys \cup OldKeys # {} => Passed'
        PROVE  Inv'
    <2>1. Typed'
      BY <1>1, <1>2 DEF Typed, TypeOK, Headers, Lasting
    <2>2. Headed'
      BY <1>1, <1>2, UnsentWire DEF Headed
    <2>3. Checked'
      BY <1>2 DEF Checked
    <2>4. Unanswered'
      BY <1>1, <1>2 DEF Unanswered, WayIn, Lasting
    <2> QED
      BY <1>2, <2>1, <2>2, <2>3, <2>4 DEF Recorded, Answered, Logged, Zipped
  <1>3. candidate \notin DOMAIN Expiry \/ Expiry[candidate] \in Nat
    BY HttpPipelineAssumption
  <1>4. candidate' = candidate
    BY <1>1 DEF candidate
  <1> HIDE DEF candidate
  <1>5. CASE CurrentKeys = {} /\ OldKeys = {} /\ pc' = "handler"
             /\ UNCHANGED <<answer, hdr, rr, sw, wire>>
    BY <1>2, <1>5
  <1>6. CASE candidate \in CurrentKeys /\ ~isExpired(candidate) /\ pc' = "handler"
             /\ UNCHANGED <<answer, hdr, rr, sw, wire>>
    <2>1. Passed'
      BY <1>1, <1>3, <1>4, <1>6 DEF Passed, isExpired
    <2> QED
      BY <1>2, <1>6, <2>1
  <1>7. CASE candidate \in OldKeys \ CurrentKeys /\ ~isExpired(candidate) /\ pc' = "handler"
             /\ hdr' = hdr \cup {"warning"} /\ UNCHANGED <<answer, rr, sw, wire>>
    <2>1. Passed'
      BY <1>1, <1>3, <1>4, <1>7 DEF Passed, isExpired
    <2> QED
      BY <1>2, <1>7, <2>1
  <1>8. CASE AnswerWith(Text(401), hdr \cup {"www_authenticate"})
    <2> DEFINE h == hdr \cup {"www_authenticate"}
    <2>1. h \in SUBSET (Lasting \cup {"www_authenticate"})
      BY <1>1
    <2>2. /\ Typed' /\ Unanswered' /\ Headed' /\ Recorded' /\ Answered' /\ Logged' /\ Zipped'
          /\ wire'.status = 401 /\ pc' = "etag"
      BY <1>1, <1>8, <2>1, TextsAre, AnswerStep
    <2>3. Checked'
      BY <2>2 DEF Checked
    <2> QED
      BY <2>2, <2>3
  <1> QED
    BY <1>5, <1>6, <1>7, <1>8 DEF Auth

LEMMA HandlerStep == ASSUME Inv, Handler PROVE Inv'
  <1> USE DEF Inv
  <1>1. /\ pc = "handler" /\ in \in Request /\ wire = Unsent /\ log = 0 /\ hdr \subseteq Lasting
        /\ CurrentKeys \cup OldKeys # {} /\ in.route \in V1 /\ ~in.options => Passed
        /\ UNCHANGED <<inMemory, day, in, gz, log>>
    BY DEF Handler, Unanswered, Headed, WayIn, Checked
  <1>2. candidate' = candidate
    BY <1>1 DEF candidate
  <1>3. ASSUME "warning" \in hdr' <=> "warning" \in hdr, pc' \in {"etag", "panic"}
        PROVE  Checked'
    BY <1>1, <1>2, <1>3 DEF Checked, Passed
  <1>4. CASE \E a \in Answers(in.route) : AnswerWith(a, hdr)
    <2>1. PICK a \in Answers(in.route) : AnswerWith(a, hdr)
      BY <1>4
    <2>2. in.route \in Routes
      BY <1>1 DEF Request
    <2>3. a \in Answer /\ (~a.explicit => a.code = 200 /\ a.ctype # "json")
      BY <2>1, <2>2, AnswersAre
    <2>4. hdr \in SUBSET (Lasting \cup {"www_authenticate"})
      BY <1>1
    <2>5. /\ Typed' /\ Unanswered' /\ Headed' /\ Recorded' /\ Answered' /\ Logged' /\ Zipped'
          /\ pc' = "etag"
          /\ "warning" \in hdr' <=> "warning" \in hdr
      BY <1>1, <2>1, <2>3, <2>4, AnswerStep
    <2> QED
      BY <1>3, <2>5
  <1>5. CASE pc' = "panic" /\ UNCHANGED <<answer, hdr, rr, sw, wire>>
    <2>1. Typed'
      BY <1>1, <1>5 DEF Typed, TypeOK
    <2>2. Headed'
      BY <1>1, <1>5, UnsentWire DEF Headed
    <2>3. Unanswered'
      BY <1>1, <1>5 DEF Unanswered, WayIn
    <2> QED
      BY <1>3, <1>5, <2>1, <2>2, <2>3 DEF Recorded, Answered, Logged, Zipped
  <1> QED
    BY <1>4, <1>5 DEF Handler
-----------------------------------------------------------------------------
(* The way out *)

LEMMA ETagStep == ASSUME Inv, ETag PROVE Inv'
  <1> USE DEF Inv
  <1>1. /\ pc = "etag" /\ in \in Request /\ pc' = "gzip_out"
        /\ UNCHANGED <<inMemory, day, in, answer, rr, log>>
        /\ wire \in Wire /\ hdr \subseteq Headers
    BY DEF ETag, Headed, Typed, TypeOK
  <1>2. /\ answer \in Answer /\ log = 0
        /\ rr = [status |-> answer.code, body |-> answer.body]
        /\ "json" \in hdr => answer.explicit
        /\ wire.body = <<>>
        /\ IF answer.explicit THEN wire.status = answer.code /\ sw = answer.code
           ELSE wire.status = 0 /\ sw = 200 /\ answer.code = 200
    BY <1>1 DEF Recorded
  <1>3. hdr' \in {hdr, hdr \cup {"etag"}}
    BY DEF ETag
  <1>4. candidate' = candidate
    BY <1>1 DEF candidate
  <1>5. /\ wire' \in Wire /\ wire'.status = wire.status /\ wire'.hdr = wire.hdr
        /\ in.gzip => wire' = wire
        /\ gz' \in BOOLEAN
        /\ sw' = sw \/ (in.inm /\ sw' = 304)
    <2>1. CASE rr.status = 200 /\ "json" \in hdr /\ rr.body /\ hdr' = hdr \cup {"etag"}
      <3>1. wire.status = 200 /\ hdr' \in SUBSET Headers
        BY <1>1, <1>2, <2>1 DEF Headers
      <3>2. CASE in.inm /\ sw' = 304 /\ wire' = RawWriteHeader(wire, 304, hdr') /\ gz' = gz
        BY <1>1, <3>1, <3>2 DEF RawWriteHeader, Typed, TypeOK
      <3>3. CASE ~in.inm /\ in.gzip /\ gz' = TRUE /\ UNCHANGED <<sw, wire>>
        BY <1>1, <3>3
      <3>4. CASE ~in.inm /\ ~in.gzip /\ wire' = RawWrite(wire, "entity", hdr')
                 /\ UNCHANGED <<sw, gz>>
        <4>1. "entity" \in Chunks
          BY DEF Chunks
        <4> QED
          BY <1>1, <3>1, <3>4, <4>1, RawWriteSends DEF Typed, TypeOK
      <3> QED
        BY <1>1, <2>1, <3>2, <3>3, <3>4 DEF ETag
    <2>2. CASE UNCHANGED <<hdr, sw, wire, gz>>
      BY <1>1, <2>2 DEF Typed, TypeOK
    <2> QED
      BY <2>1, <2>2 DEF ETag
  <1>6. Typed'
    <2>1. wire'.status \in Codes \cup {0} /\ wire'.hdr \subseteq Headers /\ wire'.body \in Seq(Chunks)
      BY <1>5 DEF Wire
    <2>2. hdr' \subseteq Headers
      BY <1>1, <1>3 DEF Headers
    <2> QED
      BY <1>1, <1>5, <2>1, <2>2 DEF Typed, TypeOK
  <1>7. Headed'
    BY <1>1, <1>3, <1>5 DEF Headed, Lasting
  <1>8. Answered'
    BY <1>1, <1>2, <1>5 DEF Answered
  <1>9. Logged'
    BY <1>1, <1>2, <1>5 DEF Logged
  <1>10. Zipped'
    BY <1>1, <1>2, <1>5 DEF Zipped
  <1>11. Checked'
    BY <1>1, <1>3, <1>4, <1>5 DEF Checked, Passed
  <1> QED
    BY <1>1, <1>6, <1>7, <1>8, <1>9, <1>10, <1>11 DEF Unanswered, Recorded, WayIn

\* Closing the gzip.Writer.
LEMMA GzipCloseSends ==
    ASSUME Inv, in \in Request, GzipClose
    PROVE  /\ wire' \in Wire
           /\ ~in.gzip => wire' = wire
           /\ in.gzip =>
                /\ wire'.status = IF wire.status = 0 THEN 200 ELSE wire.status
                /\ wire'.hdr = IF wire.status = 0 THEN hdr ELSE wire.hdr
                /\ wire.body = <<>> /\ wire.status # 204 =>
                      wire'.body \in {<<"gzip(entity)">>, <<"gzip()">>}
  <1> DEFINE chunk == IF gz THEN "gzip(entity)" ELSE "gzip()"
  <1>1. wire \in Wire /\ hdr \in SUBSET Headers /\ in.gzip \in BOOLEAN
    BY DEF Inv, Typed, TypeOK, Request
  <1>2. chunk \in Chunks /\ chunk \in {"gzip(entity)", "gzip()"}
    BY DEF Chunks
  <1>3. wire' = IF in.gzip THEN RawWrite(wire, chunk, hdr) ELSE wire
    BY DEF GzipClose
  <1> HIDE DEF chunk
  <1>4. CASE ~in.gzip
    BY <1>1, <1>3, <1>4
  <1>5. CASE in.gzip
    <2>1. /\ wire' \in Wire
          /\ wire'.status = IF wire.status = 0 THEN 200 ELSE wire.status
          /\ wire'.hdr = IF wire.status = 0 THEN hdr ELSE wire.hdr
          /\ wire.status # 204 => wire'.body = Append(wire.body, chunk)
      BY <1>1, <1>2, <1>3, <1>5, RawWriteSends
    <2>2. Append(<<>>, chunk) = <<chunk>>
      OBVIOUS
    <2> QED
      BY <1>2, <1>5, <2>1, <2>2
  <1> QED
    BY <1>1, <1>4, <1>5

LEMMA GzipOutStep == ASSUME Inv, GzipOut PROVE Inv'
  <1> USE DEF Inv
  <1>1. /\ pc = "gzip_out" /\ in \in Request /\ pc' = "log" /\ log = 0
        /\ UNCHANGED <<inMemory, day, in, answer, hdr, sw, rr, gz, log>>
        /\ answer \in Answer
        /\ wire.status = answer.code \/ (wire.status = 0 /\ answer.code = 200)
        /\ ~in.inm => sw = wire.status \/ (wire.status = 0 /\ sw = 200)
        /\ in.gzip => wire.body = <<>>
    BY DEF GzipOut, Headed, Answered, Logged, Zipped
  <1>2. /\ wire' \in Wire
        /\ ~in.gzip => wire' = wire
        /\ in.gzip =>
             /\ wire'.status = IF wire.status = 0 THEN 200 ELSE wire.status
             /\ wire'.hdr = IF wire.status = 0 THEN hdr ELSE wire.hdr
             /\ wire.status # 204 => wire'.body \in {<<"gzip(entity)">>, <<"gzip()">>}
    BY <1>1, GzipCloseSends DEF GzipOut
  <1>3. Typed'
    <2>1. wire'.status \in Codes \cup {0} /\ wire'.hdr \subseteq Headers /\ wire'.body \in Seq(Chunks)
      BY <1>2 DEF Wire
    <2> QED
      BY <1>1, <1>2, <2>1 DEF Typed, TypeOK
  <1>4. Headed'
    BY <1>1, <1>2 DEF Headed
  <1>5. wire'.status = wire.status \/ (wire.status = 0 /\ wire'.status = 200)
    BY <1>2
  <1>6. answer.code # 0 /\ sw # 0
    BY <1>1 DEF Answer, Codes, Typed, TypeOK
  <1>7. Answered'
    <2>1. answer' \in Answer /\ (wire'.status = answer'.code \/ (wire'.status = 0 /\ answer'.code = 200))
      BY <1>1, <1>5, <1>6
    <2> QED
      BY <1>1, <2>1 DEF Answered
  <1>8. Logged'
    <2>1. ~in'.inm => sw' = wire'.status \/ (wire'.status = 0 /\ sw' = 200)
      BY <1>1, <1>5, <1>6
    <2> QED
      BY <1>1, <2>1 DEF Logged
  <1>9. Zipped'
    BY <1>1, <1>2 DEF Zipped
  <1>10. Checked'
    BY <1>1, <1>2 DEF Checked, Passed, candidate
  <1> QED
    BY <1>1, <1>3, <1>4, <1>7, <1>8, <1>9, <1>10 DEF Unanswered, Recorded, WayIn

LEMMA LoggingStep == ASSUME Inv, Logging PROVE Inv'
  <1> USE DEF Inv
  <1>1. /\ pc = "log" /\ in \in Request /\ pc' = "finish" /\ log' = sw
        /\ UNCHANGED <<inMemory, day, in, answer, hdr, wire, sw, rr, gz>>
        /\ sw \in Codes \cup {304} /\ sw # 0
    BY DEF Logging, Headed, Typed, TypeOK, Codes
  <1>2. Typed'
    BY <1>1 DEF Typed, TypeOK
  <1>3. Headed'
    BY <1>1 DEF Headed
  <1>4. Answered' /\ Logged' /\ Zipped'
    BY <1>1 DEF Answered, Logged, Zipped
  <1>5. Checked'
    BY <1>1 DEF Checked, Passed, candidate
  <1> QED
    BY <1>1, <1>2, <1>3, <1>4, <1>5 DEF Unanswered, Recorded, WayIn

LEMMA UnwindStep == ASSUME Inv, Unwind PROVE Inv'
  <1> USE DEF Inv
  <1>1. /\ pc = "panic" /\ in \in Request /\ pc' = "recover" /\ log = 0 /\ wire = Unsent
        /\ UNCHANGED <<inMemory, day, in, answer, hdr, sw, rr, gz, log>>
    BY DEF Unwind, Headed, Unanswered, WayIn
  <1>2. /\ wire' \in Wire
        /\ ~in.gzip => wire' = wire
        /\ in.gzip => wire'.status = 200 /\ wire'.hdr = hdr
    BY <1>1, GzipCloseSends, UnsentWire DEF Unwind
  <1>3. Typed'
    <2>1. wire'.status \in Codes \cup {0} /\ wire'.hdr \subseteq Headers /\ wire'.body \in Seq(Chunks)
      BY <1>2 DEF Wire
    <2> QED
      BY <1>1, <1>2, <2>1 DEF Typed, TypeOK
  <1>4. Headed'
    BY <1>1, <1>2, UnsentWire DEF Headed
  <1>5. Answered'
    BY <1>1, <1>2, UnsentWire DEF Answered
  <1>6. Checked'
    BY <1>1 DEF Checked, Passed, candidate
  <1> QED
    BY <1>1, <1>3, <1>4, <1>5, <1>6
    DEF Unanswered, Recorded, Logged, Zipped, WayIn

LEMMA RecoveryStep == ASSUME Inv, Recovery PROVE Inv'
  <1> USE DEF Inv
  <1>1. /\ pc = "recover" /\ in \in Request /\ pc' = "finish" /\ log = 0
        /\ UNCHANGED <<inMemory, day, in, sw, rr, gz, log>>
        /\ answer' = Text(500)
        /\ wire \in Wire /\ (wire.status = 0 \/ in.gzip)
        /\ hdr \subseteq Headers
    BY DEF Recovery, Headed, Answered, Typed, TypeOK
  <1>2. /\ hdr' \in SUBSET Headers /\ hdr' \cap Lasting = hdr \cap Lasting
        /\ \A x \in Lasting : x \in hdr' <=> x \in hdr
    BY <1>1 DEF Recovery, Headers, Lasting
  <1> DEFINE v == RawWriteHeader(wire, 500, hdr')
  <1>3. /\ v \in Wire /\ v.status = IF wire.status = 0 THEN 500 ELSE wire.status
        /\ v.hdr = IF wire.status = 0 THEN hdr' ELSE wire.hdr
    BY <1>1, <1>2, RawWriteHeaderSends DEF Codes
  <1>4. wire' = RawWrite(v, "error", hdr') /\ "error" \in Chunks
    BY DEF Recovery, Chunks
  <1> HIDE DEF v
  <1>5. /\ wire' \in Wire
        /\ wire'.status = IF v.status = 0 THEN 200 ELSE v.status
        /\ wire'.hdr = IF v.status = 0 THEN hdr' ELSE v.hdr
    BY <1>2, <1>3, <1>4, RawWriteSends
  <1>6. /\ wire'.status = IF wire.status = 0 THEN 500 ELSE wire.status
        /\ wire'.hdr = IF wire.status = 0 THEN hdr' ELSE wire.hdr
    BY <1>3, <1>5
  <1>7. Typed'
    <2>1. wire'.status \in Codes \cup {0} /\ wire'.hdr \subseteq Headers /\ wire'.body \in Seq(Chunks)
      BY <1>5 DEF Wire
    <2> QED
      BY <1>1, <1>2, <1>5, <2>1, TextsAre DEF Typed, TypeOK
  <1>8. Headed'
    BY <1>1, <1>2, <1>6 DEF Headed, Lasting
  <1>9. Answered'
    BY <1>1, <1>6, TextsAre DEF Answered
  <1>10. Checked'
    <2>1. "warning" \in hdr' <=> "warning" \in hdr
      BY <1>2 DEF Lasting
    <2> QED
      BY <1>1, <2>1 DEF Checked, Passed, candidate
  <1> QED
    BY <1>1, <1>7, <1>8, <1>9, <1>10 DEF Unanswered, Recorded, Logged, Zipped, WayIn

LEMMA FinishStep == ASSUME Inv, Finish PROVE Inv'
  <1> USE DEF Inv
  <1>1. /\ pc = "finish" /\ in \in Request /\ pc' = "done"
        /\ UNCHANGED <<inMemory, day, in, answer, hdr, sw, rr, gz, log>>
        /\ wire' = RawWriteHeader(wire, 200, hdr)
        /\ wire \in Wire /\ hdr \in SUBSET Headers /\ 200 \in Codes
    BY DEF Finish, Headed, Typed, TypeOK, Codes
  <1>2. /\ wire' \in Wire /\ wire'.body = wire.body
        /\ wire'.status = IF wire.status = 0 THEN 200 ELSE wire.status
        /\ wire'.hdr = IF wire.status = 0 THEN hdr ELSE wire.hdr
    BY <1>1, RawWriteHeaderSends
  <1>3. Typed'
    <2>1. wire'.status \in Codes \cup {0} /\ wire'.hdr \subseteq Headers /\ wire'.body \in Seq(Chunks)
      BY <1>2 DEF Wire
    <2> QED
      BY <1>1, <1>2, <2>1 DEF Typed, TypeOK
  <1>4. Headed'
    BY <1>1, <1>2 DEF Headed
  <1>5. Answered'
    <2>1. wire.status = 0 => log # 0 /\ answer.code = 200
      <3>1. log # 0 => answer \in Answer
        BY <1>1 DEF Answered
      <3>2. log # 0 => answer.code # 0
        BY <3>1 DEF Answer, Codes
      <3> QED
        BY <1>1, <3>2 DEF Answered
    <2>2. wire'.status # 0
      <3>1. wire.status \in Codes \cup {0}
        BY <1>1 DEF Wire
      <3> QED
        BY <1>2, <3>1 DEF Codes
    <2>3. wire.status = answer.code => wire'.status = answer.code
      BY <1>2, <2>1
    <2>4. log # 0 => answer \in Answer /\ wire'.status = answer.code
      BY <1>1, <1>2, <2>1, <2>3 DEF Answered
    <2>5. log = 0 => wire'.status = answer.code \/ in.gzip
      BY <1>1, <2>3 DEF Answered
    <2> QED
      BY <1>1, <2>2, <2>4, <2>5 DEF Answered
  <1>6. Logged'
    BY <1>1, <1>2 DEF Logged
  <1>7. Zipped'
    BY <1>1, <1>2 DEF Zipped
  <1>8. Checked'
    BY <1>1, <1>2 DEF Checked, Passed, candidate
  <1> QED
    BY <1>1, <1>3, <1>4, <1>5, <1>6, <1>7, <1>8 DEF Unanswered, Recorded, WayIn

LEMMA AgainStep == ASSUME Inv, Again PROVE Inv'
  <1> USE DEF Inv
  <1>1. /\ pc' = "idle" /\ in' = Nil /\ answer' = Nil /\ hdr' = {} /\ wire' = Unsent
        /\ sw' = 200 /\ rr' = [status |-> 200, body |-> FALSE] /\ gz' = FALSE /\ log' = 0
        /\ UNCHANGED <<inMemory, day>>
    BY DEF Again
  <1>2. /\ rr' \in [status : Codes, body : BOOLEAN] /\ rr'.status \in Codes /\ rr'.body \in BOOLEAN
        /\ wire' \in Wire /\ sw' \in Codes
    BY <1>1, UnsentWire DEF Codes
  <1>3. wire'.status \in Codes \cup {0} /\ wire'.hdr \subseteq Headers /\ wire'.body \in Seq(Chunks)
    BY <1>2 DEF Wire
  <1>4. Typed'
    BY <1>1, <1>2, <1>3 DEF Typed, TypeOK
  <1> QED
    BY <1>1, <1>4
    DEF Unanswered, Headed, Recorded, Answered, Logged, Zipped, Checked, WayIn

LEMMA MidnightStep == ASSUME Inv, Midnight PROVE Inv'
  <1> USE DEF Inv
  <1>1. /\ day < MaxDay /\ day' = day + 1
        /\ UNCHANGED <<inMemory, pc, in, answer, hdr, wire, sw, rr, gz, log>>
    BY DEF Midnight
  <1>2. Typed'
    BY <1>1, HttpPipelineAssumption DEF Typed, TypeOK
  <1>3. Headed'
    <2>1. pc # "idle" => in.since \in Nat /\ in.since <= day /\ day \in Nat
      BY HttpPipelineAssumption DEF Headed, Typed, TypeOK, Request
    <2>2. pc # "idle" => in.since <= day'
      BY <1>1, <2>1
    <2> QED
      BY <1>1, <2>2 DEF Headed
  <1>4. Checked'
    BY <1>1 DEF Checked, Passed, candidate
  <1> QED
    BY <1>1, <1>2, <1>3, <1>4
    DEF Unanswered, Recorded, Answered, Logged, Zipped, WayIn

LEMMA StutterStep == ASSUME Inv, UNCHANGED vars PROVE Inv'
  <1>1. Typed'
    BY DEF Inv, Typed, TypeOK, vars
  <1>2. Headed' /\ Recorded'
    BY DEF Inv, Headed, Recorded, vars
  <1>3. Unanswered' /\ Answered' /\ Logged' /\ Zipped'
    BY DEF Inv, Unanswered, Answered, Logged, Zipped, vars
  <1>4. Checked'
    BY DEF Inv, Checked, Passed, candidate, vars
  <1> QED
    BY <1>1, <1>2, <1>3, <1>4 DEF Inv
-----------------------------------------------------------------------------
\* Every handler, every middleware and midnight keep the invariant.
THEOREM Invariant == Spec => []Inv
  <1>1. Init => Inv
    BY InitInv
  <1>2. Inv /\ [Next]_vars => Inv'
    <2> SUFFICES ASSUME Inv, [Next]_vars PROVE Inv'
      OBVIOUS
    <2>1. ASSUME NEW req \in Request, Accept(req) PROVE Inv'
      BY <2>1, AcceptStep
    <2> QED
      BY <2>1, CORSStep, GzipStep, AuthStep, HandlerStep, ETagStep, GzipOutStep, LoggingStep,
         UnwindStep, RecoveryStep, FinishStep, AgainStep, MidnightStep, StutterStep
      DEF Next
  <1> QED
    BY <1>1, <1>2, PTL DEF Spec

\* The type invariant.
THEOREM TypeCorrect == Spec => []TypeOK
  <1>1. Inv => TypeOK
    BY DEF Inv, Typed
  <1> QED
    BY <1>1, Invariant, PTL

\* The status that was chosen for the client reaches it through the three
\* nested writers (RawWriteHeader keeps the first status), or it is the answer
\* to a panic that closed a gzip.Writer on its way to Recovery.
THEOREM StatusesDelivered == Spec => []StatusDelivered
  <1>1. Inv => StatusDelivered
    BY DEF Inv, StatusDelivered, Panicked, Answered
  <1> QED
    BY <1>1, Invariant, PTL

\* The status in Logging's record is the status on the wire, unless ETag tried
\* to turn a 200 that had been sent into a 304.
THEOREM LogTrue == Spec => []LogIsTrue
  <1>1. Inv => LogIsTrue
    BY DEF Inv, LogIsTrue, Logged
  <1> QED
    BY <1>1, Invariant, PTL

\* The request's id and the CORS headers are on every answer, whichever of the
\* middlewares gave it.
THEOREM HeadersKept == Spec => []HeadersSurvive
  <1>1. Inv => HeadersSurvive
    BY DEF Inv, HeadersSurvive, Headed, Answered, Lasting
  <1> QED
    BY <1>1, Invariant, PTL

\* APIKeyAuthWithOpts, for every set of keys, retired keys and expiries: what
\* comes past it carries a configured key that had not expired.
THEOREM HoldersOnly == Spec => []KeyHolders
  <1>1. Inv => KeyHolders
    BY DEF Inv, KeyHolders, Headed, Answered, Checked, Passed, Lasting
  <1> QED
    BY <1>1, Invariant, PTL

\* What Gzip declares as gzip is one gzip stream: the bodies that ETag passes
\* on, or an empty stream, never both and never plain text after it.
THEOREM GzipFramed == Spec => []GzipWellFormed
  <1>1. Inv => GzipWellFormed
    BY DEF Inv, GzipWellFormed, Panicked, Headed, Answered, Zipped, Lasting
  <1> QED
    BY <1>1, Invariant, PTL
=============================================================================
