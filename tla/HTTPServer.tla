------------------------------ MODULE HTTPServer ------------------------------
(***************************************************************************)
(* The process around the handlers: routes and middleware                  *)
(* (serve/service.go, serve/middleware.go), the log of what /pull was      *)
(* asked and answered (util/loghttp), and the start and end of the process *)
(* (cmd/diffs/main.go, api/diff-service.go).  Of a handler only its calls  *)
(* of the http.ResponseWriter and its panics are left; DiffServer and      *)
(* Accounts have the rest.                                                 *)
(*                                                                         *)
(* A request of any route is answered by a goroutine of its own; what they *)
(* share is the counter of contextLogger, the log and the process.         *)
(***************************************************************************)
EXTENDS LogFilters

CONSTANTS
    Requests,      \* HTTP requests
    Dumps,         \* what httputil.DumpRequest makes of them
    ResponseText,  \* what a handler that succeeds writes
    ErrorText,     \* what clientError writes
    MaxLives       \* bound on the number of times the process starts

ASSUME LivesAssumption    == MaxLives \in Nat
ASSUME RequestsAssumption == IsFiniteSet(Requests)
ASSUME TextsAssumption    == {ResponseText, ErrorText} \subseteq Seq(STRING)
ASSUME DumpsAssumption    ==
    \A dump \in Dumps : dump \in Seq(STRING) /\ dump # <<>> /\ dump[1] # CRLF

VARIABLES
    process,  \* whether it is up, which start of it this is, contextLogger.reqID
    req,      \* what the process knows of each request
    answer,   \* what the client of each request received
    log       \* the lines of all processes

vars == <<process, req, answer, log>>

-------------------------------------------------------------------------------
Routes   == {"hello", "inject", "pull", "signup"}
Caught   == {"inject", "pull"}  \* routes with a panicCatcher
Statuses == {0, 200, 400, 403, 404, 405, 500}

Plain(text)  == [text |-> text, form |-> "plain"]
Zipped(text) == [text |-> text, form |-> "zipped"]
Opening      == [text |-> <<>>, form |-> "part"]
Part(body)   == IF body.form = "zipped" THEN [body EXCEPT !.form = "part"] ELSE body

(* A ResponseWriter: status 0 until the header is written.                 *)
Unwritten == [status |-> 0, body |-> Plain(<<>>)]

(* The first status counts, and a body without one implies 200.            *)
Headed(w, status) == IF w.status = 0 THEN [w EXCEPT !.status = status] ELSE w
Written(w, body) ==
    [status |-> Headed(w, 200).status,
     body |-> [text |-> w.body.text \o body.text, form |-> body.form]]

(* The calls of the ResponseWriter by which the handlers answer.           *)
WriteHeader(status) == [call |-> "header", status |-> status]
Write(body, checked) == [call |-> "write", body |-> body, checked |-> checked]

ClientError(status) == <<WriteHeader(status), Write(Plain(ErrorText), FALSE)>>
SilentServerError == <<>>  \* mutant of ServerError: only logs
ServerError == <<WriteHeader(500)>>

Ends(outcome, calls) == [outcome |-> outcome, calls |-> calls]

(* The gzip.Writer writes the start of its file at once and checked; what  *)
(* makes it whole is written by a deferred Close nobody checks.            *)
ZippedResponse == <<Write(Opening, TRUE), Write(Zipped(ResponseText), FALSE)>>

Pull ==
    {Ends("refused", ClientError(status)) : status \in {400, 403, 405}}
    \cup {Ends("ok", <<WriteHeader(200)>>),  \* OPTIONS
          Ends("failed", ServerError),
          Ends("ok", <<Write(Plain(ResponseText), TRUE)>>),
          Ends("ok", ZippedResponse)}

(* When it cannot read the accounts, inject goes on without any.           *)
Inject ==
    {Ends("refused", ClientError(status)) : status \in {400, 405}}
    \cup {Ends("refused", <<WriteHeader(404)>>),
          Ends("failed", ServerError \o ClientError(400)),
          Ends("failed", ServerError), Ends("ok", <<>>)}

Hello ==
    {Ends("refused", ClientError(405)),
     Ends("ok", <<Write(Plain(ErrorText), FALSE), Write(Plain(ErrorText), FALSE)>>)}

(* A form that failed validation is answered as one that passed: 200.      *)
Signup ==
    {Ends("refused", ClientError(405)), Ends("failed", ServerError),
     Ends("ok", <<Write(Plain(ResponseText), TRUE)>>)}

Handlings(route) ==
    CASE route = "pull" -> Pull [] route = "inject" -> Inject
      [] route = "hello" -> Hello [] route = "signup" -> Signup

-------------------------------------------------------------------------------
NoRequest ==
    [pc |-> "new", route |-> "hello", life |-> 0, rid |-> 0, dump |-> <<>>, open |-> TRUE,
     outcome |-> "none", calls |-> <<>>, w |-> Unwritten, seen |-> Unwritten]

Bodies == [text : {<<>>, ResponseText, ErrorText, ErrorText \o ErrorText},
           form : {"plain", "zipped", "part"}]
Writers == [status : Statuses, body : Bodies]

TypeOK ==
    /\ process \in [up : BOOLEAN, life : 0..MaxLives, reqID : 0..Cardinality(Requests)]
    /\ \A r \in Requests :
          /\ req[r].pc \in {"new", "context", "dump", "handler", "calls", "logResponse",
                            "recover", "finish", "done", "cut"}
          /\ req[r].route \in Routes
          /\ req[r].rid \in 0..process.reqID \/ req[r].life # process.life
          /\ req[r].w \in Writers /\ req[r].seen \in Writers
    /\ answer \in [Requests -> Writers]
    /\ \A line \in log : line.of \in Requests /\ line.status \in Statuses

Init ==
    /\ process = [up |-> FALSE, life |-> 0, reqID |-> 0]
    /\ req = [r \in Requests |-> NoRequest]
    /\ answer = [r \in Requests |-> Unwritten]
    /\ log = {}

Goto(r, label) == req' = [req EXCEPT ![r].pc = label]

(* A line of r's contextual logger.  What request and process it is of is  *)
(* for the properties.                                                     *)
Line(r, kind, status, text) ==
    [rid |-> req[r].rid, kind |-> kind, status |-> status, text |-> text,
     of |-> r, life |-> req[r].life]
Log(r, kind, status, text) == log' = log \cup {Line(r, kind, status, text)}

Running(r) == req[r].pc \notin {"new", "done", "cut"}

-------------------------------------------------------------------------------
(* The process.                                                            *)

(* account.NewDB succeeds and the routes are registered; contextLogger     *)
(* counts from 0.  (If it does not, the process panics and stays down.)    *)
Start ==
    /\ ~process.up
    /\ process.life < MaxLives
    /\ process' = [up |-> TRUE, life |-> process.life + 1, reqID |-> 0]
    /\ UNCHANGED <<req, answer, log>>

(* The process ends, and its requests with it.                             *)
Exit(panicked) ==
    /\ process.up
    /\ process' = [process EXCEPT !.up = FALSE]
    /\ req' = [r \in Requests |->
                 IF ~Running(r) THEN req[r]
                 ELSE [req[r] EXCEPT !.pc = "cut",
                                     !.outcome = IF r \in panicked THEN "panicked" ELSE @]]
    /\ UNCHANGED <<answer, log>>

(* SIGINT or SIGTERM: os.Exit without waiting for anybody.                 *)
Signal == Exit({})

(* A goroutine of kv.Diff panics (chk.Fail, or Noms reading a chunk).      *)
(* panicCatcher recovers only on the goroutine of the handler.             *)
DiffPanic(r) ==
    /\ req[r].pc = "handler"
    /\ req[r].route = "pull"
    /\ Exit({r})

(* The client goes away, or WriteTimeout is over.                          *)
Hangup(r) ==
    /\ Running(r)
    /\ req[r].open
    /\ req' = [req EXCEPT ![r].open = FALSE]
    /\ UNCHANGED <<process, answer, log>>

-------------------------------------------------------------------------------
(* Middleware on the way in.                                               *)

(* Only a pull is dumped.                                                  *)
DumpsOf(route) == IF route = "pull" THEN Dumps ELSE {<<>>}

Accept(r, route, dump) ==
    /\ process.up
    /\ req[r].pc = "new"
    /\ req' = [req EXCEPT ![r].pc = IF route = "pull" THEN "context" ELSE "handler",
                          ![r].route = route, ![r].dump = dump, ![r].life = process.life]
    /\ UNCHANGED <<process, answer, log>>

(* Mutant of ContextLogger: a method of the value, whose counter is a copy.*)
CopiedCounter(r) ==
    /\ req[r].pc = "context"
    /\ req' = [req EXCEPT ![r].pc = "dump", ![r].rid = process.reqID + 1]
    /\ UNCHANGED <<process, answer, log>>

(* atomic.AddUint64, then panicCatcher and logHTTP call on.                *)
ContextLogger(r) ==
    /\ req[r].pc = "context"
    /\ process' = [process EXCEPT !.reqID = @ + 1]
    /\ req' = [req EXCEPT ![r].pc = "dump", ![r].rid = process.reqID + 1]
    /\ UNCHANGED <<answer, log>>

(* The body cannot be read: the handler is not called.                     *)
DumpFails(r) ==
    /\ req[r].pc = "dump"
    /\ req' = [req EXCEPT ![r].pc = "finish", ![r].outcome = "failed",
                          ![r].w = Written(Headed(@, 500), Plain(ErrorText))]
    /\ Log(r, "no dump", 0, <<>>)
    /\ UNCHANGED <<process, answer>>

LogRequest(r) ==
    /\ req[r].pc = "dump"
    /\ req' = [req EXCEPT ![r].pc = "handler", ![r].seen.status = 200]
    /\ Log(r, "request", 0, Filter(req[r].dump))
    /\ UNCHANGED <<process, answer>>

-------------------------------------------------------------------------------
(* The handler.                                                            *)

(* It got to know how it will answer.                                      *)
Handle(r) ==
    /\ req[r].pc = "handler"
    /\ \E h \in Handlings(req[r].route) :
          req' = [req EXCEPT ![r].pc = "calls", ![r].outcome = h.outcome, ![r].calls = h.calls]
    /\ UNCHANGED <<process, answer, log>>

(* Noms panics on the handler's goroutine.  Without a panicCatcher         *)
(* net/http recovers, and closes the connection.                           *)
Panic(r) ==
    /\ req[r].pc = "handler"
    /\ req[r].route # "hello"
    /\ req' = [req EXCEPT ![r].outcome = "panicked",
                          ![r].pc = IF req[r].route \in Caught THEN "recover" ELSE "cut"]
    /\ UNCHANGED <<process, answer, log>>

(* Mutant of SeenHeader: responseLogger does not note the status.          *)
SeenNothing(w, status) == w
(* responseLogger notes every status, also one that came too late.         *)
SeenHeader(w, status) == [w EXCEPT !.status = status]

CallHeader(r) ==
    /\ req[r].pc = "calls"
    /\ req[r].calls # <<>>
    /\ Head(req[r].calls).call = "header"
    /\ LET status == Head(req[r].calls).status
       IN  req' = [req EXCEPT ![r].calls = Tail(@), ![r].w = Headed(@, status),
                              ![r].seen = SeenHeader(@, status)]
    /\ UNCHANGED <<process, answer, log>>

(* responseLogger notes the body, whatever becomes of it.                  *)
SeenBody(w, body) ==
    [w EXCEPT !.body = [text |-> w.body.text \o body.text, form |-> body.form]]

CallWrite(r) ==
    /\ req[r].pc = "calls"
    /\ req[r].calls # <<>>
    /\ Head(req[r].calls).call = "write"
    /\ LET body == Head(req[r].calls).body
       IN  req' = [req EXCEPT ![r].calls = Tail(@), ![r].w = Written(@, body),
                              ![r].seen = SeenBody(@, body)]
    /\ UNCHANGED <<process, answer, log>>

(* Writing to a connection that was closed fails, unless buffers take it.  *)
(* pull and signup go on to serverError, after the header; the gzip.Writer *)
(* remembers the error, and its Close writes no more.                      *)
WriteFails(r) ==
    /\ req[r].pc = "calls"
    /\ req[r].calls # <<>>
    /\ Head(req[r].calls).call = "write"
    /\ ~req[r].open
    /\ LET failed == Head(req[r].calls)
       IN  \E noted \in {failed.body, Part(failed.body)} :
             req' = [req EXCEPT
                ![r].calls = IF failed.checked THEN ServerError ELSE Tail(@),
                ![r].w = Headed(@, 200), ![r].seen = SeenBody(@, noted)]
    /\ UNCHANGED <<process, answer, log>>

Return(r) ==
    /\ req[r].pc = "calls"
    /\ req[r].calls = <<>>
    /\ Goto(r, IF req[r].route = "pull" THEN "logResponse" ELSE "finish")
    /\ UNCHANGED <<process, answer, log>>

-------------------------------------------------------------------------------
(* Middleware on the way out.                                              *)

(* Mutant of MaybeUnzip: only plain text can be read.                      *)
NeverUnzip(body) == IF body.form = "plain" THEN body.text ELSE <<"unreadable">>

(* maybeUnzip: what is not a whole gzip file is logged as it is.           *)
MaybeUnzip(body) == IF body.form = "part" THEN <<"unreadable">> ELSE body.text

LogResponse(r) ==
    /\ req[r].pc = "logResponse"
    /\ Goto(r, "finish")
    /\ Log(r, "response", req[r].seen.status, Filter(MaybeUnzip(req[r].seen.body)))
    /\ UNCHANGED <<process, answer>>

(* Mutant of PanicCatcher: it only logs.                                   *)
PanicLogger(r) ==
    /\ req[r].pc = "recover"
    /\ Goto(r, "finish")
    /\ Log(r, "panic", 0, <<>>)
    /\ UNCHANGED <<process, answer>>

(* Mutant of PanicCatcher: logHTTP is around it, not within.               *)
PanicCatcherInside(r) ==
    /\ req[r].pc = "recover"
    /\ req' = [req EXCEPT ![r].pc = IF req[r].route = "pull" THEN "logResponse" ELSE "finish",
                          ![r].w = Headed(@, 500), ![r].seen = SeenHeader(@, 500)]
    /\ Log(r, "panic", 0, <<>>)
    /\ UNCHANGED <<process, answer>>

(* The panic went through logHTTP, which logs no response.                 *)
PanicCatcher(r) ==
    /\ req[r].pc = "recover"
    /\ req' = [req EXCEPT ![r].pc = "finish", ![r].w = Headed(@, 500)]
    /\ Log(r, "panic", 0, <<>>)
    /\ UNCHANGED <<process, answer>>

(* net/http sends what was written, a 200 if nothing was.                  *)
Finish(r) ==
    /\ req[r].pc = "finish"
    /\ Goto(r, "done")
    /\ answer' = IF req[r].open THEN [answer EXCEPT ![r] = Headed(req[r].w, 200)] ELSE answer
    /\ UNCHANGED <<process, log>>

Step(r) ==
    \/ ContextLogger(r) \/ DumpFails(r) \/ LogRequest(r)
    \/ Handle(r) \/ Panic(r) \/ CallHeader(r) \/ CallWrite(r) \/ WriteFails(r) \/ Return(r)
    \/ LogResponse(r) \/ PanicCatcher(r) \/ Finish(r)

Next ==
    \/ Start \/ Signal
    \/ \E r \in Requests :
          \/ \E route \in Routes : \E dump \in DumpsOf(route) : Accept(r, route, dump)
          \/ DiffPanic(r) \/ Hangup(r) \/ Step(r)

Spec == Init /\ [][Next]_vars

-------------------------------------------------------------------------------
(* Lines with one rid, of one process, are of one request, however many    *)
(* requests came in at once (contextLogger).                               *)
RidsTellRequestsApart ==
    \A l, k \in log : l.life = k.life /\ l.rid = k.rid /\ l.rid # 0 => l.of = k.of

LinesOf(r, kinds) == {l \in log : l.of = r /\ l.kind \in kinds}

(* The log of a pull that is over says how it ended, once: with the        *)
(* response, with a panic or because it could not be read; and it says     *)
(* what was asked unless that could not be read (RegisterHandlers, logHTTP,*)
(* panicCatcher).                                                          *)
PullsAreLogged ==
    \A r \in Requests : req[r].route = "pull" /\ req[r].pc = "done" =>
        /\ Cardinality(LinesOf(r, {"response", "panic", "no dump"})) = 1
        /\ Cardinality(LinesOf(r, {"request", "no dump"})) = 1

(* The response in the log is the one the client got, if it got one: also  *)
(* its status, though responseLogger would note a second one, and its text,*)
(* though it may have been zipped (responseLogger, maybeUnzip).            *)
LoggedIsSent ==
    \A r \in Requests : req[r].pc = "done" /\ req[r].open =>
        \A l \in LinesOf(r, {"response"}) :
            l.status = answer[r].status /\ l.text = Filter(answer[r].body.text)

(* The client can tell from the status how its pull or injection ended: a  *)
(* 200 is never one that failed or panicked, although a handler that       *)
(* writes nothing is a 200, and inject reports two errors in a row         *)
(* (panicCatcher, serverError, inject).                                    *)
StatusTellsOutcome ==
    \A r \in Requests : answer[r].status # 0 /\ req[r].route \in Caught =>
        LET status == answer[r].status
        IN  /\ status = 200 <=> req[r].outcome = "ok"
            /\ status = 500 <=> req[r].outcome \in {"failed", "panicked"}

(* With the filters of api/diff-service.go a request is logged with the    *)
(* headers on the allowlist and no other, and with its body, or the two    *)
(* ends of it in no more than the maximum (HeaderAllowlist, BodyElider,    *)
(* "removes all headers not on its allowlist", "limits the size of the     *)
(* HTTP request/response body"); cmd/diffs, which has no filters, logs all *)
(* of it.                                                                  *)
HeaderLines(dump) == {dump[i] : i \in 2..(EndHeaders(dump) - 1)} \ {CRLF}

IsElided(text, of) ==
    /\ Len(text) = ElideTo
    /\ \E i \in 1..(ElideTo - 2) :
          /\ SubSeq(text, 1, i - 1) = SubSeq(of, 1, i - 1)
          /\ SubSeq(text, i, i + 2) = Dots
          /\ SubSeq(text, i + 3, ElideTo) = SubSeq(of, Len(of) - (ElideTo - i - 3), Len(of))

IsTrimmed(text, asked) ==
    /\ HeaderLines(text) = HeaderLines(asked) \cap Listed
    /\ \/ Len(Body(asked)) <= ElideTo /\ Body(text) = Body(asked)
       \/ Len(Body(asked)) > ElideTo /\ IsElided(Body(text), Body(asked))

RequestsAreTrimmed ==
    \A l \in log : l.kind = "request" =>
        IF Filters = <<>> THEN l.text = req[l.of].dump ELSE IsTrimmed(l.text, req[l.of].dump)

(* panicCatcher "recovers from panics, logs them, and turns them into      *)
(* 500s".                                                                  *)
PanicsAre500s ==
    \A r \in Requests :
        req[r].route \in Caught /\ req[r].outcome = "panicked"
                      /\ req[r].pc \in {"done", "cut"} /\ req[r].open
            => answer[r].status = 500
===============================================================================
