---------------------------- MODULE HttpExchange ----------------------------
(***************************************************************************)
(* The toolkit's side of an HTTP exchange: AppLoggerMiddleware, which logs *)
(* each request and, by wrapping write and end, each response; the two     *)
(* exception filters; setPaginationResponseHeader.  Handlers are           *)
(* arbitrary: they set statuses, write and end by themselves, give the     *)
(* framework a value or a page to answer with, or throw.  Under them are   *)
(* Nest, Express and Node: a call that violates the protocol of a response *)
(* throws, is ignored, or makes Node emit an error event nobody listens    *)
(* to; with that, and with a rejection nobody handles, which is what       *)
(* becomes of what a filter throws, Node exits.                            *)
(***************************************************************************)
EXTENDS Integers, Sequences

CONSTANTS
    Requests,
    Buffers, Texts, \* chunks handlers write: buffers and others (strings)
    Value, Items, Error,    \* buffers: bodies Express makes of a value, the items of
                            \* a page, and what a filter answers
    Codes,      \* statuses handlers set, or put into the response of an exception
    Statuses,   \* of the HttpExceptions handlers throw
    Unset,      \* undefined: no status, no chunk
    Filters,    \* subset of {"AllExceptionsFilter", "HttpExceptionFilter"}
    MaxCalls    \* bound: calls of write and end, and statuses set, by all handlers

Chunks == Buffers \cup Texts \cup {Value, Items, Error}

ASSUME HttpAssumption ==
    /\ Texts \cap (Buffers \cup {Value, Items, Error}) = {}
    /\ Error \notin Buffers /\ Items \notin Buffers \cup {Error, Value}
    /\ Codes \cup Statuses \subseteq 100..599 /\ Unset \notin Nat /\ Unset \notin Chunks
    /\ Filters \subseteq {"AllExceptionsFilter", "HttpExceptionFilter"}
    /\ MaxCalls \in Nat

\* Statuses with which Node sends no body, and those with which Express has none.
NoBody == (100..199) \cup {204, 304}
Empty == {204, 205, 304}

\* HttpException: getResponse is a string, an object with a statusCode (that of the
\* exception, if it is of BaseException or Nest's own), or an object without one.
HttpExceptions ==
    [kind : {"text", "uncoded"}, status : Statuses, code : {Unset}]
    \cup [kind : {"coded"}, status : Statuses, code : Statuses \cup Codes]

\* Whatever else is thrown: an Error, an object with a message, something without one
\* (a string such as withTransaction throws), null, and what there is no answer for:
\* it cannot be stringified, or its status is none of HTTP's.
OtherExceptions ==
    [kind : {"Error", "object", "string", "null", "unsendable"},
     status : {Unset}, code : {Unset}]

Exceptions == HttpExceptions \cup OtherExceptions

VARIABLES
    alive,      \* the process runs
    filter,     \* the filter in use
    stage,      \* the handler: "new", "handling", "thrown", "caught" or "over"
    exception,  \* what it threw, or Unset
    calls,      \* counts up to MaxCalls
    res,        \* the response, see Response
    closing,    \* "open", "finish" event emitted, or "left" by the client before that
    correlated, \* next correlation id
    id,         \* id[r]: correlationId in the closures of the middleware, or Unset
    log         \* what the middleware logged

vars == <<alive, filter, stage, exception, calls, res, closing, correlated, id, log>>

Response == [
    status : 100..599 \cup {Unset},
    sentStatus : 100..599 \cup {Unset},     \* in the headers sent, Unset before
    ended : BOOLEAN,
    pageHeaders : BOOLEAN,      \* the x- headers of a page are among the headers
    sent : Seq(Chunks),         \* chunks Node took
    chunks : Seq(Chunks),       \* chunks the middleware recorded
    responseBody : Seq(Chunks),
    again : BOOLEAN,            \* history: end was called on an ended response
    late : BOOLEAN,             \* history: a status was set after the headers were sent
    failing : BOOLEAN]          \* Node is about to emit an error event

Entry == [kind : {"HTTP Request", "HTTP Response"}, id : Nat, request : Requests,
          status : 100..599 \cup {Unset}, body : Seq(Chunks)]

\* Type invariant.
TypeOK ==
    /\ alive \in BOOLEAN /\ filter \in Filters
    /\ stage \in [Requests -> {"new", "handling", "thrown", "caught", "over"}]
    /\ exception \in [Requests -> Exceptions \cup {Unset}]
    /\ \A r \in Requests : stage[r] \in {"thrown", "caught"} => exception[r] \in Exceptions
    /\ calls \in 0..MaxCalls
    /\ res \in [Requests -> Response]
    /\ closing \in [Requests -> {"open", "finish", "left"}]
    /\ correlated \in Nat /\ id \in [Requests -> Nat \cup {Unset}]
    /\ \A r \in Requests : stage[r] # "new" => id[r] \in Nat
    /\ log \in Seq(Entry)

NewResponse == [
    status |-> 200, sentStatus |-> Unset, ended |-> FALSE, pageHeaders |-> FALSE,
    sent |-> <<>>, chunks |-> <<>>, responseBody |-> <<>>, again |-> FALSE,
    late |-> FALSE, failing |-> FALSE]

Init ==
    /\ alive = TRUE /\ filter \in Filters
    /\ stage = [r \in Requests |-> "new"]
    /\ exception = [r \in Requests |-> Unset]
    /\ calls = 0
    /\ res = [r \in Requests |-> NewResponse]
    /\ closing = [r \in Requests |-> "open"]
    /\ correlated = 0 /\ id = [r \in Requests |-> Unset]
    /\ log = <<>>

-----------------------------------------------------------------------------
(* Calls on a response w: what it is afterwards, and whether they throw.    *)

Done(w) == [res |-> w, threw |-> FALSE]
Threw(w) == [res |-> w, threw |-> TRUE]

HeadersSent(w) == w.sentStatus # Unset

Elements(s) == {s[i] : i \in 1..Len(s)}

\* A chunk is pushed if there is one.
Push(chunks, chunk) == IF chunk = Unset THEN chunks ELSE Append(chunks, chunk)

\* Node sends a chunk, and the headers before the first one.
Taken(w, chunk) ==
    LET status == IF HeadersSent(w) THEN w.sentStatus ELSE w.status
    IN  [w EXCEPT !.sentStatus = status,
                  !.sent = IF status \in NoBody THEN @ ELSE Push(@, chunk)]

\* originalEnd: a second one changes nothing (see LateChunk); the headers of the
\* first need a status.
OriginalEnd(w, chunk) ==
    IF w.ended THEN Done([w EXCEPT !.again = TRUE])
    ELSE IF w.status = Unset THEN Threw(w)
    ELSE Done([Taken(w, chunk) EXCEPT !.ended = TRUE])

\* The chunk that ends the response is not recorded.
BugWrappedEnd(w, chunk) ==
    IF Elements(w.chunks) \cap Texts # {} THEN Threw(w)
    ELSE OriginalEnd([w EXCEPT !.responseBody = w.chunks], chunk)

\* res.end of the middleware: Buffer.concat wants buffers only.
WrappedEnd(w, chunk) ==
    LET recorded == [w EXCEPT !.chunks = Push(@, chunk)]
    IN  IF Elements(recorded.chunks) \cap Texts # {} THEN Threw(recorded)
        ELSE OriginalEnd([recorded EXCEPT !.responseBody = recorded.chunks], chunk)

\* res.write of the middleware: what comes after the end is recorded, not sent.
WrappedWrite(w, chunk) ==
    LET recorded == [w EXCEPT !.chunks = Append(@, chunk)]
    IN  IF w.ended THEN recorded ELSE Taken(recorded, chunk)

\* res.json of what can be stringified: no header may be set after the first are sent.
Json(w, chunk) ==
    IF HeadersSent(w) THEN Threw(w)
    ELSE WrappedEnd(w, IF w.status \in Empty THEN Unset ELSE chunk)

\* res.send of nothing sets no headers, and removes some if there is to be no body.
SendNothing(w) ==
    IF HeadersSent(w) /\ w.status \in Empty THEN Threw(w) ELSE WrappedEnd(w, Unset)

\* The items first, when it is too late for headers.
BugSetPaginationResponseHeader(w, headers, stringifiable) ==
    IF stringifiable THEN Threw(Json(w, Items).res) ELSE Threw(w)

\* Without a pagination getHeaders returns no headers, and items are like any value.
SetPaginationResponseHeader(w, headers, stringifiable) ==
    IF headers /\ HeadersSent(w) THEN Threw(w)
    ELSE LET headed == [w EXCEPT !.pageHeaders = headers]
         IN  IF stringifiable THEN Json(headed, IF headers THEN Items ELSE Value)
             ELSE Threw(headed)

-----------------------------------------------------------------------------
(* The filters.                                                             *)

\* statusCode of the shape; an Error has none.
BugCreateGeneralExceptionError(e) ==
    CASE e.kind = "null" -> 500
      [] e.kind = "text" -> e.status
      [] OTHER -> e.code

\* A response that is a string loses its status.
BugGeneralStatus(e) ==
    IF e.kind \in {"null", "Error", "text"} THEN 500 ELSE e.code

\* The response of an HttpException is taken as it is if it is an object, whatever
\* the status of the exception.
CreateGeneralExceptionError(e) ==
    CASE e.kind \in {"null", "Error"} -> 500
      [] e.kind = "text" -> e.status
      [] OTHER -> e.code

\* The log call reads exception.message.logData: null has no message, and what
\* has no message has no logData.
AllExceptionsFilter(w, e) ==
    IF e.kind \in {"null", "string", "unsendable"} THEN Threw(w)
    ELSE Json([w EXCEPT !.status = CreateGeneralExceptionError(e)], Error)

\* exception['message'] of null throws.
HttpExceptionFilter(w, e) ==
    IF e.kind \in {"null", "unsendable"} THEN Threw(w)
    ELSE Json([w EXCEPT !.status = IF e \in HttpExceptions THEN e.status ELSE 500], Error)

\* The filter logs the exception and leaves the response as it is.
BugFilter(w, e) == Done(w)

Filter(w, e) ==
    IF filter = "AllExceptionsFilter" THEN AllExceptionsFilter(w, e)
    ELSE HttpExceptionFilter(w, e)

-----------------------------------------------------------------------------
(* The exchange.                                                            *)

\* Each request finds a context of its own, without an id.
GetCorrelationId == correlated

\* No context is left when the event comes.
BugLostId(r) == Unset

\* The id is looked up in the context of whatever request came last.
BugLoggedId(r) == correlated - 1

LoggedId(r) == id[r]

Arrive(r) ==
    /\ alive /\ stage[r] = "new"
    /\ stage' = [stage EXCEPT ![r] = "handling"]
    /\ id' = [id EXCEPT ![r] = GetCorrelationId]
    /\ correlated' = correlated + 1
    /\ log' = Append(log, [kind |-> "HTTP Request", id |-> GetCorrelationId, request |-> r,
                           status |-> Unset, body |-> <<>>])
    /\ UNCHANGED <<alive, filter, exception, calls, res, closing>>

AnError == [kind |-> "Error", status |-> Unset, code |-> Unset]

\* The handler's call on the response returned, or threw an Error out of it.
Continue(r, outcome, next) ==
    /\ alive /\ stage[r] = "handling"
    /\ res' = [res EXCEPT ![r] = outcome.res]
    /\ IF outcome.threw
       THEN /\ stage' = [stage EXCEPT ![r] = "thrown"]
            /\ exception' = [exception EXCEPT ![r] = AnError]
       ELSE /\ stage' = [stage EXCEPT ![r] = next]
            /\ UNCHANGED exception
    /\ UNCHANGED <<alive, filter, closing, correlated, id, log>>

\* A chunk for a response that was ended and whose connection is not done with it:
\* an error event is on its way.
LateChunk(r, chunk, outcome) ==
    IF res[r].ended /\ closing[r] = "open" /\ chunk # Unset /\ ~outcome.threw
    THEN Done([outcome.res EXCEPT !.failing = TRUE]) ELSE outcome

Write(r) ==
    /\ calls < MaxCalls
    /\ calls' = calls + 1
    /\ \E chunk \in Buffers \cup Texts :
        Continue(r, LateChunk(r, chunk, Done(WrappedWrite(res[r], chunk))), "handling")

End(r) ==
    /\ calls < MaxCalls
    /\ calls' = calls + 1
    /\ \E chunk \in Buffers \cup Texts \cup {Unset} :
        Continue(r, LateChunk(r, chunk, WrappedEnd(res[r], chunk)), "handling")

\* Node lets handlers set a status at any time, also when it is too late.
SetStatus(r) ==
    /\ calls < MaxCalls
    /\ calls' = calls + 1
    /\ \E code \in Codes :
        Continue(r, Done([res[r] EXCEPT !.status = code, !.late = @ \/ HeadersSent(res[r])]),
                 "handling")

\* The framework answers with what the handler returned, which may be nothing or
\* what cannot be stringified.
Reply(r) ==
    /\ \/ Continue(r, Json(res[r], Value), "over")
       \/ Continue(r, SendNothing(res[r]), "over")
       \/ Continue(r, Threw(res[r]), "over")
    /\ UNCHANGED calls

ReplyPage(r) ==
    /\ \E headers, stringifiable \in BOOLEAN :
        Continue(r, SetPaginationResponseHeader(res[r], headers, stringifiable), "over")
    /\ UNCHANGED calls

\* The handler returns and has seen to the response by itself, or not.
Return(r) ==
    /\ Continue(r, Done(res[r]), "over")
    /\ UNCHANGED calls

Throw(r) ==
    /\ alive /\ stage[r] = "handling"
    /\ stage' = [stage EXCEPT ![r] = "thrown"]
    /\ \E e \in Exceptions : exception' = [exception EXCEPT ![r] = e]
    /\ UNCHANGED <<alive, filter, calls, res, closing, correlated, id, log>>

Catch(r) ==
    /\ alive /\ stage[r] = "thrown"
    /\ LET outcome == Filter(res[r], exception[r])
       IN  /\ res' = [res EXCEPT ![r] = outcome.res]
           /\ alive' = ~outcome.threw
           /\ stage' = [stage EXCEPT ![r] = IF outcome.threw THEN @ ELSE "caught"]
    /\ UNCHANGED <<filter, exception, calls, closing, correlated, id, log>>

\* The "finish" event: the response is in the hands of the operating system.
Finish(r) ==
    /\ alive /\ res[r].ended /\ closing[r] = "open"
    /\ closing' = [closing EXCEPT ![r] = "finish"]
    /\ log' = Append(log, [kind |-> "HTTP Response", id |-> LoggedId(r), request |-> r,
                           status |-> res[r].status, body |-> res[r].responseBody])
    /\ UNCHANGED <<alive, filter, stage, exception, calls, res, correlated, id>>

\* Nobody listens to the "error" event of a response.
EmitError(r) ==
    /\ alive /\ res[r].failing
    /\ alive' = FALSE
    /\ UNCHANGED <<filter, stage, exception, calls, res, closing, correlated, id, log>>

Leave(r) ==
    /\ alive /\ stage[r] # "new" /\ closing[r] = "open"
    /\ closing' = [closing EXCEPT ![r] = "left"]
    /\ UNCHANGED <<alive, filter, stage, exception, calls, res, correlated, id, log>>

Next ==
    \E r \in Requests :
        \/ Arrive(r) \/ Write(r) \/ End(r) \/ SetStatus(r) \/ Reply(r) \/ ReplyPage(r)
        \/ Return(r) \/ Throw(r) \/ Catch(r) \/ Finish(r) \/ EmitError(r) \/ Leave(r)

Spec == Init /\ [][Next]_vars

\* One event loop runs the filter and the listeners, and does not rest before it has.
FairSpec == Spec /\ WF_vars(\E r \in Requests : Catch(r) \/ Finish(r))

-----------------------------------------------------------------------------
(* Properties.                                                              *)

\* The body reached the connection, or nothing did because the status forbids one.
Delivers(w, body) == w.sent = body \/ (w.sent = <<>> /\ w.sentStatus \in NoBody)

\* What the response log says was sent was sent, unless the status forbids a body or
\* a handler ended the response twice; with the status the log says, unless a handler
\* set one when the headers were gone (the finish listener reads res.statusCode).
LogMatchesBody ==
    \A i \in 1..Len(log) :
        LET w == res[log[i].request]
        IN  log[i].kind = "HTTP Response" =>
                /\ w.again \/ Delivers(w, log[i].body)
                /\ w.late \/ log[i].status = w.sentStatus

\* However requests overlap, the entries under one correlation id are one
\* request's: its own entry and at most one response after it.
LogPairs ==
    \A i, j \in 1..Len(log) : i < j /\ log[i].id = log[j].id =>
        /\ log[i].request = log[j].request
        /\ log[i].kind = "HTTP Request" /\ log[j].kind = "HTTP Response"

\* Exceptions the filter in use cannot answer.
Unanswerable ==
    {"null", "unsendable"} \cup
        (IF filter = "AllExceptionsFilter" THEN {"string", "object", "uncoded"} ELSE {})

\* A request takes the process, and with it all others, down only by throwing
\* what the filter cannot answer, by throwing when part of the response was
\* sent, or after a chunk that is not a buffer, or by a chunk after the end.
CrashHasCulprit ==
    ~alive => \E r \in Requests :
        \/ /\ stage[r] = "thrown"
           /\ \/ exception[r].kind \in Unanswerable
              \/ HeadersSent(res[r])
              \/ Elements(res[r].chunks) \cap Texts # {}
        \/ res[r].failing

\* Whatever was written and set before it, an exception that was caught is answered
\* with its own status or with 500 and nothing but the error; with another status
\* only by AllExceptionsFilter, if the response of the exception has one of its own.
StatusOfException ==
    \A r \in Requests : stage[r] = "caught" =>
        LET e == exception[r]
        IN  /\ res[r].ended
            /\ res[r].sent = (IF res[r].sentStatus \in NoBody \cup Empty THEN <<>> ELSE <<Error>>)
            /\ \/ res[r].sentStatus = (IF e \in HttpExceptions THEN e.status ELSE 500)
               \/ /\ filter = "AllExceptionsFilter" /\ e.kind = "coded"
                  /\ res[r].sentStatus = e.code

\* Items of a page never go out without the headers of the page; the headers go
\* out without items only with the error of a page that could not be stringified.
PageHeadersMatchBody ==
    \A r \in Requests : res[r].ended =>
        /\ Items \in Elements(res[r].sent) => res[r].pageHeaders
        /\ res[r].pageHeaders => Elements(res[r].sent) \subseteq {Items, Error}

\* Every reply and every exception ends in the response log, unless the client
\* leaves first or the process dies.
RepliesAreLogged ==
    \A r \in Requests :
        res[r].ended \/ stage[r] = "thrown" ~> closing[r] # "open" \/ ~alive

=============================================================================
