----------------------------- MODULE HttpServer -----------------------------
(***************************************************************************)
(* The HTTP framework (HttpServer/src/http, router, middleware, ssl): one  *)
(* connection, from the bytes TCP delivers to the responses.  A connection *)
(* belongs to one loop thread, so its callbacks run one after another.     *)
(*                                                                         *)
(* The stream is a sequence of tokens: request lines, header lines, blank  *)
(* lines and body bytes.  TCP hands over any number of them at a time; a   *)
(* line of which only a part has come is one that has not come yet.        *)
(***************************************************************************)
EXTENDS Integers, Sequences, FiniteSetsExt, Functions

CONSTANTS
    Requests,        \* what a client may send: records with field tokens
    MaxReq,          \* bound on the requests of a connection
    handlers_,       \* Router: a function from <<method, path>> to names
    callbacks_,
    regexHandlers_,  \* sequences of records: method, pattern, name
    regexCallbacks_,
    Throwing,        \* names of handlers that throw a std::exception
    allowedOrigins   \* CorsConfig: a sequence

VARIABLES
    useSSL_,    \* the server was told to use TLS
    pipelines,  \* the client sends requests before it has the last response
    sent,       \* the requests sent
    wire,       \* tokens on their way
    buf,        \* the connection's input buffer
    doing,      \* "idle", or in onMessage: "parse"
    state_,     \* HttpContext::state_
    request_,   \* HttpContext::request_
    responses,  \* the responses sent
    tcp,        \* "connected", "disconnecting" (after shutdown) or "closed"
    ssl,        \* SslConnection: state_, the flights in readBio_ and in
                \* writeBio_, and the flights the client has received
    aborted     \* an assert failed

httpVars == <<useSSL_, pipelines, sent, wire, buf, doing, state_, request_,
              responses, tcp, ssl, aborted>>

NoFields == [x \in {} |-> ""]

(* A newly constructed HttpRequest. *)
NewRequest == [method_ |-> "Invalid", path_ |-> <<>>, version_ |-> "Unknown",
               query |-> NoFields, headers_ |-> NoFields,
               pathParameters_ |-> <<>>,
               content_ |-> <<>>, contentLength_ |-> 0]

SetField(f, k, v) == [x \in DOMAIN f \cup {k} |-> IF x = k THEN v ELSE f[x]]

(* getHeader: the empty string when there is none. *)
getHeader(r, field) ==
    IF field \in DOMAIN r.headers_ THEN r.headers_[field] ELSE ""

(* setQueryParameters: of the pairs, those with a '='; the last one wins. *)
setQueryParameters(pairs) ==
    LET named == {i \in DOMAIN pairs : Len(pairs[i]) = 2}
        last(k) == Max({i \in named : pairs[i][1] = k})
    IN [k \in {pairs[i][1] : i \in named} |-> pairs[last(k)][2]]

-----------------------------------------------------------------------------
(* convertToRegex and regex_match: a segment written ":x" matches any one  *)
(* segment, the others themselves.                                         *)
IsParam(segment) == segment = ":"
Matches(path, pattern) ==
    /\ Len(path) = Len(pattern)
    /\ \A i \in DOMAIN path : IsParam(pattern[i]) \/ path[i] = pattern[i]

(* extractPathParameters: what the groups matched, in order. *)
extractPathParameters(path, pattern) ==
    LET at == {i \in DOMAIN pattern : IsParam(pattern[i])}
        group(k) == CHOOSE i \in at : Cardinality({j \in at : j <= i}) = k
    IN [k \in 1 .. Cardinality(at) |-> path[group(k)]]

FirstMatch(r, routes) ==
    LET ok == {i \in DOMAIN routes : /\ routes[i].method = r.method_
                                     /\ Matches(r.path_, routes[i].pattern)}
    IN IF ok = {} THEN 0 ELSE CHOOSE i \in ok : \A j \in ok : i <= j

(* Router::route: who is called, with which request; "none" when nobody is.*)
(* A regex callback is given the request without the path parameters.      *)
route(r) ==
    LET key == <<r.method_, r.path_>>
        h == FirstMatch(r, regexHandlers_)
        c == FirstMatch(r, regexCallbacks_)
        call(name, req) == [name |-> name, req |-> req]
    IN CASE key \in DOMAIN handlers_ -> call(handlers_[key], r)
         [] key \notin DOMAIN handlers_ /\ key \in DOMAIN callbacks_ ->
                call(callbacks_[key], r)
         [] key \notin DOMAIN handlers_ \cup DOMAIN callbacks_ /\ h # 0 ->
                call(regexHandlers_[h].name,
                     [r EXCEPT !.pathParameters_ = extractPathParameters(
                                  r.path_, regexHandlers_[h].pattern)])
         [] /\ key \notin DOMAIN handlers_ \cup DOMAIN callbacks_
            /\ h = 0 /\ c # 0 ->
                call(regexCallbacks_[c].name, r)
         [] OTHER -> call("none", r)

-----------------------------------------------------------------------------
(* A response: status, Connection header, Access-Control-Allow-Origin and  *)
(* the call that made it.                                                  *)
Response(code, close, called) ==
    [code |-> code, close |-> close, cors |-> "", called |-> called]
NoCall == [name |-> "none", req |-> NewRequest]

(* CorsMiddleware, the one middleware of the chain. *)
addCorsHeaders(response, origin) == [response EXCEPT !.cors = origin]
isOriginAllowed(origin) ==
    allowedOrigins = <<>> \/ {"*", origin} \cap Range(allowedOrigins) # {}

after(response) ==
    CASE allowedOrigins = <<>> -> response
      [] allowedOrigins # <<>> /\ "*" \in Range(allowedOrigins) ->
            addCorsHeaders(response, "*")
      [] OTHER -> addCorsHeaders(response, allowedOrigins[1])

(* before throws this response at an OPTIONS request; a new HttpResponse   *)
(* closes the connection.                                                  *)
handlePreflightRequest(r) ==
    LET origin == getHeader(r, "Origin") IN
    IF isOriginAllowed(origin)
      THEN addCorsHeaders(Response(204, TRUE, NoCall), origin)
      ELSE Response(403, TRUE, NoCall)
before(r) == r.method_ = "OPTIONS"

(* onRequest and handleRequest: before, route, after; an exception of the  *)
(* handler skips after.                                                    *)
handleRequest(r) ==
    LET connection == getHeader(r, "Connection")
        close == \/ connection = "close"
                 \/ r.version_ = "HTTP/1.0" /\ connection # "Keep-Alive"
        called == route(r)
    IN CASE before(r) -> handlePreflightRequest(r)
         [] ~before(r) /\ called.name = "none" ->
                after(Response(404, TRUE, called))
         [] ~before(r) /\ called.name \in Throwing \ {"none"} ->
                Response(500, close, called)
         [] OTHER -> after(Response(200, close, called))

BadRequest == Response(400, TRUE, NoCall)

(* setMethod asserts that no method was set, and knows five. *)
setMethod(r) == r.method_ = "Invalid"
Method == {"GET", "POST", "PUT", "DELETE", "OPTIONS"}

(* TcpConnection::send drops what comes after shutdown. *)
Send(r) ==
    IF tcp = "connected"
      THEN /\ responses' = Append(responses, r)
           /\ tcp' = IF r.close THEN "disconnecting" ELSE tcp
      ELSE UNCHANGED <<responses, tcp>>

-----------------------------------------------------------------------------
(* Mutant: swap leaves the headers out. *)
Reset_headers(r) == [NewRequest EXCEPT !.content_ = r.content_,
                                       !.headers_ = r.headers_,
                                       !.contentLength_ = r.contentLength_]

(* HttpContext::reset: swap exchanges every field with a new request but   *)
(* content_ and contentLength_.                                            *)
Reset(r) == [NewRequest EXCEPT !.content_ = r.content_,
                               !.contentLength_ = r.contentLength_]

(* SslConnection's constructor and startHandshake, which finds nothing to  *)
(* read yet.                                                               *)
NewSslConnection == [state_ |-> "HANDSHAKE", readBio_ |-> 0, writeBio_ |-> 0,
                     received |-> 0]

HttpInit ==
    /\ useSSL_ \in BOOLEAN /\ pipelines \in BOOLEAN
    /\ sent = <<>> /\ wire = <<>> /\ buf = <<>>
    /\ doing = "idle" /\ state_ = "kExpectRequestLine" /\ request_ = NewRequest
    /\ responses = <<>> /\ tcp = "connected"
    /\ ssl = NewSslConnection
    /\ aborted = FALSE

Alive == ~aborted /\ tcp # "closed"

(* The client sends a request. *)
ClientSend(r) ==
    /\ Alive /\ ~useSSL_ /\ tcp = "connected"
    /\ Len(sent) < MaxReq
    /\ pipelines \/ Len(responses) = Len(sent)
    /\ sent' = Append(sent, r)
    /\ wire' = wire \o r.tokens
    /\ UNCHANGED <<useSSL_, pipelines, buf, doing, state_, request_, responses,
                   tcp, ssl, aborted>>

(* k tokens arrive and onMessage is called. *)
onMessage(k) ==
    /\ Alive /\ ~useSSL_ /\ doing = "idle"
    /\ k \in 1 .. Len(wire)
    /\ buf' = buf \o SubSeq(wire, 1, k)
    /\ wire' = SubSeq(wire, k + 1, Len(wire))
    /\ doing' = "parse"
    /\ UNCHANGED <<useSSL_, pipelines, sent, state_, request_, responses,
                   tcp, ssl, aborted>>

(* parseRequest runs out of lines: onMessage returns. *)
NeedMore ==
    /\ doing = "parse" /\ Alive
    /\ \/ state_ \in {"kExpectRequestLine", "kExpectHeaders"} /\ buf = <<>>
       \/ state_ = "kExpectBody" /\ Len(buf) < request_.contentLength_
    /\ doing' = "idle"
    /\ UNCHANGED <<useSSL_, pipelines, sent, wire, buf, state_, request_,
                   responses, tcp, ssl, aborted>>

Token(kind) == doing = "parse" /\ Alive /\ buf # <<>> /\ Head(buf).kind = kind

Refuse == doing' = "idle" /\ Send(BadRequest)

(* The request line: processRequestLine.  One that is refused stays in the *)
(* buffer.                                                                 *)
processRequestLine ==
    /\ Token("line") /\ state_ = "kExpectRequestLine"
    /\ LET t == Head(buf)
           known == t.method \in Method
           ok == known /\ t.version \in {"HTTP/1.1", "HTTP/1.0"}
       IN IF ~setMethod(request_)
            THEN /\ aborted' = TRUE
                 /\ UNCHANGED <<buf, doing, state_, request_, responses, tcp>>
            ELSE /\ request_' =
                      IF known THEN [request_ EXCEPT
                                       !.method_ = t.method, !.path_ = t.path,
                                       !.query = setQueryParameters(t.query),
                                       !.version_ = IF ok THEN t.version
                                                          ELSE "Unknown"]
                               ELSE request_
                 /\ IF ok THEN /\ buf' = Tail(buf)
                               /\ state_' = "kExpectHeaders"
                               /\ UNCHANGED <<doing, responses, tcp>>
                          ELSE Refuse /\ UNCHANGED <<buf, state_>>
                 /\ UNCHANGED aborted
    /\ UNCHANGED <<useSSL_, pipelines, sent, wire, ssl>>

(* A header line; one without a colon is refused and dropped. *)
addHeader ==
    /\ state_ = "kExpectHeaders"
    /\ \/ /\ Token("header")
          /\ request_' = [request_ EXCEPT !.headers_ =
                            SetField(@, Head(buf).name, Head(buf).value)]
          /\ UNCHANGED <<doing, responses, tcp>>
       \/ /\ Token("line")
          /\ Refuse /\ UNCHANGED request_
    /\ buf' = Tail(buf)
    /\ UNCHANGED <<useSSL_, pipelines, sent, wire, state_, ssl, aborted>>

(* std::stoi, of the values that are numbers. *)
stoi(text) == CASE text = "0" -> 0 [] text = "1" -> 1 [] text = "2" -> 2

(* The blank line: whether there is a body.  std::stoi throws at a value   *)
(* that is not a number, before the line is taken from the buffer.         *)
EndOfHeaders ==
    /\ Token("blank") /\ state_ = "kExpectHeaders"
    /\ LET length == getHeader(request_, "Content-Length") IN
       \/ /\ request_.method_ \notin {"POST", "PUT"}
          /\ state_' = "kGotAll" /\ buf' = Tail(buf)
          /\ UNCHANGED <<doing, request_, responses, tcp>>
       \/ /\ request_.method_ \in {"POST", "PUT"} /\ length = ""
          /\ Refuse /\ buf' = Tail(buf)
          /\ UNCHANGED <<state_, request_>>
       \/ /\ request_.method_ \in {"POST", "PUT"} /\ length = "NaN"
          /\ Refuse
          /\ UNCHANGED <<buf, state_, request_>>
       \/ /\ request_.method_ \in {"POST", "PUT"} /\ length \in {"0", "1", "2"}
          /\ request_' = [request_ EXCEPT !.contentLength_ = stoi(length)]
          /\ state_' = IF stoi(length) > 0 THEN "kExpectBody" ELSE "kGotAll"
          /\ buf' = Tail(buf)
          /\ UNCHANGED <<doing, responses, tcp>>
    /\ UNCHANGED <<useSSL_, pipelines, sent, wire, ssl, aborted>>

(* Mutant: off by one in the test of what is there. *)
readBody_more ==
    /\ doing = "parse" /\ Alive /\ state_ = "kExpectBody"
    /\ Len(buf) > request_.contentLength_
    /\ LET n == request_.contentLength_ IN
       /\ request_' = [request_ EXCEPT !.content_ = SubSeq(buf, 1, n)]
       /\ buf' = SubSeq(buf, n + 1, Len(buf))
    /\ state_' = "kGotAll"
    /\ UNCHANGED <<useSSL_, pipelines, sent, wire, doing, responses, tcp, ssl,
                   aborted>>

(* The body, once contentLength_ bytes are there. *)
readBody ==
    /\ doing = "parse" /\ Alive /\ state_ = "kExpectBody"
    /\ Len(buf) >= request_.contentLength_
    /\ LET n == request_.contentLength_ IN
       /\ request_' = [request_ EXCEPT !.content_ = SubSeq(buf, 1, n)]
       /\ buf' = SubSeq(buf, n + 1, Len(buf))
    /\ state_' = "kGotAll"
    /\ UNCHANGED <<useSSL_, pipelines, sent, wire, doing, responses, tcp, ssl,
                   aborted>>

(* gotAll: onRequest answers, reset, and onMessage returns even when the   *)
(* buffer holds the next request.                                          *)
onRequest ==
    /\ doing = "parse" /\ Alive /\ state_ = "kGotAll"
    /\ Send(handleRequest(request_))
    /\ request_' = Reset(request_)
    /\ state_' = "kExpectRequestLine"
    /\ doing' = "idle"
    /\ UNCHANGED <<useSSL_, pipelines, sent, wire, buf, ssl, aborted>>

(* The peer closes, in answer to shutdown or by itself: onConnection. *)
onDisconnected ==
    /\ Alive /\ doing = "idle"
    /\ tcp' = "closed"
    /\ UNCHANGED <<useSSL_, pipelines, sent, wire, buf, doing, state_,
                   request_, responses, ssl, aborted>>

-----------------------------------------------------------------------------
(* TLS.  The SslConnection's constructor makes onRead the message callback *)
(* of the connection; a record the client sends goes to readBio_ and       *)
(* SSL_do_handshake answers it into writeBio_, from where nothing takes it *)
(* to the connection.  The client's second flight waits for the server's   *)
(* first.                                                                  *)
Flights == 2

sslOnRead(ok) ==
    /\ Alive /\ useSSL_ /\ ssl.state_ = "HANDSHAKE" /\ tcp = "connected"
    /\ ssl.readBio_ = ssl.received
    /\ ssl' = [ssl EXCEPT !.readBio_ = @ + 1,
                          !.writeBio_ = IF ok THEN @ + 1 ELSE @,
                          !.state_ = IF ok /\ ssl.readBio_ + 1 = Flights
                                       THEN "ESTABLISHED" ELSE @]
    /\ tcp' = IF ok THEN tcp ELSE "disconnecting"
    /\ UNCHANGED <<useSSL_, pipelines, sent, wire, buf, doing, state_,
                   request_, responses, aborted>>

parseRequest ==
    NeedMore \/ processRequestLine \/ addHeader \/ EndOfHeaders \/ readBody

HttpNext ==
    \/ \E r \in Requests : ClientSend(r)
    \/ \E k \in 1 .. Len(wire) : onMessage(k)
    \/ parseRequest \/ onRequest \/ onDisconnected
    \/ \E ok \in BOOLEAN : sslOnRead(ok)

(* TCP delivers what was sent and the loop thread runs its callbacks; the  *)
(* client need not send or close anything.                                 *)
HttpFairness ==
    /\ WF_httpVars(\E k \in 1 .. Len(wire) : onMessage(k))
    /\ WF_httpVars(parseRequest) /\ WF_httpVars(onRequest)
    /\ WF_httpVars(sslOnRead(TRUE))

HttpSpec == HttpInit /\ [][HttpNext]_httpVars /\ HttpFairness

-----------------------------------------------------------------------------
(* What a request asks for, read from all its tokens at once: a request    *)
(* line, header lines up to the blank one, and the body.  Of two headers   *)
(* of one name the later counts.                                           *)
BlankAt(r) == CHOOSE i \in DOMAIN r.tokens : r.tokens[i].kind = "blank"
Body(r) == SubSeq(r.tokens, BlankAt(r) + 1, Len(r.tokens))
HeaderAt(r, p, name) == Max({i \in 2 .. p : r.tokens[i].name = name})
HeadersTo(r, p) == [name \in {r.tokens[i].name : i \in 2 .. p} |->
                      r.tokens[HeaderAt(r, p, name)].value]
AskedTo(r, p, content, length) ==
    [method_ |-> r.tokens[1].method, path_ |-> r.tokens[1].path,
     version_ |-> r.tokens[1].version,
     query |-> setQueryParameters(r.tokens[1].query),
     headers_ |-> HeadersTo(r, p), pathParameters_ |-> <<>>,
     content_ |-> content, contentLength_ |-> length]
Asked(r) == AskedTo(r, BlankAt(r) - 1, Body(r), Len(Body(r)))

LineOk(t) == t.method \in Method /\ t.version \in {"HTTP/1.1", "HTTP/1.0"}
HeaderLinesOk(r) == \A i \in 2 .. BlankAt(r) - 1 : r.tokens[i].kind = "header"
HasBody(r) == r.tokens[1].method \in {"POST", "PUT"}
LengthOf(r) == getHeader(Asked(r), "Content-Length")
Accepted(r) == /\ LineOk(r.tokens[1]) /\ HeaderLinesOk(r)
               /\ HasBody(r) => LengthOf(r) \in {"0", "1", "2"}

(* The answer to a request that comes alone and in one piece. *)
AnswerAlone(r) == IF Accepted(r) THEN handleRequest(Asked(r)) ELSE BadRequest

(* The requests the clients send: what has kind "line" among the headers   *)
(* is one without a colon, and a request that is accepted has the body its *)
(* Content-Length says.                                                    *)
WellFormed(r) ==
    /\ r.tokens \in Seq(Range(r.tokens))
    /\ \E b \in 2 .. Len(r.tokens) :
          /\ r.tokens[1].kind = "line" /\ r.tokens[b].kind = "blank"
          /\ \A i \in 2 .. b - 1 : r.tokens[i].kind \in {"header", "line"}
          /\ \A i \in b + 1 .. Len(r.tokens) : r.tokens[i].kind = "byte"
    /\ LineOk(r.tokens[1]) /\ HeaderLinesOk(r) /\ HasBody(r) =>
          LengthOf(r) \in {"", "NaN", "0", "1", "2"}
    /\ Accepted(r) =>
          Len(Body(r)) = IF HasBody(r) THEN stoi(LengthOf(r)) ELSE 0

(* What a request says it should lead to is what it does when it is alone. *)
Declared(r) ==
    LET call == AnswerAlone(r).called IN
    /\ r.code = AnswerAlone(r).code /\ r.name = call.name /\ r.body = Body(r)
    /\ r.code \in {200, 500} =>
          r.params = call.req.pathParameters_ /\ r.query = call.req.query

ASSUME HttpAssumption ==
    /\ MaxReq \in Nat
    /\ \A r \in Requests : WellFormed(r) /\ Declared(r)

(* A response is the one the request declares. *)
AsDeclared(got, want) ==
    /\ got.code = want.code /\ got.called.name = want.name
    /\ got.code \in {200, 500} =>
          LET seen == got.called.req IN
          /\ seen.pathParameters_ = want.params /\ seen.query = want.query
          /\ DOMAIN seen.headers_ =
               {t.name : t \in {u \in Range(want.tokens) : u.kind = "header"}}
          /\ want.body # <<>> => seen.content_ = want.body

(* However TCP cuts the stream and however far ahead the client sends, the *)
(* i-th response is the one to the i-th request: parseRequest, route and   *)
(* reset give each handler its own request and nothing of another one's    *)
(* (a request without a body apart, see swap).                             *)
AnsweredInOrder ==
    /\ Len(responses) <= Len(sent)
    /\ \A i \in DOMAIN responses : AsDeclared(responses[i], sent[i])
=============================================================================
