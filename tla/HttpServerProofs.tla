-------------------------- MODULE HttpServerProofs --------------------------
(***************************************************************************)
(* A connection of the framework answers each request as if it were alone, *)
(* for any requests, routes and CORS configuration, however TCP cuts the   *)
(* stream and however far ahead the client sends.                          *)
(***************************************************************************)
EXTENDS HttpServer, SequenceTheorems, TLAPS

(* The tokens of all requests, and those of r after the p-th. *)
Tokens == UNION {Range(r.tokens) : r \in Requests}
Rest(r, p) == SubSeq(r.tokens, p + 1, Len(r.tokens))

(* What is at the front of a stream is at the front of its first part. *)
LEMMA FirstPart ==
    ASSUME NEW T, NEW s \in Seq(T), NEW t \in Seq(T), s # <<>>
    PROVE  /\ Head(s \o t) = Head(s)
           /\ Tail(s \o t) = Tail(s) \o t
<1>1. /\ Len(s) \in Nat \ {0} /\ Len(t) \in Nat
      /\ Tail(s) \in Seq(T) /\ Len(Tail(s)) = Len(s) - 1
      /\ \A i \in 1 .. Len(s) - 1 : Tail(s)[i] = s[i + 1]
  BY HeadTailProperties, EmptySeq, LenProperties
<1>2. /\ s \o t \in Seq(T) /\ Len(s \o t) = Len(s) + Len(t)
      /\ \A i \in 1 .. Len(s) + Len(t) :
            (s \o t)[i] = IF i <= Len(s) THEN s[i] ELSE t[i - Len(s)]
  BY ConcatProperties
<1>3. s \o t # <<>>
  BY <1>1, <1>2, EmptySeq
<1>4. /\ Tail(s \o t) \in Seq(T) /\ Len(Tail(s \o t)) = Len(s) + Len(t) - 1
      /\ \A i \in 1 .. Len(s) + Len(t) - 1 : Tail(s \o t)[i] = (s \o t)[i + 1]
  BY <1>1, <1>2, <1>3, HeadTailProperties
<1>5. /\ Tail(s) \o t \in Seq(T)
      /\ Len(Tail(s) \o t) = Len(s) - 1 + Len(t)
      /\ \A i \in 1 .. Len(s) - 1 + Len(t) :
            (Tail(s) \o t)[i] = IF i <= Len(s) - 1 THEN Tail(s)[i]
                                ELSE t[i - (Len(s) - 1)]
  BY <1>1, ConcatProperties
<1>6. ASSUME NEW i \in 1 .. Len(s) + Len(t) - 1
      PROVE  Tail(s \o t)[i] = (Tail(s) \o t)[i]
  <2>1. CASE i <= Len(s) - 1
    BY <2>1, <1>1, <1>2, <1>4, <1>5
  <2>2. CASE i > Len(s) - 1
    BY <2>2, <1>1, <1>2, <1>4, <1>5
  <2> QED  BY <2>1, <2>2, <1>1
<1>7. Tail(s \o t) = Tail(s) \o t
  BY <1>1, <1>4, <1>5, <1>6, SeqEqual
<1>8. Head(s \o t) = Head(s)
  BY <1>1, <1>2, <1>3
<1> QED  BY <1>7, <1>8

(* Streams are joined in any order. *)
LEMMA Joined ==
    ASSUME NEW a \in Seq(Tokens), NEW b \in Seq(Tokens), NEW c \in Seq(Tokens)
    PROVE  (a \o b) \o c = a \o (b \o c)
  BY SMT

(* onMessage moves a part of what is on its way to the buffer. *)
LEMMA Moved ==
    ASSUME NEW b \in Seq(Tokens), NEW w \in Seq(Tokens), NEW k \in 1 .. Len(w)
    PROVE  /\ b \o SubSeq(w, 1, k) \in Seq(Tokens)
           /\ SubSeq(w, k + 1, Len(w)) \in Seq(Tokens)
           /\ (b \o SubSeq(w, 1, k)) \o SubSeq(w, k + 1, Len(w)) = b \o w
<1>1. /\ Len(w) \in Nat /\ \A i \in 1 .. Len(w) : w[i] \in Tokens
  BY LenProperties, ElementOfSeq
<1>2. SubSeq(w, 1, k) \in Seq(Tokens) /\ SubSeq(w, k + 1, Len(w)) \in Seq(Tokens)
  BY <1>1, SubSeqProperties
<1>3. SubSeq(w, 1, k) \o SubSeq(w, k + 1, Len(w)) = w
  BY <1>1, ConcatAdjacentSubSeq, SubSeqFull
<1>4. b \o SubSeq(w, 1, k) \in Seq(Tokens)
  BY <1>2, ConcatProperties
<1>5. PICK x \in Seq(Tokens), y \in Seq(Tokens) :
         x = SubSeq(w, 1, k) /\ y = SubSeq(w, k + 1, Len(w))
  BY <1>2, Zenon
<1>6. (b \o x) \o y = b \o (x \o y)
  BY Joined, Zenon
<1> QED  BY <1>2, <1>3, <1>4, <1>5, <1>6, Zenon

(* readBody takes as many tokens as the body has. *)
LEMMA Cut ==
    ASSUME NEW b \in Seq(Tokens), NEW w \in Seq(Tokens), NEW s \in Seq(Tokens),
           NEW f \in Seq(Tokens), b \o w = s \o f, Len(s) <= Len(b)
    PROVE  /\ SubSeq(b, 1, Len(s)) = s
           /\ SubSeq(b, Len(s) + 1, Len(b)) \in Seq(Tokens)
           /\ SubSeq(b, Len(s) + 1, Len(b)) \o w = f
<1> DEFINE n == Len(s)
           c == SubSeq(b, 1, n)
           d == SubSeq(b, n + 1, Len(b))
<1>1. /\ n \in Nat /\ Len(b) \in Nat /\ Len(w) \in Nat /\ Len(f) \in Nat
      /\ \A i \in 1 .. Len(b) : b[i] \in Tokens
  BY LenProperties, ElementOfSeq
<1>2. /\ c \in Seq(Tokens) /\ Len(c) = n
      /\ \A i \in 1 .. n : c[i] = b[i]
  <2>1. \A i \in 1 .. n : b[i] \in Tokens
    BY <1>1
  <2> QED  BY <2>1, <1>1, SubSeqProperties
<1>3. d \in Seq(Tokens)
  BY <1>1, SubSeqProperties
<1>4. \A i \in 1 .. n : b[i] = s[i]
  <2> TAKE i \in 1 .. n
  <2>1. (b \o w)[i] = b[i]
    BY <1>1, ConcatProperties
  <2>2. (s \o f)[i] = s[i]
    BY <1>1, ConcatProperties
  <2> QED  BY <2>1, <2>2
<1>5. c = s
  BY <1>1, <1>2, <1>4, SeqEqual
<1>6. c \o d = b
  <2>1. c \o d = SubSeq(b, 1, Len(b))
    <3>1. 1 \in 1 .. Len(b) + 1 /\ n \in 0 .. Len(b) /\ Len(b) \in n .. Len(b)
      BY <1>1
    <3>2. 1 - 1 = 0
      OBVIOUS
    <3> QED  BY <3>1, <3>2, ConcatAdjacentSubSeq, Zenon
  <2> QED  BY <2>1, SubSeqFull, Zenon
<1> HIDE DEF c, d
<1>7. PICK x \in Seq(Tokens) : x = d
  BY <1>3
<1>8. s \o x = b
  BY <1>5, <1>6, <1>7
<1>9. (s \o x) \o w = s \o (x \o w)
  BY Joined
<1>10. x \o w = f
  <2>1. x \o w \in Seq(Tokens)
    BY ConcatProperties
  <2>2. s \o (x \o w) = s \o f
    BY <1>8, <1>9
  <2> QED  BY <2>1, <2>2, ConcatSimplifications, Zenon
<1> QED  BY <1>3, <1>5, <1>7, <1>10 DEF c, d

(* Any sequence. *)
IsSeq(s) == s \in Seq(Range(s))

(* What Append does to any sequence. *)
LEMMA Appended ==
    ASSUME NEW s, NEW e, IsSeq(s)
    PROVE  /\ IsSeq(Append(s, e)) /\ Len(s) \in Nat
           /\ Len(Append(s, e)) = Len(s) + 1
           /\ \A i \in 1 .. Len(s) : Append(s, e)[i] = s[i]
           /\ Append(s, e)[Len(s) + 1] = e
           /\ DOMAIN s = 1 .. Len(s)
<1> DEFINE T == Range(s) \cup {e}
<1>1. s \in Seq(T) /\ e \in T
  BY SeqMonotonic DEF IsSeq
<1>2. Append(s, e) \in Seq(T)
  BY <1>1, AppendProperties
<1> HIDE DEF T
<1>3. IsSeq(Append(s, e))
  BY <1>2, SeqOfRange, Zenon DEF IsSeq
<1>4. Len(s) \in Nat /\ DOMAIN s = 1 .. Len(s)
  BY <1>1, LenProperties
<1> QED  BY <1>1, <1>3, <1>4, AppendProperties

-----------------------------------------------------------------------------
(* The tokens of the requests. *)
LEMMA RequestTokens ==
    ASSUME NEW r \in Requests
    PROVE  /\ r.tokens \in Seq(Tokens) /\ Len(r.tokens) \in Nat
           /\ DOMAIN r.tokens = 1 .. Len(r.tokens)
<1>1. r.tokens \in Seq(Range(r.tokens))
  BY HttpAssumption DEF WellFormed
<1>2. Range(r.tokens) \subseteq Tokens
  BY DEF Tokens
<1> QED  BY <1>1, <1>2, SeqMonotonic, LenProperties

(* A request has one blank line; before it are the request line and the    *)
(* header lines.                                                           *)
LEMMA OneBlank ==
    ASSUME NEW r \in Requests
    PROVE  /\ BlankAt(r) \in 2 .. Len(r.tokens)
           /\ r.tokens[1].kind = "line" /\ r.tokens[BlankAt(r)].kind = "blank"
           /\ \A i \in 2 .. BlankAt(r) - 1 :
                 r.tokens[i].kind \in {"header", "line"}
           /\ \A i \in BlankAt(r) + 1 .. Len(r.tokens) :
                 r.tokens[i].kind = "byte"
<1>1. PICK b \in 2 .. Len(r.tokens) :
          /\ r.tokens[1].kind = "line" /\ r.tokens[b].kind = "blank"
          /\ \A i \in 2 .. b - 1 : r.tokens[i].kind \in {"header", "line"}
          /\ \A i \in b + 1 .. Len(r.tokens) : r.tokens[i].kind = "byte"
  BY HttpAssumption DEF WellFormed
<1>2. \A i \in DOMAIN r.tokens : r.tokens[i].kind = "blank" => i = b
  BY <1>1, RequestTokens
<1>3. b \in DOMAIN r.tokens
  BY <1>1, RequestTokens
<1>4. BlankAt(r) = b
  BY <1>1, <1>2, <1>3 DEF BlankAt
<1> QED  BY <1>1, <1>4

(* What is left of a request after p of its tokens. *)
LEMMA RestStep ==
    ASSUME NEW r \in Requests, NEW f \in Seq(Tokens),
           NEW p \in 0 .. Len(r.tokens) - 1
    PROVE  /\ Rest(r, p) \o f # <<>>
           /\ Head(Rest(r, p) \o f) = r.tokens[p + 1]
           /\ Tail(Rest(r, p) \o f) = Rest(r, p + 1) \o f
<1>1. /\ r.tokens \in Seq(Tokens) /\ Len(r.tokens) \in Nat
      /\ \A i \in 1 .. Len(r.tokens) : r.tokens[i] \in Tokens
  BY RequestTokens, ElementOfSeq
<1>2. /\ Head(Rest(r, p)) = r.tokens[p + 1]
      /\ Tail(Rest(r, p)) = Rest(r, p + 1)
  BY <1>1, HeadTailOfSubSeq DEF Rest
<1>3. Rest(r, p) \in Seq(Tokens) /\ Len(Rest(r, p)) = Len(r.tokens) - p
  BY <1>1, SubSeqProperties DEF Rest
<1>4. Rest(r, p) # <<>>
  BY <1>1, <1>3, EmptySeq
<1>5. Rest(r, p) \o f # <<>>
  BY <1>3, <1>4, ConcatEqualIffEmpty
<1> QED  BY <1>2, <1>3, <1>4, <1>5, FirstPart, Zenon

(* Nothing of a request has been read, and all of it. *)
LEMMA RestEnds ==
    ASSUME NEW r \in Requests, NEW f \in Seq(Tokens)
    PROVE  /\ Rest(r, 0) = r.tokens
           /\ Rest(r, Len(r.tokens)) \o f = f
           /\ \A p \in 0 .. Len(r.tokens) : Rest(r, p) \in Seq(Tokens)
           /\ \A p \in 0 .. Len(r.tokens) : Len(Rest(r, p)) = Len(r.tokens) - p
<1>1. /\ r.tokens \in Seq(Tokens) /\ Len(r.tokens) \in Nat
      /\ \A i \in 1 .. Len(r.tokens) : r.tokens[i] \in Tokens
  BY RequestTokens, ElementOfSeq
<1>2. Rest(r, 0) = r.tokens
  BY <1>1, SubSeqFull DEF Rest
<1>3. Rest(r, Len(r.tokens)) = <<>>
  BY <1>1, SubSeqEmpty DEF Rest
<1>4. ASSUME NEW p \in 0 .. Len(r.tokens)
      PROVE  Rest(r, p) \in Seq(Tokens) /\ Len(Rest(r, p)) = Len(r.tokens) - p
  BY <1>1, SubSeqProperties DEF Rest
<1> QED  BY <1>2, <1>3, <1>4, ConcatEmptySeq

-----------------------------------------------------------------------------
(* addHeader: the headers of one more line; before the first there are     *)
(* none.                                                                   *)
LEMMA NoHeaders ==
    ASSUME NEW r
    PROVE  HeadersTo(r, 1) = NoFields
<1>1. {r.tokens[i].name : i \in 2 .. 1} = {}
  OBVIOUS
<1> QED  BY <1>1 DEF HeadersTo, NoFields

(* addHeader: the headers of p + 1 tokens are those of p and one more,     *)
(* which replaces a former one of its name.                                *)
LEMMA MoreHeaders ==
    ASSUME NEW r, NEW p \in Nat \ {0}
    PROVE  HeadersTo(r, p + 1) =
             SetField(HeadersTo(r, p), r.tokens[p + 1].name,
                      r.tokens[p + 1].value)
<1> DEFINE N(x) == r.tokens[x].name
           D(m) == {N(i) : i \in 2 .. m}
           A(m, x) == {i \in 2 .. m : N(i) = x}
<1>1. D(p + 1) = D(p) \cup {N(p + 1)}
  <2>1. 2 .. p + 1 = (2 .. p) \cup {p + 1}
    OBVIOUS
  <2> QED  BY <2>1
<1>2. ASSUME NEW x, x # N(p + 1)
      PROVE  HeaderAt(r, p + 1, x) = HeaderAt(r, p, x)
  <2>1. A(p + 1, x) = A(p, x)
    BY <1>2
  <2> QED  BY <2>1, Zenon DEF HeaderAt
<1>3. HeaderAt(r, p + 1, N(p + 1)) = p + 1
  <2>1. /\ p + 1 \in A(p + 1, N(p + 1))
        /\ \A i \in A(p + 1, N(p + 1)) : i <= p + 1 /\ i \in Int
    OBVIOUS
  <2> QED  BY <2>1 DEF HeaderAt, Max
<1>4. HeadersTo(r, p + 1) =
         [x \in D(p + 1) |-> r.tokens[HeaderAt(r, p + 1, x)].value]
  BY DEF HeadersTo
<1>5. HeadersTo(r, p) = [x \in D(p) |-> r.tokens[HeaderAt(r, p, x)].value]
  BY DEF HeadersTo
<1> HIDE DEF D
<1>6. SetField(HeadersTo(r, p), N(p + 1), r.tokens[p + 1].value)
        = [x \in D(p + 1) |-> IF x = N(p + 1) THEN r.tokens[p + 1].value
                              ELSE r.tokens[HeaderAt(r, p, x)].value]
  BY <1>1, <1>5 DEF SetField
<1> QED  BY <1>2, <1>3, <1>4, <1>6

(* The names of the headers of a request that is accepted. *)
LEMMA HeaderNames ==
    ASSUME NEW r \in Requests, HeaderLinesOk(r)
    PROVE  DOMAIN HeadersTo(r, BlankAt(r) - 1)
             = {t.name : t \in {u \in Range(r.tokens) : u.kind = "header"}}
<1>1. /\ BlankAt(r) \in 2 .. Len(r.tokens) /\ Len(r.tokens) \in Nat
      /\ r.tokens[1].kind = "line" /\ r.tokens[BlankAt(r)].kind = "blank"
      /\ DOMAIN r.tokens = 1 .. Len(r.tokens)
      /\ \A i \in BlankAt(r) + 1 .. Len(r.tokens) : r.tokens[i].kind = "byte"
  BY OneBlank, RequestTokens
<1>2. \A i \in DOMAIN r.tokens :
         r.tokens[i].kind = "header" <=> i \in 2 .. BlankAt(r) - 1
  <2> TAKE i \in DOMAIN r.tokens
  <2>1. CASE i = 1
    BY <2>1, <1>1
  <2>2. CASE i \in 2 .. BlankAt(r) - 1
    BY <2>2 DEF HeaderLinesOk
  <2>3. CASE i = BlankAt(r)
    BY <2>3, <1>1
  <2>4. CASE i \in BlankAt(r) + 1 .. Len(r.tokens)
    BY <2>4, <1>1
  <2> QED  BY <2>1, <2>2, <2>3, <2>4, <1>1
<1>3. DOMAIN HeadersTo(r, BlankAt(r) - 1)
        = {r.tokens[i].name : i \in 2 .. BlankAt(r) - 1}
  BY DEF HeadersTo
<1>4. 2 .. BlankAt(r) - 1 \subseteq DOMAIN r.tokens
  BY <1>1
<1>5. Range(r.tokens) = {r.tokens[i] : i \in DOMAIN r.tokens}
  BY DEF Range
<1> QED  BY <1>2, <1>3, <1>4, <1>5, Zenon

-----------------------------------------------------------------------------
(* handleRequest looks at the method, path, version and headers only.  Two *)
(* requests that differ in the body alone get the same answer, but for the *)
(* body the handler is given.                                              *)
Shape(q) == DOMAIN q = {"method_", "path_", "version_", "query", "headers_",
                        "pathParameters_", "content_", "contentLength_"}
SameCall(x, y) == /\ x.name = y.name
                  /\ x.req.query = y.req.query
                  /\ x.req.headers_ = y.req.headers_
                  /\ x.req.pathParameters_ = y.req.pathParameters_

SameReply(x, y, q) ==
    /\ x.code = y.code /\ x.close = y.close /\ x.cors = y.cors
    /\ SameCall(x.called, y.called)
    /\ x.code \in {200, 500} => /\ x.called.req.content_ = q.content_
                                /\ x.called.req.headers_ = q.headers_
                                /\ x.called.req.query = q.query

(* route calls the same handler for both, with the same parameters. *)
LEMMA SameRoute ==
    ASSUME NEW q, NEW s, Shape(q), Shape(s),
           q.method_ = s.method_, q.path_ = s.path_, q.query = s.query,
           q.headers_ = s.headers_, q.pathParameters_ = s.pathParameters_
    PROVE  /\ SameCall(route(q), route(s))
           /\ route(q).req.content_ = q.content_
           /\ route(q).req.headers_ = q.headers_
           /\ route(q).req.query = q.query
<1> DEFINE h == FirstMatch(q, regexHandlers_)
           c == FirstMatch(q, regexCallbacks_)
           key == <<q.method_, q.path_>>
           v == extractPathParameters(q.path_, regexHandlers_[h].pattern)
           call(name, req) == [name |-> name, req |-> req]
           qv == [q EXCEPT !.pathParameters_ = v]
           sv == [s EXCEPT !.pathParameters_ = v]
<1>1. /\ FirstMatch(s, regexHandlers_) = h
      /\ FirstMatch(s, regexCallbacks_) = c
  BY DEF FirstMatch
<1>2. /\ qv.pathParameters_ = v /\ sv.pathParameters_ = v
      /\ qv.query = q.query /\ sv.query = s.query
      /\ qv.headers_ = q.headers_ /\ sv.headers_ = s.headers_
      /\ qv.content_ = q.content_
  BY DEF Shape
<1> HIDE DEF h, c, v, qv, sv
<1>3. \/ \E name : route(q) = call(name, q) /\ route(s) = call(name, s)
      \/ \E name : route(q) = call(name, qv) /\ route(s) = call(name, sv)
  <2>1. CASE key \in DOMAIN handlers_
    BY <2>1, Zenon DEF route
  <2>2. CASE key \notin DOMAIN handlers_ /\ key \in DOMAIN callbacks_
    BY <2>2, Zenon DEF route
  <2>3. CASE key \notin DOMAIN handlers_ \cup DOMAIN callbacks_ /\ h # 0
    BY <2>3, <1>1, Zenon DEF route, h, v, qv, sv
  <2>4. CASE key \notin DOMAIN handlers_ \cup DOMAIN callbacks_ /\ h = 0 /\ c # 0
    BY <2>4, <1>1, Zenon DEF route, h, c
  <2>5. CASE key \notin DOMAIN handlers_ \cup DOMAIN callbacks_ /\ h = 0 /\ c = 0
    BY <2>5, <1>1, Zenon DEF route, h, c
  <2> QED  BY <2>1, <2>2, <2>3, <2>4, <2>5
<1> QED  BY <1>2, <1>3 DEF SameCall

(* onRequest and handleRequest answer both alike. *)
LEMMA SameAnswer ==
    ASSUME NEW q, NEW s, Shape(q), Shape(s), q.version_ = s.version_,
           q.method_ = s.method_, q.path_ = s.path_, q.query = s.query,
           q.headers_ = s.headers_, q.pathParameters_ = s.pathParameters_
    PROVE  SameReply(handleRequest(q), handleRequest(s), q)
<1> DEFINE connection == getHeader(q, "Connection")
           close == \/ connection = "close"
                    \/ q.version_ = "HTTP/1.0" /\ connection # "Keep-Alive"
           f == route(q)
           g == route(s)
<1>1. /\ getHeader(s, "Connection") = connection
      /\ handlePreflightRequest(s) = handlePreflightRequest(q)
      /\ before(s) = before(q)
  BY DEF getHeader, handlePreflightRequest, before
<1>2. /\ SameCall(f, g) /\ f.req.content_ = q.content_
      /\ f.req.headers_ = q.headers_ /\ f.req.query = q.query
  BY SameRoute
<1> HIDE DEF connection, f, g
<1>3. CASE before(q)
  <2>1. handleRequest(q) = handlePreflightRequest(q)
    BY <1>3 DEF handleRequest
  <2>2. handleRequest(s) = handlePreflightRequest(q)
    BY <1>1, <1>3 DEF handleRequest
  <2>3. handlePreflightRequest(q).code \in {204, 403}
    BY DEF handlePreflightRequest, addCorsHeaders, Response
  <2> QED  BY <2>1, <2>2, <2>3 DEF SameCall, SameReply
<1>4. ASSUME NEW x, NEW y, NEW k \in Nat, x.called = f, y.called = g,
             x.code = k, y.code = k, x.close = y.close, x.cors = y.cors
      PROVE  SameReply(x, y, q)
  BY <1>4, <1>2, Zenon DEF SameReply
<1>5. ASSUME NEW k \in Nat, NEW b
      PROVE  /\ SameReply(Response(k, b, f), Response(k, b, g), q)
             /\ SameReply(after(Response(k, b, f)), after(Response(k, b, g)), q)
  <2>1. ASSUME NEW x
        PROVE  /\ Response(k, b, x).code = k /\ Response(k, b, x).close = b
               /\ Response(k, b, x).called = x /\ Response(k, b, x).cors = ""
    BY DEF Response
  <2>2. ASSUME NEW x
        PROVE  /\ after(Response(k, b, x)).code = k
               /\ after(Response(k, b, x)).close = b
               /\ after(Response(k, b, x)).called = x
    BY DEF after, Response, addCorsHeaders
  <2>3. after(Response(k, b, f)).cors = after(Response(k, b, g)).cors
    BY DEF after, Response, addCorsHeaders
  <2> QED  BY <1>4, <2>1, <2>2, <2>3, Zenon
<1>6. PICK b : b = close
  BY Zenon
<1>7. b = (\/ getHeader(s, "Connection") = "close"
            \/ /\ s.version_ = "HTTP/1.0"
               /\ getHeader(s, "Connection") # "Keep-Alive")
  BY <1>1, <1>6
<1>8. g.name = f.name
  BY <1>2 DEF SameCall
<1>9. CASE ~before(q) /\ f.name = "none"
  <2>1. PICK k \in Nat : k = 404
    OBVIOUS
  <2>2. PICK yes : yes = TRUE
    OBVIOUS
  <2>3. handleRequest(q) = after(Response(k, yes, f))
    BY <1>9, <2>1, <2>2 DEF handleRequest, f
  <2>4. handleRequest(s) = after(Response(k, yes, g))
    BY <1>1, <1>8, <1>9, <2>1, <2>2 DEF handleRequest, g
  <2> QED  BY <1>5, <2>3, <2>4, Zenon
<1>10. CASE ~before(q) /\ f.name # "none" /\ f.name \in Throwing
  <2>1. PICK k \in Nat : k = 500
    OBVIOUS
  <2>2. handleRequest(q) = Response(k, b, f)
    BY <1>6, <1>10, <2>1, ZenonT(40) DEF handleRequest, f, connection
  <2>3. ~before(s) /\ g.name # "none" /\ g.name \in Throwing
    BY <1>1, <1>8, <1>10
  <2>4. handleRequest(s) = Response(k, b, g)
    BY <1>7, <2>1, <2>3, ZenonT(40) DEF handleRequest, g
  <2> QED  BY <1>5, <2>2, <2>4, Zenon
<1>11. CASE ~before(q) /\ f.name # "none" /\ f.name \notin Throwing
  <2>1. PICK k \in Nat : k = 200
    OBVIOUS
  <2>2. handleRequest(q) = after(Response(k, b, f))
    BY <1>6, <1>11, <2>1, ZenonT(40) DEF handleRequest, f, connection
  <2>3. ~before(s) /\ g.name # "none" /\ g.name \notin Throwing
    BY <1>1, <1>8, <1>11
  <2>4. handleRequest(s) = after(Response(k, b, g))
    BY <1>7, <2>1, <2>3, ZenonT(40) DEF handleRequest, g
  <2> QED  BY <1>5, <2>2, <2>4, Zenon
<1> QED  BY <1>3, <1>9, <1>10, <1>11

-----------------------------------------------------------------------------
(* A request nothing of which has been read, as reset leaves it, and one   *)
(* of which p tokens have been read: the request line and headers.         *)
Fresh(q) == /\ Shape(q) /\ q.method_ = "Invalid" /\ q.headers_ = NoFields
            /\ q.pathParameters_ = <<>>
Reading(r, p, q) ==
    /\ Shape(q) /\ q.method_ = r.tokens[1].method /\ q.path_ = r.tokens[1].path
    /\ q.version_ = r.tokens[1].version
    /\ q.query = setQueryParameters(r.tokens[1].query)
    /\ q.headers_ = HeadersTo(r, p) /\ q.pathParameters_ = <<>>

(* A response is the one its request gets when it comes alone, the body of *)
(* a request without one apart.                                            *)
Answers(got, r) ==
    /\ got.code = AnswerAlone(r).code /\ got.close = AnswerAlone(r).close
    /\ got.cors = AnswerAlone(r).cors
    /\ SameCall(got.called, AnswerAlone(r).called)
    /\ got.code \in {200, 500} =>
          /\ Accepted(r)
          /\ got.called.req.headers_ = HeadersTo(r, BlankAt(r) - 1)
          /\ Body(r) # <<>> => got.called.req.content_ = Body(r)

(* handleRequest, given what was read of an accepted request, makes its    *)
(* answer.                                                                 *)
LEMMA AnswerOk ==
    ASSUME NEW r \in Requests, Accepted(r), NEW q, Reading(r, BlankAt(r) - 1, q),
           Body(r) # <<>> => q.content_ = Body(r)
    PROVE  Answers(handleRequest(q), r)
<1>1. PICK s : s = Asked(r)
  OBVIOUS
<1>2. /\ Shape(q) /\ Shape(s) /\ q.version_ = s.version_
      /\ q.method_ = s.method_ /\ q.path_ = s.path_ /\ q.query = s.query
      /\ q.headers_ = s.headers_ /\ q.pathParameters_ = s.pathParameters_
      /\ q.headers_ = HeadersTo(r, BlankAt(r) - 1)
  BY <1>1 DEF Asked, AskedTo, Shape, Reading
<1>3. SameReply(handleRequest(q), handleRequest(s), q)
  BY <1>2, SameAnswer, Zenon
<1>4. AnswerAlone(r) = handleRequest(s)
  BY <1>1 DEF AnswerAlone
<1>5. PICK x, y : x = handleRequest(q) /\ y = handleRequest(s)
  OBVIOUS
<1>6. Answers(x, r)
  BY <1>2, <1>3, <1>4, <1>5 DEF Answers, SameReply
<1> QED  BY <1>5, <1>6

(* 400 is the answer to a request that is not accepted. *)
LEMMA AnswerBad ==
    ASSUME NEW r \in Requests, ~Accepted(r)
    PROVE  Answers(BadRequest, r)
<1>1. AnswerAlone(r) = BadRequest
  BY DEF AnswerAlone
<1>2. BadRequest.code = 400
  BY DEF BadRequest, Response
<1> QED  BY <1>1, <1>2 DEF Answers, SameCall

(* Such a response has what its request says it should lead to. *)
LEMMA AnswerWanted ==
    ASSUME NEW r \in Requests, NEW got, Answers(got, r)
    PROVE  AsDeclared(got, r)
<1>1. /\ r.code = AnswerAlone(r).code /\ r.name = AnswerAlone(r).called.name
      /\ r.body = Body(r)
      /\ r.code \in {200, 500} =>
            /\ r.params = AnswerAlone(r).called.req.pathParameters_
            /\ r.query = AnswerAlone(r).called.req.query
  BY HttpAssumption DEF Declared
<1>2. Accepted(r) =>
         DOMAIN HeadersTo(r, BlankAt(r) - 1) =
           {t.name : t \in {u \in Range(r.tokens) : u.kind = "header"}}
  BY HeaderNames, Zenon DEF Accepted
<1> QED  BY <1>1, <1>2 DEF Answers, SameCall, AsDeclared

-----------------------------------------------------------------------------
(* What the parser knows when it has read p tokens of r: its state and the *)
(* request so far.                                                         *)
Reads(r, p, state, q) ==
    \/ /\ state = "kExpectHeaders" /\ p \in 1 .. BlankAt(r) - 1
       /\ LineOk(r.tokens[1]) /\ \A i \in 2 .. p : r.tokens[i].kind = "header"
       /\ Reading(r, p, q)
    \/ /\ state = "kExpectBody" /\ p = BlankAt(r) /\ Accepted(r)
       /\ Reading(r, BlankAt(r) - 1, q) /\ q.contentLength_ = Len(Body(r))
    \/ /\ state = "kGotAll" /\ p = Len(r.tokens) /\ Accepted(r)
       /\ Reading(r, BlankAt(r) - 1, q)
       /\ Body(r) # <<>> => q.content_ = Body(r)

(* f[i] is the stream of the requests from the i-th on, n the first that   *)
(* has no response.                                                        *)
Follows(f, n, s) ==
    /\ \A i \in n .. Len(s) + 1 : f[i] \in Seq(Tokens)
    /\ f[Len(s) + 1] = <<>>
    /\ \A i \in n .. Len(s) : f[i] = s[i].tokens \o f[i + 1]

(* What has not been read is the rest of the n-th request and the ones     *)
(* after it.                                                               *)
Within(f, n, s, stream, state, q) ==
    \/ state = "kExpectRequestLine" /\ Fresh(q) /\ stream = f[n]
    \/ /\ n <= Len(s)
       /\ \E p \in 1 .. Len(s[n].tokens) :
             stream = Rest(s[n], p) \o f[n + 1] /\ Reads(s[n], p, state, q)

Current == Len(responses) + 1
InStream == \E f : /\ Follows(f, Current, sent)
                   /\ Within(f, Current, sent, buf \o wire, state_, request_)

(* The inductive invariant: what has been answered was answered well, and  *)
(* while the connection is up the parser is where it should be.            *)
HttpInv ==
    /\ sent \in Seq(Requests) /\ wire \in Seq(Tokens) /\ buf \in Seq(Tokens)
    /\ IsSeq(responses) /\ Len(responses) <= Len(sent)
    /\ \A i \in 1 .. Len(responses) : Answers(responses[i], sent[i])
    /\ tcp = "connected" => InStream

-----------------------------------------------------------------------------
(* The requests the connection has received and not answered. *)
LEMMA SentFacts ==
    ASSUME HttpInv
    PROVE  /\ Len(sent) \in Nat /\ Len(responses) \in Nat
           /\ DOMAIN responses = 1 .. Len(responses)
           /\ Current \in Nat \ {0} /\ Current <= Len(sent) + 1
           /\ \A i \in 1 .. Len(sent) : sent[i] \in Requests
           /\ buf \o wire \in Seq(Tokens)
<1>1. /\ Len(sent) \in Nat /\ Len(responses) \in Nat
      /\ DOMAIN responses = 1 .. Len(responses)
      /\ \A i \in 1 .. Len(sent) : sent[i] \in Requests
  BY LenProperties, ElementOfSeq DEF HttpInv, IsSeq
<1>2. buf \o wire \in Seq(Tokens)
  BY ConcatProperties DEF HttpInv
<1> QED  BY <1>1, <1>2 DEF HttpInv, Current

(* Once the connection is no longer up, nothing is sent or answered. *)
LEMMA Dropped ==
    ASSUME HttpInv, UNCHANGED <<sent, responses>>, tcp' # "connected",
           wire' \in Seq(Tokens), buf' \in Seq(Tokens)
    PROVE  HttpInv'
  BY DEF HttpInv

(* The parser goes on in the same request. *)
LEMMA GoesOn ==
    ASSUME HttpInv, UNCHANGED <<sent, responses, tcp>>,
           wire' \in Seq(Tokens), buf' \in Seq(Tokens),
           tcp = "connected" => InStream'
    PROVE  HttpInv'
  BY DEF HttpInv

(* send on a connection that is up. *)
LEMMA Sends ==
    ASSUME HttpInv, UNCHANGED sent, wire' \in Seq(Tokens), buf' \in Seq(Tokens),
           tcp = "connected", Current <= Len(sent),
           NEW x, Send(x), Answers(x, sent[Current]),
           ~x.close => InStream'
    PROVE  HttpInv'
<1>1. /\ responses' = Append(responses, x)
      /\ tcp' = IF x.close THEN "disconnecting" ELSE tcp
  BY DEF Send
<1>2. /\ IsSeq(responses') /\ Len(responses) \in Nat
      /\ Len(responses') = Len(responses) + 1
      /\ \A i \in 1 .. Len(responses) : responses'[i] = responses[i]
      /\ responses'[Current] = x
  BY <1>1, Appended DEF HttpInv, Current
<1>3. \A i \in 1 .. Len(responses') : Answers(responses'[i], sent[i])
  BY <1>2 DEF HttpInv, Current
<1>4. Len(responses') <= Len(sent)
  BY <1>2 DEF Current
<1>5. tcp' = "connected" => InStream'
  BY <1>1
<1> QED  BY <1>2, <1>3, <1>4, <1>5 DEF HttpInv

(* What the head of the buffer is. *)
LEMMA Front ==
    ASSUME HttpInv, buf # <<>>
    PROVE  /\ Tail(buf) \in Seq(Tokens) /\ buf \o wire # <<>>
           /\ Head(buf) = Head(buf \o wire)
           /\ Tail(buf) \o wire = Tail(buf \o wire)
<1>1. buf \in Seq(Tokens) /\ wire \in Seq(Tokens)
  BY DEF HttpInv
<1>2. Tail(buf) \in Seq(Tokens)
  BY <1>1, HeadTailProperties
<1>3. buf \o wire # <<>>
  BY <1>1, ConcatEqualIffEmpty
<1> QED  BY <1>1, <1>2, <1>3, FirstPart

(* A token that comes when a request line is expected is the first of the  *)
(* next request.                                                           *)
LEMMA FirstToken ==
    ASSUME HttpInv, buf # <<>>, state_ = "kExpectRequestLine",
           NEW f, Follows(f, Current, sent),
           Within(f, Current, sent, buf \o wire, state_, request_)
    PROVE  /\ Current \in 1 .. Len(sent) /\ sent[Current] \in Requests
           /\ f[Current + 1] \in Seq(Tokens) /\ Fresh(request_)
           /\ Head(buf) = sent[Current].tokens[1]
           /\ Tail(buf) \o wire = Rest(sent[Current], 1) \o f[Current + 1]
<1> DEFINE n == Current
           r == sent[n]
<1>1. Fresh(request_) /\ buf \o wire = f[n]
  BY DEF Within, Reads
<1>2. n \in 1 .. Len(sent) /\ Len(sent) \in Nat /\ r \in Requests
  <2>1. f[n] # <<>>
    BY <1>1, Front
  <2>2. n # Len(sent) + 1
    BY <2>1 DEF Follows
  <2> QED  BY <2>2, SentFacts
<1>3. f[n] = r.tokens \o f[n + 1] /\ f[n + 1] \in Seq(Tokens)
  <2>1. n \in n .. Len(sent) /\ n + 1 \in n .. Len(sent) + 1
    BY <1>2
  <2>2. f[n + 1] \in Seq(Tokens)
    BY <2>1 DEF Follows
  <2>3. f[n] = r.tokens \o f[n + 1]
    BY <2>1, Zenon DEF Follows
  <2> QED  BY <2>2, <2>3
<1>4. Len(r.tokens) \in Nat /\ 0 \in 0 .. Len(r.tokens) - 1
  BY <1>2, OneBlank, RequestTokens
<1>5. Rest(r, 0) \o f[n + 1] = f[n]
  <2>1. Rest(r, 0) = r.tokens
    BY <1>2, <1>3, RestEnds
  <2> QED  BY <2>1, <1>3, Zenon
<1>6. /\ Head(f[n]) = r.tokens[1] /\ Tail(f[n]) = Rest(r, 1) \o f[n + 1]
  <2>1. PICK z : z = 0
    OBVIOUS
  <2>2. /\ Head(Rest(r, z) \o f[n + 1]) = r.tokens[z + 1]
        /\ Tail(Rest(r, z) \o f[n + 1]) = Rest(r, z + 1) \o f[n + 1]
    BY <2>1, <1>2, <1>3, <1>4, RestStep, Zenon
  <2>3. z + 1 = 1
    BY <2>1
  <2> QED  BY <2>1, <2>2, <2>3, <1>5, Zenon
<1> QED  BY <1>1, <1>2, <1>3, <1>6, Front, Zenon

(* A token that comes among the headers is the next of the same request.   *)
LEMMA NextToken ==
    ASSUME HttpInv, buf # <<>>, state_ = "kExpectHeaders",
           NEW f, Follows(f, Current, sent),
           Within(f, Current, sent, buf \o wire, state_, request_)
    PROVE  /\ Current \in 1 .. Len(sent) /\ sent[Current] \in Requests
           /\ f[Current + 1] \in Seq(Tokens)
           /\ \E p \in Nat \ {0} :
                 /\ Reads(sent[Current], p, state_, request_)
                 /\ p + 1 \in 1 .. Len(sent[Current].tokens)
                 /\ Head(buf) = sent[Current].tokens[p + 1]
                 /\ Tail(buf) \o wire =
                      Rest(sent[Current], p + 1) \o f[Current + 1]
<1> DEFINE n == Current
           r == sent[n]
<1>1. PICK p \in 1 .. Len(r.tokens) :
         /\ buf \o wire = Rest(r, p) \o f[n + 1]
         /\ Reads(r, p, state_, request_) /\ n <= Len(sent)
  BY Zenon DEF Within
<1>2. n \in 1 .. Len(sent) /\ Len(sent) \in Nat /\ r \in Requests
  BY <1>1, SentFacts
<1>3. f[n + 1] \in Seq(Tokens)
  BY <1>2 DEF Follows
<1>4. p < BlankAt(r)
  <2>1. p \in 1 .. BlankAt(r) - 1
    BY <1>1 DEF Reads
  <2> QED  BY <2>1, <1>2, OneBlank
<1>5. /\ p \in 0 .. Len(r.tokens) - 1 /\ p + 1 \in 1 .. Len(r.tokens)
      /\ p \in Nat \ {0}
  BY <1>2, <1>4, OneBlank, RequestTokens
<1>6. /\ Head(buf \o wire) = r.tokens[p + 1]
      /\ Tail(buf \o wire) = Rest(r, p + 1) \o f[n + 1]
  BY <1>1, <1>2, <1>3, <1>5, RestStep, ZenonT(40)
<1> QED  BY <1>1, <1>2, <1>3, <1>5, <1>6, Front, Zenon

-----------------------------------------------------------------------------
(* A client sends one more request. *)
LEMMA HttpClientSend ==
    ASSUME HttpInv, NEW r \in Requests, ClientSend(r)
    PROVE  HttpInv'
<1>1. /\ sent' = Append(sent, r) /\ wire' = wire \o r.tokens /\ buf' = buf
      /\ responses' = responses /\ tcp = "connected" /\ tcp' = tcp
      /\ state_' = state_ /\ request_' = request_
  BY DEF ClientSend
<1>2. /\ sent' \in Seq(Requests) /\ Len(sent') = Len(sent) + 1
      /\ Len(sent) \in Nat /\ sent'[Len(sent) + 1] = r
      /\ \A i \in 1 .. Len(sent) : sent'[i] = sent[i]
  BY <1>1, AppendProperties, LenProperties DEF HttpInv
<1>3. r.tokens \in Seq(Tokens)
  BY RequestTokens
<1>4. wire' \in Seq(Tokens)
  BY <1>1, <1>3, ConcatProperties DEF HttpInv
<1>5. /\ Current \in Nat \ {0} /\ Current <= Len(sent) + 1
      /\ Len(responses) \in Nat /\ Current' = Current
  BY <1>1, SentFacts DEF Current
<1>6. PICK f : /\ Follows(f, Current, sent)
               /\ Within(f, Current, sent, buf \o wire, state_, request_)
  BY <1>1 DEF HttpInv, InStream
<1> DEFINE n == Current
           g == [i \in n .. Len(sent) + 2 |->
                   IF i = Len(sent) + 2 THEN <<>> ELSE f[i] \o r.tokens]
<1>7. /\ g[Len(sent) + 2] = <<>>
      /\ \A i \in n .. Len(sent) + 1 : g[i] = f[i] \o r.tokens
  <2>1. Len(sent) + 2 \in n .. Len(sent) + 2
    BY <1>2, <1>5
  <2>2. \A i \in n .. Len(sent) + 1 :
           i \in n .. Len(sent) + 2 /\ i # Len(sent) + 2
    BY <1>2, <1>5
  <2> QED  BY <2>1, <2>2, Zenon
<1> HIDE DEF g
<1>8. \A i \in n .. Len(sent) + 1 : f[i] \in Seq(Tokens)
  BY <1>6 DEF Follows
<1>9. Follows(g, n, sent')
  <2>1. \A i \in n .. Len(sent) + 2 : g[i] \in Seq(Tokens)
    <3> TAKE i \in n .. Len(sent) + 2
    <3>1. CASE i = Len(sent) + 2
      BY <3>1, <1>7, EmptySeq
    <3>2. CASE i \in n .. Len(sent) + 1
      BY <3>2, <1>3, <1>7, <1>8, ConcatProperties, Zenon
    <3> QED  BY <3>1, <3>2, <1>2, <1>5
  <2>2. ASSUME NEW i \in n .. Len(sent) + 1
        PROVE  g[i] = sent'[i].tokens \o g[i + 1]
    <3>1. CASE i = Len(sent) + 1
      <4>1. f[i] = <<>> /\ g[i + 1] = <<>> /\ sent'[i] = r
        BY <3>1, <1>2, <1>6, <1>7 DEF Follows
      <4>2. g[i] = <<>> \o r.tokens
        BY <4>1, <1>7, Zenon
      <4> QED  BY <4>1, <4>2, <1>3, ConcatEmptySeq
    <3>2. CASE i \in n .. Len(sent)
      <4>1. i \in 1 .. Len(sent) /\ i + 1 \in n .. Len(sent) + 1
        BY <3>2, <1>2, <1>5
      <4>2. f[i] = sent[i].tokens \o f[i + 1] /\ sent'[i] = sent[i]
        BY <3>2, <4>1, <1>2, <1>6, Zenon DEF Follows
      <4>3. /\ g[i] = f[i] \o r.tokens /\ g[i + 1] = f[i + 1] \o r.tokens
            /\ f[i + 1] \in Seq(Tokens)
        BY <4>1, <1>7, <1>8, Zenon
      <4>4. sent[i].tokens \in Seq(Tokens)
        BY <4>1, SentFacts, RequestTokens
      <4>5. PICK a \in Seq(Tokens), b \in Seq(Tokens), c \in Seq(Tokens) :
               a = sent[i].tokens /\ b = f[i + 1] /\ c = r.tokens
        BY <4>3, <4>4, <1>3
      <4>6. (a \o b) \o c = a \o (b \o c)
        BY Joined, Zenon
      <4> QED  BY <4>2, <4>3, <4>5, <4>6
    <3>3. i = Len(sent) + 1 \/ i \in n .. Len(sent)
      BY <1>2, <1>5
    <3> QED  BY <3>1, <3>2, <3>3, Zenon
  <2>3. Len(sent') + 1 = Len(sent) + 2
    BY <1>2
  <2> QED  BY <2>1, <2>2, <2>3, <1>2, <1>7, Zenon DEF Follows
<1>10. Within(g, n, sent', buf' \o wire', state_', request_')
  <2>1. buf' \o wire' = (buf \o wire) \o r.tokens
    <3>1. PICK a \in Seq(Tokens), b \in Seq(Tokens), c \in Seq(Tokens) :
             a = buf /\ b = wire /\ c = r.tokens
      BY <1>3 DEF HttpInv
    <3>2. (a \o b) \o c = a \o (b \o c)
      BY Joined
    <3> QED  BY <3>1, <3>2, <1>1
  <2>2. CASE /\ state_ = "kExpectRequestLine" /\ Fresh(request_)
             /\ buf \o wire = f[n]
    <3>1. g[n] = f[n] \o r.tokens
      <4>1. n \in n .. Len(sent) + 1
        BY <1>2, <1>5
      <4> QED  BY <4>1, <1>7, Zenon
    <3> QED  BY <2>1, <2>2, <3>1, <1>1 DEF Within
  <2>3. ASSUME n <= Len(sent), NEW p \in 1 .. Len(sent[n].tokens),
               buf \o wire = Rest(sent[n], p) \o f[n + 1],
               Reads(sent[n], p, state_, request_)
        PROVE  Within(g, n, sent', buf' \o wire', state_', request_')
    <3>1. /\ n \in 1 .. Len(sent) /\ n + 1 \in n .. Len(sent) + 1
          /\ n <= Len(sent')
      BY <2>3, <1>2, <1>5
    <3>2. /\ sent'[n] = sent[n] /\ sent[n] \in Requests
          /\ g[n + 1] = f[n + 1] \o r.tokens /\ f[n + 1] \in Seq(Tokens)
      BY <3>1, <1>2, <1>7, <1>8, SentFacts, Zenon
    <3>3. Rest(sent[n], p) \in Seq(Tokens)
      <4>1. p \in 0 .. Len(sent[n].tokens)
        BY <3>2, RequestTokens
      <4> QED  BY <3>2, <4>1, RestEnds
    <3>4. PICK a \in Seq(Tokens), b \in Seq(Tokens), c \in Seq(Tokens) :
             a = Rest(sent[n], p) /\ b = f[n + 1] /\ c = r.tokens
      BY <3>2, <3>3, <1>3
    <3>5. (a \o b) \o c = a \o (b \o c)
      BY Joined
    <3>6. buf' \o wire' = Rest(sent'[n], p) \o g[n + 1]
      BY <2>1, <2>3, <3>2, <3>4, <3>5
    <3>7. /\ Reads(sent'[n], p, state_', request_')
          /\ p \in 1 .. Len(sent'[n].tokens)
      BY <2>3, <3>2, <1>1
    <3> QED  BY <3>1, <3>6, <3>7, Zenon DEF Within
  <2> QED  BY <2>2, <2>3, <1>6, Zenon DEF Within
<1>11. InStream'
  BY <1>5, <1>9, <1>10 DEF InStream
<1>12. \A i \in 1 .. Len(responses) : Answers(responses[i], sent'[i])
  BY <1>2, <1>5, SentFacts DEF HttpInv
<1> QED  BY <1>1, <1>2, <1>4, <1>5, <1>11, <1>12 DEF HttpInv

(* TCP delivers some tokens; the parser waits for more; the peer closes;   *)
(* TLS handshakes.                                                         *)
LEMMA HttpOther ==
    ASSUME HttpInv,
           \/ \E k \in 1 .. Len(wire) : onMessage(k)
           \/ NeedMore \/ onDisconnected
           \/ \E ok \in BOOLEAN : sslOnRead(ok)
           \/ UNCHANGED httpVars
    PROVE  HttpInv'
<1>1. wire \in Seq(Tokens) /\ buf \in Seq(Tokens)
  BY DEF HttpInv
<1>2. ASSUME UNCHANGED <<sent, wire, buf, state_, request_, responses>>,
             tcp' = tcp \/ tcp' # "connected"
      PROVE  HttpInv'
  <2>1. InStream <=> InStream'
    BY <1>2 DEF InStream, Current
  <2> QED  BY <1>2, <2>1 DEF HttpInv
<1>3. ASSUME NEW k \in 1 .. Len(wire), onMessage(k) PROVE HttpInv'
  <2>1. /\ buf' = buf \o SubSeq(wire, 1, k)
        /\ wire' = SubSeq(wire, k + 1, Len(wire))
        /\ UNCHANGED <<sent, state_, request_, responses, tcp>>
    BY <1>3 DEF onMessage
  <2>2. /\ buf' \in Seq(Tokens) /\ wire' \in Seq(Tokens)
        /\ buf' \o wire' = buf \o wire
    BY <1>1, <2>1, Moved, Zenon
  <2>3. InStream <=> InStream'
    BY <2>1, <2>2, Zenon DEF InStream, Current
  <2> QED  BY <2>1, <2>2, <2>3 DEF HttpInv
<1>4. CASE NeedMore
  BY <1>2, <1>4 DEF NeedMore
<1>5. CASE onDisconnected
  BY <1>2, <1>5 DEF onDisconnected
<1>6. ASSUME NEW ok \in BOOLEAN, sslOnRead(ok) PROVE HttpInv'
  BY <1>2, <1>6, Zenon DEF sslOnRead
<1>7. CASE UNCHANGED httpVars
  BY <1>2, <1>7 DEF httpVars
<1> QED  BY <1>3, <1>4, <1>5, <1>6, <1>7

(* The request line. *)
LEMMA FreshLine ==
    ASSUME NEW r \in Requests, NEW t, t = r.tokens[1], LineOk(t),
           NEW v, v = t.version, NEW q, Fresh(q), NEW x,
           x = [q EXCEPT !.method_ = t.method, !.path_ = t.path,
                         !.query = setQueryParameters(t.query), !.version_ = v]
    PROVE  Reads(r, 1, "kExpectHeaders", x)
<1>1. Reading(r, 1, x)
  BY NoHeaders DEF Fresh, Reading, Shape
<1>2. 1 \in 1 .. BlankAt(r) - 1 /\ 2 .. 1 = {}
  BY OneBlank
<1> QED  BY <1>1, <1>2 DEF Reads

(* processRequestLine. *)
LEMMA HttpRequestLine ==
    ASSUME HttpInv, processRequestLine
    PROVE  HttpInv'
<1>1. /\ buf # <<>> /\ state_ = "kExpectRequestLine"
      /\ sent' = sent /\ wire' = wire
  BY DEF processRequestLine, Token
<1>2. buf \in Seq(Tokens) /\ wire \in Seq(Tokens) /\ Tail(buf) \in Seq(Tokens)
  BY <1>1, Front DEF HttpInv
<1> DEFINE t == Head(buf)
<1>3. buf' = buf \/ buf' = Tail(buf)
  BY DEF processRequestLine
<1>4. CASE tcp # "connected"
  <2>1. responses' = responses /\ tcp' = tcp
    BY <1>4 DEF processRequestLine, Refuse, Send
  <2> QED  BY <1>1, <1>2, <1>3, <1>4, <2>1, Dropped
<1>5. CASE tcp = "connected"
  <2>1. PICK f : /\ Follows(f, Current, sent)
                 /\ Within(f, Current, sent, buf \o wire, state_, request_)
    BY <1>5 DEF HttpInv, InStream
  <2> DEFINE r == sent[Current]
  <2>2. /\ Current \in 1 .. Len(sent) /\ r \in Requests
        /\ f[Current + 1] \in Seq(Tokens) /\ Fresh(request_)
        /\ t = r.tokens[1]
        /\ Tail(buf) \o wire = Rest(r, 1) \o f[Current + 1]
    BY <1>1, <2>1, FirstToken, Zenon
  <2>3. setMethod(request_)
    BY <2>2 DEF setMethod, Fresh
  <2>4. CASE LineOk(t)
    <3>1. /\ buf' = Tail(buf) /\ state_' = "kExpectHeaders"
          /\ responses' = responses /\ tcp' = tcp
      BY <2>3, <2>4 DEF processRequestLine, LineOk
    <3>2. Reads(r, 1, state_', request_')
      <4>1. PICK v : v = IF LineOk(t) THEN t.version ELSE "Unknown"
        OBVIOUS
      <4>2. request_' = [request_ EXCEPT !.method_ = t.method, !.path_ = t.path,
                             !.query = setQueryParameters(t.query),
                             !.version_ = v]
        BY <2>3, <2>4, <4>1, Zenon DEF processRequestLine, LineOk
      <4>3. v = t.version
        BY <2>4, <4>1
      <4>4. Reads(r, 1, "kExpectHeaders", request_')
        BY <2>2, <2>4, <4>2, <4>3, FreshLine, Zenon
      <4> QED  BY <3>1, <4>4
    <3>3. 1 \in 1 .. Len(r.tokens)
      BY <2>2, OneBlank
    <3>4. Within(f, Current, sent, buf' \o wire', state_', request_')
      <4>1. buf' \o wire' = Rest(r, 1) \o f[Current + 1]
        BY <1>1, <2>2, <3>1, Zenon
      <4>2. Current <= Len(sent)
        BY <2>2
      <4> QED  BY <3>2, <3>3, <4>1, <4>2, Zenon DEF Within
    <3>5. InStream'
      BY <1>1, <2>1, <3>1, <3>4 DEF InStream, Current
    <3> QED  BY <1>1, <1>2, <3>1, <3>5, GoesOn
  <2>5. CASE ~LineOk(t)
    <3>1. Send(BadRequest) /\ buf' = buf
      BY <2>3, <2>5 DEF processRequestLine, LineOk, Refuse
    <3>2. Answers(BadRequest, r) /\ BadRequest.close
      BY <2>2, <2>5, AnswerBad DEF Accepted, BadRequest, Response
    <3>3. Current <= Len(sent)
      BY <2>2
    <3> QED  BY <1>1, <1>2, <1>5, <3>1, <3>2, <3>3, Sends
  <2> QED  BY <2>4, <2>5
<1> QED  BY <1>4, <1>5

-----------------------------------------------------------------------------
(* The parser has read p tokens of the current request after the step. *)
LEMMA ReadsOn ==
    ASSUME HttpInv, UNCHANGED <<sent, responses, tcp, wire>>,
           buf' \in Seq(Tokens), Current \in 1 .. Len(sent),
           NEW f, Follows(f, Current, sent),
           NEW p \in 1 .. Len(sent[Current].tokens),
           buf' \o wire = Rest(sent[Current], p) \o f[Current + 1],
           Reads(sent[Current], p, state_', request_')
    PROVE  HttpInv'
<1>1. Current <= Len(sent) /\ Current' = Current /\ wire' \in Seq(Tokens)
  BY DEF Current, HttpInv
<1>2. Within(f, Current, sent, buf' \o wire', state_', request_')
  BY <1>1, Zenon DEF Within
<1>3. InStream'
  BY <1>1, <1>2 DEF InStream
<1> QED  BY <1>1, <1>3, GoesOn

(* The parser refuses the current request. *)
LEMMA Refuses ==
    ASSUME HttpInv, UNCHANGED <<sent, wire>>, buf' \in Seq(Tokens),
           tcp = "connected", Current \in 1 .. Len(sent),
           Send(BadRequest), ~Accepted(sent[Current])
    PROVE  HttpInv'
<1>1. Current <= Len(sent) /\ sent[Current] \in Requests /\ wire' \in Seq(Tokens)
  BY SentFacts DEF HttpInv
<1>2. Answers(BadRequest, sent[Current]) /\ BadRequest.close
  BY <1>1, AnswerBad DEF BadRequest, Response
<1> QED  BY <1>1, <1>2, Sends

(* One more header line. *)
LEMMA OneHeader ==
    ASSUME NEW r \in Requests, NEW p \in Nat \ {0}, NEW q, NEW x,
           Reads(r, p, "kExpectHeaders", q), p + 1 \in 1 .. Len(r.tokens),
           NEW t, t = r.tokens[p + 1], t.kind = "header",
           x = [q EXCEPT !.headers_ = SetField(@, t.name, t.value)]
    PROVE  Reads(r, p + 1, "kExpectHeaders", x)
<1>1. /\ p \in 1 .. BlankAt(r) - 1 /\ Reading(r, p, q) /\ LineOk(r.tokens[1])
      /\ \A i \in 2 .. p : r.tokens[i].kind = "header"
  BY DEF Reads
<1>2. p + 1 \in 1 .. BlankAt(r) - 1
  BY <1>1, OneBlank
<1>3. HeadersTo(r, p + 1) = SetField(HeadersTo(r, p), t.name, t.value)
  BY MoreHeaders
<1>4. Reading(r, p + 1, x)
  BY <1>1, <1>3 DEF Reading, Shape
<1>5. \A i \in 2 .. p + 1 : r.tokens[i].kind = "header"
  <2>1. \A i \in 2 .. p + 1 : i = p + 1 \/ i \in 2 .. p
    OBVIOUS
  <2> QED  BY <2>1, <1>1, Zenon
<1> QED  BY <1>1, <1>2, <1>4, <1>5, Zenon DEF Reads

(* addHeader. *)
LEMMA HttpAddHeader ==
    ASSUME HttpInv, addHeader
    PROVE  HttpInv'
<1>1. /\ buf # <<>> /\ state_ = "kExpectHeaders" /\ state_' = state_
      /\ UNCHANGED <<sent, wire>> /\ buf' = Tail(buf)
  BY DEF addHeader, Token
<1>2. buf' \in Seq(Tokens) /\ wire' \in Seq(Tokens)
  BY <1>1, Front DEF HttpInv
<1>3. CASE tcp # "connected"
  <2>1. responses' = responses /\ tcp' = tcp
    BY <1>3 DEF addHeader, Refuse, Send
  <2> QED  BY <1>1, <1>2, <1>3, <2>1, Dropped
<1>4. CASE tcp = "connected"
  <2>1. PICK f : /\ Follows(f, Current, sent)
                 /\ Within(f, Current, sent, buf \o wire, state_, request_)
    BY <1>4 DEF HttpInv, InStream
  <2> DEFINE r == sent[Current]
  <2>2. Current \in 1 .. Len(sent) /\ r \in Requests
    BY <1>1, <2>1, NextToken, Zenon
  <2>3. PICK p \in Nat \ {0} :
           /\ Reads(r, p, state_, request_) /\ p + 1 \in 1 .. Len(r.tokens)
           /\ Head(buf) = r.tokens[p + 1]
           /\ Tail(buf) \o wire = Rest(r, p + 1) \o f[Current + 1]
    BY <1>1, <2>1, NextToken, Zenon
  <2>4. CASE Head(buf).kind = "header"
    <3>1. /\ request_' = [request_ EXCEPT !.headers_ =
                             SetField(@, Head(buf).name, Head(buf).value)]
          /\ responses' = responses /\ tcp' = tcp
      BY <2>4 DEF addHeader, Token
    <3>2. Reads(r, p + 1, "kExpectHeaders", request_')
      <4>1. PICK t : t = Head(buf)
        OBVIOUS
      <4>2. /\ t = r.tokens[p + 1] /\ t.kind = "header"
            /\ request_' =
                 [request_ EXCEPT !.headers_ = SetField(@, t.name, t.value)]
        BY <2>3, <2>4, <3>1, <4>1
      <4> QED  BY <1>1, <2>2, <2>3, <4>2, OneHeader, Zenon
    <3> QED  BY <1>1, <1>2, <2>1, <2>2, <2>3, <3>1, <3>2, ReadsOn, Zenon
  <2>5. CASE Head(buf).kind # "header"
    <3>1. Send(BadRequest) /\ Head(buf).kind = "line"
      BY <2>5 DEF addHeader, Token, Refuse
    <3>2. p + 1 \in 2 .. BlankAt(r) - 1
      <4>1. p \in 1 .. BlankAt(r) - 1
        BY <1>1, <2>3 DEF Reads
      <4> QED  BY <4>1, <2>2, <2>3, <3>1, OneBlank
    <3>3. ~Accepted(r)
      BY <2>3, <3>1, <3>2 DEF Accepted, HeaderLinesOk
    <3> QED  BY <1>1, <1>2, <1>4, <2>2, <3>1, <3>3, Refuses
  <2> QED  BY <2>4, <2>5
<1> QED  BY <1>3, <1>4

(* The body is what follows the blank line. *)
LEMMA BodyRest ==
    ASSUME NEW r \in Requests
    PROVE  /\ Body(r) = Rest(r, BlankAt(r)) /\ Body(r) \in Seq(Tokens)
           /\ Len(Body(r)) = Len(r.tokens) - BlankAt(r)
           /\ Len(Body(r)) = 0 => Body(r) = <<>>
<1>1. BlankAt(r) \in 0 .. Len(r.tokens)
  BY OneBlank
<1>2. Body(r) = Rest(r, BlankAt(r))
  BY DEF Body, Rest
<1>3. PICK f \in Seq(Tokens) : f = <<>>
  BY EmptySeq, Zenon
<1>4. /\ Rest(r, BlankAt(r)) \in Seq(Tokens)
      /\ Len(Rest(r, BlankAt(r))) = Len(r.tokens) - BlankAt(r)
  BY <1>1, <1>3, RestEnds, Zenon
<1> QED  BY <1>2, <1>4, EmptySeq

(* When the headers have been read, Content-Length is known. *)
LEMMA AtBlank ==
    ASSUME NEW r \in Requests, NEW p \in Nat \ {0}, NEW q,
           Reads(r, p, "kExpectHeaders", q), r.tokens[p + 1].kind = "blank"
    PROVE  /\ p + 1 = BlankAt(r) /\ p = BlankAt(r) - 1 /\ Reading(r, p, q)
           /\ LineOk(r.tokens[1]) /\ HeaderLinesOk(r)
           /\ q.method_ = r.tokens[1].method
           /\ getHeader(q, "Content-Length") = LengthOf(r)
<1>1. /\ p \in 1 .. BlankAt(r) - 1 /\ Reading(r, p, q) /\ LineOk(r.tokens[1])
      /\ \A i \in 2 .. p : r.tokens[i].kind = "header"
  BY DEF Reads
<1>2. BlankAt(r) \in Nat
  BY OneBlank
<1>3. p + 1 \notin 2 .. BlankAt(r) - 1
  BY OneBlank
<1>4. p + 1 = BlankAt(r) /\ p = BlankAt(r) - 1
  BY <1>1, <1>2, <1>3
<1>5. HeaderLinesOk(r)
  BY <1>1, <1>4 DEF HeaderLinesOk
<1>6. q.headers_ = Asked(r).headers_
  BY <1>1, <1>4 DEF Reading, Asked, AskedTo
<1>7. getHeader(q, "Content-Length") = LengthOf(r)
  BY <1>6 DEF getHeader, LengthOf
<1> QED  BY <1>1, <1>4, <1>5, <1>7 DEF Reading

(* A request without a body is complete at the blank line. *)
LEMMA NoBody ==
    ASSUME NEW r \in Requests, Accepted(r), NEW q, Reading(r, BlankAt(r) - 1, q),
           Len(Body(r)) = 0
    PROVE  BlankAt(r) = Len(r.tokens) /\ Reads(r, BlankAt(r), "kGotAll", q)
<1>1. BlankAt(r) = Len(r.tokens) /\ Body(r) = <<>>
  BY BodyRest, OneBlank, RequestTokens
<1> QED  BY <1>1, Zenon DEF Reads

(* EndOfHeaders. *)
LEMMA HttpEndOfHeaders ==
    ASSUME HttpInv, EndOfHeaders
    PROVE  HttpInv'
<1>1. /\ buf # <<>> /\ state_ = "kExpectHeaders" /\ Head(buf).kind = "blank"
      /\ UNCHANGED <<sent, wire>>
  BY DEF EndOfHeaders, Token
<1>2. buf' \in Seq(Tokens) /\ wire' \in Seq(Tokens)
  BY <1>1, Front DEF HttpInv, EndOfHeaders
<1>3. CASE tcp # "connected"
  <2>1. responses' = responses /\ tcp' = tcp
    BY <1>3 DEF EndOfHeaders, Refuse, Send
  <2> QED  BY <1>1, <1>2, <1>3, <2>1, Dropped
<1>4. CASE tcp = "connected"
  <2>1. PICK f : /\ Follows(f, Current, sent)
                 /\ Within(f, Current, sent, buf \o wire, state_, request_)
    BY <1>4 DEF HttpInv, InStream
  <2> DEFINE r == sent[Current]
             length == getHeader(request_, "Content-Length")
  <2>2. Current \in 1 .. Len(sent) /\ r \in Requests
    BY <1>1, <2>1, NextToken, Zenon
  <2>3. PICK p \in Nat \ {0} :
           /\ Reads(r, p, state_, request_) /\ p + 1 \in 1 .. Len(r.tokens)
           /\ Head(buf) = r.tokens[p + 1]
           /\ Tail(buf) \o wire = Rest(r, p + 1) \o f[Current + 1]
    BY <1>1, <2>1, NextToken, Zenon
  <2>4. /\ p + 1 = BlankAt(r) /\ p = BlankAt(r) - 1
        /\ Reading(r, p, request_) /\ LineOk(r.tokens[1]) /\ HeaderLinesOk(r)
        /\ request_.method_ = r.tokens[1].method /\ length = LengthOf(r)
    BY <1>1, <2>2, <2>3, AtBlank
  <2>5. BlankAt(r) \in 1 .. Len(r.tokens)
    BY <2>3, <2>4
  <2> HIDE DEF length
  <2>6. CASE request_.method_ \notin {"POST", "PUT"}
    <3>1. /\ state_' = "kGotAll" /\ buf' = Tail(buf)
          /\ UNCHANGED <<request_, responses, tcp>>
      BY <2>6 DEF EndOfHeaders
    <3>2. Accepted(r) /\ ~HasBody(r)
      BY <2>4, <2>6 DEF Accepted, HasBody
    <3>3. Len(Body(r)) = 0
      BY <2>2, <3>2, HttpAssumption DEF WellFormed
    <3>4. Reads(r, BlankAt(r), "kGotAll", request_)
      BY <2>2, <2>4, <3>2, <3>3, NoBody
    <3> QED  BY <1>1, <1>2, <2>1, <2>2, <2>3, <2>4, <2>5, <3>1, <3>4, ReadsOn, Zenon
  <2>7. CASE /\ request_.method_ \in {"POST", "PUT"}
             /\ length \notin {"0", "1", "2"}
    <3>1. Send(BadRequest)
      BY <2>7 DEF EndOfHeaders, Refuse, length
    <3>2. ~Accepted(r)
      BY <2>4, <2>7 DEF Accepted, HasBody
    <3> QED  BY <1>1, <1>2, <1>4, <2>2, <3>1, <3>2, Refuses
  <2>8. CASE request_.method_ \in {"POST", "PUT"} /\ length \in {"0", "1", "2"}
    <3>1. PICK m : m = stoi(length)
      OBVIOUS
    <3>2. /\ request_' = [request_ EXCEPT !.contentLength_ = m]
          /\ state_' = IF m > 0 THEN "kExpectBody" ELSE "kGotAll"
          /\ buf' = Tail(buf) /\ UNCHANGED <<responses, tcp>>
      <4>1. length # "" /\ length # "NaN"
        BY <2>8
      <4> QED  BY <2>8, <3>1, <4>1, Zenon DEF EndOfHeaders, length
    <3>3. Accepted(r) /\ HasBody(r)
      BY <2>4, <2>8 DEF Accepted, HasBody
    <3>4. Len(Body(r)) = m
      BY <2>2, <2>4, <3>1, <3>3, HttpAssumption DEF WellFormed
    <3>5. /\ Reading(r, BlankAt(r) - 1, request_')
          /\ request_'.contentLength_ = Len(Body(r))
      BY <2>4, <3>2, <3>4 DEF Reading, Shape
    <3>6. m \in Nat
      BY <2>2, <3>4, BodyRest, LenProperties
    <3>7. Reads(r, BlankAt(r), state_', request_')
      <4>1. CASE m = 0
        <5>1. state_' = "kGotAll"
          BY <3>2, <4>1
        <5> QED  BY <2>2, <3>3, <3>4, <3>5, <4>1, <5>1, NoBody
      <4>2. CASE m # 0
        <5>1. state_' = "kExpectBody"
          BY <3>2, <3>6, <4>2
        <5> QED  BY <3>3, <3>5, <5>1, Zenon DEF Reads
      <4> QED  BY <4>1, <4>2
    <3> QED  BY <1>1, <1>2, <2>1, <2>2, <2>3, <2>4, <2>5, <3>2, <3>7, ReadsOn, Zenon
  <2> QED  BY <2>6, <2>7, <2>8
<1> QED  BY <1>3, <1>4

(* The state of the parser says how much of the current request is read. *)
LEMMA InRequest ==
    ASSUME HttpInv, state_ # "kExpectRequestLine",
           NEW f, Follows(f, Current, sent),
           Within(f, Current, sent, buf \o wire, state_, request_)
    PROVE  /\ Current \in 1 .. Len(sent) /\ sent[Current] \in Requests
           /\ f[Current + 1] \in Seq(Tokens)
           /\ \E p \in 1 .. Len(sent[Current].tokens) :
                 /\ buf \o wire = Rest(sent[Current], p) \o f[Current + 1]
                 /\ Reads(sent[Current], p, state_, request_)
<1>1. /\ Current <= Len(sent)
      /\ \E p \in 1 .. Len(sent[Current].tokens) :
            /\ buf \o wire = Rest(sent[Current], p) \o f[Current + 1]
            /\ Reads(sent[Current], p, state_, request_)
  BY Zenon DEF Within
<1>2. /\ Current \in 1 .. Len(sent) /\ sent[Current] \in Requests
      /\ Current + 1 \in Current .. Len(sent) + 1
  BY <1>1, SentFacts
<1> QED  BY <1>1, <1>2, Zenon DEF Follows

(* The length of a body is a number, also when a connection is being       *)
(* closed.                                                                 *)
Sized == Shape(request_) /\ request_.contentLength_ \in Nat

(* Every step keeps it so. *)
LEMMA SizedStep ==
    Sized /\ [HttpNext]_httpVars => Sized'
<1> SUFFICES ASSUME Sized, [HttpNext]_httpVars PROVE Sized'
  OBVIOUS
<1>1. CASE request_' = request_
  BY <1>1 DEF Sized
<1>2. CASE processRequestLine
  <2>1. CASE request_' # request_
    <3>1. PICK v : v = IF LineOk(Head(buf)) THEN Head(buf).version ELSE "Unknown"
      OBVIOUS
    <3>2. request_' = [request_ EXCEPT !.method_ = Head(buf).method,
                          !.path_ = Head(buf).path,
                          !.query = setQueryParameters(Head(buf).query),
                          !.version_ = v]
      BY <1>2, <2>1, <3>1, Zenon DEF processRequestLine, LineOk
    <3>3. PICK a, b, c : a = Head(buf).method /\ b = Head(buf).path
                           /\ c = setQueryParameters(Head(buf).query)
      OBVIOUS
    <3>4. request_' = [request_ EXCEPT !.method_ = a, !.path_ = b, !.query = c,
                                       !.version_ = v]
      BY <3>2, <3>3
    <3> QED  BY <3>4 DEF Sized, Shape
  <2> QED  BY <2>1, <1>1
<1>3. CASE addHeader
  <2>1. CASE request_' # request_
    <3>1. PICK h : request_' = [request_ EXCEPT !.headers_ = h]
      BY <1>3, <2>1 DEF addHeader
    <3> QED  BY <3>1 DEF Sized, Shape
  <2> QED  BY <2>1, <1>1
<1>4. CASE EndOfHeaders
  <2>1. CASE request_' # request_
    <3>1. PICK m \in {0, 1, 2} :
             request_' = [request_ EXCEPT !.contentLength_ = m]
      <4>1. PICK length : length = getHeader(request_, "Content-Length")
        OBVIOUS
      <4>2. /\ length \in {"0", "1", "2"}
            /\ request_' = [request_ EXCEPT !.contentLength_ = stoi(length)]
        BY <1>4, <2>1, <4>1 DEF EndOfHeaders
      <4>3. stoi(length) \in {0, 1, 2}
        BY <4>2 DEF stoi
      <4> QED  BY <4>2, <4>3
    <3> QED  BY <3>1 DEF Sized, Shape
  <2> QED  BY <2>1, <1>1
<1>5. CASE readBody
  <2>1. PICK c : request_' = [request_ EXCEPT !.content_ = c]
    BY <1>5, Zenon DEF readBody
  <2> QED  BY <2>1 DEF Sized, Shape
<1>6. CASE onRequest
  BY <1>6 DEF onRequest, Reset, NewRequest, Sized, Shape
<1>7. CASE NeedMore
  BY <1>1, <1>7 DEF NeedMore
<1>8. CASE \/ \E r \in Requests : ClientSend(r)
           \/ \E k \in 1 .. Len(wire) : onMessage(k)
           \/ onDisconnected
           \/ \E ok \in BOOLEAN : sslOnRead(ok)
           \/ UNCHANGED httpVars
  BY <1>1, <1>8, Zenon DEF ClientSend, onMessage, onDisconnected, sslOnRead, httpVars
<1> QED  BY <1>2, <1>3, <1>4, <1>5, <1>6, <1>7, <1>8 DEF HttpNext, parseRequest

(* readBody. *)
LEMMA HttpReadBody ==
    ASSUME HttpInv, Sized, readBody
    PROVE  HttpInv'
<1> DEFINE n == request_.contentLength_
<1>1. /\ state_ = "kExpectBody" /\ Len(buf) >= n
      /\ request_' = [request_ EXCEPT !.content_ = SubSeq(buf, 1, n)]
      /\ buf' = SubSeq(buf, n + 1, Len(buf)) /\ state_' = "kGotAll"
      /\ UNCHANGED <<sent, wire, responses, tcp>>
  BY DEF readBody
<1>2. buf \in Seq(Tokens) /\ wire \in Seq(Tokens)
  BY DEF HttpInv
<1>3. CASE tcp = "connected"
  <2>1. PICK f : /\ Follows(f, Current, sent)
                 /\ Within(f, Current, sent, buf \o wire, state_, request_)
    BY <1>3 DEF HttpInv, InStream
  <2> DEFINE r == sent[Current]
  <2>2. /\ Current \in 1 .. Len(sent) /\ r \in Requests
        /\ f[Current + 1] \in Seq(Tokens)
    BY <1>1, <2>1, InRequest, Zenon
  <2>3. PICK p \in 1 .. Len(r.tokens) :
           /\ buf \o wire = Rest(r, p) \o f[Current + 1]
           /\ Reads(r, p, state_, request_)
    BY <1>1, <2>1, InRequest, Zenon
  <2>4. /\ p = BlankAt(r) /\ Accepted(r) /\ n = Len(Body(r))
        /\ Reading(r, BlankAt(r) - 1, request_)
    BY <1>1, <2>3 DEF Reads
  <2>5. PICK b \in Seq(Tokens) : b = Body(r)
    BY <2>2, BodyRest
  <2>6. buf \o wire = b \o f[Current + 1] /\ n = Len(b) /\ Len(b) \in Nat
    BY <2>2, <2>3, <2>4, <2>5, BodyRest, LenProperties, Zenon
  <2>7. Len(b) <= Len(buf)
    BY <1>1, <1>2, <2>6, LenProperties
  <2>8. /\ SubSeq(buf, 1, n) = b /\ buf' \in Seq(Tokens)
        /\ buf' \o wire = f[Current + 1]
    <3>1. PICK g \in Seq(Tokens) : g = f[Current + 1]
      BY <2>2
    <3>2. /\ SubSeq(buf, 1, Len(b)) = b
          /\ SubSeq(buf, Len(b) + 1, Len(buf)) \in Seq(Tokens)
          /\ SubSeq(buf, Len(b) + 1, Len(buf)) \o wire = g
      <4>1. PICK x \in Seq(Tokens), y \in Seq(Tokens) : x = buf /\ y = wire
        BY <1>2
      <4>2. x \o y = b \o g /\ Len(b) <= Len(x)
        BY <2>6, <2>7, <3>1, <4>1
      <4>3. /\ SubSeq(x, 1, Len(b)) = b
            /\ SubSeq(x, Len(b) + 1, Len(x)) \in Seq(Tokens)
            /\ SubSeq(x, Len(b) + 1, Len(x)) \o y = g
        BY <4>2, Cut, ZenonT(40)
      <4> QED  BY <4>1, <4>3
    <3> QED  BY <1>1, <2>6, <3>1, <3>2
  <2>9. Reading(r, BlankAt(r) - 1, request_') /\ request_'.content_ = Body(r)
    BY <1>1, <2>4, <2>5, <2>8 DEF Reading, Shape
  <2>10. PICK m \in 1 .. Len(r.tokens) : m = Len(r.tokens)
    BY <2>3, <2>2, RequestTokens
  <2>11. Reads(r, m, state_', request_')
    BY <1>1, <2>4, <2>9, <2>10, Zenon DEF Reads
  <2>12. buf' \o wire = Rest(r, m) \o f[Current + 1]
    BY <2>2, <2>8, <2>10, RestEnds, Zenon
  <2> QED  BY <1>1, <2>1, <2>2, <2>8, <2>11, <2>12, ReadsOn, Zenon
<1>4. CASE tcp # "connected"
  <2>1. SubSeq(buf, n + 1, Len(buf)) \in Seq(Tokens)
    <3>1. /\ n \in Nat /\ Len(buf) \in Nat
          /\ \A i \in 1 .. Len(buf) : buf[i] \in Tokens
      BY <1>2, LenProperties, ElementOfSeq DEF Sized
    <3> QED  BY <1>1, <3>1, SubSeqProperties
  <2> QED  BY <1>1, <1>2, <1>4, <2>1, Dropped
<1> QED  BY <1>3, <1>4

(* onRequest: the answer, and reset for the next request. *)
LEMMA HttpOnRequest ==
    ASSUME HttpInv, onRequest
    PROVE  HttpInv'
<1> DEFINE x == handleRequest(request_)
<1>1. /\ state_ = "kGotAll" /\ state_' = "kExpectRequestLine"
      /\ Send(x) /\ request_' = Reset(request_) /\ UNCHANGED <<sent, wire, buf>>
  BY DEF onRequest
<1>2. buf' \in Seq(Tokens) /\ wire' \in Seq(Tokens)
  BY <1>1 DEF HttpInv
<1> HIDE DEF x
<1>3. CASE tcp # "connected"
  <2>1. responses' = responses /\ tcp' = tcp
    BY <1>1, <1>3 DEF Send
  <2> QED  BY <1>1, <1>2, <1>3, <2>1, Dropped
<1>4. CASE tcp = "connected"
  <2>1. PICK f : /\ Follows(f, Current, sent)
                 /\ Within(f, Current, sent, buf \o wire, state_, request_)
    BY <1>4 DEF HttpInv, InStream
  <2> DEFINE r == sent[Current]
  <2>2. /\ Current \in 1 .. Len(sent) /\ r \in Requests
        /\ f[Current + 1] \in Seq(Tokens)
    BY <1>1, <2>1, InRequest, Zenon
  <2>3. PICK p \in 1 .. Len(r.tokens) :
           /\ buf \o wire = Rest(r, p) \o f[Current + 1]
           /\ Reads(r, p, state_, request_)
    BY <1>1, <2>1, InRequest, Zenon
  <2>4. /\ p = Len(r.tokens) /\ Accepted(r)
        /\ Reading(r, BlankAt(r) - 1, request_)
        /\ Body(r) # <<>> => request_.content_ = Body(r)
    BY <1>1, <2>3 DEF Reads
  <2>5. Answers(x, r)
    BY <2>2, <2>4, AnswerOk DEF x
  <2>6. buf \o wire = f[Current + 1]
    BY <2>2, <2>3, <2>4, RestEnds, Zenon
  <2>7. Fresh(request_')
    BY <1>1 DEF Reset, NewRequest, Fresh, Shape
  <2>8. responses' = Append(responses, x) /\ IsSeq(responses)
    BY <1>1, <1>4 DEF Send, HttpInv
  <2>9. Current' = Current + 1 /\ Current \in Nat /\ Len(sent) \in Nat
    BY <2>8, Appended, SentFacts DEF Current
  <2>10. Follows(f, Current + 1, sent)
    <3>1. /\ \A i \in Current + 1 .. Len(sent) + 1 :
                i \in Current .. Len(sent) + 1
          /\ \A i \in Current + 1 .. Len(sent) : i \in Current .. Len(sent)
      BY <2>9
    <3> QED  BY <2>1, <3>1, Zenon DEF Follows
  <2>11. Within(f, Current + 1, sent, buf' \o wire', state_', request_')
    BY <1>1, <2>6, <2>7 DEF Within
  <2>12. InStream'
    BY <1>1, <2>9, <2>10, <2>11 DEF InStream
  <2>13. Current <= Len(sent)
    BY <2>2
  <2> QED  BY <1>1, <1>2, <1>4, <2>5, <2>12, <2>13, Sends
<1> QED  BY <1>3, <1>4

-----------------------------------------------------------------------------
(* Nothing has been sent at first. *)
LEMMA HttpInitial ==
    HttpInit => HttpInv
<1> SUFFICES ASSUME HttpInit PROVE HttpInv
  OBVIOUS
<1>1. /\ sent = <<>> /\ wire = <<>> /\ buf = <<>> /\ responses = <<>>
      /\ state_ = "kExpectRequestLine" /\ request_ = NewRequest
  BY DEF HttpInit
<1>2. /\ sent \in Seq(Requests) /\ wire \in Seq(Tokens) /\ buf \in Seq(Tokens)
      /\ responses \in Seq(Range(responses))
      /\ Len(sent) = 0 /\ Len(responses) = 0
  BY <1>1, EmptySeq
<1> DEFINE f == [i \in 1 .. 1 |-> <<>>]
<1>3. f[1] = <<>> /\ Current = 1 /\ <<>> \in Seq(Tokens)
  BY <1>2, EmptySeq DEF Current
<1> HIDE DEF f
<1>4. Follows(f, 1, sent)
  <2>1. 1 .. Len(sent) = {} /\ \A i \in 1 .. Len(sent) + 1 : i = 1
    BY <1>2
  <2>2. Len(sent) + 1 = 1
    BY <1>2
  <2> QED  BY <2>1, <2>2, <1>3, Zenon DEF Follows
<1>5. buf \o wire = <<>>
  BY <1>1
<1>6. Fresh(request_)
  BY <1>1 DEF Fresh, NewRequest, Shape
<1>7. InStream
  BY <1>1, <1>3, <1>4, <1>5, <1>6 DEF InStream, Within
<1>8. \A i \in 1 .. Len(responses) : Answers(responses[i], sent[i])
  BY <1>2
<1> QED  BY <1>2, <1>7, <1>8 DEF HttpInv, IsSeq

(* Every step of the connection keeps the invariant. *)
LEMMA HttpStep ==
    HttpInv /\ Sized /\ [HttpNext]_httpVars => HttpInv'
<1> SUFFICES ASSUME HttpInv, Sized, [HttpNext]_httpVars PROVE HttpInv'
  OBVIOUS
<1>1. ASSUME NEW r \in Requests, ClientSend(r) PROVE HttpInv'
  BY <1>1, HttpClientSend
<1>2. CASE NeedMore
  BY <1>2, HttpOther
<1>3. CASE processRequestLine
  BY <1>3, HttpRequestLine
<1>4. CASE addHeader
  BY <1>4, HttpAddHeader
<1>5. CASE EndOfHeaders
  BY <1>5, HttpEndOfHeaders
<1>6. CASE readBody
  BY <1>6, HttpReadBody
<1>7. CASE onRequest
  BY <1>7, HttpOnRequest
<1>8. CASE \/ \E k \in 1 .. Len(wire) : onMessage(k)
           \/ onDisconnected
           \/ \E ok \in BOOLEAN : sslOnRead(ok)
           \/ UNCHANGED httpVars
  BY <1>8, HttpOther
<1> QED
  BY <1>1, <1>2, <1>3, <1>4, <1>5, <1>6, <1>7, <1>8 DEF HttpNext, parseRequest

(* The invariant holds in every state. *)
LEMMA HttpInvariant ==
    HttpSpec => []HttpInv
<1>1. HttpInit => Sized
  BY DEF HttpInit, NewRequest, Sized, Shape
<1> QED  BY <1>1, HttpInitial, SizedStep, HttpStep, PTL DEF HttpSpec

(* The i-th response of a connection is the one its i-th request would get *)
(* alone and in one piece, in status, Connection header, allowed origin,   *)
(* handler and what the handler is given: parseRequest, onRequest and      *)
(* reset, however the stream is cut and whatever came before.              *)
AnsweredAlone ==
    /\ Len(responses) <= Len(sent)
    /\ \A i \in DOMAIN responses : Answers(responses[i], sent[i])

(* AnsweredAlone in every state, for every set of requests, every routing  *)
(* table and every CORS configuration.                                     *)
THEOREM AloneCorrect ==
    HttpSpec => []AnsweredAlone
<1>1. HttpInv => AnsweredAlone
  BY SentFacts DEF HttpInv, AnsweredAlone
<1> QED  BY <1>1, HttpInvariant, PTL

(* AnsweredInOrder: onRequest's i-th response is the one the i-th request  *)
(* declares.                                                               *)
THEOREM AnsweredCorrect ==
    HttpSpec => []AnsweredInOrder
<1>1. HttpInv => AnsweredInOrder
  <2> SUFFICES ASSUME HttpInv PROVE AnsweredInOrder
    OBVIOUS
  <2>1. \A i \in DOMAIN responses :
           sent[i] \in Requests /\ Answers(responses[i], sent[i])
    BY SentFacts DEF HttpInv
  <2>2. Len(responses) <= Len(sent)
    BY DEF HttpInv
  <2> QED  BY <2>1, <2>2, AnswerWanted, Zenon DEF AnsweredInOrder
<1> QED  BY <1>1, HttpInvariant, PTL

(* The assert of HttpRequest::setMethod holds as long as the connection is *)
(* up: processRequestLine finds a request that nothing was read into.  It  *)
(* may fail only after a 400, when more bytes come before the peer closes. *)
AssertHolds == aborted => tcp # "connected"

(* AssertHolds in every state. *)
THEOREM AssertCorrect ==
    HttpSpec => []AssertHolds
<1>1. HttpInit => AssertHolds
  BY DEF HttpInit, AssertHolds
<1>2. HttpInv /\ AssertHolds /\ [HttpNext]_httpVars => AssertHolds'
  <2> SUFFICES ASSUME HttpInv, AssertHolds, [HttpNext]_httpVars
               PROVE  AssertHolds'
    OBVIOUS
  <2>1. CASE processRequestLine
    <3>1. tcp' = tcp \/ tcp' = "disconnecting"
      BY <2>1 DEF processRequestLine, Refuse, Send, BadRequest, Response
    <3>2. CASE tcp = "connected"
      <4>1. PICK f : /\ Follows(f, Current, sent)
                     /\ Within(f, Current, sent, buf \o wire, state_, request_)
        BY <3>2 DEF HttpInv, InStream
      <4>2. buf # <<>> /\ state_ = "kExpectRequestLine"
        BY <2>1 DEF processRequestLine, Token
      <4>3. Fresh(request_)
        BY <4>1, <4>2, FirstToken, Zenon
      <4>4. aborted' = aborted
        BY <2>1, <4>3 DEF processRequestLine, setMethod, Fresh
      <4> QED  BY <3>2, <4>4 DEF AssertHolds
    <3> QED  BY <3>1, <3>2 DEF AssertHolds
  <2>2. CASE aborted' = aborted /\ (tcp' = tcp \/ tcp' # "connected")
    BY <2>2 DEF AssertHolds
  <2>3. CASE addHeader \/ EndOfHeaders \/ onRequest
    BY <2>2, <2>3 DEF addHeader, EndOfHeaders, onRequest, Refuse, Send
  <2>4. CASE NeedMore \/ readBody
    BY <2>2, <2>4 DEF NeedMore, readBody
  <2>5. CASE \/ \E r \in Requests : ClientSend(r)
             \/ \E k \in 1 .. Len(wire) : onMessage(k)
             \/ onDisconnected
             \/ \E ok \in BOOLEAN : sslOnRead(ok)
             \/ UNCHANGED httpVars
    BY <2>2, <2>5, Zenon DEF ClientSend, onMessage, onDisconnected, sslOnRead, httpVars
  <2> QED  BY <2>1, <2>3, <2>4, <2>5 DEF HttpNext, parseRequest
<1> QED  BY <1>1, <1>2, HttpInvariant, PTL DEF HttpSpec
=============================================================================
