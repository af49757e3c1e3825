---------------------------- MODULE MCHttpServer ----------------------------
(* HttpServer for TLC: a router with one route of each kind, and a request *)
(* for each way through the parser and the router.                         *)
EXTENDS HttpServer, TLC

const_handlers == (<<"GET", <<"a">>>> :> "h") @@ (<<"GET", <<"t">>>> :> "t")
const_callbacks == <<"POST", <<"b">>>> :> "c"
const_regexHandlers ==
    <<[method |-> "GET", pattern |-> <<"u", ":">>, name |-> "rh"]>>
const_regexCallbacks ==
    <<[method |-> "GET", pattern |-> <<":", "v">>, name |-> "rh2"],
      [method |-> "PUT", pattern |-> <<"v", ":">>, name |-> "rc"]>>
const_Throwing == {"t"}
const_allowedOrigins == <<"o">>

line(m, p, v) == [kind |-> "line", method |-> m, path |-> p,
                  query |-> <<>>, version |-> v]
asked(m, p, q) == [line(m, p, "HTTP/1.1") EXCEPT !.query = q]
get(p) == line("GET", p, "HTTP/1.1")
header(n, v) == [kind |-> "header", name |-> n, value |-> v]
blank == [kind |-> "blank"]
byte(b) == [kind |-> "byte", value |-> b]

(* tokens, then what a request should lead to: status, who is called, with *)
(* which path parameters, query and body.                                  *)
Request(t, code, name, params, query, body) ==
    [tokens |-> t, code |-> code, name |-> name, params |-> params,
     query |-> query, body |-> body]
Refused(t) == Request(t, 400, "none", <<>>, NoFields, <<>>)
Plain(t, code, name) == Request(t, code, name, <<>>, NoFields, <<>>)

const_Requests == {
    Request(<<asked("GET", <<"a">>, <<<<"k", "1">>, <<"z">>, <<"k", "2">>>>), blank>>,
            200, "h", <<>>, "k" :> "2", <<>>),
    Plain(<<line("GET", <<"a">>, "HTTP/1.0"), header("Connection", "Keep-Alive"), blank>>, 200, "h"),
    Request(<<line("POST", <<"b">>, "HTTP/1.1"), header("Content-Length", "2"), blank,
              byte("x"), byte("y")>>,
            200, "c", <<>>, NoFields, <<byte("x"), byte("y")>>),
    Plain(<<line("POST", <<"b">>, "HTTP/1.1"), header("Content-Length", "0"), blank>>, 200, "c"),
    Request(<<get(<<"u", "7">>), blank>>, 200, "rh", <<"7">>, NoFields, <<>>),
    Request(<<get(<<"u", "v">>), blank>>, 200, "rh", <<"v">>, NoFields, <<>>),
    Request(<<line("PUT", <<"v", "7">>, "HTTP/1.1"), header("Content-Length", "1"), blank,
              byte("x")>>,
            200, "rc", <<>>, NoFields, <<byte("x")>>),
    Plain(<<line("OPTIONS", <<"a">>, "HTTP/1.1"), header("Origin", "o"), blank>>, 204, "none"),
    Plain(<<line("OPTIONS", <<"a">>, "HTTP/1.1"), header("Origin", "p"), blank>>, 403, "none"),
    Plain(<<line("DELETE", <<"a">>, "HTTP/1.1"), blank>>, 404, "none"),
    Plain(<<get(<<"t">>), blank>>, 500, "t"),
    Refused(<<line("POST", <<"b">>, "HTTP/1.1"), blank>>),
    Refused(<<line("PUT", <<"v", "7">>, "HTTP/1.1"), header("Content-Length", "NaN"), blank>>),
    Refused(<<line("BREW", <<"a">>, "HTTP/1.1"), blank>>),
    Refused(<<line("GET", <<"a">>, "HTTP/2.0"), blank>>),
    Refused(<<get(<<"a">>), line("?", <<>>, "?"), blank>>)}

(* A client that waits for each response before the next request is not    *)
(* left waiting: onMessage leaves no complete request in the buffer then.  *)
EachAnswered ==
    ~pipelines /\ Len(sent) > Len(responses)
        ~> Len(responses) = Len(sent) \/ tcp # "connected"
=============================================================================
