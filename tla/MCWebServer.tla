---------------------------- MODULE MCWebServer -----------------------------
(* WebServer for TLC. *)
EXTENDS WebServer

Pieces == {<<"get">>, <<"keep-alive", "">>,
           <<"login", "keep-alive", "urlencoded", "", "body">>}
=============================================================================
