----------------------------- MODULE MCThreadPool -----------------------------
(***************************************************************************)
(* Small instances of ThreadPool.                                          *)
(***************************************************************************)
EXTENDS ThreadPool

CONSTANTS c1, c2, c3, w1, w2, w3

MCClient3 == {c1, c2, c3}
MCWorker3 == {w1, w2, w3}

=============================================================================
