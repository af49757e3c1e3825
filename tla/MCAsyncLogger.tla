---------------------------- MODULE MCAsyncLogger ----------------------------
(***************************************************************************)
(* Small instances of the composed logging system.                         *)
(***************************************************************************)
EXTENDS AsyncLogger, TLC

CONSTANTS t1, t2, w1, info, error

MCThread == {t1, t2}
MCMessage == {info, error}
MCMsgLen == (info :> 2) @@ (error :> 3)
MCSevere == {error}
MCWorker1 == {w1}

=============================================================================
