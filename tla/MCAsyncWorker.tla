---------------------------- MODULE MCAsyncWorker ----------------------------
(***************************************************************************)
(* Small instances of AsyncWorker.  The sizes are those of config.conf     *)
(* scaled down: a few bytes instead of ten million.                        *)
(***************************************************************************)
EXTENDS AsyncWorker, TLC

CONSTANTS p1, p2, p3, short, medium, long

MCProducer2 == {p1, p2}
MCProducer3 == {p1, p2, p3}
MCMessage == {short, medium, long}

\* medium fills an empty buffer of three bytes; long fits no such buffer but
\* is small enough for one growth.
MCMsgLen == (short :> 1) @@ (medium :> 3) @@ (long :> 5)

MCMessageFit == {short, medium}
MCMsgLenFit == (short :> 1) @@ (medium :> 3)

ProducerSymmetry == Permutations(Producer)

=============================================================================
