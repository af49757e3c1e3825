------------------------------ MODULE MCBlockLog ------------------------------
(***************************************************************************)
(* Small instances of BlockLog.                                            *)
(***************************************************************************)
EXTENDS BlockLog

CONSTANTS w1, w2

MCWriter == {w1, w2}

=============================================================================
