------------------------------- MODULE Loops --------------------------------
(* The loop threads of muduo, which run the handlers of GomokuServer: the  *)
(* accounts and the game against the machine share them.                   *)

CONSTANT Thread
=============================================================================
