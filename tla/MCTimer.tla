------------------------------- MODULE MCTimer ------------------------------
(* Timer for TLC. *)
EXTENDS Timer

(* When tick returns, no node that has expired is left: the comment of     *)
(* tick says that it clears the nodes that have timed out.                 *)
TickClears == ticked => \A i \in DOMAIN heap_ : heap_[i].expires > now
=============================================================================
