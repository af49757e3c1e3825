----------------------------- MODULE MCAccounts -----------------------------
(* Accounts for TLC. *)
EXTENDS Accounts, TLC

(* Every request is answered: nobody waits for good for a connection or    *)
(* for the mutex, although the checking thread sleeps with it.             *)
Answered == \A t \in Thread : pc[t] # "idle" ~> pc[t] = "idle"
=============================================================================
