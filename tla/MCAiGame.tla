------------------------------ MODULE MCAiGame ------------------------------
(* AiGame for TLC. *)
EXTENDS AiGame, TLC

Perms == Permutations(Thread)
=============================================================================
