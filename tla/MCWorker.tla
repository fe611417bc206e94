------------------------------ MODULE MCWorker ------------------------------
(* Worker instantiated for TLC. *)
EXTENDS Worker, TLC

\* Tokens are uuids: nothing in the worker tells one from another.
TokenSymmetry == Permutations(Tokens)
=============================================================================
