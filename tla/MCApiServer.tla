----------------------------- MODULE MCApiServer -----------------------------
(* Small instances of ApiServer. *)
EXTENDS ApiServer, TLC

RequestSymmetry == Permutations(Requests)
=============================================================================
