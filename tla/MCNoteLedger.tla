---------------------------- MODULE MCNoteLedger ----------------------------
(* Small instances of NoteLedger. *)
EXTENDS NoteLedger, TLC

KeySymmetry == Permutations(Notes) \cup Permutations(Proofs)
=============================================================================
