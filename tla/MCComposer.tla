-------------------------------- MODULE MCComposer --------------------------------
(* Small instances of Composer. *)
EXTENDS Composer
===============================================================================
