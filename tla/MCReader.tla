-------------------------------- MODULE MCReader --------------------------------
(* Small instances of Reader. *)
EXTENDS Reader
===============================================================================
