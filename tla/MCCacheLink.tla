------------------------------ MODULE MCCacheLink ------------------------------
(* A small instance of CacheLink.                                             *)
EXTENDS CacheLink
================================================================================
