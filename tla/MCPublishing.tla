---------------------------- MODULE MCPublishing ----------------------------
(* Publishing on a small instance; the values are in the .cfg files.       *)
EXTENDS Publishing, TLC
=============================================================================
