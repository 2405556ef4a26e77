----------------------------- MODULE MCDbHandle -----------------------------
(* Constants for model checking DbHandle.                                   *)
EXTENDS DbHandle
=============================================================================
