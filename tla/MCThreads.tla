----------------------------- MODULE MCThreads -----------------------------
(***************************************************************************)
(* A small instance of ServerThreads.                                      *)
(***************************************************************************)
EXTENDS ServerThreads

CONSTANTS s1, s2, s3

=============================================================================
