---------------------------- MODULE MCTokenCache ----------------------------
(* An instance of TokenCache for TLC, in the minutes of the code.           *)
EXTENDS TokenCache

=============================================================================
