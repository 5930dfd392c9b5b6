------------------------------- MODULE MCJson -------------------------------
(***************************************************************************)
(* An instance of Json for TLC: every input of up to MaxTokens tokens.     *)
(***************************************************************************)
EXTENDS Json

=============================================================================
