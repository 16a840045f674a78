------------------------- MODULE MCGitRepositories -------------------------
(* A fork and one other thing in the account.                              *)
EXTENDS GitRepositories
=============================================================================
