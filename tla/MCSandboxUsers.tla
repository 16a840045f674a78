--------------------------- MODULE MCSandboxUsers ---------------------------
(* Two suites, with one user or with two.                                  *)
EXTENDS SandboxUsers
=============================================================================
