--------------------------- MODULE MCTestNamespace ---------------------------
(* Instance of TestNamespace for TLC: two suites with the same namespace.  *)
EXTENDS TestNamespace

CONSTANTS p1, p2

MCProcs == {p1, p2}
=============================================================================
