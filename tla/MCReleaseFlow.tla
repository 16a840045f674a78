--------------------------- MODULE MCReleaseFlow ---------------------------
(* Two builds, one scenario, one test, one release.                        *)
EXTENDS ReleaseFlow
=============================================================================
