-------------------------- MODULE MCTestSelection --------------------------
EXTENDS TestSelection

\* All changes of infra-deployments, up to three kinds of files of this repository.
Bounds == [catalog \in {"e2e-repo", "infra-deployments"} |->
             IF catalog = "e2e-repo" THEN 3 ELSE Cardinality(InfraFiles)]
=============================================================================
