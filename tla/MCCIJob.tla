------------------------------ MODULE MCCIJob ------------------------------
(* Jobs of OpenShift CI, of Konflux CI and of a developer.                 *)
EXTENDS CIJob

Job(target, ci, suite, repo) ==
    [target |-> target, ci |-> ci, type |-> "presubmit", nightly |-> FALSE, rehearse |-> FALSE,
     suite |-> suite, catalog |-> repo = "release-service-catalog", repo |-> repo, skip |-> FALSE]

MCJobs ==
    {Job("TestE2E", "openshift", "none", r) :
       r \in {"e2e-tests", "infra-deployments", "release-service-catalog", "build-definitions"}}
    \cup {Job("TestE2E", "konflux", "none", r) : r \in {"infra-deployments", "build-service"}}
    \cup {Job("TestE2E", "openshift", "has", "application-service"),
          Job("TestE2E", "openshift", "multi-platform-controller", "multi-platform-controller"),
          Job("Bootstrap", "openshift", "release-service", "release-service"),
          Job("Bootstrap", "konflux", "release-service", "release-service"),
          Job("Bootstrap", "openshift", "none", "e2e-tests"),
          Job("PrepareCluster", "local", "none", "e2e-tests"),
          Job("LocalTestE2E", "local", "none", "e2e-tests")}
    \cup {[Job("TestE2E", "openshift", "none", "infra-deployments") EXCEPT !.skip = TRUE],
          [Job("TestE2E", "openshift", "none", "release-service-catalog") EXCEPT !.rehearse = TRUE],
          [Job("TestE2E", "openshift", "none", "e2e-tests") EXCEPT !.type = "periodic", !.nightly = TRUE]}
=============================================================================
