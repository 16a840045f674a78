----------------------------- MODULE MCCIRules -----------------------------
EXTENDS CIRules

Job(repo, registered, skip, maxDiff) ==
    [repo |-> repo, catalogs |-> registered, skipBootstrap |-> skip, maxDiff |-> maxDiff]

\* Every repository with all catalogs loaded, in any order, and the workflow of
\* this repository for every change of up to two kinds of files.
AllJobs ==
    {Job(repo, AllRepos, skip, 0) : repo \in AllRepos, skip \in BOOLEAN}
        \cup {Job("e2e-tests", {"e2e-tests"}, FALSE, 2)}

\* One test case that a paired job excludes and one that it does not.
SomeCases == {"fbc-release", "push-to-external-registry"}
=============================================================================
