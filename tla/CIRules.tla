------------------------------ MODULE CIRules ------------------------------
(***************************************************************************)
(* The "ci" category of the rule engine: CI.TestE2E of magefiles/          *)
(* magefile.go runs RunRulesOfCategory("ci", rctx), which evaluates the    *)
(* workflow rules of every repository; the one of the repository under     *)
(* test prepares the cluster and runs its tests.                           *)
(***************************************************************************)
EXTENDS MageEngine

\* The jobs: the repository under test, the registered catalogs (by repository),
\* whether SKIP_BOOTSTRAP is "true", and a bound on the changed files.
CONSTANT Jobs

ASSUME JobsAssumption ==
    /\ Jobs \subseteq [repo : AllRepos, catalogs : SUBSET AllRepos,
                       skipBootstrap : BOOLEAN, maxDiff : Nat]
    /\ \A job \in Jobs : job.repo \in job.catalogs

Changes(job) == {d \in SUBSET E2EFiles : Cardinality(d) <= job.maxDiff}

RuleCtx(job, rehearse, change) ==
    [NewRuleCtx("ci", job.repo, change) EXCEPT !.rehearse = rehearse,
                                               !.skipBootstrap = job.skipBootstrap]

Init ==
    \E job \in Jobs, rehearse \in BOOLEAN : \E change \in Changes(job) :
        Engine!StartWith(RuleCtx(job, rehearse, change), job.catalogs)

Spec == Init /\ [][Next]_vars

-----------------------------------------------------------------------------
(* Properties.                                                             *)

\* GitHub gave the same answer every time it was asked for the same repository.
StablePairing ==
    \A repo \in {"release-service", "infra-deployments"} :
        ~({<<repo, TRUE>>, <<repo, FALSE>>} \subseteq ctx.asked)

\* Tests are started only on a prepared system: ginkgo is installed; unless the
\* bootstrap is skipped, Konflux is installed and, where the workflow asks for
\* it, registered with the SprayProxy or the PaC tests are switched off, and
\* the multi-platform bundles are built; a service is deployed from its image.
TestsOnPreparedCluster ==
    [][Len(ctx'.runs) > Len(ctx.runs) =>
        /\ ctx.ginkgo
        /\ ctx.skipBootstrap \/
            /\ ctx.installs > 0
            /\ ctx.RequiresSprayProxyRegistering => ctx.registered \/ ctx.skipPac
            /\ ctx.RequiresMultiPlatformTests => ctx.multiPlatform
        /\ ctx.RepoName \notin {"e2e-tests", "release-service-catalog"} =>
            ctx.imageOf = ctx.RepoName]_vars

\* Whatever the order of the catalogs, a job runs the tests of one workflow,
\* once, as long as GitHub does not change its mind about the pairing; the
\* workflow of this repository runs none when SKIP_BOOTSTRAP is set.
OneWorkflowPerJob ==
    StablePairing =>
        /\ Len(ctx.runs) <= 1
        /\ result = "nil" /\ ~(ctx.RepoName = "e2e-tests" /\ ctx.skipBootstrap)
            => Len(ctx.runs) = 1

\* The rules of the other repositories are evaluated too, but no setting of
\* theirs reaches the run: it selects the suite of the repository.  A job of
\* release-service-catalog runs one of its own selections of test cases, with the
\* exclusions of the slow ones if and only if it is paired and no rehearsal; they
\* hold for the last of its test cases, the ones before it run even if slow.
RunsOwnSuite ==
    StablePairing => \A i \in 1..Len(ctx.runs) :
        LET filter == ctx.runs[i].filter
            paired == <<"release-service", TRUE>> \in ctx.asked
        IN CASE ctx.RepoName = "e2e-tests" ->
                  filter.before = {} /\ filter.only = {} /\ filter.not \cap Slow = {}
             [] ctx.RepoName = "release-service-catalog" ->
                  /\ [filter EXCEPT !.not = {}] \in CatalogFilters
                  /\ filter.not = IF paired /\ ~ctx.rehearse THEN Slow ELSE {}
             [] OTHER -> filter = Filter({ctx.RepoName}, {}) /\ ctx.runs[i].focus = {}

\* In CI a change to shared code runs all suites, with release-pipelines if
\* one of its tests changed, and every changed spec file of the release, demo,
\* integration and enterprise contract suites is selected.
AffectedTestsSelected ==
    ctx.RepoName = "e2e-tests" => \A i \in 1..Len(ctx.runs) :
        LET run == ctx.runs[i]
        IN /\ ctx.change \cap SharedFiles # {} =>
                /\ run.focus = {}
                /\ run.filter.not = Upgrades \cup
                     (IF ctx.change \cap ReleasePipelines # {} THEN {} ELSE {"release-pipelines"})
           /\ \A f \in ctx.change \cap (ReleaseTests \cup DemoTests \cup IntegrationTests
                                            \cup EcFiles) :
                Selects(run, f, IF f \in ReleasePipelines THEN {"release-pipelines"} ELSE {})
=============================================================================
