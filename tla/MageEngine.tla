----------------------------- MODULE MageEngine -----------------------------
(***************************************************************************)
(* MageEngine of magefiles/rulesengine/engine/engine.go: the rule engine   *)
(* with the categories "tests" (TestRules) and "ci", the workflow of each  *)
(* repository (magefiles/rulesengine/repos), which prepares the cluster    *)
(* and runs the tests.  The RuleCtx is extended with what the rules do     *)
(* outside of it: the environment variables they set, the cluster they     *)
(* install, and what GitHub answered when asked for a paired pull request. *)
(***************************************************************************)
EXTENDS TestRules

AllRepos == {"e2e-tests", "release-service", "release-service-catalog",
             "integration-service", "image-controller", "build-service"}

\* The labels of the release pipelines' test cases.
CONSTANT TestCases

VARIABLES ctx, catalogs, loaded, pc, stack, ret, matched, act, result

vars == <<ctx, catalogs, loaded, pc, stack, ret, matched, act, result>>

-----------------------------------------------------------------------------
(* ConditionFuncs.                                                         *)

\* IsPRPairingRequired asks GitHub on every call: the pull request may be
\* opened or closed meanwhile, and a failed request counts as "not paired".
IsPRPairingRequired(repo, x) ==
    {Answer(b, [x EXCEPT !.asked = @ \cup {<<repo, b>>}]) : b \in BOOLEAN}

isPaired(x) ==
    {[o EXCEPT !.ctx.IsPaired = o.ok] : o \in IsPRPairingRequired("release-service", x)}

CIConditions ==
    {"isPaired", "isRehearse", "InfraPairing", "IsPrelightChecked", "BootstrapWanted",
     "IsSprayProxyRequired", "IsMultiPlatformConfigRequired"}

\* IsPrelightChecked fails when a secret or a binary is missing.
CheckCI(c, x) ==
    CASE c \in AllRepos -> {Answer(x.RepoName = c, x)}
      [] c = "isPaired" -> isPaired(x)
      [] c = "isRehearse" -> {Answer(x.rehearse, x)}
      [] c = "InfraPairing" -> IsPRPairingRequired("infra-deployments", x)
      [] c = "IsPrelightChecked" -> {Succeeds(x), Fails(x)}
      [] c = "BootstrapWanted" -> {Answer(~x.skipBootstrap, x)}
      [] c = "IsSprayProxyRequired" -> {Answer(x.RequiresSprayProxyRegistering, x)}
      [] c = "IsMultiPlatformConfigRequired" -> {Answer(x.RequiresMultiPlatformTests, x)}
      [] OTHER -> CheckTests(c, x)

-----------------------------------------------------------------------------
(* ActionFuncs.                                                            *)

\* GetChangedFiles runs git diff.
SetE2EDefaults(x) ==
    LET y == [x EXCEPT !.RequiresMultiPlatformTests = TRUE,
                       !.RequiresSprayProxyRegistering = TRUE]
    IN {Fails(y), Succeeds([y EXCEPT !.DiffFiles = x.change])}

\* SetEnvVarsForComponentImageDeployment: COMPONENT_IMAGE may be malformed.
SetEnvVarsForComponentImageDeployment(x) ==
    {Fails(x), Succeeds([x EXCEPT !.imageOf = x.RepoName])}

\* The default settings of the repositories that deploy a component image; the
\* extra label filter of build-service only narrows the label.
SetServiceDefaults(x) ==
    SetEnvVarsForComponentImageDeployment(
        [x EXCEPT !.RequiresSprayProxyRegistering = IF x.RepoName # "release-service" THEN TRUE ELSE @,
                  !.LabelFilter = Filter({x.RepoName}, {})])

\* The filters of release-service-catalog: "a||b||c" over the test cases of the
\* changed pipelines, in any order; one label from the job name; all the test
\* cases if their selection fails, or a label that no spec has.
CatalogFilters ==
    (UNION {{[before |-> others, only |-> {last}, not |-> {}] :
                others \in SUBSET (TestCases \ {last})} : last \in TestCases})
        \cup {Filter({label}, {}) : label \in {"release-pipelines", "no-test-case"}}

SetReleaseCatalogDefaults(x) ==
    {Succeeds([x EXCEPT !.LabelFilter = filter,
                        !.imageOf = IF x.IsPaired /\ ~x.rehearse THEN "release-service" ELSE @]) :
        filter \in CatalogFilters}

\* retry(InstallKonflux, 2, 10 seconds): the second attempt may succeed.
InstallKonflux(x) == {Fails(x), Succeeds([x EXCEPT !.installs = @ + 1])}

\* Mutant: the PaC tests stay on.
RegisterKonfluxNoSkip(x) ==
    {Succeeds([x EXCEPT !.registered = TRUE]), Succeeds(x), Fails(x)}

\* A failed registration is reported to Slack and disables the PaC tests.
RegisterKonfluxToSprayProxy(x) ==
    {Succeeds([x EXCEPT !.registered = TRUE]),
     Succeeds([x EXCEPT !.skipPac = TRUE]),
     Fails([x EXCEPT !.skipPac = TRUE])}

Slow == {"fbc-release", "multiarch-advisories", "rh-advisories", "release-to-github",
         "rh-push-to-registry-redhat-io", "rhtap-service-push"}

\* "&& !fbc-release && ..." is appended without parentheses.
ExecuteReleaseCatalogPairedAction(x) ==
    ExecuteTestAction([x EXCEPT !.LabelFilter.not = @ \cup Slow])

ExecuteCI(a, x) ==
    CASE a = "SetE2EDefaults" -> SetE2EDefaults(x)
      [] a = "SetServiceDefaults" -> SetServiceDefaults(x)
      [] a = "SetReleaseCatalogDefaults" -> SetReleaseCatalogDefaults(x)
      [] a = "SetInfraDeployments" -> {Succeeds([x EXCEPT !.infraPaired = TRUE])}
      [] a = "InstallGinkgo" -> {Fails(x), Succeeds([x EXCEPT !.ginkgo = TRUE])}
      [] a = "InstallKonflux" -> InstallKonflux(x)
      [] a = "RegisterSprayProxy" -> RegisterKonfluxToSprayProxy(x)
      [] a = "SetupMultiPlatformTests" -> {Fails(x), Succeeds([x EXCEPT !.multiPlatform = TRUE])}
      [] a = "ExecuteReleaseCatalogPairedAction" -> ExecuteReleaseCatalogPairedAction(x)
      [] a = "ExecuteReleaseCatalogAction" -> ExecuteTestAction(x)
      [] OTHER -> ExecuteTests(a, x)

-----------------------------------------------------------------------------
(* common.go: rules.                                                       *)

InfraDeploymentsPRPairingRule ==
    Rule("InfraPairing", ConditionFunc("InfraPairing"), <<"SetInfraDeployments">>)

PreflightInstallGinkgoRule ==
    Rule("PreflightInstallGinkgo", ConditionFunc("IsPrelightChecked"), <<"InstallGinkgo">>)

InstallKonfluxRule ==
    Rule("InstallKonflux", ConditionFunc("BootstrapWanted"), <<"InstallKonflux">>)

RegisterKonfluxToSprayProxyRule ==
    Rule("RegisterSprayProxy", Any("RegisterSprayProxy", <<ConditionFunc("IsSprayProxyRequired")>>),
         <<"RegisterSprayProxy">>)

SetupMultiPlatformTestsRule ==
    Rule("SetupMultiPlatformTests",
         Any("SetupMultiPlatformTests", <<ConditionFunc("IsMultiPlatformConfigRequired")>>),
         <<"SetupMultiPlatformTests">>)

BootstrapClusterRuleChain ==
    Rule("BootstrapCluster",
         All("BootstrapCluster", <<InstallKonfluxRule, RegisterKonfluxToSprayProxyRule,
                                   SetupMultiPlatformTestsRule>>), <<>>)

BootstrapClusterWithSprayProxyRuleChain ==
    Rule("BootstrapClusterWithSprayProxy",
         All("BootstrapClusterWithSprayProxy",
             <<InstallKonfluxRule, RegisterKonfluxToSprayProxyRule>>), <<>>)

\* Meant to hold whether or not the rule applies.
Optional(rule) == Any(rule.name, <<rule, None(rule.name, <<rule>>)>>)

\* The same, in the order the bootstrap rules are written.
OptionalBootstrap(rule) == Any(rule.name, <<None(rule.name, <<rule>>), rule>>)

-----------------------------------------------------------------------------
(* The workflow of each repository.                                        *)

SetDefaultSettingsRule(repo, action) ==
    Rule(repo, Any(repo, <<ConditionFunc(repo)>>), <<action>>)

E2ERepoCIRuleChain ==
    Rule("E2ERepoCI",
         All("E2ERepoCI",
             <<SetDefaultSettingsRule("e2e-tests", "SetE2EDefaults"),
               Optional(InfraDeploymentsPRPairingRule),
               PreflightInstallGinkgoRule,
               BootstrapClusterRuleChain,
               Any("E2ERepoCI", <<NonTestFilesRule, NonTestFilesRuleWithReleasePipelines,
                                  TestFilesOnlyRule>>)>>),
         <<>>)

\* build-service, integration-service, image-controller and release-service.
ServiceCIRule(repo, bootstrap) ==
    Rule(repo,
         All(repo,
             <<SetDefaultSettingsRule(repo, "SetServiceDefaults"),
               Optional(InfraDeploymentsPRPairingRule),
               PreflightInstallGinkgoRule,
               OptionalBootstrap(bootstrap)>>),
         <<"ExecuteTestAction">>)

\* Mutant: rehearse jobs are not excluded.
ReleaseServiceCatalogCIPairedRuleRehearse ==
    Rule("ReleaseServiceCatalogPaired",
         All("ReleaseServiceCatalogPaired",
             <<ConditionFunc("isPaired"),
               SetDefaultSettingsRule("release-service-catalog", "SetReleaseCatalogDefaults"),
               Optional(InfraDeploymentsPRPairingRule),
               PreflightInstallGinkgoRule,
               OptionalBootstrap(InstallKonfluxRule)>>),
         <<"ExecuteReleaseCatalogPairedAction">>)

ReleaseServiceCatalogCIPairedRule ==
    Rule("ReleaseServiceCatalogPaired",
         All("ReleaseServiceCatalogPaired",
             <<ConditionFunc("isPaired"),
               None("ReleaseServiceCatalogPaired", <<ConditionFunc("isRehearse")>>),
               SetDefaultSettingsRule("release-service-catalog", "SetReleaseCatalogDefaults"),
               Optional(InfraDeploymentsPRPairingRule),
               PreflightInstallGinkgoRule,
               OptionalBootstrap(InstallKonfluxRule)>>),
         <<"ExecuteReleaseCatalogPairedAction">>)

\* Mutant: rehearse jobs are forgotten.
ReleaseServiceCatalogCIRuleNoRehearse ==
    Rule("ReleaseServiceCatalog",
         All("ReleaseServiceCatalog",
             <<None("ReleaseServiceCatalog", <<ConditionFunc("isPaired")>>),
               SetDefaultSettingsRule("release-service-catalog", "SetReleaseCatalogDefaults"),
               Optional(InfraDeploymentsPRPairingRule),
               PreflightInstallGinkgoRule,
               OptionalBootstrap(InstallKonfluxRule)>>),
         <<"ExecuteReleaseCatalogAction">>)

ReleaseServiceCatalogCIRule ==
    Rule("ReleaseServiceCatalog",
         All("ReleaseServiceCatalog",
             <<Any("ReleaseServiceCatalog",
                   <<None("ReleaseServiceCatalog", <<ConditionFunc("isPaired")>>),
                     ConditionFunc("isRehearse")>>),
               SetDefaultSettingsRule("release-service-catalog", "SetReleaseCatalogDefaults"),
               Optional(InfraDeploymentsPRPairingRule),
               PreflightInstallGinkgoRule,
               OptionalBootstrap(InstallKonfluxRule)>>),
         <<"ExecuteReleaseCatalogAction">>)

\* The categories "tests", by the name of the catalog, and "ci", by repository.
CatalogOf(name) ==
    CASE name = "e2e-repo" -> E2ETestRulesCatalog
      [] name = "infra-deployments" -> InfraDeploymentsRulesCatalog
      [] name = "e2e-tests" -> <<E2ERepoCIRuleChain>>
      [] name = "release-service" -> <<ServiceCIRule(name, InstallKonfluxRule)>>
      [] name = "release-service-catalog" ->
            <<ReleaseServiceCatalogCIPairedRule, ReleaseServiceCatalogCIRule>>
      [] OTHER -> <<ServiceCIRule(name, BootstrapClusterWithSprayProxyRuleChain)>>

-----------------------------------------------------------------------------
Engine == INSTANCE RuleEngine WITH Check <- CheckCI, Execute <- ExecuteCI,
                                  RulesOf <- CatalogOf

Next == Engine!Next

\* catalog is "ci" for RunRulesOfCategory("ci", rctx), else the catalog that
\* RunRules is called with; change is what the pull request changes, DiffFiles
\* what the rules know of it.
NewRuleCtx(catalog, repo, change) ==
    [catalog |-> catalog, RepoName |-> repo, change |-> change, DryRun |-> FALSE,
     rehearse |-> FALSE, DiffFiles |-> {}, FocusFiles |-> {}, LabelFilter |-> NoFilter,
     IsPaired |-> FALSE, RequiresMultiPlatformTests |-> FALSE,
     RequiresSprayProxyRegistering |-> FALSE, skipBootstrap |-> FALSE, imageOf |-> "none",
     infraPaired |-> FALSE, skipPac |-> FALSE, ginkgo |-> FALSE, installs |-> 0,
     registered |-> FALSE, multiPlatform |-> FALSE, asked |-> {}, runs |-> <<>>]

-----------------------------------------------------------------------------
\* The labels that the rules name.
FilterLabels == AllRepos \cup {LabelOf(c) : c \in InfraConditions} \cup Upgrades \cup Slow
                  \cup TestCases \cup {"konflux", "release-pipelines", "no-test-case"}

Filters == [before : SUBSET FilterLabels, only : SUBSET FilterLabels, not : SUBSET FilterLabels]

RuleCtxs ==
    [catalog : {"ci", "e2e-repo", "infra-deployments"},
     RepoName : AllRepos \cup {"infra-deployments", ""},
     change : SUBSET (E2EFiles \cup InfraFiles), DryRun : BOOLEAN, rehearse : BOOLEAN,
     DiffFiles : SUBSET (E2EFiles \cup InfraFiles), FocusFiles : SUBSET E2EFiles,
     LabelFilter : Filters, IsPaired : BOOLEAN, RequiresMultiPlatformTests : BOOLEAN,
     RequiresSprayProxyRegistering : BOOLEAN, skipBootstrap : BOOLEAN,
     imageOf : AllRepos \cup {"none"}, infraPaired : BOOLEAN, skipPac : BOOLEAN,
     ginkgo : BOOLEAN, installs : Nat, registered : BOOLEAN, multiPlatform : BOOLEAN,
     asked : SUBSET ({"release-service", "infra-deployments"} \X BOOLEAN),
     runs : Seq([focus : SUBSET E2EFiles, filter : Filters])]

\* The variables keep their types.
TypeOK ==
    /\ ctx \in RuleCtxs
    /\ catalogs \subseteq AllRepos \cup {"e2e-repo", "infra-deployments"}
    /\ pc \in {"load", "eval", "apply", "done"}
    /\ ret \in {"none", "true", "false"}
    /\ \A k \in 1..Len(stack) :
        stack[k].i \in 1..(1 + Len(stack[k].node.kids) + Len(stack[k].node.actions))
    /\ act \in Nat \ {0}
    /\ pc = "apply" => matched # <<>>
    /\ result \in {"none", "nil", "error"}
=============================================================================
