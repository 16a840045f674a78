----------------------------- MODULE RuleProofs -----------------------------
(***************************************************************************)
(* Proofs about the rule engine with the catalogs of MageEngine: the       *)
(* selection of tests (TestSelection), for every change, and the workflows *)
(* of CI (CIRules), for every set of jobs.                                 *)
(*                                                                         *)
(* The conditions change the RuleCtx while they are evaluated.  So every   *)
(* node of the rule trees has assertions on the RuleCtx: Pre when its      *)
(* Check is called, Loop while one of its children is checked, Post when   *)
(* it returned.  The inductive invariant says that the frames of the stack *)
(* are at a place in their node where its assertion holds.  What is in     *)
(* Loop must survive everything the children do (Keeps); what may not is   *)
(* handed from Post of one child to Pre of the next.                       *)
(***************************************************************************)
EXTENDS CIRules, TestSelection, FiniteSetTheorems, SequenceTheorems, TLAPS

\* What no condition and no action changes.
Same(x, y) ==
    /\ y.catalog = x.catalog /\ y.RepoName = x.RepoName /\ y.change = x.change
    /\ y.DryRun = x.DryRun /\ y.rehearse = x.rehearse /\ y.skipBootstrap = x.skipBootstrap

-----------------------------------------------------------------------------
(* Facts about the change.                                                 *)

\* The conditions that the three rules of the catalog e2e-repo are made of.
Shared(x) == E2EHolds("CheckSharedFilesChanged", x)
Empty(x) == E2EHolds("CheckNoFilesChanged", x)
Pipelines(x) == E2EHolds("CheckReleasePipelinesTestsChanged", x)
HelpersOnly(x) == E2EHolds("ReleaseHelpersOnly", x)

\* When the conditions of the three rules of the catalog e2e-repo hold.
H1(x) == (Shared(x) \/ Empty(x)) /\ ~Pipelines(x)
H2(x) == Shared(x) /\ Pipelines(x)
H3(x) == ~Shared(x) /\ ~Empty(x)

\* The spec files whose selection the properties are about.
SpecFiles == ReleaseTests \cup DemoTests \cup IntegrationTests \cup EcFiles

\* The changed ones are in focus.
SpecsFocused(x) == x.DiffFiles \cap SpecFiles \subseteq x.FocusFiles

\* A component of infra-deployments changed.
Component(x) == \E c \in InfraConditions : InfraHolds(c, x)

\* The labels of the changed ones.
Labels(x) == {LabelOf(c) : c \in {d \in InfraConditions : InfraHolds(d, x)}}

-----------------------------------------------------------------------------
(* Facts about the RuleCtx.                                                *)

\* GitHub gave that answer about the pairing with repo.
Asked(repo, answer, x) ==
    IF answer = "true" THEN <<repo, TRUE>> \in x.asked ELSE <<repo, FALSE>> \in x.asked

\* It never gave two.
Stable(x) ==
    \A repo \in {"release-service", "infra-deployments"} :
        ~(Asked(repo, "true", x) /\ Asked(repo, "false", x))

\* What the rules of release-service-catalog conclude from it.
NotPaired(x) == Asked("release-service", "false", x) \/ x.rehearse
Paired(x) == Asked("release-service", "true", x) /\ ~x.rehearse

\* The settings rule of the repository was applied.
Settled(x) ==
    /\ x.RepoName = "e2e-tests" =>
         /\ x.DiffFiles = x.change
         /\ x.RequiresMultiPlatformTests
         /\ x.RequiresSprayProxyRegistering
    /\ x.RepoName = "release-service-catalog" => x.LabelFilter \in CatalogFilters
    /\ x.RepoName \notin {"e2e-tests", "release-service-catalog"} =>
         /\ x.LabelFilter = Filter({x.RepoName}, {})
         /\ x.imageOf = x.RepoName
         /\ x.RepoName # "release-service" => x.RequiresSprayProxyRegistering

\* PaC tests reach the cluster, or are switched off.
Reachable(x) == x.registered \/ x.skipPac

\* What the bootstrap rule of that name leaves.
Booted(name, x) ==
    /\ x.installs > 0
    /\ name # "InstallKonflux" => Reachable(x)
    /\ name = "BootstrapCluster" => x.multiPlatform

\* The bootstrap rule of a workflow.
BootOf(repo) ==
    CASE repo = "e2e-tests" -> BootstrapClusterRuleChain
      [] repo \in {"release-service", "release-service-catalog"} -> InstallKonfluxRule
      [] OTHER -> BootstrapClusterWithSprayProxyRuleChain

\* The tests of the repository may be run.
Prepared(x) ==
    /\ x.ginkgo
    /\ x.skipBootstrap \/ Booted(BootOf(x.RepoName).name, x)
    /\ x.RepoName \notin {"e2e-tests", "release-service-catalog"} => x.imageOf = x.RepoName

\* Only the settings of a repository that needs them set these.
RequiredOnly(x) ==
    /\ x.RequiresMultiPlatformTests => x.RepoName = "e2e-tests"
    /\ x.RequiresSprayProxyRegistering => x.RepoName \notin {"release-service", "release-service-catalog"}

\* A run of the tests of this repository, as AffectedTestsSelected and
\* RunsOwnSuite want it.
GoodRun(run, x) ==
    /\ run.filter.before = {} /\ run.filter.only = {} /\ run.filter.not \cap Slow = {}
    /\ x.change \cap SharedFiles # {} =>
         /\ run.focus = {}
         /\ run.filter.not = Upgrades \cup
              (IF x.change \cap ReleasePipelines # {} THEN {} ELSE {"release-pipelines"})
    /\ \A f \in x.change \cap SpecFiles :
         Selects(run, f, IF f \in ReleasePipelines THEN {"release-pipelines"} ELSE {})

\* Ginkgo was started once, as it should be.
OneGoodRun(x) == Len(x.runs) = 1 /\ GoodRun(x.runs[1], x)

\* Between the rules of a workflow of CI.
Workflow(x) ==
    /\ x.catalog = "ci"
    /\ x.runs = <<>>
    /\ x.FocusFiles = {}
    /\ x.RepoName = "e2e-tests" => x.LabelFilter = NoFilter

\* The first j rules of the catalog e2e-repo were checked.  In CI, the one that
\* holds was applied.
Stage(j, x) ==
    /\ \/ x.catalog = "e2e-repo"
       \/ x.catalog = "ci" /\ x.RepoName = "e2e-tests" /\ Prepared(x)
    /\ x.DiffFiles = x.change
    /\ x.FocusFiles # {} => HelpersOnly(x) \/ H3(x)
    /\ x.catalog = "ci" /\ H1(x) /\ x.runs = <<>> => x.FocusFiles = {}
    /\ IF x.catalog = "ci" /\ ((j >= 1 /\ H1(x)) \/ (j >= 2 /\ H2(x)) \/ (j >= 3 /\ H3(x)))
         THEN OneGoodRun(x)
         ELSE x.runs = <<>> /\ x.LabelFilter = NoFilter

\* Between the rules of the catalog infra-deployments.
Infra(x) ==
    /\ x.catalog = "infra-deployments"
    /\ x.DiffFiles = x.change
    /\ x.runs = <<>>
    /\ x.LabelFilter.before = {} /\ x.LabelFilter.not = {}
    /\ x.LabelFilter.only \subseteq Labels(x)
    /\ "jvm-build-service" \in x.LabelFilter.only /\ InfraHolds("components/build-service", x)
         => "build-service" \in x.LabelFilter.only

\* What every ConditionFunc and ActionFunc keeps, but for the ones that run tests.
Keeps(x, y) ==
    /\ Same(x, y)
    /\ y.runs = x.runs
    /\ x.asked \subseteq y.asked
    /\ x.FocusFiles \subseteq y.FocusFiles
    /\ x.FocusFiles # y.FocusFiles =>
         /\ x.DiffFiles = x.change
         /\ HelpersOnly(x) \/ H3(x)
         /\ ~(x.catalog = "ci" /\ H1(x) /\ x.runs = <<>>)
    /\ x.DiffFiles = x.change => y.DiffFiles = x.DiffFiles
    /\ x.ginkgo => y.ginkgo
    /\ x.installs > 0 => y.installs > 0
    /\ Reachable(x) => Reachable(y)
    /\ x.multiPlatform => y.multiPlatform
    /\ x.RequiresMultiPlatformTests => y.RequiresMultiPlatformTests
    /\ x.RequiresSprayProxyRegistering => y.RequiresSprayProxyRegistering
    /\ x.RepoName # "release-service-catalog" /\ x.imageOf = x.RepoName => y.imageOf = y.RepoName
    /\ Settled(x) => Settled(y)
    /\ x.RepoName = "e2e-tests" \/ x.catalog = "e2e-repo" => y.LabelFilter = x.LabelFilter
    /\ Infra(x) => Infra(y) /\ x.LabelFilter.only \subseteq y.LabelFilter.only

-----------------------------------------------------------------------------
(* The nodes of the rule trees.                                            *)

\* The ConditionFuncs.
CondNames == E2EConditions \cup InfraConditions \cup AllRepos \cup CIConditions

\* The rules that map changed files to the spec files in focus.
MapRules ==
    {ReleaseTestHelperFilesChangeOnlyRule, BuildORBuildTemplatesTestFileChangeOnlyRule,
     BuildTemplateDependentFileChangeRule, BuildNonTestFileChangeRule,
     KonfluxDemoConfigsFileOnlyChangeRule, KonfluxDemoTestFileChangedRule,
     ReleaseTestTestFilesChangeRule, IntegrationTestsConstFileChangeRule,
     IntegrationTestsFileChangeRule, EcTestFileChangeRule}

MapNames ==
    {"ReleaseTestHelperFilesChangeOnly", "BuildTests", "BuildTemplateDependents", "BuildConst",
     "DemoConfigs", "DemoTests", "ReleaseTests", "IntegrationConst", "IntegrationTests", "EcTests"}

\* The rules of the catalog e2e-repo.
TestNames == {"NonTestFiles", "NonTestFilesWithReleasePipelines", "TestFilesOnly"}

\* Rules of the catalog e2e-repo before the one of that name.
StageOf(name) ==
    IF name = "NonTestFiles" THEN 0 ELSE IF name = "TestFilesOnly" THEN 2 ELSE 1

\* The condition of the rule of that name.
Holding(name, x) ==
    /\ name = "NonTestFiles" => H1(x)
    /\ name = "NonTestFilesWithReleasePipelines" => H2(x)
    /\ name = "TestFilesOnly" => H3(x)

\* The repositories of the services.
Services == AllRepos \ {"e2e-tests", "release-service-catalog"}

\* The action and the rule of the settings of a repository.
SettingsAction(repo) ==
    CASE repo = "e2e-tests" -> "SetE2EDefaults"
      [] repo = "release-service-catalog" -> "SetReleaseCatalogDefaults"
      [] OTHER -> "SetServiceDefaults"

Settings(repo) == SetDefaultSettingsRule(repo, SettingsAction(repo))

\* The workflow of a service.
ServiceRule(repo) == ServiceCIRule(repo, BootOf(repo))

Conds == {ConditionFunc(c) : c \in CondNames}

\* The rules that are conditions of others.
Rules ==
    MapRules
      \cup {ComponentChangeRule(c) : c \in InfraConditions}
      \cup {NonTestFilesRule, NonTestFilesRuleWithReleasePipelines, TestFilesOnlyRule}
      \cup {Settings(repo) : repo \in AllRepos}
      \cup {InfraDeploymentsPRPairingRule, PreflightInstallGinkgoRule, InstallKonfluxRule,
            RegisterKonfluxToSprayProxyRule, SetupMultiPlatformTestsRule,
            BootstrapClusterRuleChain, BootstrapClusterWithSprayProxyRuleChain}

\* The filters of the rules, by the rule they are written in.
NonTestAny == Any("NonTestFiles", <<ConditionFunc("CheckSharedFilesChanged"),
                                    ConditionFunc("CheckNoFilesChanged")>>)
NonTestNone == None("NonTestFiles", <<ConditionFunc("CheckReleasePipelinesTestsChanged")>>)
NonTestAll == All("NonTestFiles", <<NonTestAny, NonTestNone>>)

PipelinesAny == Any("NonTestFilesWithReleasePipelines",
                    <<ConditionFunc("CheckSharedFilesChanged"), ReleaseTestHelperFilesChangeOnlyRule>>)
PipelinesAll == All("NonTestFilesWithReleasePipelines",
                    <<PipelinesAny, ConditionFunc("CheckReleasePipelinesTestsChanged")>>)

FilesNone == None("TestFilesOnly", <<ConditionFunc("CheckSharedFilesChanged"),
                                     ConditionFunc("CheckNoFilesChanged")>>)
FilesAny == Any("TestFilesOnly",
                <<BuildORBuildTemplatesTestFileChangeOnlyRule, BuildTemplateDependentFileChangeRule,
                  BuildNonTestFileChangeRule, KonfluxDemoConfigsFileOnlyChangeRule,
                  KonfluxDemoTestFileChangedRule, ReleaseTestTestFilesChangeRule,
                  IntegrationTestsConstFileChangeRule, IntegrationTestsFileChangeRule,
                  EcTestFileChangeRule>>)
FilesAll == All("TestFilesOnly", <<FilesNone, FilesAny>>)

DefaultNone == InfraDeploymentsDefaultRule.kids[1]
ComponentsAny == InfraDeploymentsComponentsRule.kids[1]

SprayAny == Any("RegisterSprayProxy", <<ConditionFunc("IsSprayProxyRequired")>>)
MultiAny == Any("SetupMultiPlatformTests", <<ConditionFunc("IsMultiPlatformConfigRequired")>>)
BootAll == All("BootstrapCluster", <<InstallKonfluxRule, RegisterKonfluxToSprayProxyRule,
                                     SetupMultiPlatformTestsRule>>)
SprayBootAll == All("BootstrapClusterWithSprayProxy",
                    <<InstallKonfluxRule, RegisterKonfluxToSprayProxyRule>>)

PairingNone == None("InfraPairing", <<InfraDeploymentsPRPairingRule>>)
PairingAny == Any("InfraPairing", <<InfraDeploymentsPRPairingRule, PairingNone>>)
InstallNone == None("InstallKonflux", <<InstallKonfluxRule>>)
InstallAny == Any("InstallKonflux", <<InstallNone, InstallKonfluxRule>>)
SprayBootNone == None("BootstrapClusterWithSprayProxy", <<BootstrapClusterWithSprayProxyRuleChain>>)
SprayBootAny == Any("BootstrapClusterWithSprayProxy",
                    <<SprayBootNone, BootstrapClusterWithSprayProxyRuleChain>>)

SettingsAny(repo) == Any(repo, <<ConditionFunc(repo)>>)
ServiceAll(repo) == All(repo, <<Settings(repo), PairingAny, PreflightInstallGinkgoRule,
                                IF repo = "release-service" THEN InstallAny ELSE SprayBootAny>>)

E2EAny == Any("E2ERepoCI", <<NonTestFilesRule, NonTestFilesRuleWithReleasePipelines, TestFilesOnlyRule>>)
E2EAll == All("E2ERepoCI", <<Settings("e2e-tests"), PairingAny, PreflightInstallGinkgoRule,
                             BootstrapClusterRuleChain, E2EAny>>)

PairedNone == None("ReleaseServiceCatalogPaired", <<ConditionFunc("isRehearse")>>)
PairedAll == All("ReleaseServiceCatalogPaired",
                 <<ConditionFunc("isPaired"), PairedNone, Settings("release-service-catalog"),
                   PairingAny, PreflightInstallGinkgoRule, InstallAny>>)
UnpairedNone == None("ReleaseServiceCatalog", <<ConditionFunc("isPaired")>>)
UnpairedAny == Any("ReleaseServiceCatalog", <<UnpairedNone, ConditionFunc("isRehearse")>>)
UnpairedAll == All("ReleaseServiceCatalog",
                   <<UnpairedAny, Settings("release-service-catalog"), PairingAny,
                     PreflightInstallGinkgoRule, InstallAny>>)

\* All nodes, by kind.
Alls == {NonTestAll, PipelinesAll, FilesAll, BootAll, SprayBootAll, E2EAll, PairedAll, UnpairedAll}
          \cup {ServiceAll(repo) : repo \in Services}

Anys == {NonTestAny, PipelinesAny, FilesAny, ComponentsAny, SprayAny, MultiAny, PairingAny,
         InstallAny, SprayBootAny, E2EAny, UnpairedAny}
          \cup {SettingsAny(repo) : repo \in AllRepos}

Nones == {NonTestNone, FilesNone, DefaultNone, PairingNone, InstallNone, SprayBootNone, PairedNone,
          UnpairedNone}

Nodes == Conds \cup Rules \cup Alls \cup Anys \cup Nones

-----------------------------------------------------------------------------
(* The assertions of the nodes.                                            *)

TestNode(n) == n.op # "cond" /\ n.name \in TestNames
MapNode(n) == n.op = "rule" /\ n.name \in MapNames
InfraNode(n) == n.op # "cond" /\ n.name \in InfraConditions
                                   \cup {"InfraDeploymentsDefault", "InfraDeploymentsComponents"}

WorkflowNode(n) ==
    IF n.op = "cond" THEN n.name \notin E2EConditions \cup InfraConditions
    ELSE /\ ~TestNode(n) /\ ~MapNode(n) /\ ~InfraNode(n)
         /\ ~(n.op = "any" /\ n.name = "E2ERepoCI")

\* What a node needs as long as it is checked.
Need(n, x) ==
    /\ TestNode(n) => Stage(StageOf(n.name), x)
    /\ MapNode(n) => Stage(IF n.name = "ReleaseTestHelperFilesChangeOnly" THEN 1 ELSE 2, x)
    /\ n.name = "TestFilesOnly" /\ n.op = "any" => H3(x)
    /\ MapNode(n) /\ n.name # "ReleaseTestHelperFilesChangeOnly" => H3(x)
    /\ InfraNode(n) => Infra(x)
    /\ InfraNode(n) /\ n.name = "components/jvm-build-service" =>
         (InfraHolds("components/build-service", x) => "build-service" \in x.LabelFilter.only)
    /\ n.op # "cond" /\ n.name \in {"RegisterSprayProxy", "BootstrapCluster",
                                    "BootstrapClusterWithSprayProxy"}
         => x.RequiresSprayProxyRegistering
    /\ n.op # "cond" /\ n.name \in {"SetupMultiPlatformTests", "BootstrapCluster"}
         => x.RequiresMultiPlatformTests
    /\ n.op = "rule" /\ n.name \in TestNames => x.catalog = "ci"
    /\ n.op = "any" /\ n.name = "E2ERepoCI" => x.catalog = "ci" /\ x.DiffFiles = x.change

Pre(n, x) ==
    /\ Need(n, x)
    /\ WorkflowNode(n) => Workflow(x)
    /\ n.op = "any" /\ n.name = "E2ERepoCI" => Stage(0, x)

\* i: the next child, the one before it is checked; isAny: a child before that
\* one was true.
AllLoop(n, i, x) ==
    /\ n.name = "NonTestFiles" /\ i > 2 => Shared(x) \/ Empty(x)
    /\ n.name = "NonTestFilesWithReleasePipelines" /\ i > 2 => Shared(x) \/ HelpersOnly(x)
    /\ n.name = "TestFilesOnly" /\ i > 2 => H3(x)
    /\ n.name \in {"BootstrapCluster", "BootstrapClusterWithSprayProxy"} =>
         /\ i > 2 => ~x.skipBootstrap /\ x.installs > 0
         /\ i > 3 => Reachable(x)
    /\ n.name \in Services =>
         /\ i > 2 => x.RepoName = n.name /\ Settled(x)
         /\ i > 4 => x.ginkgo
    /\ n.name = "E2ERepoCI" =>
         /\ i > 2 => x.RepoName = "e2e-tests" /\ Settled(x)
         /\ i > 4 => x.ginkgo
         /\ i > 5 => Booted("BootstrapCluster", x)
    /\ n.name = "ReleaseServiceCatalogPaired" =>
         /\ i > 2 => Asked("release-service", "true", x)
         /\ i > 3 => ~x.rehearse
         /\ i > 4 => x.RepoName = "release-service-catalog" /\ Settled(x)
         /\ i > 6 => x.ginkgo
    /\ n.name = "ReleaseServiceCatalog" =>
         /\ i > 2 => NotPaired(x)
         /\ i > 3 => x.RepoName = "release-service-catalog" /\ Settled(x)
         /\ i > 5 => x.ginkgo

AnyLoop(n, i, isAny, x) ==
    /\ i = 2 => ~isAny
    /\ n.name \in {"NonTestFiles", "NonTestFilesWithReleasePipelines"} /\ i > 2 =>
         (isAny <=> Shared(x))
    /\ n.name = "TestFilesOnly" =>
         /\ isAny <=> \E k \in 1..(i - 2) : E2EHolds(n.kids[k].kids[1].name, x)
         /\ \A k \in 1..(i - 2) : E2EHolds(n.kids[k].kids[1].name, x) =>
              MappedFiles(n.kids[k].actions[1], x) \subseteq x.FocusFiles
    /\ n.name = "InfraDeploymentsComponents" =>
         /\ isAny <=> \E k \in 1..(i - 2) : InfraHolds(n.kids[k].name, x)
         /\ \A k \in 1..(i - 2) : InfraHolds(n.kids[k].name, x) =>
              LabelOf(n.kids[k].name) \in x.LabelFilter.only
    /\ n.name = "E2ERepoCI" => (isAny <=> (i > 2 /\ H1(x)) \/ (i > 3 /\ H2(x)))
    /\ n.name = "InfraPairing" /\ i > 2 => isAny \/ Asked("infra-deployments", "false", x)
    /\ n.name \in {"InstallKonflux", "BootstrapClusterWithSprayProxy"} /\ i > 2 =>
         (isAny <=> x.skipBootstrap)
    /\ n.name = "ReleaseServiceCatalog" /\ i > 2 =>
         Asked("release-service", IF isAny THEN "false" ELSE "true", x)

NoneLoop(n, i, x) ==
    /\ n.name = "TestFilesOnly" /\ i > 2 => ~Shared(x)
    /\ n.name = "InfraDeploymentsDefault" => \A k \in 1..(i - 2) : ~InfraHolds(n.kids[k].name, x)

Loop(n, i, isAny, x) ==
    /\ Need(n, x)
    /\ n.op = "all" => AllLoop(n, i, x)
    /\ n.op = "any" => AnyLoop(n, i, isAny, x)
    /\ n.op = "none" => NoneLoop(n, i, x)

CondPost(name, r, x) ==
    /\ name \in E2EConditions => (r = "true" <=> E2EHolds(name, x))
    /\ name \in InfraConditions => (r = "true" <=> InfraHolds(name, x))
    /\ name \in AllRepos => (r = "true" <=> x.RepoName = name)
    /\ name = "isPaired" => Asked("release-service", r, x)
    /\ name = "isRehearse" => (r = "true" <=> x.rehearse)
    /\ name = "InfraPairing" => Asked("infra-deployments", r, x)
    /\ name = "IsPrelightChecked" => r = "true"
    /\ name = "BootstrapWanted" => (r = "true" <=> ~x.skipBootstrap)
    /\ name = "IsSprayProxyRequired" => (r = "true" <=> x.RequiresSprayProxyRegistering)
    /\ name = "IsMultiPlatformConfigRequired" => (r = "true" <=> x.RequiresMultiPlatformTests)

RulePost(n, r, x) ==
    /\ n.name \in MapNames =>
         /\ r = "true" <=> E2EHolds(n.kids[1].name, x)
         /\ r = "true" => MappedFiles(n.actions[1], x) \subseteq x.FocusFiles
    /\ n.name \in InfraConditions =>
         /\ r = "true" <=> InfraHolds(n.name, x)
         /\ r = "true" => LabelOf(n.name) \in x.LabelFilter.only
    /\ n.name \in TestNames => Stage(StageOf(n.name) + 1, x) /\ (r = "true" <=> Holding(n.name, x))
    /\ n.name \in AllRepos => (r = "true" <=> x.RepoName = n.name) /\ (r = "true" => Settled(x))
    /\ n.name = "InfraPairing" => Asked("infra-deployments", r, x)
    /\ n.name = "PreflightInstallGinkgo" => r = "true" /\ x.ginkgo
    /\ n.name = "RegisterSprayProxy" => r = "true" /\ Reachable(x)
    /\ n.name = "SetupMultiPlatformTests" => r = "true" /\ x.multiPlatform
    /\ n.name \in {"InstallKonflux", "BootstrapCluster", "BootstrapClusterWithSprayProxy"} =>
         /\ r = "true" <=> ~x.skipBootstrap
         /\ r = "true" => Booted(n.name, x)

AllPost(n, r, x) ==
    /\ n.name \in TestNames => (r = "true" <=> Holding(n.name, x))
    /\ n.name = "TestFilesOnly" /\ r = "true" => SpecsFocused(x)
    /\ n.name \in {"BootstrapCluster", "BootstrapClusterWithSprayProxy"} =>
         /\ r = "true" <=> ~x.skipBootstrap
         /\ r = "true" => Booted(n.name, x)
    /\ n.name \in Services =>
         IF r = "true" THEN x.RepoName = n.name /\ Settled(x) /\ Prepared(x)
                       ELSE x.RepoName # n.name \/ ~Stable(x)
    /\ n.name = "E2ERepoCI" =>
         IF r = "true" THEN x.RepoName = "e2e-tests" /\ Stage(3, x)
                       ELSE x.RepoName # "e2e-tests" \/ ~Stable(x) \/ x.skipBootstrap
    /\ n.name = "ReleaseServiceCatalogPaired" =>
         IF r = "true" THEN /\ x.RepoName = "release-service-catalog"
                            /\ Settled(x) /\ Prepared(x) /\ Paired(x)
                       ELSE x.RepoName # "release-service-catalog" \/ ~Stable(x) \/ NotPaired(x)
    /\ n.name = "ReleaseServiceCatalog" =>
         IF r = "true" THEN /\ x.RepoName = "release-service-catalog"
                            /\ Settled(x) /\ Prepared(x) /\ NotPaired(x)
                       ELSE x.RepoName # "release-service-catalog" \/ ~Stable(x) \/ Paired(x)

AnyPost(n, r, x) ==
    /\ n.name = "NonTestFiles" => (r = "true" <=> Shared(x) \/ Empty(x))
    /\ n.name = "NonTestFilesWithReleasePipelines" => (r = "true" <=> Shared(x) \/ HelpersOnly(x))
    /\ n.name = "TestFilesOnly" => r = "true" /\ SpecsFocused(x)
    /\ n.name = "InfraDeploymentsComponents" =>
         (r = "true" <=> Component(x)) /\ Labels(x) \subseteq x.LabelFilter.only
    /\ n.name = "E2ERepoCI" => r = "true" /\ Stage(3, x)
    /\ n.name \in AllRepos => (r = "true" <=> x.RepoName = n.name)
    /\ n.name \in {"RegisterSprayProxy", "SetupMultiPlatformTests"} => r = "true"
    /\ n.name = "InfraPairing" => r = "true" \/ ~Stable(x)
    /\ n.name \in {"InstallKonflux", "BootstrapClusterWithSprayProxy"} =>
         r = "true" /\ (x.skipBootstrap \/ Booted(n.name, x))
    /\ n.name = "ReleaseServiceCatalog" => IF r = "true" THEN NotPaired(x) ELSE Paired(x)

NonePost(n, r, x) ==
    /\ n.name = "NonTestFiles" => (r = "true" <=> ~Pipelines(x))
    /\ n.name = "TestFilesOnly" => (r = "true" <=> H3(x))
    /\ n.name = "InfraDeploymentsDefault" => (r = "true" <=> ~Component(x) /\ ~Empty(x))
    /\ n.name = "InfraPairing" =>
         Asked("infra-deployments", IF r = "true" THEN "false" ELSE "true", x)
    /\ n.name \in {"InstallKonflux", "BootstrapClusterWithSprayProxy"} =>
         (r = "true" <=> x.skipBootstrap)
    /\ n.name = "ReleaseServiceCatalogPaired" => (r = "true" <=> ~x.rehearse)
    /\ n.name = "ReleaseServiceCatalog" =>
         Asked("release-service", IF r = "true" THEN "false" ELSE "true", x)

\* r: what the node answered.
Post(n, r, x) ==
    /\ (TestNode(n) /\ n.op # "rule") \/ MapNode(n) \/ InfraNode(n) => Need(n, x)
    /\ WorkflowNode(n) /\ ~(n.op = "all" /\ n.name = "E2ERepoCI" /\ r = "true") => Workflow(x)
    /\ n.op = "cond" => CondPost(n.name, r, x)
    /\ n.op = "rule" => RulePost(n, r, x)
    /\ n.op = "all" => AllPost(n, r, x)
    /\ n.op = "any" => AnyPost(n, r, x)
    /\ n.op = "none" => NonePost(n, r, x)

-----------------------------------------------------------------------------
(* The inductive invariant.                                                *)

\* Activations of the Check methods.
Frames == [node : Nodes, i : Nat, isAny : BOOLEAN]

\* A function has at most as many children and actions to go as its node has.
FrameOK(f) ==
    /\ f.i >= 1
    /\ f.node.op = "cond" => f.i = 1
    /\ f.node.op = "rule" => f.i <= 2 + Len(f.node.actions)
    /\ f.node.op \in {"all", "any", "none"} => f.i <= 1 + Len(f.node.kids)

\* The function on the top of the stack.
TopInv(f) ==
    /\ f.i = 1 => Pre(f.node, ctx) /\ ret = "none" /\ ~f.isAny
    /\ f.i > 1 => ret \in {"true", "false"}
    /\ f.i > 1 /\ ~(f.node.op = "rule" /\ f.i > 2) =>
         Loop(f.node, f.i, f.isAny, ctx) /\ Post(f.node.kids[f.i - 1], ret, ctx)
    /\ f.node.op = "rule" /\ f.i > 2 => ret = "true" /\ Post(f.node, "true", ctx)

\* A function that waits for a child.
WaitInv(f, child) ==
    /\ f.i > 1
    /\ f.node.op = "rule" => f.i = 2
    /\ child = f.node.kids[f.i - 1]
    /\ Loop(f.node, f.i, f.isAny, ctx)

\* The call stack: the top runs, the others wait, the bottom is the filter of the
\* rule that is evaluated.
StackInv ==
    /\ stack \in Seq(Frames)
    /\ \A k \in 1..Len(stack) : FrameOK(stack[k])
    /\ stack # <<>> => pc \in {"eval", "done"}
    /\ pc = "eval" /\ stack # <<>> =>
         /\ TopInv(stack[1])
         /\ \A k \in 2..Len(stack) : WaitInv(stack[k], stack[k - 1].node)
         /\ stack[Len(stack)].node = Head(loaded).kids[1]
    /\ pc = "eval" /\ stack = <<>> => ret \in {"true", "false"} /\ Post(Head(loaded).kids[1], ret, ctx)

\* The catalog that is meant for the RuleCtx.
OwnName(x) == IF x.catalog = "ci" THEN x.RepoName ELSE x.catalog

\* The catalogs that the engine may load.
CatalogNames(x) == IF x.catalog = "ci" THEN AllRepos ELSE {x.catalog}

\* What may be left of a loaded catalog.
Rest(c) ==
    CASE c = "e2e-repo" -> {E2ETestRulesCatalog,
                            <<NonTestFilesRuleWithReleasePipelines, TestFilesOnlyRule>>,
                            <<TestFilesOnlyRule>>}
      [] c = "infra-deployments" -> {InfraDeploymentsRulesCatalog, <<InfraDeploymentsComponentsRule>>}
      [] c = "release-service-catalog" -> {CatalogOf(c), <<ReleaseServiceCatalogCIRule>>}
      [] OTHER -> {CatalogOf(c)}

\* The rule of the first j of the catalog that matches.
E2EMatched(j, x) ==
    IF j >= 1 /\ H1(x) THEN <<NonTestFilesRule>>
    ELSE IF j >= 2 /\ H2(x) THEN <<NonTestFilesRuleWithReleasePipelines>>
    ELSE IF j >= 3 /\ H3(x) THEN <<TestFilesOnlyRule>>
    ELSE <<>>

InfraMatched(j, x) ==
    IF j >= 1 /\ ~Component(x) /\ ~Empty(x) THEN <<InfraDeploymentsDefaultRule>>
    ELSE IF j >= 2 /\ Component(x) THEN <<InfraDeploymentsComponentsRule>>
    ELSE <<>>

\* A workflow has everything but its run.
Ready(x) == Settled(x) /\ Prepared(x)

\* The rules that matched (m) when the rules l of their catalog are left.
PreviewMatching(x, l, m) ==
    /\ Len(l) = 2 => m = E2EMatched(1, x)
    /\ Len(l) = 1 => m = E2EMatched(2, x)
    /\ l = <<>> => m = E2EMatched(3, x) /\ (H3(x) => SpecsFocused(x))

InfraMatching(x, l, m) ==
    /\ Len(l) = 1 => m = InfraMatched(1, x)
    /\ l = <<>> => m = InfraMatched(2, x) /\ Labels(x) \subseteq x.LabelFilter.only

ServiceMatching(x, repo, m) ==
    \/ m = <<ServiceRule(repo)>> /\ Ready(x)
    \/ m = <<>> /\ ~Stable(x)

CatalogMatching(x, l, m) ==
    /\ l = <<ReleaseServiceCatalogCIRule>> =>
         \/ m = <<ReleaseServiceCatalogCIPairedRule>> /\ Ready(x) /\ Paired(x)
         \/ m = <<>> /\ (~Stable(x) \/ NotPaired(x))
    /\ l # <<ReleaseServiceCatalogCIRule>> =>
         \/ m = <<ReleaseServiceCatalogCIPairedRule>> /\ Ready(x) /\ Paired(x)
         \/ m = <<ReleaseServiceCatalogCIRule>> /\ Ready(x) /\ NotPaired(x)
         \/ /\ m = <<ReleaseServiceCatalogCIPairedRule, ReleaseServiceCatalogCIRule>>
            /\ Ready(x) /\ ~Stable(x)
         \/ m = <<>> /\ ~Stable(x)

\* Only rules of the catalog meant for the RuleCtx match; cs: the catalogs that
\* are still to be loaded.
Matching(x, cs, l, m) ==
    LET own == OwnName(x)
    IN IF own \in cs \/ l = CatalogOf(own)
         THEN m = <<>>
         ELSE /\ own = "e2e-repo" => PreviewMatching(x, l, m)
              /\ own = "infra-deployments" => InfraMatching(x, l, m)
              /\ own = "e2e-tests" => m = <<>> /\ (~Stable(x) \/ x.skipBootstrap)
              /\ own \in Services => ServiceMatching(x, own, m)
              /\ own = "release-service-catalog" => CatalogMatching(x, l, m)

\* What is known of the rules that matched so far.
MatchInv == Matching(ctx, catalogs, loaded, matched)

\* The loop over the catalogs and their rules.
LoadInv ==
    pc \in {"load", "eval"} =>
        /\ catalogs \subseteq CatalogNames(ctx)
        /\ loaded = <<>> \/ \E c \in CatalogNames(ctx) \ catalogs : loaded \in Rest(c)
        /\ act = 1
        /\ MatchInv
        /\ pc = "eval" => loaded # <<>>
        /\ pc = "load" /\ ctx.catalog = "ci" => Workflow(ctx)
        /\ pc = "load" /\ ctx.catalog = "e2e-repo" => Stage(0, ctx)
        /\ pc = "load" /\ ctx.catalog = "infra-deployments" => Infra(ctx)

\* Runs as the properties want them.
SelectedRun(x) ==
    /\ Len(x.runs) = 1
    /\ ~Changed(x, SharedFiles) => \A f \in x.DiffFiles \cap SpecFiles :
         Selects(x.runs[1], f, IF f \in ReleasePipelines THEN {"release-pipelines"} ELSE {})

InfraRun(x) ==
    /\ Len(x.runs) = 1
    /\ x.runs[1].filter = Filter({"konflux"} \cup Labels(x), {})
    /\ x.DiffFiles # {}

\* A selection of release-service-catalog, with the exclusions of a paired job.
CatalogRun(f, x) ==
    /\ [f EXCEPT !.not = {}] \in CatalogFilters
    /\ f.not = IF Paired(x) THEN Slow ELSE {}

WorkflowRun(x) ==
    /\ Len(x.runs) = 1
    /\ x.RepoName \in Services =>
         x.runs[1].filter = Filter({x.RepoName}, {}) /\ x.runs[1].focus = {}
    /\ x.RepoName = "release-service-catalog" => CatalogRun(x.runs[1].filter, x)

\* The matched rules m are applied, the action a of the first one is next.
PreviewApplied(x, m, a) ==
    /\ m = E2EMatched(3, x)
    /\ a \in {1, 2}
    /\ a = 1 => x.runs = <<>> /\ x.LabelFilter = NoFilter /\ (H3(x) => SpecsFocused(x))
    /\ a = 2 => SelectedRun(x)

InfraApplied(x, m, a) ==
    /\ m = InfraMatched(2, x) /\ m # <<>>
    /\ a = 1 => x.runs = <<>> /\ x.LabelFilter = Filter(Labels(x), {})
    /\ IF Component(x)
         THEN /\ a \in {1, 2, 3}
              /\ a = 2 => x.runs = <<>> /\ x.LabelFilter = Filter({"konflux"} \cup Labels(x), {})
              /\ a = 3 => InfraRun(x)
         ELSE /\ a \in {1, 2}
              /\ a = 2 => InfraRun(x)

\* The rules that a workflow may apply.
Applicable(x, m) ==
    \/ x.RepoName \in Services /\ m = <<ServiceRule(x.RepoName)>>
    \/ /\ x.RepoName = "release-service-catalog"
       /\ \/ m = <<ReleaseServiceCatalogCIPairedRule>> /\ (Stable(x) => Paired(x))
          \/ m = <<ReleaseServiceCatalogCIRule>> /\ (Stable(x) => NotPaired(x))
          \/ m = <<ReleaseServiceCatalogCIPairedRule, ReleaseServiceCatalogCIRule>> /\ ~Stable(x)

WorkflowApplied(x, m, a) ==
    /\ Prepared(x) /\ x.FocusFiles = {}
    /\ a \in {1, 2}
    /\ Applicable(x, m)
    /\ Stable(x) /\ a = 1 => x.runs = <<>> /\ Settled(x)
    /\ Stable(x) /\ a = 2 => WorkflowRun(x)

\* The loop over the matched rules and their actions.
ApplyInv ==
    pc = "apply" =>
        /\ ctx.catalog = "e2e-repo" => PreviewApplied(ctx, matched, act)
        /\ ctx.catalog = "infra-deployments" => InfraApplied(ctx, matched, act)
        /\ ctx.catalog = "ci" => WorkflowApplied(ctx, matched, act)

\* What is true of the RuleCtx all the time.
CtxInv(x) ==
    /\ RequiredOnly(x)
    /\ x.catalog # "ci" => x.DiffFiles = x.change
    /\ x.catalog = "infra-deployments" => x.change \subseteq InfraFiles
    /\ x.catalog = "ci" <=> x.RepoName \in AllRepos
    /\ x.runs # <<>> =>
         /\ x.catalog = "e2e-repo" => SelectedRun(x)
         /\ x.catalog = "infra-deployments" => InfraRun(x)
         /\ x.RepoName = "e2e-tests" => OneGoodRun(x)
         /\ x.RepoName \in AllRepos \ {"e2e-tests"} /\ Stable(x) => WorkflowRun(x)

\* RunRules and RunRulesOfCategory returned nil.
NilInv ==
    result = "nil" =>
        /\ pc = "done"
        /\ ctx.catalog = "e2e-repo" => ctx.runs # <<>>
        /\ ctx.catalog = "infra-deployments" => Empty(ctx) \/ ctx.runs # <<>>
        /\ ctx.catalog = "ci" =>
             ctx.runs # <<>> \/ ~Stable(ctx) \/ (ctx.RepoName = "e2e-tests" /\ ctx.skipBootstrap)

\* The inductive invariant.
IInv ==
    /\ TypeOK
    /\ StackInv
    /\ LoadInv
    /\ ApplyInv
    /\ CtxInv(ctx)
    /\ NilInv


-----------------------------------------------------------------------------
(* The conditions read the changed files only.                             *)

\* E2EHolds by cases.
LEMMA E2EHoldsIs ==
    ASSUME NEW x
    PROVE  /\ E2EHolds("CheckNoFilesChanged", x) <=> x.DiffFiles = {}
           /\ E2EHolds("CheckSharedFilesChanged", x) <=> Changed(x, SharedFiles)
           /\ E2EHolds("CheckReleasePipelinesTestsChanged", x) <=> Changed(x, ReleasePipelines)
           /\ E2EHolds("BuildTestsOnly", x) <=>
                ~Changed(x, {"build/build_templates_scenarios.go", "build/const.go",
                             "build/source_build.go"})
           /\ E2EHolds("BuildTemplateDependents", x) <=>
                Changed(x, {"build/build_templates_scenarios.go", "build/source_build.go"})
           /\ E2EHolds("BuildConst", x) <=> Changed(x, {"build/const.go"})
           /\ E2EHolds("ReleaseTests", x) <=> Changed(x, ReleaseTests)
           /\ E2EHolds("ReleaseHelpersOnly", x) <=>
                Changed(x, ReleaseHelpers) /\ ~Changed(x, ReleaseTests)
           /\ E2EHolds("DemoFiles", x) <=> Changed(x, DemoFiles)
           /\ E2EHolds("DemoConfigsOnly", x) <=> ~Changed(x, DemoFiles) /\ Changed(x, DemoConfigs)
           /\ E2EHolds("IntegrationConst", x) <=> Changed(x, IntegrationConsts)
           /\ E2EHolds("IntegrationFiles", x) <=> Changed(x, IntegrationFiles)
           /\ E2EHolds("EcFiles", x) <=> Changed(x, EcFiles)
  BY Zenon DEF E2EHolds

\* MappedFiles by cases.
LEMMA MappedFilesIs ==
    ASSUME NEW x
    PROVE  /\ MappedFiles("MapBuildTests", x) = x.DiffFiles \cap BuildFiles
           /\ MappedFiles("MapBuildTemplates", x) = {"build/build_templates.go"}
           /\ MappedFiles("MapChangedBuildTests", x) =
                x.DiffFiles \cap {"build/build_templates.go", "build/pac_build.go"}
           /\ MappedFiles("MapReleaseTests", x) = x.DiffFiles \cap ReleaseTests
           /\ MappedFiles("MapAllReleaseTests", x) = ReleaseTests
           /\ MappedFiles("MapDemoTests", x) = x.DiffFiles \cap DemoTests
           /\ MappedFiles("MapAllDemoTests", x) = DemoTests
           /\ MappedFiles("MapIntegrationTests", x) = x.DiffFiles \cap IntegrationTests
           /\ MappedFiles("MapAllIntegrationTests", x) = IntegrationTests
           /\ MappedFiles("MapEcTests", x) = x.DiffFiles \cap EcFiles
  BY Zenon DEF MappedFiles

\* InfraHolds by cases.
LEMMA InfraHoldsIs ==
    ASSUME NEW x
    PROVE  /\ InfraHolds("build-pipeline-config", x) <=> BuildConfig \in x.DiffFiles
           /\ InfraHolds("components/build-service", x) <=>
                Cardinality(x.DiffFiles \cap ({BuildConfig, BuildConfigOther} \cup {"components/build-service"}))
                  > Cardinality(x.DiffFiles \cap {BuildConfig, BuildConfigOther})
           /\ \A c \in InfraConditions \ {"build-pipeline-config", "components/build-service"} :
                InfraHolds(c, x) <=> c \in x.DiffFiles
<1>1. InfraHolds("build-pipeline-config", x) <=> BuildConfig \in x.DiffFiles
  BY Zenon DEF InfraHolds
<1>2. InfraHolds("components/build-service", x) <=>
        Cardinality(x.DiffFiles \cap ({BuildConfig, BuildConfigOther} \cup {"components/build-service"}))
          > Cardinality(x.DiffFiles \cap {BuildConfig, BuildConfigOther})
  BY Zenon DEF InfraHolds
<1>3. ASSUME NEW c \in InfraConditions \ {"build-pipeline-config", "components/build-service"}
      PROVE  InfraHolds(c, x) <=> c \in x.DiffFiles
  BY <1>3, Zenon DEF InfraHolds
<1> QED BY <1>1, <1>2, <1>3

\* The conditions and mappings agree on contexts with the same changed files.
LEMMA SameDiff ==
    ASSUME NEW x, NEW y, y.DiffFiles = x.DiffFiles
    PROVE  /\ \A c \in E2EConditions : E2EHolds(c, y) <=> E2EHolds(c, x)
           /\ \A c \in InfraConditions : InfraHolds(c, y) <=> InfraHolds(c, x)
           /\ \A a \in Mappings : MappedFiles(a, y) = MappedFiles(a, x)
<1>1. ASSUME NEW files PROVE Changed(y, files) <=> Changed(x, files)
  BY DEF Changed
<1>2. \A c \in E2EConditions : E2EHolds(c, y) <=> E2EHolds(c, x)
  BY <1>1, E2EHoldsIs DEF E2EConditions
<1>3. \A c \in InfraConditions : InfraHolds(c, y) <=> InfraHolds(c, x)
  <2>1. InfraHolds("build-pipeline-config", y) <=> InfraHolds("build-pipeline-config", x)
    BY InfraHoldsIs, Zenon
  <2>2. InfraHolds("components/build-service", y) <=> InfraHolds("components/build-service", x)
    BY InfraHoldsIs, Zenon
  <2>3. ASSUME NEW c \in InfraConditions \ {"build-pipeline-config", "components/build-service"}
        PROVE  InfraHolds(c, y) <=> InfraHolds(c, x)
    BY <2>3, InfraHoldsIs, Zenon
  <2> QED BY <2>1, <2>2, <2>3
<1>4. \A a \in Mappings : MappedFiles(a, y) = MappedFiles(a, x)
  <2>1. MappedFiles("MapBuildTests", y) = MappedFiles("MapBuildTests", x)
    BY MappedFilesIs, ZenonT(30)
  <2>2. MappedFiles("MapBuildTemplates", y) = MappedFiles("MapBuildTemplates", x)
    BY MappedFilesIs, ZenonT(30)
  <2>3. MappedFiles("MapChangedBuildTests", y) = MappedFiles("MapChangedBuildTests", x)
    BY MappedFilesIs, ZenonT(30)
  <2>4. MappedFiles("MapReleaseTests", y) = MappedFiles("MapReleaseTests", x)
    BY MappedFilesIs, ZenonT(30)
  <2>5. MappedFiles("MapAllReleaseTests", y) = MappedFiles("MapAllReleaseTests", x)
    BY MappedFilesIs, ZenonT(30)
  <2>6. MappedFiles("MapDemoTests", y) = MappedFiles("MapDemoTests", x)
    BY MappedFilesIs, ZenonT(30)
  <2>7. MappedFiles("MapAllDemoTests", y) = MappedFiles("MapAllDemoTests", x)
    BY MappedFilesIs, ZenonT(30)
  <2>8. MappedFiles("MapIntegrationTests", y) = MappedFiles("MapIntegrationTests", x)
    BY MappedFilesIs, ZenonT(30)
  <2>9. MappedFiles("MapAllIntegrationTests", y) = MappedFiles("MapAllIntegrationTests", x)
    BY MappedFilesIs, ZenonT(30)
  <2>10. MappedFiles("MapEcTests", y) = MappedFiles("MapEcTests", x)
    BY MappedFilesIs, ZenonT(30)
  <2> QED BY <2>1, <2>2, <2>3, <2>4, <2>5, <2>6, <2>7, <2>8, <2>9, <2>10 DEF Mappings
<1> QED BY <1>2, <1>3, <1>4

\* So do the facts made of them.
LEMMA SameFacts ==
    ASSUME NEW x, NEW y, y.DiffFiles = x.DiffFiles
    PROVE  /\ Shared(y) <=> Shared(x)
           /\ Empty(y) <=> Empty(x)
           /\ Pipelines(y) <=> Pipelines(x)
           /\ HelpersOnly(y) <=> HelpersOnly(x)
           /\ H1(y) <=> H1(x)
           /\ H2(y) <=> H2(x)
           /\ H3(y) <=> H3(x)
           /\ Component(y) <=> Component(x)
           /\ Labels(y) = Labels(x)
<1>1. Shared(y) <=> Shared(x)
  BY SameDiff DEF Shared, E2EConditions
<1>2. Empty(y) <=> Empty(x)
  BY SameDiff DEF Empty, E2EConditions
<1>3. Pipelines(y) <=> Pipelines(x)
  BY SameDiff DEF Pipelines, E2EConditions
<1>4. HelpersOnly(y) <=> HelpersOnly(x)
  BY SameDiff DEF HelpersOnly, E2EConditions
<1>5. Component(y) <=> Component(x)
  BY SameDiff DEF Component
<1>6. {d \in InfraConditions : InfraHolds(d, y)} = {d \in InfraConditions : InfraHolds(d, x)}
  BY SameDiff
<1>7. Labels(y) = Labels(x)
  BY <1>6, Zenon DEF Labels
<1> QED BY <1>1, <1>2, <1>3, <1>4, <1>5, <1>7 DEF H1, H2, H3

\* When only release helpers changed no pipeline test did.
LEMMA HelpersNoPipelines ==
    ASSUME NEW x
    PROVE  HelpersOnly(x) => ~Pipelines(x)
  BY E2EHoldsIs DEF HelpersOnly, Pipelines, Changed, ReleaseTests

\* The conditions of the rules of the catalog e2e-repo are exclusive and exhaustive.
LEMMA ExactlyOneHolds ==
    ASSUME NEW x
    PROVE  /\ H1(x) \/ H2(x) \/ H3(x)
           /\ ~(H1(x) /\ H2(x)) /\ ~(H1(x) /\ H3(x)) /\ ~(H2(x) /\ H3(x))
<1>1. ~(Empty(x) /\ Pipelines(x))
  BY E2EHoldsIs DEF Empty, Pipelines, Changed
<1> QED BY <1>1 DEF H1, H2, H3

-----------------------------------------------------------------------------
(* The rules of the catalogs, by the nodes above.                          *)

\* The fields of a node that a constructor of rule trees makes.
LEMMA NodeShape ==
    ASSUME NEW name, NEW kids, NEW actions
    PROVE  /\ ConditionFunc(name).op = "cond" /\ ConditionFunc(name).name = name
           /\ All(name, kids).op = "all" /\ All(name, kids).name = name
           /\ All(name, kids).kids = kids
           /\ Any(name, kids).op = "any" /\ Any(name, kids).name = name
           /\ Any(name, kids).kids = kids
           /\ None(name, kids).op = "none" /\ None(name, kids).name = name
           /\ None(name, kids).kids = kids
           /\ Rule(name, kids, actions).op = "rule" /\ Rule(name, kids, actions).name = name
           /\ Rule(name, kids, actions).kids = <<kids>>
           /\ Rule(name, kids, actions).actions = actions
  BY DEF ConditionFunc, All, Any, None, Rule

\* BootOf by cases.
LEMMA BootOfIs ==
    /\ BootOf("e2e-tests") = BootstrapClusterRuleChain
    /\ BootOf("release-service") = InstallKonfluxRule
    /\ BootOf("release-service-catalog") = InstallKonfluxRule
    /\ \A repo \in Services \ {"release-service"} :
         BootOf(repo) = BootstrapClusterWithSprayProxyRuleChain
  BY Zenon DEF BootOf, Services, AllRepos

\* SettingsAction by cases.
LEMMA SettingsActionIs ==
    /\ SettingsAction("e2e-tests") = "SetE2EDefaults"
    /\ SettingsAction("release-service-catalog") = "SetReleaseCatalogDefaults"
    /\ \A repo \in Services : SettingsAction(repo) = "SetServiceDefaults"
  BY Zenon DEF SettingsAction, Services, AllRepos

\* The rules of the catalog e2e-repo are made of the nodes above.
LEMMA TestRuleShapes ==
    /\ NonTestFilesRule = Rule("NonTestFiles", NonTestAll, <<"ExecuteDefaultTestAction">>)
    /\ NonTestFilesRuleWithReleasePipelines =
         Rule("NonTestFilesWithReleasePipelines", PipelinesAll,
              <<"ExecuteAllTestsExceptUpgradeTestSuite">>)
    /\ TestFilesOnlyRule = Rule("TestFilesOnly", FilesAll, <<"ExecuteTestAction">>)
  BY DEF NonTestFilesRule, NonTestAll, NonTestAny, NonTestNone,
         NonTestFilesRuleWithReleasePipelines, PipelinesAll, PipelinesAny,
         TestFilesOnlyRule, FilesAll, FilesNone, FilesAny

\* So are the rules that bootstrap the cluster.
LEMMA BootRuleShapes ==
    /\ RegisterKonfluxToSprayProxyRule = Rule("RegisterSprayProxy", SprayAny, <<"RegisterSprayProxy">>)
    /\ SetupMultiPlatformTestsRule =
         Rule("SetupMultiPlatformTests", MultiAny, <<"SetupMultiPlatformTests">>)
    /\ BootstrapClusterRuleChain = Rule("BootstrapCluster", BootAll, <<>>)
    /\ BootstrapClusterWithSprayProxyRuleChain =
         Rule("BootstrapClusterWithSprayProxy", SprayBootAll, <<>>)
  BY DEF RegisterKonfluxToSprayProxyRule, SprayAny, SetupMultiPlatformTestsRule, MultiAny,
         BootstrapClusterRuleChain, BootAll, BootstrapClusterWithSprayProxyRuleChain, SprayBootAll

\* So are the optional parts of the workflows.
LEMMA OptionalShapes ==
    /\ Optional(InfraDeploymentsPRPairingRule) = PairingAny
    /\ OptionalBootstrap(InstallKonfluxRule) = InstallAny
    /\ OptionalBootstrap(BootstrapClusterWithSprayProxyRuleChain) = SprayBootAny
<1>1. /\ InfraDeploymentsPRPairingRule.name = "InfraPairing"
      /\ InstallKonfluxRule.name = "InstallKonflux"
      /\ BootstrapClusterWithSprayProxyRuleChain.name = "BootstrapClusterWithSprayProxy"
  BY NodeShape DEF InfraDeploymentsPRPairingRule, InstallKonfluxRule, BootstrapClusterWithSprayProxyRuleChain
<1> QED BY <1>1 DEF Optional, OptionalBootstrap, PairingAny, PairingNone, InstallAny, InstallNone,
                   SprayBootAny, SprayBootNone

\* So are the workflow rules of CI.
LEMMA CIRuleShapes ==
    /\ E2ERepoCIRuleChain = Rule("E2ERepoCI", E2EAll, <<>>)
    /\ ReleaseServiceCatalogCIPairedRule =
         Rule("ReleaseServiceCatalogPaired", PairedAll, <<"ExecuteReleaseCatalogPairedAction">>)
    /\ ReleaseServiceCatalogCIRule =
         Rule("ReleaseServiceCatalog", UnpairedAll, <<"ExecuteReleaseCatalogAction">>)
    /\ \A repo \in Services : ServiceRule(repo) = Rule(repo, ServiceAll(repo), <<"ExecuteTestAction">>)
<1>1. E2ERepoCIRuleChain = Rule("E2ERepoCI", E2EAll, <<>>)
  BY OptionalShapes, SettingsActionIs, Zenon DEF E2ERepoCIRuleChain, E2EAll, E2EAny, Settings
<1>2. ReleaseServiceCatalogCIPairedRule =
         Rule("ReleaseServiceCatalogPaired", PairedAll, <<"ExecuteReleaseCatalogPairedAction">>)
  BY OptionalShapes, SettingsActionIs, Zenon DEF ReleaseServiceCatalogCIPairedRule, PairedAll, PairedNone, Settings
<1>3. ReleaseServiceCatalogCIRule =
         Rule("ReleaseServiceCatalog", UnpairedAll, <<"ExecuteReleaseCatalogAction">>)
  BY OptionalShapes, SettingsActionIs, Zenon DEF ReleaseServiceCatalogCIRule, UnpairedAll, UnpairedAny, UnpairedNone, Settings
<1>4. ASSUME NEW repo \in Services
      PROVE  ServiceRule(repo) = Rule(repo, ServiceAll(repo), <<"ExecuteTestAction">>)
  <2>1. OptionalBootstrap(BootOf(repo)) = IF repo = "release-service" THEN InstallAny ELSE SprayBootAny
    BY <1>4, BootOfIs, OptionalShapes
  <2> QED BY <1>4, <2>1, OptionalShapes, SettingsActionIs, Zenon
          DEF ServiceRule, ServiceCIRule, ServiceAll, Settings
<1> QED BY <1>1, <1>2, <1>3, <1>4

\* So are the rules of the catalog infra-deployments.
LEMMA InfraRuleShapes ==
    /\ InfraDeploymentsDefaultRule =
         Rule("InfraDeploymentsDefault", DefaultNone, <<"ExecuteInfraDeploymentsDefaultTestAction">>)
    /\ InfraDeploymentsComponentsRule =
         Rule("InfraDeploymentsComponents", ComponentsAny, <<"AddKonfluxLabel", "ExecuteTestAction">>)
  BY DEF InfraDeploymentsDefaultRule, DefaultNone, InfraDeploymentsComponentsRule, ComponentsAny, Rule

\* The rules of the catalog e2e-repo.
LEMMA TestShapes ==
    /\ NonTestFilesRule.op = "rule" /\ NonTestFilesRule.name = "NonTestFiles"
    /\ NonTestAll.op = "all" /\ NonTestAll.name = "NonTestFiles"
    /\ NonTestAll.kids = <<NonTestAny, NonTestNone>>
    /\ NonTestAny.op = "any" /\ NonTestAny.name = "NonTestFiles"
    /\ NonTestAny.kids = <<ConditionFunc("CheckSharedFilesChanged"), ConditionFunc("CheckNoFilesChanged")>>
    /\ NonTestNone.op = "none" /\ NonTestNone.name = "NonTestFiles"
    /\ NonTestNone.kids = <<ConditionFunc("CheckReleasePipelinesTestsChanged")>>
    /\ NonTestFilesRuleWithReleasePipelines.op = "rule"
    /\ NonTestFilesRuleWithReleasePipelines.name = "NonTestFilesWithReleasePipelines"
    /\ PipelinesAll.op = "all" /\ PipelinesAll.name = "NonTestFilesWithReleasePipelines"
    /\ PipelinesAll.kids = <<PipelinesAny, ConditionFunc("CheckReleasePipelinesTestsChanged")>>
    /\ PipelinesAny.op = "any" /\ PipelinesAny.name = "NonTestFilesWithReleasePipelines"
    /\ PipelinesAny.kids = <<ConditionFunc("CheckSharedFilesChanged"), ReleaseTestHelperFilesChangeOnlyRule>>
    /\ ReleaseTestHelperFilesChangeOnlyRule.op = "rule"
    /\ ReleaseTestHelperFilesChangeOnlyRule.name = "ReleaseTestHelperFilesChangeOnly"
    /\ TestFilesOnlyRule.op = "rule" /\ TestFilesOnlyRule.name = "TestFilesOnly"
    /\ FilesAll.op = "all" /\ FilesAll.name = "TestFilesOnly"
    /\ FilesAll.kids = <<FilesNone, FilesAny>>
    /\ FilesNone.op = "none" /\ FilesNone.name = "TestFilesOnly"
    /\ FilesNone.kids = <<ConditionFunc("CheckSharedFilesChanged"), ConditionFunc("CheckNoFilesChanged")>>
    /\ FilesAny.op = "any" /\ FilesAny.name = "TestFilesOnly"
  BY DEF NonTestFilesRule, NonTestAll, NonTestAny, NonTestNone,
         NonTestFilesRuleWithReleasePipelines, PipelinesAll, PipelinesAny,
         ReleaseTestHelperFilesChangeOnlyRule, TestFilesOnlyRule, FilesAll, FilesNone, FilesAny,
         Rule, All, Any, None

\* The bootstrap rules.
LEMMA BootShapes ==
    /\ InstallKonfluxRule.op = "rule" /\ InstallKonfluxRule.name = "InstallKonflux"
    /\ RegisterKonfluxToSprayProxyRule.op = "rule" /\ RegisterKonfluxToSprayProxyRule.name = "RegisterSprayProxy"
    /\ SprayAny.op = "any" /\ SprayAny.name = "RegisterSprayProxy"
    /\ SprayAny.kids = <<ConditionFunc("IsSprayProxyRequired")>>
    /\ SetupMultiPlatformTestsRule.op = "rule" /\ SetupMultiPlatformTestsRule.name = "SetupMultiPlatformTests"
    /\ MultiAny.op = "any" /\ MultiAny.name = "SetupMultiPlatformTests"
    /\ MultiAny.kids = <<ConditionFunc("IsMultiPlatformConfigRequired")>>
    /\ BootstrapClusterRuleChain.op = "rule" /\ BootstrapClusterRuleChain.name = "BootstrapCluster"
    /\ BootAll.op = "all" /\ BootAll.name = "BootstrapCluster"
    /\ BootAll.kids = <<InstallKonfluxRule, RegisterKonfluxToSprayProxyRule, SetupMultiPlatformTestsRule>>
    /\ BootstrapClusterWithSprayProxyRuleChain.op = "rule"
    /\ BootstrapClusterWithSprayProxyRuleChain.name = "BootstrapClusterWithSprayProxy"
    /\ SprayBootAll.op = "all" /\ SprayBootAll.name = "BootstrapClusterWithSprayProxy"
    /\ SprayBootAll.kids = <<InstallKonfluxRule, RegisterKonfluxToSprayProxyRule>>
    /\ InstallAny.op = "any" /\ InstallAny.name = "InstallKonflux"
    /\ InstallAny.kids = <<InstallNone, InstallKonfluxRule>>
    /\ InstallNone.op = "none" /\ InstallNone.name = "InstallKonflux"
    /\ InstallNone.kids = <<InstallKonfluxRule>>
    /\ SprayBootAny.op = "any" /\ SprayBootAny.name = "BootstrapClusterWithSprayProxy"
    /\ SprayBootAny.kids = <<SprayBootNone, BootstrapClusterWithSprayProxyRuleChain>>
    /\ SprayBootNone.op = "none" /\ SprayBootNone.name = "BootstrapClusterWithSprayProxy"
    /\ SprayBootNone.kids = <<BootstrapClusterWithSprayProxyRuleChain>>
  BY DEF InstallKonfluxRule, RegisterKonfluxToSprayProxyRule, SprayAny,
         SetupMultiPlatformTestsRule, MultiAny, BootstrapClusterRuleChain, BootAll,
         BootstrapClusterWithSprayProxyRuleChain, SprayBootAll, InstallAny, InstallNone,
         SprayBootAny, SprayBootNone, Rule, All, Any, None

\* The workflows.
LEMMA WorkflowShapes ==
    /\ \A repo \in AllRepos : Settings(repo).op = "rule" /\ Settings(repo).name = repo
    /\ \A repo \in AllRepos :
         /\ SettingsAny(repo).op = "any" /\ SettingsAny(repo).name = repo
         /\ SettingsAny(repo).kids = <<ConditionFunc(repo)>>
    /\ InfraDeploymentsPRPairingRule.op = "rule" /\ InfraDeploymentsPRPairingRule.name = "InfraPairing"
    /\ PairingAny.op = "any" /\ PairingAny.name = "InfraPairing"
    /\ PairingAny.kids = <<InfraDeploymentsPRPairingRule, PairingNone>>
    /\ PairingNone.op = "none" /\ PairingNone.name = "InfraPairing"
    /\ PairingNone.kids = <<InfraDeploymentsPRPairingRule>>
    /\ PreflightInstallGinkgoRule.op = "rule" /\ PreflightInstallGinkgoRule.name = "PreflightInstallGinkgo"
    /\ E2EAll.op = "all" /\ E2EAll.name = "E2ERepoCI"
    /\ E2EAll.kids = <<Settings("e2e-tests"), PairingAny, PreflightInstallGinkgoRule,
                       BootstrapClusterRuleChain, E2EAny>>
    /\ E2EAny.op = "any" /\ E2EAny.name = "E2ERepoCI"
    /\ E2EAny.kids = <<NonTestFilesRule, NonTestFilesRuleWithReleasePipelines, TestFilesOnlyRule>>
    /\ PairedAll.op = "all" /\ PairedAll.name = "ReleaseServiceCatalogPaired"
    /\ PairedAll.kids = <<ConditionFunc("isPaired"), PairedNone, Settings("release-service-catalog"),
                          PairingAny, PreflightInstallGinkgoRule, InstallAny>>
    /\ PairedNone.op = "none" /\ PairedNone.name = "ReleaseServiceCatalogPaired"
    /\ PairedNone.kids = <<ConditionFunc("isRehearse")>>
    /\ UnpairedAll.op = "all" /\ UnpairedAll.name = "ReleaseServiceCatalog"
    /\ UnpairedAll.kids = <<UnpairedAny, Settings("release-service-catalog"), PairingAny,
                            PreflightInstallGinkgoRule, InstallAny>>
    /\ UnpairedAny.op = "any" /\ UnpairedAny.name = "ReleaseServiceCatalog"
    /\ UnpairedAny.kids = <<UnpairedNone, ConditionFunc("isRehearse")>>
    /\ UnpairedNone.op = "none" /\ UnpairedNone.name = "ReleaseServiceCatalog"
    /\ UnpairedNone.kids = <<ConditionFunc("isPaired")>>
    /\ \A repo \in Services :
         /\ ServiceAll(repo).op = "all" /\ ServiceAll(repo).name = repo
         /\ ServiceAll(repo).kids = <<Settings(repo), PairingAny, PreflightInstallGinkgoRule,
                IF repo = "release-service" THEN InstallAny ELSE SprayBootAny>>
  BY DEF Settings, SettingsAny, InfraDeploymentsPRPairingRule, PairingAny, PairingNone,
         PreflightInstallGinkgoRule, E2EAll, E2EAny, PairedAll, PairedNone, UnpairedAll,
         UnpairedAny, UnpairedNone, ServiceAll, SetDefaultSettingsRule, Rule, All, Any, None

\* The catalog infra-deployments.
LEMMA InfraShapes ==
    /\ DefaultNone.op = "none" /\ DefaultNone.name = "InfraDeploymentsDefault"
    /\ ComponentsAny.op = "any" /\ ComponentsAny.name = "InfraDeploymentsComponents"
  BY DEF DefaultNone, ComponentsAny, InfraDeploymentsDefaultRule, InfraDeploymentsComponentsRule,
         Rule, Any, None

-----------------------------------------------------------------------------
(* The assertions, node by node.                                           *)

\* The assertions of a ConditionFunc: only those of CI are within a workflow.
LEMMA CondContract ==
    /\ \A c, x : Pre(ConditionFunc(c), x) <=> (c \notin E2EConditions \cup InfraConditions => Workflow(x))
    /\ \A c, r, x : Post(ConditionFunc(c), r, x) <=>
         /\ c \notin E2EConditions \cup InfraConditions => Workflow(x)
         /\ CondPost(c, r, x)
<1>1. \A c : ConditionFunc(c).op = "cond" /\ ConditionFunc(c).name = c
  BY DEF ConditionFunc
<1> QED BY <1>1 DEF Pre, Post, Need, TestNode, MapNode, InfraNode, WorkflowNode

USE DEF Pre, Loop, Post, Need, TestNode, MapNode, InfraNode, WorkflowNode, StageOf, Holding,
        TestNames, MapNames, InfraConditions, InfraComponents, Services, AllRepos,
        RulePost, AllLoop, AllPost, AnyLoop, AnyPost, NoneLoop, NonePost

\* The assertions of the rule NonTest.
LEMMA NonTestRuleIs ==
    /\ \A x : Pre(NonTestFilesRule, x) <=> Stage(0, x) /\ x.catalog = "ci"
    /\ \A x, i, b : Loop(NonTestFilesRule, i, b, x) <=> Stage(0, x) /\ x.catalog = "ci"
    /\ \A x, r : Post(NonTestFilesRule, r, x) <=> Stage(1, x) /\ (r = "true" <=> H1(x))
  BY TestShapes

\* The assertions of NonTestAll.
LEMMA NonTestAllIs ==
    /\ \A x : Pre(NonTestAll, x) <=> Stage(0, x)
    /\ \A x, i, b : Loop(NonTestAll, i, b, x) <=> Stage(0, x) /\ (i > 2 => Shared(x) \/ Empty(x))
    /\ \A x, r : Post(NonTestAll, r, x) <=> Stage(0, x) /\ (r = "true" <=> H1(x))
  BY TestShapes

\* The assertions of NonTestAny.
LEMMA NonTestAnyIs ==
    /\ \A x : Pre(NonTestAny, x) <=> Stage(0, x)
    /\ \A x, i, b : Loop(NonTestAny, i, b, x) <=> Stage(0, x) /\ (i = 2 => ~b) /\ (i > 2 => (b <=> Shared(x)))
    /\ \A x, r : Post(NonTestAny, r, x) <=> Stage(0, x) /\ (r = "true" <=> Shared(x) \/ Empty(x))
  BY TestShapes

\* The assertions of NonTestNone.
LEMMA NonTestNoneIs ==
    /\ \A x : Pre(NonTestNone, x) <=> Stage(0, x)
    /\ \A x, i, b : Loop(NonTestNone, i, b, x) <=> Stage(0, x)
    /\ \A x, r : Post(NonTestNone, r, x) <=> Stage(0, x) /\ (r = "true" <=> ~Pipelines(x))
  BY TestShapes

\* The assertions of the rule Pipelines.
LEMMA PipelinesRuleIs ==
    /\ \A x : Pre(NonTestFilesRuleWithReleasePipelines, x) <=> Stage(1, x) /\ x.catalog = "ci"
    /\ \A x, i, b : Loop(NonTestFilesRuleWithReleasePipelines, i, b, x) <=> Stage(1, x) /\ x.catalog = "ci"
    /\ \A x, r : Post(NonTestFilesRuleWithReleasePipelines, r, x) <=> Stage(2, x) /\ (r = "true" <=> H2(x))
  BY TestShapes

\* The assertions of PipelinesAll.
LEMMA PipelinesAllIs ==
    /\ \A x : Pre(PipelinesAll, x) <=> Stage(1, x)
    /\ \A x, i, b : Loop(PipelinesAll, i, b, x) <=> Stage(1, x) /\ (i > 2 => Shared(x) \/ HelpersOnly(x))
    /\ \A x, r : Post(PipelinesAll, r, x) <=> Stage(1, x) /\ (r = "true" <=> H2(x))
  BY TestShapes

\* The assertions of PipelinesAny.
LEMMA PipelinesAnyIs ==
    /\ \A x : Pre(PipelinesAny, x) <=> Stage(1, x)
    /\ \A x, i, b : Loop(PipelinesAny, i, b, x) <=> Stage(1, x) /\ (i = 2 => ~b) /\ (i > 2 => (b <=> Shared(x)))
    /\ \A x, r : Post(PipelinesAny, r, x) <=> Stage(1, x) /\ (r = "true" <=> Shared(x) \/ HelpersOnly(x))
  BY TestShapes

\* The assertions of the rule Files.
LEMMA FilesRuleIs ==
    /\ \A x : Pre(TestFilesOnlyRule, x) <=> Stage(2, x) /\ x.catalog = "ci"
    /\ \A x, i, b : Loop(TestFilesOnlyRule, i, b, x) <=> Stage(2, x) /\ x.catalog = "ci"
    /\ \A x, r : Post(TestFilesOnlyRule, r, x) <=> Stage(3, x) /\ (r = "true" <=> H3(x))
  BY TestShapes

\* The assertions of FilesAll.
LEMMA FilesAllIs ==
    /\ \A x : Pre(FilesAll, x) <=> Stage(2, x)
    /\ \A x, i, b : Loop(FilesAll, i, b, x) <=> Stage(2, x) /\ (i > 2 => H3(x))
    /\ \A x, r : Post(FilesAll, r, x) <=> 
                Stage(2, x) /\ (r = "true" <=> H3(x)) /\ (r = "true" => SpecsFocused(x))
  BY TestShapes

\* The assertions of FilesNone.
LEMMA FilesNoneIs ==
    /\ \A x : Pre(FilesNone, x) <=> Stage(2, x)
    /\ \A x, i, b : Loop(FilesNone, i, b, x) <=> Stage(2, x) /\ (i > 2 => ~Shared(x))
    /\ \A x, r : Post(FilesNone, r, x) <=> Stage(2, x) /\ (r = "true" <=> H3(x))
  BY TestShapes

\* The assertions of FilesAny.
LEMMA FilesAnyIs ==
    /\ \A x : Pre(FilesAny, x) <=> Stage(2, x) /\ H3(x)
    /\ \A x, i, b : Loop(FilesAny, i, b, x) <=> 
         /\ Stage(2, x) /\ H3(x)
         /\ i = 2 => ~b
         /\ b <=> \E k \in 1..(i - 2) : E2EHolds(FilesAny.kids[k].kids[1].name, x)
         /\ \A k \in 1..(i - 2) : E2EHolds(FilesAny.kids[k].kids[1].name, x) =>
              MappedFiles(FilesAny.kids[k].actions[1], x) \subseteq x.FocusFiles
    /\ \A x, r : Post(FilesAny, r, x) <=> Stage(2, x) /\ H3(x) /\ r = "true" /\ SpecsFocused(x)
  BY TestShapes

\* The assertions of DefaultNone.
LEMMA DefaultNoneIs ==
    /\ \A x : Pre(DefaultNone, x) <=> Infra(x)
    /\ \A x, i, b : Loop(DefaultNone, i, b, x) <=> 
                Infra(x) /\ (\A k \in 1..(i - 2) : ~InfraHolds(DefaultNone.kids[k].name, x))
    /\ \A x, r : Post(DefaultNone, r, x) <=> Infra(x) /\ (r = "true" <=> ~Component(x) /\ ~Empty(x))
  BY InfraShapes

\* The assertions of ComponentsAny.
LEMMA ComponentsAnyIs ==
    /\ \A x : Pre(ComponentsAny, x) <=> Infra(x)
    /\ \A x, i, b : Loop(ComponentsAny, i, b, x) <=> 
         /\ Infra(x)
         /\ i = 2 => ~b
         /\ b <=> \E k \in 1..(i - 2) : InfraHolds(ComponentsAny.kids[k].name, x)
         /\ \A k \in 1..(i - 2) : InfraHolds(ComponentsAny.kids[k].name, x) =>
              LabelOf(ComponentsAny.kids[k].name) \in x.LabelFilter.only
    /\ \A x, r : Post(ComponentsAny, r, x) <=> 
                Infra(x) /\ (r = "true" <=> Component(x)) /\ Labels(x) \subseteq x.LabelFilter.only
  BY InfraShapes

\* The assertions of the rule Install.
LEMMA InstallRuleIs ==
    /\ \A x : Pre(InstallKonfluxRule, x) <=> Workflow(x)
    /\ \A x, i, b : Loop(InstallKonfluxRule, i, b, x) <=> TRUE
    /\ \A x, r : Post(InstallKonfluxRule, r, x) <=> 
                /\ Workflow(x)
                /\ r = "true" <=> ~x.skipBootstrap
                /\ r = "true" => Booted("InstallKonflux", x)
  BY BootShapes

\* The assertions of the rule Spray.
LEMMA SprayRuleIs ==
    /\ \A x : Pre(RegisterKonfluxToSprayProxyRule, x) <=> Workflow(x) /\ x.RequiresSprayProxyRegistering
    /\ \A x, i, b : Loop(RegisterKonfluxToSprayProxyRule, i, b, x) <=> x.RequiresSprayProxyRegistering
    /\ \A x, r : Post(RegisterKonfluxToSprayProxyRule, r, x) <=> Workflow(x) /\ r = "true" /\ Reachable(x)
  BY BootShapes

\* The assertions of SprayAny.
LEMMA SprayAnyIs ==
    /\ \A x : Pre(SprayAny, x) <=> Workflow(x) /\ x.RequiresSprayProxyRegistering
    /\ \A x, i, b : Loop(SprayAny, i, b, x) <=> x.RequiresSprayProxyRegistering /\ (i = 2 => ~b)
    /\ \A x, r : Post(SprayAny, r, x) <=> Workflow(x) /\ r = "true"
  BY BootShapes

\* The assertions of the rule Multi.
LEMMA MultiRuleIs ==
    /\ \A x : Pre(SetupMultiPlatformTestsRule, x) <=> Workflow(x) /\ x.RequiresMultiPlatformTests
    /\ \A x, i, b : Loop(SetupMultiPlatformTestsRule, i, b, x) <=> x.RequiresMultiPlatformTests
    /\ \A x, r : Post(SetupMultiPlatformTestsRule, r, x) <=> Workflow(x) /\ r = "true" /\ x.multiPlatform
  BY BootShapes

\* The assertions of MultiAny.
LEMMA MultiAnyIs ==
    /\ \A x : Pre(MultiAny, x) <=> Workflow(x) /\ x.RequiresMultiPlatformTests
    /\ \A x, i, b : Loop(MultiAny, i, b, x) <=> x.RequiresMultiPlatformTests /\ (i = 2 => ~b)
    /\ \A x, r : Post(MultiAny, r, x) <=> Workflow(x) /\ r = "true"
  BY BootShapes

\* The assertions of BootChain.
LEMMA BootChainIs ==
    /\ \A x : Pre(BootstrapClusterRuleChain, x) <=> Workflow(x) /\ x.RequiresSprayProxyRegistering /\ x.RequiresMultiPlatformTests
    /\ \A x, i, b : Loop(BootstrapClusterRuleChain, i, b, x) <=> x.RequiresSprayProxyRegistering /\ x.RequiresMultiPlatformTests
    /\ \A x, r : Post(BootstrapClusterRuleChain, r, x) <=> 
                /\ Workflow(x)
                /\ r = "true" <=> ~x.skipBootstrap
                /\ r = "true" => Booted("BootstrapCluster", x)
  BY BootShapes

\* The assertions of BootAll.
LEMMA BootAllIs ==
    /\ \A x : Pre(BootAll, x) <=> Workflow(x) /\ x.RequiresSprayProxyRegistering /\ x.RequiresMultiPlatformTests
    /\ \A x, i, b : Loop(BootAll, i, b, x) <=> 
         /\ x.RequiresSprayProxyRegistering /\ x.RequiresMultiPlatformTests
         /\ i > 2 => ~x.skipBootstrap /\ x.installs > 0
         /\ i > 3 => Reachable(x)
    /\ \A x, r : Post(BootAll, r, x) <=> 
                /\ Workflow(x)
                /\ r = "true" <=> ~x.skipBootstrap
                /\ r = "true" => Booted("BootstrapCluster", x)
  BY BootShapes

\* The assertions of SprayBootChain.
LEMMA SprayBootChainIs ==
    /\ \A x : Pre(BootstrapClusterWithSprayProxyRuleChain, x) <=> Workflow(x) /\ x.RequiresSprayProxyRegistering
    /\ \A x, i, b : Loop(BootstrapClusterWithSprayProxyRuleChain, i, b, x) <=> x.RequiresSprayProxyRegistering
    /\ \A x, r : Post(BootstrapClusterWithSprayProxyRuleChain, r, x) <=> 
                /\ Workflow(x)
                /\ r = "true" <=> ~x.skipBootstrap
                /\ r = "true" => Booted("BootstrapClusterWithSprayProxy", x)
  BY BootShapes

\* The assertions of SprayBootAll.
LEMMA SprayBootAllIs ==
    /\ \A x : Pre(SprayBootAll, x) <=> Workflow(x) /\ x.RequiresSprayProxyRegistering
    /\ \A x, i, b : Loop(SprayBootAll, i, b, x) <=> 
         /\ x.RequiresSprayProxyRegistering
         /\ i > 2 => ~x.skipBootstrap /\ x.installs > 0
         /\ i > 3 => Reachable(x)
    /\ \A x, r : Post(SprayBootAll, r, x) <=> 
                /\ Workflow(x)
                /\ r = "true" <=> ~x.skipBootstrap
                /\ r = "true" => Booted("BootstrapClusterWithSprayProxy", x)
  BY BootShapes

\* The assertions of InstallAny.
LEMMA InstallAnyIs ==
    /\ \A x : Pre(InstallAny, x) <=> Workflow(x)
    /\ \A x, i, b : Loop(InstallAny, i, b, x) <=> (i = 2 => ~b) /\ (i > 2 => (b <=> x.skipBootstrap))
    /\ \A x, r : Post(InstallAny, r, x) <=> 
                Workflow(x) /\ r = "true" /\ (x.skipBootstrap \/ Booted("InstallKonflux", x))
  BY BootShapes

\* The assertions of InstallNone.
LEMMA InstallNoneIs ==
    /\ \A x : Pre(InstallNone, x) <=> Workflow(x)
    /\ \A x, i, b : Loop(InstallNone, i, b, x) <=> TRUE
    /\ \A x, r : Post(InstallNone, r, x) <=> Workflow(x) /\ (r = "true" <=> x.skipBootstrap)
  BY BootShapes

\* The assertions of SprayBootAny.
LEMMA SprayBootAnyIs ==
    /\ \A x : Pre(SprayBootAny, x) <=> Workflow(x) /\ x.RequiresSprayProxyRegistering
    /\ \A x, i, b : Loop(SprayBootAny, i, b, x) <=> x.RequiresSprayProxyRegistering /\ (i = 2 => ~b) /\ (i > 2 => (b <=> x.skipBootstrap))
    /\ \A x, r : Post(SprayBootAny, r, x) <=> 
                /\ Workflow(x) /\ r = "true"
                /\ x.skipBootstrap \/ Booted("BootstrapClusterWithSprayProxy", x)
  BY BootShapes

\* The assertions of SprayBootNone.
LEMMA SprayBootNoneIs ==
    /\ \A x : Pre(SprayBootNone, x) <=> Workflow(x) /\ x.RequiresSprayProxyRegistering
    /\ \A x, i, b : Loop(SprayBootNone, i, b, x) <=> x.RequiresSprayProxyRegistering
    /\ \A x, r : Post(SprayBootNone, r, x) <=> Workflow(x) /\ (r = "true" <=> x.skipBootstrap)
  BY BootShapes

\* The assertions of the rule Pairing.
LEMMA PairingRuleIs ==
    /\ \A x : Pre(InfraDeploymentsPRPairingRule, x) <=> Workflow(x)
    /\ \A x, i, b : Loop(InfraDeploymentsPRPairingRule, i, b, x) <=> TRUE
    /\ \A x, r : Post(InfraDeploymentsPRPairingRule, r, x) <=> Workflow(x) /\ Asked("infra-deployments", r, x)
  BY WorkflowShapes

\* The assertions of PairingAny.
LEMMA PairingAnyIs ==
    /\ \A x : Pre(PairingAny, x) <=> Workflow(x)
    /\ \A x, i, b : Loop(PairingAny, i, b, x) <=> 
                (i = 2 => ~b) /\ (i > 2 => b \/ Asked("infra-deployments", "false", x))
    /\ \A x, r : Post(PairingAny, r, x) <=> Workflow(x) /\ (r = "true" \/ ~Stable(x))
  BY WorkflowShapes

\* The assertions of PairingNone.
LEMMA PairingNoneIs ==
    /\ \A x : Pre(PairingNone, x) <=> Workflow(x)
    /\ \A x, i, b : Loop(PairingNone, i, b, x) <=> TRUE
    /\ \A x, r : Post(PairingNone, r, x) <=> 
                Workflow(x) /\ Asked("infra-deployments", IF r = "true" THEN "false" ELSE "true", x)
  BY WorkflowShapes

\* The assertions of the rule Preflight.
LEMMA PreflightRuleIs ==
    /\ \A x : Pre(PreflightInstallGinkgoRule, x) <=> Workflow(x)
    /\ \A x, i, b : Loop(PreflightInstallGinkgoRule, i, b, x) <=> TRUE
    /\ \A x, r : Post(PreflightInstallGinkgoRule, r, x) <=> Workflow(x) /\ r = "true" /\ x.ginkgo
  BY WorkflowShapes

\* The assertions of the rule Settings.
LEMMA SettingsRuleIs ==
    /\ \A repo \in AllRepos : \A x : Pre(Settings(repo), x) <=> Workflow(x)
    /\ \A repo \in AllRepos : \A x, i, b : Loop(Settings(repo), i, b, x) <=> TRUE
    /\ \A repo \in AllRepos : \A x, r : Post(Settings(repo), r, x) <=> 
                Workflow(x) /\ (r = "true" <=> x.RepoName = repo) /\ (r = "true" => Settled(x))
<1>1. \A repo \in AllRepos :
        /\ ~TestNode(Settings(repo)) /\ ~MapNode(Settings(repo)) /\ ~InfraNode(Settings(repo)) /\ WorkflowNode(Settings(repo))
        /\ repo \notin TestNames \cup MapNames \cup InfraConditions
  BY WorkflowShapes
<1>n. \A repo \in AllRepos : Settings(repo).name = repo /\ Settings(repo).op = "rule"
  BY WorkflowShapes
<1>r. \A repo \in AllRepos : repo \notin {"E2ERepoCI", "InfraPairing", "PreflightInstallGinkgo",
        "RegisterSprayProxy", "SetupMultiPlatformTests", "InstallKonflux", "BootstrapCluster",
        "BootstrapClusterWithSprayProxy", "InfraDeploymentsComponents", "InfraDeploymentsDefault",
        "NonTestFiles", "NonTestFilesWithReleasePipelines", "TestFilesOnly",
        "ReleaseServiceCatalogPaired", "ReleaseServiceCatalog"}
  OBVIOUS
<1> HIDE DEF TestNode, MapNode, InfraNode, WorkflowNode, TestNames, MapNames, InfraConditions
<1>2. \A repo \in AllRepos : \A x : Need(Settings(repo), x)
  BY <1>1, <1>n, <1>r
<1>3. \A repo \in AllRepos : \A x : Pre(Settings(repo), x) <=> Workflow(x)
  BY <1>1, <1>2, <1>n, <1>r DEF Pre
<1>4. \A repo \in AllRepos : \A x, i, b : Loop(Settings(repo), i, b, x) <=> TRUE
  BY <1>1, <1>2, <1>n, <1>r
<1>5. \A repo \in AllRepos : \A x, r : Post(Settings(repo), r, x) <=> 
                Workflow(x) /\ (r = "true" <=> x.RepoName = repo) /\ (r = "true" => Settled(x))
  BY <1>1, <1>2, <1>n, <1>r
<1> QED BY <1>3, <1>4, <1>5

\* The assertions of SettingsAny.
LEMMA SettingsAnyIs ==
    /\ \A repo \in AllRepos : \A x : Pre(SettingsAny(repo), x) <=> Workflow(x)
    /\ \A repo \in AllRepos : \A x, i, b : Loop(SettingsAny(repo), i, b, x) <=> (i = 2 => ~b)
    /\ \A repo \in AllRepos : \A x, r : Post(SettingsAny(repo), r, x) <=> Workflow(x) /\ (r = "true" <=> x.RepoName = repo)
<1>1. \A repo \in AllRepos :
        /\ ~TestNode(SettingsAny(repo)) /\ ~MapNode(SettingsAny(repo)) /\ ~InfraNode(SettingsAny(repo)) /\ WorkflowNode(SettingsAny(repo))
        /\ repo \notin TestNames \cup MapNames \cup InfraConditions
  BY WorkflowShapes
<1>n. \A repo \in AllRepos : SettingsAny(repo).name = repo /\ SettingsAny(repo).op = "any"
  BY WorkflowShapes
<1>r. \A repo \in AllRepos : repo \notin {"E2ERepoCI", "InfraPairing", "PreflightInstallGinkgo",
        "RegisterSprayProxy", "SetupMultiPlatformTests", "InstallKonflux", "BootstrapCluster",
        "BootstrapClusterWithSprayProxy", "InfraDeploymentsComponents", "InfraDeploymentsDefault",
        "NonTestFiles", "NonTestFilesWithReleasePipelines", "TestFilesOnly",
        "ReleaseServiceCatalogPaired", "ReleaseServiceCatalog"}
  OBVIOUS
<1> HIDE DEF TestNode, MapNode, InfraNode, WorkflowNode, TestNames, MapNames, InfraConditions
<1>2. \A repo \in AllRepos : \A x : Need(SettingsAny(repo), x)
  BY <1>1, <1>n, <1>r
<1>3. \A repo \in AllRepos : \A x : Pre(SettingsAny(repo), x) <=> Workflow(x)
  BY <1>1, <1>2, <1>n, <1>r DEF Pre
<1>4. \A repo \in AllRepos : \A x, i, b : Loop(SettingsAny(repo), i, b, x) <=> (i = 2 => ~b)
  BY <1>1, <1>2, <1>n, <1>r
<1>5. \A repo \in AllRepos : \A x, r : Post(SettingsAny(repo), r, x) <=> Workflow(x) /\ (r = "true" <=> x.RepoName = repo)
  BY <1>1, <1>2, <1>n, <1>r
<1> QED BY <1>3, <1>4, <1>5

\* The assertions of ServiceAll.
LEMMA ServiceAllIs ==
    /\ \A repo \in Services : \A x : Pre(ServiceAll(repo), x) <=> Workflow(x)
    /\ \A repo \in Services : \A x, i, b : Loop(ServiceAll(repo), i, b, x) <=> 
                (i > 2 => x.RepoName = repo /\ Settled(x)) /\ (i > 4 => x.ginkgo)
    /\ \A repo \in Services : \A x, r : Post(ServiceAll(repo), r, x) <=> 
         /\ Workflow(x)
         /\ IF r = "true" THEN x.RepoName = repo /\ Settled(x) /\ Prepared(x)
                          ELSE x.RepoName # repo \/ ~Stable(x)
<1>1. \A repo \in Services :
        /\ ~TestNode(ServiceAll(repo)) /\ ~MapNode(ServiceAll(repo)) /\ ~InfraNode(ServiceAll(repo)) /\ WorkflowNode(ServiceAll(repo))
        /\ repo \notin TestNames \cup MapNames \cup InfraConditions
  BY WorkflowShapes
<1>n. \A repo \in Services : ServiceAll(repo).name = repo /\ ServiceAll(repo).op = "all"
  BY WorkflowShapes
<1>r. \A repo \in Services : repo \notin {"E2ERepoCI", "InfraPairing", "PreflightInstallGinkgo",
        "RegisterSprayProxy", "SetupMultiPlatformTests", "InstallKonflux", "BootstrapCluster",
        "BootstrapClusterWithSprayProxy", "InfraDeploymentsComponents", "InfraDeploymentsDefault",
        "NonTestFiles", "NonTestFilesWithReleasePipelines", "TestFilesOnly",
        "ReleaseServiceCatalogPaired", "ReleaseServiceCatalog"}
  OBVIOUS
<1> HIDE DEF TestNode, MapNode, InfraNode, WorkflowNode, TestNames, MapNames, InfraConditions
<1>2. \A repo \in Services : \A x : Need(ServiceAll(repo), x)
  BY <1>1, <1>n, <1>r
<1>3. \A repo \in Services : \A x : Pre(ServiceAll(repo), x) <=> Workflow(x)
  BY <1>1, <1>2, <1>n, <1>r DEF Pre
<1>4. \A repo \in Services : \A x, i, b : Loop(ServiceAll(repo), i, b, x) <=> 
                (i > 2 => x.RepoName = repo /\ Settled(x)) /\ (i > 4 => x.ginkgo)
  BY <1>1, <1>2, <1>n, <1>r
<1>5. \A repo \in Services : \A x, r : Post(ServiceAll(repo), r, x) <=> 
         /\ Workflow(x)
         /\ IF r = "true" THEN x.RepoName = repo /\ Settled(x) /\ Prepared(x)
                          ELSE x.RepoName # repo \/ ~Stable(x)
  BY <1>1, <1>2, <1>n, <1>r
<1> QED BY <1>3, <1>4, <1>5

\* The assertions of E2EAll.
LEMMA E2EAllIs ==
    /\ \A x : Pre(E2EAll, x) <=> Workflow(x)
    /\ \A x, i, b : Loop(E2EAll, i, b, x) <=> 
         /\ i > 2 => x.RepoName = "e2e-tests" /\ Settled(x)
         /\ i > 4 => x.ginkgo
         /\ i > 5 => Booted("BootstrapCluster", x)
    /\ \A x, r : Post(E2EAll, r, x) <=> 
         IF r = "true" THEN x.RepoName = "e2e-tests" /\ Stage(3, x)
         ELSE /\ Workflow(x)
              /\ x.RepoName # "e2e-tests" \/ ~Stable(x) \/ x.skipBootstrap
  BY WorkflowShapes

\* The assertions of E2EAny.
LEMMA E2EAnyIs ==
    /\ \A x : Pre(E2EAny, x) <=> x.catalog = "ci" /\ x.DiffFiles = x.change /\ Stage(0, x)
    /\ \A x, i, b : Loop(E2EAny, i, b, x) <=> 
         /\ x.catalog = "ci" /\ x.DiffFiles = x.change
         /\ i = 2 => ~b
         /\ b <=> (i > 2 /\ H1(x)) \/ (i > 3 /\ H2(x))
    /\ \A x, r : Post(E2EAny, r, x) <=> r = "true" /\ Stage(3, x)
  BY WorkflowShapes

\* The assertions of PairedAll.
LEMMA PairedAllIs ==
    /\ \A x : Pre(PairedAll, x) <=> Workflow(x)
    /\ \A x, i, b : Loop(PairedAll, i, b, x) <=> 
         /\ i > 2 => Asked("release-service", "true", x)
         /\ i > 3 => ~x.rehearse
         /\ i > 4 => x.RepoName = "release-service-catalog" /\ Settled(x)
         /\ i > 6 => x.ginkgo
    /\ \A x, r : Post(PairedAll, r, x) <=> 
         /\ Workflow(x)
         /\ IF r = "true"
              THEN /\ x.RepoName = "release-service-catalog"
                   /\ Settled(x) /\ Prepared(x) /\ Paired(x)
              ELSE x.RepoName # "release-service-catalog" \/ ~Stable(x) \/ NotPaired(x)
  BY WorkflowShapes

\* The assertions of PairedNone.
LEMMA PairedNoneIs ==
    /\ \A x : Pre(PairedNone, x) <=> Workflow(x)
    /\ \A x, i, b : Loop(PairedNone, i, b, x) <=> TRUE
    /\ \A x, r : Post(PairedNone, r, x) <=> Workflow(x) /\ (r = "true" <=> ~x.rehearse)
  BY WorkflowShapes

\* The assertions of UnpairedAll.
LEMMA UnpairedAllIs ==
    /\ \A x : Pre(UnpairedAll, x) <=> Workflow(x)
    /\ \A x, i, b : Loop(UnpairedAll, i, b, x) <=> 
         /\ i > 2 => NotPaired(x)
         /\ i > 3 => x.RepoName = "release-service-catalog" /\ Settled(x)
         /\ i > 5 => x.ginkgo
    /\ \A x, r : Post(UnpairedAll, r, x) <=> 
         /\ Workflow(x)
         /\ IF r = "true"
              THEN /\ x.RepoName = "release-service-catalog"
                   /\ Settled(x) /\ Prepared(x) /\ NotPaired(x)
              ELSE x.RepoName # "release-service-catalog" \/ ~Stable(x) \/ Paired(x)
  BY WorkflowShapes

\* The assertions of UnpairedAny.
LEMMA UnpairedAnyIs ==
    /\ \A x : Pre(UnpairedAny, x) <=> Workflow(x)
    /\ \A x, i, b : Loop(UnpairedAny, i, b, x) <=> 
         /\ i = 2 => ~b
         /\ i > 2 => Asked("release-service", IF b THEN "false" ELSE "true", x)
    /\ \A x, r : Post(UnpairedAny, r, x) <=> Workflow(x) /\ IF r = "true" THEN NotPaired(x) ELSE Paired(x)
  BY WorkflowShapes

\* The assertions of UnpairedNone.
LEMMA UnpairedNoneIs ==
    /\ \A x : Pre(UnpairedNone, x) <=> Workflow(x)
    /\ \A x, i, b : Loop(UnpairedNone, i, b, x) <=> TRUE
    /\ \A x, r : Post(UnpairedNone, r, x) <=> 
                Workflow(x) /\ Asked("release-service", IF r = "true" THEN "false" ELSE "true", x)
  BY WorkflowShapes

HIDE DEF Pre, Loop, Post, Need, TestNode, MapNode, InfraNode, WorkflowNode, StageOf, Holding,
         TestNames, MapNames, InfraConditions, InfraComponents, Services, AllRepos,
         RulePost, AllLoop, AllPost, AnyLoop, AnyPost, NoneLoop, NonePost

-----------------------------------------------------------------------------
(* All: the assertions fit together.                                       *)

\* The first child is called, the next one after a true one, and All returns
\* after the last or a false one.
AllFits(n, b, x) ==
    /\ Pre(n, x) => Pre(n.kids[1], x) /\ Loop(n, 2, b, x)
    /\ \A i \in 2..Len(n.kids) :
         Loop(n, i, b, x) /\ Post(n.kids[i - 1], "true", x)
           => Pre(n.kids[i], x) /\ Loop(n, i + 1, b, x)
    /\ Loop(n, Len(n.kids) + 1, b, x) /\ Post(n.kids[Len(n.kids)], "true", x) => Post(n, "true", x)
    /\ \A i \in 2..(Len(n.kids) + 1) :
         Loop(n, i, b, x) /\ Post(n.kids[i - 1], "false", x) => Post(n, "false", x)

\* What the answer of a ConditionFunc says.
LEMMA CondPosts ==
    /\ \A x, r : Post(ConditionFunc("CheckReleasePipelinesTestsChanged"), r, x) <=>
         (r = "true" <=> Pipelines(x))
    /\ \A x, r : Post(ConditionFunc("CheckSharedFilesChanged"), r, x) <=> (r = "true" <=> Shared(x))
    /\ \A x, r : Post(ConditionFunc("CheckNoFilesChanged"), r, x) <=> (r = "true" <=> Empty(x))
    /\ \A x, r : Post(ConditionFunc("isPaired"), r, x) <=>
         Workflow(x) /\ Asked("release-service", r, x)
    /\ \A x, r : Post(ConditionFunc("isRehearse"), r, x) <=> Workflow(x) /\ (r = "true" <=> x.rehearse)
    /\ \A x, r : Post(ConditionFunc("IsSprayProxyRequired"), r, x) <=>
         Workflow(x) /\ (r = "true" <=> x.RequiresSprayProxyRegistering)
    /\ \A x, r : Post(ConditionFunc("IsMultiPlatformConfigRequired"), r, x) <=>
         Workflow(x) /\ (r = "true" <=> x.RequiresMultiPlatformTests)
    /\ \A repo \in AllRepos : \A x, r :
         Post(ConditionFunc(repo), r, x) <=> Workflow(x) /\ (r = "true" <=> x.RepoName = repo)
  BY CondContract DEF CondPost, E2EConditions, InfraConditions, InfraComponents, AllRepos,
     Pipelines, Shared, Empty

\* When a ConditionFunc may be called.
LEMMA CondPres ==
    /\ \A c \in E2EConditions \cup InfraConditions : \A x : Pre(ConditionFunc(c), x)
    /\ \A c \in CIConditions \cup AllRepos : \A x : Pre(ConditionFunc(c), x) <=> Workflow(x)
  BY CondContract DEF E2EConditions, InfraConditions, InfraComponents, AllRepos, CIConditions

\* The names of the bootstrap rules.
LEMMA BootNames ==
    /\ BootOf("e2e-tests").name = "BootstrapCluster"
    /\ BootOf("release-service").name = "InstallKonflux"
    /\ BootOf("release-service-catalog").name = "InstallKonflux"
    /\ \A repo \in Services \ {"release-service"} : BootOf(repo).name = "BootstrapClusterWithSprayProxy"
  BY BootOfIs, BootShapes

\* After the bootstrap, the tests of this repository can be selected.
LEMMA E2EReady ==
    ASSUME NEW x \in RuleCtxs, Workflow(x), Settled(x), x.RepoName = "e2e-tests", x.ginkgo,
           Booted("BootstrapCluster", x)
    PROVE  Stage(0, x)
<1>1. Prepared(x)
  BY BootNames DEF Prepared
<1> QED BY <1>1 DEF Stage, Settled, Workflow

\* After its bootstrap, the cluster is prepared for the tests of a service.
LEMMA ServiceReady ==
    ASSUME NEW x \in RuleCtxs, NEW repo \in Services, x.RepoName = repo, Settled(x), x.ginkgo,
           x.skipBootstrap \/ Booted(BootOf(repo).name, x)
    PROVE  Prepared(x)
  BY DEF Prepared, Settled, Services

\* The assertions of the parts of the workflow of this repository fit together.
LEMMA E2EAllFits ==
    ASSUME NEW x \in RuleCtxs, NEW b \in BOOLEAN
    PROVE  AllFits(E2EAll, b, x)
<1>0. /\ Len(E2EAll.kids) = 5
      /\ E2EAll.kids[1] = Settings("e2e-tests") /\ E2EAll.kids[2] = PairingAny
      /\ E2EAll.kids[3] = PreflightInstallGinkgoRule /\ E2EAll.kids[4] = BootstrapClusterRuleChain
      /\ E2EAll.kids[5] = E2EAny
  BY WorkflowShapes
<1>s. /\ \A y : Pre(Settings("e2e-tests"), y) <=> Workflow(y)
      /\ \A y, r : Post(Settings("e2e-tests"), r, y) <=>
           Workflow(y) /\ (r = "true" <=> y.RepoName = "e2e-tests") /\ (r = "true" => Settled(y))
  BY SettingsRuleIs DEF AllRepos
<1>1. Pre(E2EAll, x) => Pre(E2EAll.kids[1], x) /\ Loop(E2EAll, 2, b, x)
  BY <1>0, <1>s, E2EAllIs
<1>2. ASSUME NEW i \in 2..Len(E2EAll.kids), Loop(E2EAll, i, b, x), Post(E2EAll.kids[i - 1], "true", x)
      PROVE  Pre(E2EAll.kids[i], x) /\ Loop(E2EAll, i + 1, b, x)
  <2>1. CASE i = 2
    BY <1>0, <1>s, <1>2, <2>1, E2EAllIs, PairingAnyIs
  <2>2. CASE i = 3
    BY <1>0, <1>2, <2>2, E2EAllIs, PairingAnyIs, PreflightRuleIs
  <2>3. CASE i = 4
    <3>1. Workflow(x) /\ x.RepoName = "e2e-tests" /\ Settled(x) /\ x.ginkgo
      BY <1>0, <1>2, <2>3, E2EAllIs, PreflightRuleIs
    <3>2. x.RequiresMultiPlatformTests /\ x.RequiresSprayProxyRegistering
      BY <3>1 DEF Settled
    <3> QED BY <1>0, <2>3, <3>1, <3>2, E2EAllIs, BootChainIs
  <2>4. CASE i = 5
    <3>1. Workflow(x) /\ x.RepoName = "e2e-tests" /\ Settled(x) /\ x.ginkgo /\ Booted("BootstrapCluster", x)
      BY <1>0, <1>2, <2>4, E2EAllIs, BootChainIs
    <3>2. Stage(0, x) /\ x.DiffFiles = x.change
      BY <3>1, E2EReady DEF Stage
    <3>3. x.catalog = "ci"
      BY <3>1 DEF Workflow
    <3> QED BY <1>0, <2>4, <3>1, <3>2, <3>3, E2EAllIs, E2EAnyIs
  <2> QED BY <1>0, <2>1, <2>2, <2>3, <2>4
<1>3. Loop(E2EAll, Len(E2EAll.kids) + 1, b, x) /\ Post(E2EAll.kids[Len(E2EAll.kids)], "true", x) => Post(E2EAll, "true", x)
  BY <1>0, E2EAllIs, E2EAnyIs
<1>4. ASSUME NEW i \in 2..(Len(E2EAll.kids) + 1), Loop(E2EAll, i, b, x), Post(E2EAll.kids[i - 1], "false", x)
      PROVE  Post(E2EAll, "false", x)
  BY <1>0, <1>s, <1>4, E2EAllIs, E2EAnyIs, PairingAnyIs, PreflightRuleIs, BootChainIs
<1> QED BY <1>1, <1>2, <1>3, <1>4 DEF AllFits
\* So do those of the workflow of a service.
LEMMA ServiceAllFits ==
    ASSUME NEW repo \in Services, NEW x \in RuleCtxs, NEW b \in BOOLEAN
    PROVE  AllFits(ServiceAll(repo), b, x)
<1> DEFINE n == ServiceAll(repo)
           boot == IF repo = "release-service" THEN InstallAny ELSE SprayBootAny
<1>0. /\ Len(n.kids) = 4
      /\ n.kids[1] = Settings(repo) /\ n.kids[2] = PairingAny /\ n.kids[3] = PreflightInstallGinkgoRule
      /\ n.kids[4] = boot
  <2>1. n.kids = <<Settings(repo), PairingAny, PreflightInstallGinkgoRule, boot>>
    BY WorkflowShapes, Zenon
  <2> HIDE DEF n, boot
  <2> QED BY <2>1
<1>s. /\ \A y : Pre(Settings(repo), y) <=> Workflow(y)
      /\ \A y, r : Post(Settings(repo), r, y) <=>
           Workflow(y) /\ (r = "true" <=> y.RepoName = repo) /\ (r = "true" => Settled(y))
  BY SettingsRuleIs DEF Services
<1>t. /\ \A y : Pre(n, y) <=> Workflow(y)
      /\ \A y, i, c : Loop(n, i, c, y) <=>
           (i > 2 => y.RepoName = repo /\ Settled(y)) /\ (i > 4 => y.ginkgo)
      /\ \A y, r : Post(n, r, y) <=>
           /\ Workflow(y)
           /\ IF r = "true" THEN y.RepoName = repo /\ Settled(y) /\ Prepared(y)
                            ELSE y.RepoName # repo \/ ~Stable(y)
  BY ServiceAllIs
<1>b. /\ Workflow(x) /\ x.RepoName = repo /\ Settled(x) => Pre(boot, x)
      /\ \A r : Post(boot, r, x) =>
           Workflow(x) /\ r = "true" /\ (x.skipBootstrap \/ Booted(BootOf(repo).name, x))
  <2>1. CASE repo = "release-service"
    BY <2>1, BootNames, InstallAnyIs
  <2>2. CASE repo # "release-service"
    <3>1. x.RepoName = repo /\ Settled(x) => x.RequiresSprayProxyRegistering
      BY <2>2 DEF Settled, Services
    <3> QED BY <2>2, <3>1, BootNames, SprayBootAnyIs
  <2> QED BY <2>1, <2>2
<1> HIDE DEF n, boot
<1>1. Pre(n, x) => Pre(n.kids[1], x) /\ Loop(n, 2, b, x)
  BY <1>0, <1>s, <1>t
<1>2. ASSUME NEW i \in 2..Len(n.kids), Loop(n, i, b, x), Post(n.kids[i - 1], "true", x)
      PROVE  Pre(n.kids[i], x) /\ Loop(n, i + 1, b, x)
  BY <1>0, <1>s, <1>t, <1>b, <1>2, PairingAnyIs, PreflightRuleIs
<1>3. ASSUME Loop(n, Len(n.kids) + 1, b, x), Post(n.kids[Len(n.kids)], "true", x)
      PROVE  Post(n, "true", x)
  <2>1. Workflow(x) /\ x.RepoName = repo /\ Settled(x) /\ x.ginkgo
        /\ (x.skipBootstrap \/ Booted(BootOf(repo).name, x))
    BY <1>0, <1>t, <1>b, <1>3
  <2>2. Prepared(x)
    BY <2>1, ServiceReady
  <2> QED BY <1>t, <2>1, <2>2
<1>4. ASSUME NEW i \in 2..(Len(n.kids) + 1), Loop(n, i, b, x), Post(n.kids[i - 1], "false", x)
      PROVE  Post(n, "false", x)
  BY <1>0, <1>s, <1>t, <1>b, <1>4, PairingAnyIs, PreflightRuleIs
<1> QED BY <1>1, <1>2, <1>3, <1>4 DEF AllFits, n

\* After its bootstrap, the cluster is prepared for release-service-catalog.
LEMMA CatalogReady ==
    ASSUME NEW x \in RuleCtxs, x.RepoName = "release-service-catalog", Settled(x), x.ginkgo,
           x.skipBootstrap \/ Booted("InstallKonflux", x)
    PROVE  Prepared(x)
  BY BootNames DEF Prepared

\* The assertions of the settings rule of release-service-catalog.
LEMMA CatalogSettings ==
    /\ \A y : Pre(Settings("release-service-catalog"), y) <=> Workflow(y)
    /\ \A y, r : Post(Settings("release-service-catalog"), r, y) <=>
         /\ Workflow(y)
         /\ r = "true" <=> y.RepoName = "release-service-catalog"
         /\ r = "true" => Settled(y)
  BY SettingsRuleIs DEF AllRepos

\* So do those of a paired release-service-catalog job.
LEMMA PairedAllFits ==
    ASSUME NEW x \in RuleCtxs, NEW b \in BOOLEAN
    PROVE  AllFits(PairedAll, b, x)
<1> DEFINE n == PairedAll
<1>0. /\ Len(n.kids) = 6
      /\ n.kids[1] = ConditionFunc("isPaired") /\ n.kids[2] = PairedNone
      /\ n.kids[3] = Settings("release-service-catalog") /\ n.kids[4] = PairingAny
      /\ n.kids[5] = PreflightInstallGinkgoRule /\ n.kids[6] = InstallAny
  BY WorkflowShapes
<1>s. /\ \A y : Pre(ConditionFunc("isPaired"), y) <=> Workflow(y)
      /\ \A y, r : Post(ConditionFunc("isPaired"), r, y) <=> Workflow(y) /\ Asked("release-service", r, y)
  BY CondPres, CondPosts DEF CIConditions
<1>1. Pre(n, x) => Pre(n.kids[1], x) /\ Loop(n, 2, b, x)
  BY <1>0, <1>s, PairedAllIs
<1>2. ASSUME NEW i \in 2..Len(n.kids), Loop(n, i, b, x), Post(n.kids[i - 1], "true", x)
      PROVE  Pre(n.kids[i], x) /\ Loop(n, i + 1, b, x)
  <2>1. CASE i \in {2, 3}
    BY <1>0, <1>s, <1>2, <2>1, PairedAllIs, PairedNoneIs, CatalogSettings
  <2>2. CASE i \in {4, 5, 6}
    BY <1>0, <1>2, <2>2, PairedAllIs, CatalogSettings, PairingAnyIs, PreflightRuleIs, InstallAnyIs
  <2> QED BY <1>0, <2>1, <2>2
<1>3. ASSUME Loop(n, Len(n.kids) + 1, b, x), Post(n.kids[Len(n.kids)], "true", x)
      PROVE  Post(n, "true", x)
  <2>1. /\ Workflow(x) /\ x.RepoName = "release-service-catalog" /\ Settled(x) /\ x.ginkgo
        /\ x.skipBootstrap \/ Booted("InstallKonflux", x)
        /\ Asked("release-service", "true", x) /\ ~x.rehearse
    BY <1>0, <1>3, PairedAllIs, InstallAnyIs
  <2>2. Prepared(x) /\ Paired(x)
    BY <2>1, CatalogReady DEF Paired
  <2> QED BY <2>1, <2>2, PairedAllIs
<1>4. ASSUME NEW i \in 2..(Len(n.kids) + 1), Loop(n, i, b, x), Post(n.kids[i - 1], "false", x)
      PROVE  Post(n, "false", x)
  <2>1. CASE i \in {2, 3, 4}
    BY <1>0, <1>s, <1>4, <2>1, PairedAllIs, PairedNoneIs, CatalogSettings DEF NotPaired
  <2>2. CASE i \in {5, 6, 7}
    BY <1>0, <1>4, <2>2, PairedAllIs, PairingAnyIs, PreflightRuleIs, InstallAnyIs
  <2> QED BY <1>0, <2>1, <2>2
<1> QED BY <1>1, <1>2, <1>3, <1>4 DEF AllFits

\* So do those of a release-service-catalog job that is not paired.
LEMMA UnpairedAllFits ==
    ASSUME NEW x \in RuleCtxs, NEW b \in BOOLEAN
    PROVE  AllFits(UnpairedAll, b, x)
<1> DEFINE n == UnpairedAll
<1>0. /\ Len(n.kids) = 5
      /\ n.kids[1] = UnpairedAny
      /\ n.kids[2] = Settings("release-service-catalog") /\ n.kids[3] = PairingAny
      /\ n.kids[4] = PreflightInstallGinkgoRule /\ n.kids[5] = InstallAny
  BY WorkflowShapes
<1>1. Pre(n, x) => Pre(n.kids[1], x) /\ Loop(n, 2, b, x)
  BY <1>0, UnpairedAllIs, UnpairedAnyIs
<1>2. ASSUME NEW i \in 2..Len(n.kids), Loop(n, i, b, x), Post(n.kids[i - 1], "true", x)
      PROVE  Pre(n.kids[i], x) /\ Loop(n, i + 1, b, x)
  <2>1. CASE i = 2
    BY <1>0, <1>2, <2>1, UnpairedAllIs, UnpairedAnyIs, CatalogSettings
  <2>2. CASE i \in {3, 4, 5}
    BY <1>0, <1>2, <2>2, UnpairedAllIs, CatalogSettings, PairingAnyIs, PreflightRuleIs, InstallAnyIs
  <2> QED BY <1>0, <2>1, <2>2
<1>3. ASSUME Loop(n, Len(n.kids) + 1, b, x), Post(n.kids[Len(n.kids)], "true", x)
      PROVE  Post(n, "true", x)
  <2>1. /\ Workflow(x) /\ x.RepoName = "release-service-catalog" /\ Settled(x) /\ x.ginkgo
        /\ x.skipBootstrap \/ Booted("InstallKonflux", x)
        /\ NotPaired(x)
    BY <1>0, <1>3, UnpairedAllIs, InstallAnyIs
  <2>2. Prepared(x)
    BY <2>1, CatalogReady
  <2> QED BY <2>1, <2>2, UnpairedAllIs
<1>4. ASSUME NEW i \in 2..(Len(n.kids) + 1), Loop(n, i, b, x), Post(n.kids[i - 1], "false", x)
      PROVE  Post(n, "false", x)
  <2>1. CASE i \in {2, 3}
    BY <1>0, <1>4, <2>1, UnpairedAllIs, UnpairedAnyIs, CatalogSettings
  <2>2. CASE i \in {4, 5, 6}
    BY <1>0, <1>4, <2>2, UnpairedAllIs, PairingAnyIs, PreflightRuleIs, InstallAnyIs
  <2> QED BY <1>0, <2>1, <2>2
<1> QED BY <1>1, <1>2, <1>3, <1>4 DEF AllFits

\* The assertions of the children of every All fit together.
LEMMA AllsFit ==
    ASSUME NEW n \in Alls, NEW x \in RuleCtxs, NEW b \in BOOLEAN
    PROVE  AllFits(n, b, x)
<1>1. AllFits(NonTestAll, b, x)
  BY TestShapes, NonTestAllIs, NonTestAnyIs, NonTestNoneIs DEF AllFits, H1
<1>2. AllFits(PipelinesAll, b, x)
  BY TestShapes, PipelinesAllIs, PipelinesAnyIs, CondPosts, CondPres, HelpersNoPipelines
     DEF AllFits, H2, E2EConditions
<1>3. AllFits(FilesAll, b, x)
  BY TestShapes, FilesAllIs, FilesAnyIs, FilesNoneIs DEF AllFits
<1>4. AllFits(BootAll, b, x)
  BY BootShapes, BootAllIs, InstallRuleIs, SprayRuleIs, MultiRuleIs DEF AllFits, Booted
<1>5. AllFits(SprayBootAll, b, x)
  BY BootShapes, SprayBootAllIs, InstallRuleIs, SprayRuleIs DEF AllFits, Booted
<1> QED BY <1>1, <1>2, <1>3, <1>4, <1>5, E2EAllFits, ServiceAllFits, PairedAllFits, UnpairedAllFits DEF Alls

-----------------------------------------------------------------------------
(* Any and None: the assertions fit together.                              *)

\* Any checks all its children and remembers whether one of them was true:
\* before the last one (b), and with it (c).
AnyFits(n, b, c, x) ==
    /\ Pre(n, x) /\ ~b => Pre(n.kids[1], x) /\ Loop(n, 2, b, x)
    /\ \A i \in 2..Len(n.kids) : Loop(n, i, b, x) =>
         /\ Post(n.kids[i - 1], "true", x) /\ c => Pre(n.kids[i], x) /\ Loop(n, i + 1, c, x)
         /\ Post(n.kids[i - 1], "false", x) => Pre(n.kids[i], x) /\ Loop(n, i + 1, b, x)
    /\ Loop(n, Len(n.kids) + 1, b, x) =>
         /\ Post(n.kids[Len(n.kids)], "true", x) => Post(n, "true", x)
         /\ Post(n.kids[Len(n.kids)], "false", x) /\ b => Post(n, "true", x)
         /\ Post(n.kids[Len(n.kids)], "false", x) /\ ~b => Post(n, "false", x)

\* None goes on after a false child and returns after the last or a true one.
NoneFits(n, b, x) ==
    /\ Pre(n, x) => Pre(n.kids[1], x) /\ Loop(n, 2, b, x)
    /\ \A i \in 2..Len(n.kids) :
         Loop(n, i, b, x) /\ Post(n.kids[i - 1], "false", x)
           => Pre(n.kids[i], x) /\ Loop(n, i + 1, b, x)
    /\ Loop(n, Len(n.kids) + 1, b, x) /\ Post(n.kids[Len(n.kids)], "false", x) => Post(n, "true", x)
    /\ \A i \in 2..(Len(n.kids) + 1) :
         Loop(n, i, b, x) /\ Post(n.kids[i - 1], "true", x) => Post(n, "false", x)

\* The assertions of the children of a short Any fit together.
LEMMA SmallAnysFit ==
    ASSUME NEW n \in {NonTestAny, SprayAny, MultiAny, PairingAny, InstallAny, SprayBootAny, E2EAny, UnpairedAny},
           NEW x \in RuleCtxs, NEW b \in BOOLEAN, NEW c \in BOOLEAN
    PROVE  AnyFits(n, b, c, x)
<1>1. AnyFits(NonTestAny, b, c, x)
  BY TestShapes, NonTestAnyIs, CondPosts, CondPres DEF AnyFits, E2EConditions
<1>3. AnyFits(SprayAny, b, c, x)
  BY BootShapes, SprayAnyIs, CondPosts, CondPres DEF AnyFits, CIConditions
<1>4. AnyFits(MultiAny, b, c, x)
  BY BootShapes, MultiAnyIs, CondPosts, CondPres DEF AnyFits, CIConditions
<1>5. AnyFits(PairingAny, b, c, x)
  BY WorkflowShapes, PairingAnyIs, PairingRuleIs, PairingNoneIs DEF AnyFits, Stable, Asked
<1>6. AnyFits(InstallAny, b, c, x)
  BY BootShapes, InstallAnyIs, InstallRuleIs, InstallNoneIs DEF AnyFits
<1>7. AnyFits(SprayBootAny, b, c, x)
  BY BootShapes, SprayBootAnyIs, SprayBootChainIs, SprayBootNoneIs DEF AnyFits
<1>8. AnyFits(E2EAny, b, c, x)
  <2>1. /\ Len(E2EAny.kids) = 3 /\ E2EAny.kids[1] = NonTestFilesRule
        /\ E2EAny.kids[2] = NonTestFilesRuleWithReleasePipelines /\ E2EAny.kids[3] = TestFilesOnlyRule
    BY WorkflowShapes
  <2>2. H1(x) \/ H2(x) \/ H3(x)
    BY ExactlyOneHolds
  <2> QED BY <2>1, <2>2, E2EAnyIs, NonTestRuleIs, PipelinesRuleIs, FilesRuleIs DEF AnyFits
<1>9. AnyFits(UnpairedAny, b, c, x)
  BY WorkflowShapes, UnpairedAnyIs, UnpairedNoneIs, CondPosts, CondPres
     DEF AnyFits, CIConditions, Asked, NotPaired, Paired
<1> QED BY <1>1, <1>3, <1>4, <1>5, <1>6, <1>7, <1>8, <1>9

\* So do those of the filter of a settings rule.
LEMMA SettingsAnysFit ==
    ASSUME NEW repo \in AllRepos, NEW x \in RuleCtxs, NEW b \in BOOLEAN, NEW c \in BOOLEAN
    PROVE  AnyFits(SettingsAny(repo), b, c, x)
<1> DEFINE n == SettingsAny(repo)
<1>1. n.kids = <<ConditionFunc(repo)>>
  BY WorkflowShapes
<1>2. /\ Pre(n, x) <=> Workflow(x)
      /\ \A i, d : Loop(n, i, d, x) <=> (i = 2 => ~d)
      /\ \A r : Post(n, r, x) <=> Workflow(x) /\ (r = "true" <=> x.RepoName = repo)
  BY SettingsAnyIs
<1>3. /\ Pre(ConditionFunc(repo), x) <=> Workflow(x)
      /\ \A r : Post(ConditionFunc(repo), r, x) <=> Workflow(x) /\ (r = "true" <=> x.RepoName = repo)
  BY CondPosts, CondPres
<1> HIDE DEF n
<1>4. Len(n.kids) = 1 /\ n.kids[1] = ConditionFunc(repo)
  BY <1>1
<1> QED BY <1>2, <1>3, <1>4 DEF AnyFits, n

\* The rules that map changed files to spec files, in the order of their filter.
LEMMA MapShapes ==
    /\ Len(FilesAny.kids) = 9
    /\ FilesAny.kids[1] = BuildORBuildTemplatesTestFileChangeOnlyRule
    /\ FilesAny.kids[2] = BuildTemplateDependentFileChangeRule
    /\ FilesAny.kids[3] = BuildNonTestFileChangeRule
    /\ FilesAny.kids[4] = KonfluxDemoConfigsFileOnlyChangeRule
    /\ FilesAny.kids[5] = KonfluxDemoTestFileChangedRule
    /\ FilesAny.kids[6] = ReleaseTestTestFilesChangeRule
    /\ FilesAny.kids[7] = IntegrationTestsConstFileChangeRule
    /\ FilesAny.kids[8] = IntegrationTestsFileChangeRule
    /\ FilesAny.kids[9] = EcTestFileChangeRule
  BY DEF FilesAny, Any

\* Such a rule has one ConditionFunc and one mapping.
LEMMA MapRuleShape ==
    ASSUME NEW m \in MapRules
    PROVE  /\ m.op = "rule" /\ m.name \in MapNames
           /\ m.name = "ReleaseTestHelperFilesChangeOnly" <=> m = ReleaseTestHelperFilesChangeOnlyRule
           /\ \E c \in E2EConditions, a \in Mappings :
                m.kids = <<ConditionFunc(c)>> /\ m.actions = <<a>> /\ m = Rule(m.name, ConditionFunc(c), <<a>>)
<1> DEFINE helper == "ReleaseTestHelperFilesChangeOnly"
           Shape(r) == \E n \in MapNames, c \in E2EConditions, a \in Mappings :
                         r = Rule(n, ConditionFunc(c), <<a>>) /\ (n # helper \/ r = ReleaseTestHelperFilesChangeOnlyRule)
<1>1. Shape(ReleaseTestHelperFilesChangeOnlyRule)
  BY DEF MapNames, E2EConditions, Mappings, ReleaseTestHelperFilesChangeOnlyRule
<1>2. Shape(BuildORBuildTemplatesTestFileChangeOnlyRule)
  BY DEF MapNames, E2EConditions, Mappings, BuildORBuildTemplatesTestFileChangeOnlyRule
<1>3. Shape(BuildTemplateDependentFileChangeRule)
  BY DEF MapNames, E2EConditions, Mappings, BuildTemplateDependentFileChangeRule
<1>4. Shape(BuildNonTestFileChangeRule)
  BY DEF MapNames, E2EConditions, Mappings, BuildNonTestFileChangeRule
<1>5. Shape(KonfluxDemoConfigsFileOnlyChangeRule)
  BY DEF MapNames, E2EConditions, Mappings, KonfluxDemoConfigsFileOnlyChangeRule
<1>6. Shape(KonfluxDemoTestFileChangedRule)
  BY DEF MapNames, E2EConditions, Mappings, KonfluxDemoTestFileChangedRule
<1>7. Shape(ReleaseTestTestFilesChangeRule)
  BY DEF MapNames, E2EConditions, Mappings, ReleaseTestTestFilesChangeRule
<1>8. Shape(IntegrationTestsConstFileChangeRule)
  BY DEF MapNames, E2EConditions, Mappings, IntegrationTestsConstFileChangeRule
<1>9. Shape(IntegrationTestsFileChangeRule)
  BY DEF MapNames, E2EConditions, Mappings, IntegrationTestsFileChangeRule
<1>10. Shape(EcTestFileChangeRule)
  BY DEF MapNames, E2EConditions, Mappings, EcTestFileChangeRule
<1>11. Shape(m)
  <2> HIDE DEF Shape
  <2> QED BY <1>1, <1>2, <1>3, <1>4, <1>5, <1>6, <1>7, <1>8, <1>9, <1>10 DEF MapRules
<1>12. PICK n \in MapNames, c \in E2EConditions, a \in Mappings :
         m = Rule(n, ConditionFunc(c), <<a>>) /\ (n # helper \/ m = ReleaseTestHelperFilesChangeOnlyRule)
  BY <1>11
<1>13. m.op = "rule" /\ m.name = n /\ m.kids = <<ConditionFunc(c)>> /\ m.actions = <<a>>
  BY <1>12, NodeShape
<1>14. ReleaseTestHelperFilesChangeOnlyRule.name = helper
  BY NodeShape DEF ReleaseTestHelperFilesChangeOnlyRule
<1> QED BY <1>12, <1>13, <1>14

\* The assertions of such a rule.
LEMMA MapRuleIs ==
    ASSUME NEW m \in MapRules
    PROVE  LET j == IF m = ReleaseTestHelperFilesChangeOnlyRule THEN 1 ELSE 2
           IN /\ \A x : Pre(m, x) <=> Stage(j, x) /\ (j = 2 => H3(x))
              /\ \A x, i, b : Loop(m, i, b, x) <=> Stage(j, x) /\ (j = 2 => H3(x))
              /\ \A x, r : Post(m, r, x) <=>
                   /\ Stage(j, x) /\ (j = 2 => H3(x))
                   /\ r = "true" <=> E2EHolds(m.kids[1].name, x)
                   /\ r = "true" => MappedFiles(m.actions[1], x) \subseteq x.FocusFiles
<1>1. /\ MapNode(m) /\ ~TestNode(m) /\ ~InfraNode(m) /\ ~WorkflowNode(m)
      /\ m.name \notin TestNames \cup InfraConditions \cup AllRepos
      /\ m.name \in MapNames
  BY MapRuleShape DEF MapNode, TestNode, InfraNode, WorkflowNode, MapNames, TestNames, InfraConditions,
     InfraComponents, AllRepos
<1>2. m.name \notin {"InfraPairing", "PreflightInstallGinkgo", "RegisterSprayProxy", "SetupMultiPlatformTests",
                     "InstallKonflux", "BootstrapCluster", "BootstrapClusterWithSprayProxy", "TestFilesOnly"}
  BY <1>1 DEF MapNames
<1> QED BY <1>1, <1>2, MapRuleShape DEF Pre, Loop, Post, Need, RulePost

\* The assertions of the rule of a component of infra-deployments.
LEMMA ComponentRuleIs ==
    /\ \A c \in InfraConditions : \A x : Pre(ComponentChangeRule(c), x) <=>
         /\ Infra(x)
         /\ c = "components/jvm-build-service" /\ InfraHolds("components/build-service", x)
              => "build-service" \in x.LabelFilter.only
    /\ \A c \in InfraConditions : \A x, i, b : Loop(ComponentChangeRule(c), i, b, x) <=>
         /\ Infra(x)
         /\ c = "components/jvm-build-service" /\ InfraHolds("components/build-service", x)
              => "build-service" \in x.LabelFilter.only
    /\ \A c \in InfraConditions : \A x, r : Post(ComponentChangeRule(c), r, x) <=>
         /\ Infra(x)
         /\ c = "components/jvm-build-service" /\ InfraHolds("components/build-service", x)
              => "build-service" \in x.LabelFilter.only
         /\ r = "true" <=> InfraHolds(c, x)
         /\ r = "true" => LabelOf(c) \in x.LabelFilter.only
<1>0. \A c : ComponentChangeRule(c).op = "rule" /\ ComponentChangeRule(c).name = c
  BY DEF ComponentChangeRule, Rule
<1>1. \A c \in InfraConditions :
      /\ ~MapNode(ComponentChangeRule(c)) /\ ~TestNode(ComponentChangeRule(c))
      /\ InfraNode(ComponentChangeRule(c)) /\ ~WorkflowNode(ComponentChangeRule(c))
      /\ c \notin TestNames \cup MapNames \cup AllRepos
  BY <1>0 DEF MapNode, TestNode, InfraNode, WorkflowNode, MapNames, TestNames, InfraConditions,
     InfraComponents, AllRepos
<1>2. \A c \in InfraConditions : c \notin {"InfraPairing", "PreflightInstallGinkgo", "RegisterSprayProxy", "SetupMultiPlatformTests",
                     "InstallKonflux", "BootstrapCluster", "BootstrapClusterWithSprayProxy", "TestFilesOnly"}
  BY DEF InfraConditions, InfraComponents
<1> QED BY <1>0, <1>1, <1>2 DEF Pre, Loop, Post, Need, RulePost

\* The assertions of the children of PipelinesAny fit together.
LEMMA PipelinesAnyFits ==
    ASSUME NEW x \in RuleCtxs, NEW b \in BOOLEAN, NEW c \in BOOLEAN
    PROVE  AnyFits(PipelinesAny, b, c, x)
<1> DEFINE m == ReleaseTestHelperFilesChangeOnlyRule
<1>1. m \in MapRules /\ m.kids[1].name = "ReleaseHelpersOnly"
  BY DEF MapRules, ReleaseTestHelperFilesChangeOnlyRule, Rule, ConditionFunc
<1>2. /\ Pre(m, x) <=> Stage(1, x)
      /\ \A r : Post(m, r, x) => Stage(1, x) /\ (r = "true" <=> HelpersOnly(x))
  BY <1>1, MapRuleIs DEF HelpersOnly
<1> HIDE DEF m
<1>3. /\ Len(PipelinesAny.kids) = 2 /\ PipelinesAny.kids[1] = ConditionFunc("CheckSharedFilesChanged")
      /\ PipelinesAny.kids[2] = m
  BY TestShapes DEF m
<1> QED BY <1>2, <1>3, PipelinesAnyIs, CondPosts, CondPres DEF AnyFits, E2EConditions

\* The rule of a child of FilesAny maps what its condition is about.
LEMMA FilesKids ==
    /\ \A k \in 1..9 : FilesAny.kids[k] \in MapRules \ {ReleaseTestHelperFilesChangeOnlyRule}
    /\ FilesAny.kids[1].kids[1].name = "BuildTestsOnly"
    /\ FilesAny.kids[2].kids[1].name = "BuildTemplateDependents"
    /\ FilesAny.kids[3].kids[1].name = "BuildConst"
    /\ FilesAny.kids[5].kids[1].name = "DemoFiles" /\ FilesAny.kids[5].actions[1] = "MapDemoTests"
    /\ FilesAny.kids[6].kids[1].name = "ReleaseTests" /\ FilesAny.kids[6].actions[1] = "MapReleaseTests"
    /\ FilesAny.kids[8].kids[1].name = "IntegrationFiles"
    /\ FilesAny.kids[8].actions[1] = "MapIntegrationTests"
    /\ FilesAny.kids[9].kids[1].name = "EcFiles" /\ FilesAny.kids[9].actions[1] = "MapEcTests"
<1>1. \A k \in 1..9 : FilesAny.kids[k] \in MapRules \ {ReleaseTestHelperFilesChangeOnlyRule}
  <2>1. \A m \in {BuildORBuildTemplatesTestFileChangeOnlyRule, BuildTemplateDependentFileChangeRule,
                  BuildNonTestFileChangeRule, KonfluxDemoConfigsFileOnlyChangeRule,
                  KonfluxDemoTestFileChangedRule, ReleaseTestTestFilesChangeRule,
                  IntegrationTestsConstFileChangeRule, IntegrationTestsFileChangeRule,
                  EcTestFileChangeRule} : m.name # ReleaseTestHelperFilesChangeOnlyRule.name
    BY DEF Rule, ReleaseTestHelperFilesChangeOnlyRule, BuildORBuildTemplatesTestFileChangeOnlyRule,
           BuildTemplateDependentFileChangeRule, BuildNonTestFileChangeRule,
           KonfluxDemoConfigsFileOnlyChangeRule, KonfluxDemoTestFileChangedRule,
           ReleaseTestTestFilesChangeRule, IntegrationTestsConstFileChangeRule,
           IntegrationTestsFileChangeRule, EcTestFileChangeRule
  <2>2. \A k \in 1..9 : k = 1 \/ k = 2 \/ k = 3 \/ k = 4 \/ k = 5 \/ k = 6 \/ k = 7 \/ k = 8 \/ k = 9
    OBVIOUS
  <2> QED BY <2>1, <2>2, MapShapes DEF MapRules
<1> QED BY <1>1, MapShapes DEF Rule, ConditionFunc, BuildORBuildTemplatesTestFileChangeOnlyRule,
           BuildTemplateDependentFileChangeRule, BuildNonTestFileChangeRule,
           KonfluxDemoTestFileChangedRule, ReleaseTestTestFilesChangeRule,
           IntegrationTestsFileChangeRule, EcTestFileChangeRule

\* Whatever changed in tests/build, one of its rules applies.
LEMMA FilesAnyHolds ==
    ASSUME NEW x
    PROVE  \E k \in 1..9 : E2EHolds(FilesAny.kids[k].kids[1].name, x)
<1>1. E2EHolds("BuildTestsOnly", x) \/ E2EHolds("BuildTemplateDependents", x) \/ E2EHolds("BuildConst", x)
  BY E2EHoldsIs DEF Changed
<1> QED BY <1>1, FilesKids

\* Every changed spec is mapped by the rule of its suite.
LEMMA FilesAnyFocus ==
    ASSUME NEW x,
           \A k \in 1..9 : E2EHolds(FilesAny.kids[k].kids[1].name, x) =>
             MappedFiles(FilesAny.kids[k].actions[1], x) \subseteq x.FocusFiles
    PROVE  SpecsFocused(x)
<1>1. x.DiffFiles \cap ReleaseTests \subseteq x.FocusFiles
  <2>1. E2EHolds("ReleaseTests", x) => MappedFiles("MapReleaseTests", x) \subseteq x.FocusFiles
    BY FilesKids
  <2> QED BY <2>1, E2EHoldsIs, MappedFilesIs DEF Changed
<1>2. x.DiffFiles \cap DemoTests \subseteq x.FocusFiles
  <2>1. E2EHolds("DemoFiles", x) => MappedFiles("MapDemoTests", x) \subseteq x.FocusFiles
    BY FilesKids
  <2> QED BY <2>1, E2EHoldsIs, MappedFilesIs DEF Changed, DemoFiles
<1>3. x.DiffFiles \cap IntegrationTests \subseteq x.FocusFiles
  <2>1. E2EHolds("IntegrationFiles", x) => MappedFiles("MapIntegrationTests", x) \subseteq x.FocusFiles
    BY FilesKids
  <2> QED BY <2>1, E2EHoldsIs, MappedFilesIs DEF Changed, IntegrationFiles
<1>4. x.DiffFiles \cap EcFiles \subseteq x.FocusFiles
  <2>1. E2EHolds("EcFiles", x) => MappedFiles("MapEcTests", x) \subseteq x.FocusFiles
    BY FilesKids
  <2> QED BY <2>1, E2EHoldsIs, MappedFilesIs DEF Changed
<1> QED BY <1>1, <1>2, <1>3, <1>4 DEF SpecsFocused, SpecFiles

\* Those of FilesAny do: each rule that holds adds its spec files to the focus.
LEMMA FilesAnyFits ==
    ASSUME NEW x \in RuleCtxs, NEW b \in BOOLEAN, NEW c \in BOOLEAN
    PROVE  AnyFits(FilesAny, b, c, x)
<1> DEFINE n == FilesAny
           Holds(k) == E2EHolds(n.kids[k].kids[1].name, x)
           Done(k) == MappedFiles(n.kids[k].actions[1], x) \subseteq x.FocusFiles
<1>0. Len(n.kids) = 9
  BY MapShapes
<1>1. \A k \in 1..9 :
        /\ Pre(n.kids[k], x) <=> Stage(2, x) /\ H3(x)
        /\ \A r : Post(n.kids[k], r, x) <=>
             Stage(2, x) /\ H3(x) /\ (r = "true" <=> Holds(k)) /\ (r = "true" => Done(k))
  <2>1. ASSUME NEW k \in 1..9
        PROVE  /\ Pre(n.kids[k], x) <=> Stage(2, x) /\ H3(x)
               /\ \A r : Post(n.kids[k], r, x) <=>
                   Stage(2, x) /\ H3(x) /\ (r = "true" <=> Holds(k)) /\ (r = "true" => Done(k))
    BY <2>1, FilesKids, MapRuleIs
  <2> QED BY <2>1
<1>2. /\ Pre(n, x) <=> Stage(2, x) /\ H3(x)
      /\ \A i, d : Loop(n, i, d, x) <=>
           /\ Stage(2, x) /\ H3(x)
           /\ i = 2 => ~d
           /\ d <=> \E k \in 1..(i - 2) : Holds(k)
           /\ \A k \in 1..(i - 2) : Holds(k) => Done(k)
      /\ \A r : Post(n, r, x) <=> Stage(2, x) /\ H3(x) /\ r = "true" /\ SpecsFocused(x)
  BY FilesAnyIs
<1>3. \E k \in 1..9 : Holds(k)
  BY FilesAnyHolds
<1>4. (\A k \in 1..9 : Holds(k) => Done(k)) => SpecsFocused(x)
  BY FilesAnyFocus
<1> HIDE DEF n, Holds, Done
<1>5. Pre(n, x) /\ ~b => Pre(n.kids[1], x) /\ Loop(n, 2, b, x)
  BY <1>0, <1>1, <1>2
<1>6. ASSUME NEW i \in 2..Len(n.kids), Loop(n, i, b, x)
      PROVE  /\ Post(n.kids[i - 1], "true", x) /\ c => Pre(n.kids[i], x) /\ Loop(n, i + 1, c, x)
             /\ Post(n.kids[i - 1], "false", x) => Pre(n.kids[i], x) /\ Loop(n, i + 1, b, x)
  <2>1. i >= 2 /\ i - 1 \in 1..9 /\ i \in 1..9 /\ \A k : k \in 1..((i + 1) - 2) <=> k \in 1..(i - 2) \/ k = i - 1
    BY <1>0, <1>6
  <2>2. /\ Stage(2, x) /\ H3(x)
        /\ b <=> \E k \in 1..(i - 2) : Holds(k)
        /\ \A k \in 1..(i - 2) : Holds(k) => Done(k)
    BY <1>2, <1>6
  <2>3. Pre(n.kids[i], x)
    BY <1>1, <2>1, <2>2
  <2>4. ASSUME Post(n.kids[i - 1], "true", x), c PROVE Loop(n, i + 1, c, x)
    <3>1. Holds(i - 1) /\ Done(i - 1)
      BY <1>1, <2>1, <2>4
    <3>2. c <=> \E k \in 1..((i + 1) - 2) : Holds(k)
      BY <2>1, <2>4, <3>1
    <3>3. \A k \in 1..((i + 1) - 2) : Holds(k) => Done(k)
      BY <2>1, <2>2, <3>1
    <3> QED BY <1>2, <2>1, <2>2, <3>2, <3>3
  <2>5. ASSUME Post(n.kids[i - 1], "false", x) PROVE Loop(n, i + 1, b, x)
    <3>1. ~Holds(i - 1)
      <4>1. \A r : Post(n.kids[i - 1], r, x) =>  (r = "true" <=> Holds(i - 1))
        BY <1>1, <2>1
      <4> QED BY <2>5, <4>1
    <3> QED BY <1>2, <2>1, <2>2, <3>1
  <2> QED BY <2>3, <2>4, <2>5
<1>7. ASSUME Loop(n, Len(n.kids) + 1, b, x)
      PROVE  /\ Post(n.kids[Len(n.kids)], "true", x) => Post(n, "true", x)
             /\ Post(n.kids[Len(n.kids)], "false", x) /\ b => Post(n, "true", x)
             /\ Post(n.kids[Len(n.kids)], "false", x) /\ ~b => Post(n, "false", x)
  <2>1. \A k : k \in 1..9 <=> k \in 1..(10 - 2) \/ k = 9
    OBVIOUS
  <2>2. 9 \in 1..9
    OBVIOUS
  <2> QED BY <1>0, <1>1, <1>2, <1>3, <1>4, <1>7, <2>1, <2>2
<1> QED BY <1>5, <1>6, <1>7 DEF AnyFits, n

\* The children of the infra-deployments filters are the rules of the components.
LEMMA ComponentKids ==
    /\ Len(ComponentsAny.kids) = 9
    /\ \A k \in 1..9 : /\ ComponentsAny.kids[k].name \in InfraConditions
                       /\ ComponentsAny.kids[k] = ComponentChangeRule(ComponentsAny.kids[k].name)
                       /\ ComponentsAny.kids[k].name = "components/jvm-build-service" => k = 9
    /\ ComponentsAny.kids[5].name = "components/build-service"
    /\ \A c \in InfraConditions : \E k \in 1..9 : ComponentsAny.kids[k].name = c
    /\ Len(DefaultNone.kids) = 10
    /\ \A k \in 1..9 : /\ DefaultNone.kids[k].name \in InfraConditions
                       /\ DefaultNone.kids[k] = ComponentChangeRule(DefaultNone.kids[k].name)
                       /\ DefaultNone.kids[k].name = "components/jvm-build-service" => k = 8
    /\ DefaultNone.kids[5].name = "components/build-service"
    /\ \A c \in InfraConditions : \E k \in 1..9 : DefaultNone.kids[k].name = c
    /\ DefaultNone.kids[10] = ConditionFunc("CheckNoFilesChanged")
<1>0. \A k \in 1..9 : k = 1 \/ k = 2 \/ k = 3 \/ k = 4 \/ k = 5 \/ k = 6 \/ k = 7 \/ k = 8 \/ k = 9
  OBVIOUS
<1>1. \A c : ComponentChangeRule(c).name = c
  BY DEF ComponentChangeRule, Rule
<1>2. /\ Len(ComponentsAny.kids) = 9
      /\ ComponentsAny.kids[1] = ComponentChangeRule("components/integration")
      /\ ComponentsAny.kids[2] = ComponentChangeRule("components/image-controller")
      /\ ComponentsAny.kids[3] = ComponentChangeRule("components/multi-platform-controller")
      /\ ComponentsAny.kids[4] = ComponentChangeRule("build-pipeline-config")
      /\ ComponentsAny.kids[5] = ComponentChangeRule("components/build-service")
      /\ ComponentsAny.kids[6] = ComponentChangeRule("components/release")
      /\ ComponentsAny.kids[7] = ComponentChangeRule("components/enterprise-contract")
      /\ ComponentsAny.kids[8] = ComponentChangeRule("components/pipeline-service")
      /\ ComponentsAny.kids[9] = ComponentChangeRule("components/jvm-build-service")
  BY DEF ComponentsAny, InfraDeploymentsComponentsRule, Rule, Any
<1>3. /\ Len(DefaultNone.kids) = 10
      /\ DefaultNone.kids[1] = ComponentChangeRule("components/integration")
      /\ DefaultNone.kids[2] = ComponentChangeRule("components/image-controller")
      /\ DefaultNone.kids[3] = ComponentChangeRule("components/multi-platform-controller")
      /\ DefaultNone.kids[4] = ComponentChangeRule("build-pipeline-config")
      /\ DefaultNone.kids[5] = ComponentChangeRule("components/build-service")
      /\ DefaultNone.kids[6] = ComponentChangeRule("components/release")
      /\ DefaultNone.kids[7] = ComponentChangeRule("components/enterprise-contract")
      /\ DefaultNone.kids[8] = ComponentChangeRule("components/jvm-build-service")
      /\ DefaultNone.kids[9] = ComponentChangeRule("components/pipeline-service")
      /\ DefaultNone.kids[10] = ConditionFunc("CheckNoFilesChanged")
  BY DEF DefaultNone, InfraDeploymentsDefaultRule, Rule, None
<1>4. \A k \in 1..9 : /\ ComponentsAny.kids[k].name \in InfraConditions
                      /\ ComponentsAny.kids[k] = ComponentChangeRule(ComponentsAny.kids[k].name)
                      /\ ComponentsAny.kids[k].name = "components/jvm-build-service" => k = 9
  BY <1>0, <1>1, <1>2 DEF InfraConditions, InfraComponents
<1>5. \A c \in InfraConditions : \E k \in 1..9 : ComponentsAny.kids[k].name = c
  BY <1>1, <1>2 DEF InfraConditions, InfraComponents
<1>6. \A k \in 1..9 : /\ DefaultNone.kids[k].name \in InfraConditions
                      /\ DefaultNone.kids[k] = ComponentChangeRule(DefaultNone.kids[k].name)
                      /\ DefaultNone.kids[k].name = "components/jvm-build-service" => k = 8
  BY <1>0, <1>1, <1>3 DEF InfraConditions, InfraComponents
<1>7. \A c \in InfraConditions : \E k \in 1..9 : DefaultNone.kids[k].name = c
  BY <1>1, <1>3 DEF InfraConditions, InfraComponents
<1>8. /\ ComponentsAny.kids[5].name = "components/build-service"
      /\ DefaultNone.kids[5].name = "components/build-service"
  BY <1>1, <1>2, <1>3, Zenon
<1> QED BY <1>2, <1>3, <1>4, <1>5, <1>6, <1>7, <1>8, Zenon

\* Those of ComponentsAny do: each component that changed adds its label.
LEMMA ComponentsAnyFits ==
    ASSUME NEW x \in RuleCtxs, NEW b \in BOOLEAN, NEW c \in BOOLEAN
    PROVE  AnyFits(ComponentsAny, b, c, x)
<1> DEFINE n == ComponentsAny
           Holds(k) == InfraHolds(n.kids[k].name, x)
           Done(k) == LabelOf(n.kids[k].name) \in x.LabelFilter.only
           Jvm(k) == n.kids[k].name = "components/jvm-build-service" /\ InfraHolds("components/build-service", x)
                       => "build-service" \in x.LabelFilter.only
<1>0. Len(n.kids) = 9
  BY ComponentKids
<1>1. \A k \in 1..9 :
        /\ Pre(n.kids[k], x) <=> Infra(x) /\ Jvm(k)
        /\ \A r : Post(n.kids[k], r, x) <=>
             Infra(x) /\ Jvm(k) /\ (r = "true" <=> Holds(k)) /\ (r = "true" => Done(k))
  <2>1. ASSUME NEW k \in 1..9
        PROVE  /\ Pre(n.kids[k], x) <=> Infra(x) /\ Jvm(k)
               /\ \A r : Post(n.kids[k], r, x) <=>
                    Infra(x) /\ Jvm(k) /\ (r = "true" <=> Holds(k)) /\ (r = "true" => Done(k))
    <3> DEFINE d == n.kids[k].name
    <3>1. d \in InfraConditions /\ n.kids[k] = ComponentChangeRule(d)
      BY <2>1, ComponentKids
    <3> HIDE DEF d
    <3> QED BY <3>1, ComponentRuleIs DEF d
  <2> QED BY <2>1
<1>2. /\ Pre(n, x) <=> Infra(x)
      /\ \A i, d : Loop(n, i, d, x) <=>
           /\ Infra(x)
           /\ i = 2 => ~d
           /\ d <=> \E k \in 1..(i - 2) : Holds(k)
           /\ \A k \in 1..(i - 2) : Holds(k) => Done(k)
      /\ \A r : Post(n, r, x) <=>
           Infra(x) /\ (r = "true" <=> Component(x)) /\ Labels(x) \subseteq x.LabelFilter.only
  BY ComponentsAnyIs
<1>3. Component(x) <=> \E k \in 1..9 : Holds(k)
  BY ComponentKids DEF Component
<1>4. (\A k \in 1..9 : Holds(k) => Done(k)) => Labels(x) \subseteq x.LabelFilter.only
  BY ComponentKids DEF Labels
<1>j. /\ \A k \in 1..8 : Jvm(k)
      /\ (Holds(5) => Done(5)) => Jvm(9)
  <2>1. LabelOf("components/build-service") = "build-service"
    BY Zenon DEF LabelOf
  <2> QED BY <2>1, ComponentKids
<1> HIDE DEF n, Holds, Done, Jvm
<1>5. Pre(n, x) /\ ~b => Pre(n.kids[1], x) /\ Loop(n, 2, b, x)
  BY <1>0, <1>1, <1>2, <1>j
<1>6. ASSUME NEW i \in 2..Len(n.kids), Loop(n, i, b, x)
      PROVE  /\ Post(n.kids[i - 1], "true", x) /\ c => Pre(n.kids[i], x) /\ Loop(n, i + 1, c, x)
             /\ Post(n.kids[i - 1], "false", x) => Pre(n.kids[i], x) /\ Loop(n, i + 1, b, x)
  <2>1. i >= 2 /\ i - 1 \in 1..9 /\ i \in 1..9 /\ \A k : k \in 1..((i + 1) - 2) <=> k \in 1..(i - 2) \/ k = i - 1
    BY <1>0, <1>6
  <2>2. /\ Infra(x)
        /\ b <=> \E k \in 1..(i - 2) : Holds(k)
        /\ \A k \in 1..(i - 2) : Holds(k) => Done(k)
    BY <1>2, <1>6
  <2>3. Pre(n.kids[i], x)
    <3>1. CASE i = 9
      BY <1>1, <1>j, <2>1, <2>2, <3>1
    <3>2. CASE i # 9
      BY <1>1, <1>j, <2>1, <2>2, <3>2
    <3> QED BY <3>1, <3>2
  <2>4. ASSUME Post(n.kids[i - 1], "true", x), c PROVE Loop(n, i + 1, c, x)
    <3>1. Holds(i - 1) /\ Done(i - 1)
      BY <1>1, <2>1, <2>4
    <3>2. c <=> \E k \in 1..((i + 1) - 2) : Holds(k)
      BY <2>1, <2>4, <3>1
    <3>3. \A k \in 1..((i + 1) - 2) : Holds(k) => Done(k)
      BY <2>1, <2>2, <3>1
    <3> QED BY <1>2, <2>1, <2>2, <3>2, <3>3
  <2>5. ASSUME Post(n.kids[i - 1], "false", x) PROVE Loop(n, i + 1, b, x)
    <3>1. ~Holds(i - 1)
      <4>1. \A r : Post(n.kids[i - 1], r, x) =>  (r = "true" <=> Holds(i - 1))
        BY <1>1, <2>1
      <4> QED BY <2>5, <4>1
    <3> QED BY <1>2, <2>1, <2>2, <3>1
  <2> QED BY <2>3, <2>4, <2>5
<1>7. ASSUME Loop(n, Len(n.kids) + 1, b, x)
      PROVE  /\ Post(n.kids[Len(n.kids)], "true", x) => Post(n, "true", x)
             /\ Post(n.kids[Len(n.kids)], "false", x) /\ b => Post(n, "true", x)
             /\ Post(n.kids[Len(n.kids)], "false", x) /\ ~b => Post(n, "false", x)
  <2>1. \A k : k \in 1..9 <=> k \in 1..(10 - 2) \/ k = 9
    OBVIOUS
  <2>2. 9 \in 1..9
    OBVIOUS
  <2> QED BY <1>0, <1>1, <1>2, <1>3, <1>4, <1>7, <2>1, <2>2
<1> QED BY <1>5, <1>6, <1>7 DEF AnyFits, n

\* The assertions of the children of every Any fit together.
LEMMA AnysFit ==
    ASSUME NEW n \in Anys, NEW x \in RuleCtxs, NEW b \in BOOLEAN, NEW c \in BOOLEAN
    PROVE  AnyFits(n, b, c, x)
  BY SmallAnysFit, SettingsAnysFit, PipelinesAnyFits, FilesAnyFits, ComponentsAnyFits DEF Anys

\* Those of DefaultNone do: it is true if nothing that is tested changed.
LEMMA DefaultNoneFits ==
    ASSUME NEW x \in RuleCtxs, NEW b \in BOOLEAN
    PROVE  NoneFits(DefaultNone, b, x)
<1> DEFINE n == DefaultNone
           Holds(k) == InfraHolds(n.kids[k].name, x)
           Jvm(k) == n.kids[k].name = "components/jvm-build-service" /\ InfraHolds("components/build-service", x)
                       => "build-service" \in x.LabelFilter.only
<1>0. Len(n.kids) = 10
  BY ComponentKids
<1>1. /\ \A k \in 1..9 : Infra(x) /\ Jvm(k) => Pre(n.kids[k], x)
      /\ \A k \in 1..9 : \A r : Post(n.kids[k], r, x) => Infra(x) /\ (r = "true" <=> Holds(k))
  <2>1. ASSUME NEW k \in 1..9
        PROVE  /\ Infra(x) /\ Jvm(k) => Pre(n.kids[k], x)
               /\ \A r : Post(n.kids[k], r, x) => Infra(x) /\ (r = "true" <=> Holds(k))
    <3> DEFINE d == n.kids[k].name
    <3>1. d \in InfraConditions /\ n.kids[k] = ComponentChangeRule(d)
      BY <2>1, ComponentKids
    <3> HIDE DEF d
    <3> QED BY <3>1, ComponentRuleIs DEF d
  <2> QED BY <2>1
<1>c. /\ Pre(n.kids[10], x)
      /\ \A r : Post(n.kids[10], r, x) => (r = "true" <=> Empty(x))
  BY ComponentKids, CondPosts, CondPres DEF E2EConditions
<1>2. /\ Pre(n, x) <=> Infra(x)
      /\ \A i, d : Loop(n, i, d, x) <=> Infra(x) /\ \A k \in 1..(i - 2) : ~Holds(k)
      /\ \A r : Post(n, r, x) <=> Infra(x) /\ (r = "true" <=> ~Component(x) /\ ~Empty(x))
  BY DefaultNoneIs
<1>3. Component(x) <=> \E k \in 1..9 : Holds(k)
  BY ComponentKids DEF Component
<1>j. /\ \A k \in 1..9 : k # 8 => Jvm(k)
      /\ ~Holds(5) => Jvm(8)
  BY ComponentKids
<1> HIDE DEF n, Holds, Jvm
<1>5. Pre(n, x) => Pre(n.kids[1], x) /\ Loop(n, 2, b, x)
  BY <1>0, <1>1, <1>2, <1>j
<1>6. ASSUME NEW i \in 2..Len(n.kids), Loop(n, i, b, x), Post(n.kids[i - 1], "false", x)
      PROVE  Pre(n.kids[i], x) /\ Loop(n, i + 1, b, x)
  <2>1. i >= 2 /\ i - 1 \in 1..9 /\ i \in 1..10 /\ \A k : k \in 1..((i + 1) - 2) <=> k \in 1..(i - 2) \/ k = i - 1
    BY <1>0, <1>6
  <2>2. Infra(x) /\ \A k \in 1..(i - 2) : ~Holds(k)
    BY <1>2, <1>6
  <2>3. Pre(n.kids[i], x)
    <3>1. CASE i = 8
      BY <1>1, <1>j, <2>1, <2>2, <3>1
    <3>2. CASE i = 10
      BY <1>c, <3>2
    <3>3. CASE i \notin {8, 10}
      BY <1>1, <1>j, <2>1, <2>2, <3>3
    <3> QED BY <3>1, <3>2, <3>3
  <2>4. ~Holds(i - 1)
    <3>1. \A r : Post(n.kids[i - 1], r, x) => (r = "true" <=> Holds(i - 1))
      BY <1>1, <2>1
    <3> QED BY <1>6, <3>1
  <2> QED BY <1>2, <2>1, <2>2, <2>3, <2>4
<1>7. ASSUME Loop(n, Len(n.kids) + 1, b, x), Post(n.kids[Len(n.kids)], "false", x)
      PROVE  Post(n, "true", x)
  <2>1. \A k \in 1..9 : ~Holds(k)
    BY <1>0, <1>2, <1>7
  <2>2. ~Empty(x)
    BY <1>0, <1>c, <1>7
  <2>3. Infra(x)
    BY <1>0, <1>2, <1>7
  <2> QED BY <1>2, <1>3, <2>1, <2>2, <2>3
<1>8. ASSUME NEW i \in 2..(Len(n.kids) + 1), Loop(n, i, b, x), Post(n.kids[i - 1], "true", x)
      PROVE  Post(n, "false", x)
  <2>1. Component(x) \/ Empty(x)
    <3>1. CASE i = 11
      BY <1>c, <1>8, <3>1
    <3>2. CASE i # 11
      <4>1. i - 1 \in 1..9
        BY <1>0, <1>8, <3>2
      <4> QED BY <1>1, <1>3, <1>8, <4>1
    <3> QED BY <3>1, <3>2
  <2>2. Infra(x)
    BY <1>2, <1>8
  <2> QED BY <1>2, <2>1, <2>2
<1> QED BY <1>5, <1>6, <1>7, <1>8 DEF NoneFits, n

\* The assertions of the children of every None fit together.
LEMMA NonesFit ==
    ASSUME NEW n \in Nones, NEW x \in RuleCtxs, NEW b \in BOOLEAN
    PROVE  NoneFits(n, b, x)
<1>1. NoneFits(NonTestNone, b, x)
  BY TestShapes, NonTestNoneIs, CondPosts, CondPres DEF NoneFits, E2EConditions
<1>2. NoneFits(FilesNone, b, x)
  BY TestShapes, FilesNoneIs, CondPosts, CondPres DEF NoneFits, E2EConditions, H3
<1>3. NoneFits(PairingNone, b, x)
  BY WorkflowShapes, PairingNoneIs, PairingRuleIs DEF NoneFits, Asked
<1>4. NoneFits(InstallNone, b, x)
  BY BootShapes, InstallNoneIs, InstallRuleIs DEF NoneFits
<1>5. NoneFits(SprayBootNone, b, x)
  BY BootShapes, SprayBootNoneIs, SprayBootChainIs DEF NoneFits
<1>6. NoneFits(PairedNone, b, x)
  BY WorkflowShapes, PairedNoneIs, CondPosts, CondPres DEF NoneFits, CIConditions
<1>7. NoneFits(UnpairedNone, b, x)
  BY WorkflowShapes, UnpairedNoneIs, CondPosts, CondPres DEF NoneFits, CIConditions, Asked
<1> QED BY <1>1, <1>2, <1>3, <1>4, <1>5, <1>6, <1>7, DefaultNoneFits DEF Nones

-----------------------------------------------------------------------------
(* Rules: the assertions fit together.                                     *)

\* A rule checks its condition, answers false if that is false, and a chain
\* has no actions.
RuleFits(n, b, x) ==
    /\ Pre(n, x) => Pre(n.kids[1], x) /\ Loop(n, 2, b, x)
    /\ Loop(n, 2, b, x) /\ Post(n.kids[1], "false", x) => Post(n, "false", x)
    /\ n.actions = <<>> /\ Loop(n, 2, b, x) /\ Post(n.kids[1], "true", x) => Post(n, "true", x)

\* A rule of the catalog e2e-repo that does not hold leaves the runs alone.
LEMMA NextStage ==
    ASSUME NEW x
    PROVE  /\ Stage(0, x) /\ ~H1(x) => Stage(1, x)
           /\ Stage(1, x) /\ ~H2(x) => Stage(2, x)
           /\ Stage(2, x) /\ ~H3(x) => Stage(3, x)
  BY DEF Stage

\* The filter and the actions of the rules.
LEMMA RuleKids ==
    /\ NonTestFilesRule.kids[1] = NonTestAll
    /\ NonTestFilesRule.actions = <<"ExecuteDefaultTestAction">>
    /\ NonTestFilesRuleWithReleasePipelines.kids[1] = PipelinesAll
    /\ NonTestFilesRuleWithReleasePipelines.actions = <<"ExecuteAllTestsExceptUpgradeTestSuite">>
    /\ TestFilesOnlyRule.kids[1] = FilesAll
    /\ TestFilesOnlyRule.actions = <<"ExecuteTestAction">>
    /\ InfraDeploymentsPRPairingRule.kids[1] = ConditionFunc("InfraPairing")
    /\ InfraDeploymentsPRPairingRule.actions = <<"SetInfraDeployments">>
    /\ PreflightInstallGinkgoRule.kids[1] = ConditionFunc("IsPrelightChecked")
    /\ PreflightInstallGinkgoRule.actions = <<"InstallGinkgo">>
    /\ InstallKonfluxRule.kids[1] = ConditionFunc("BootstrapWanted")
    /\ InstallKonfluxRule.actions = <<"InstallKonflux">>
    /\ RegisterKonfluxToSprayProxyRule.kids[1] = SprayAny
    /\ RegisterKonfluxToSprayProxyRule.actions = <<"RegisterSprayProxy">>
    /\ SetupMultiPlatformTestsRule.kids[1] = MultiAny
    /\ SetupMultiPlatformTestsRule.actions = <<"SetupMultiPlatformTests">>
    /\ BootstrapClusterRuleChain.kids[1] = BootAll
    /\ BootstrapClusterRuleChain.actions = <<>>
    /\ BootstrapClusterWithSprayProxyRuleChain.kids[1] = SprayBootAll
    /\ BootstrapClusterWithSprayProxyRuleChain.actions = <<>>
    /\ \A c : ComponentChangeRule(c).kids[1] = ConditionFunc(c) /\ ComponentChangeRule(c).actions = <<c>>
    /\ \A repo : /\ Settings(repo).kids[1] = SettingsAny(repo)
                 /\ Settings(repo).actions = <<SettingsAction(repo)>>
<1>1. \A n, k, a : Rule(n, k, a).kids[1] = k /\ Rule(n, k, a).actions = a
  BY DEF Rule
<1> QED BY <1>1, TestRuleShapes, BootRuleShapes
        DEF InfraDeploymentsPRPairingRule, PreflightInstallGinkgoRule, InstallKonfluxRule,
            ComponentChangeRule, Settings, SettingsAny, SetDefaultSettingsRule

\* What the answers of more ConditionFuncs say.
LEMMA MorePosts ==
    /\ \A x, r : Post(ConditionFunc("InfraPairing"), r, x) <=>
         Workflow(x) /\ Asked("infra-deployments", r, x)
    /\ \A x, r : Post(ConditionFunc("IsPrelightChecked"), r, x) <=> Workflow(x) /\ r = "true"
    /\ \A x, r : Post(ConditionFunc("BootstrapWanted"), r, x) <=>
         Workflow(x) /\ (r = "true" <=> ~x.skipBootstrap)
    /\ \A c \in InfraConditions : \A x, r :
         Post(ConditionFunc(c), r, x) <=> (r = "true" <=> InfraHolds(c, x))
    /\ \A c \in E2EConditions : \A x, r :
         Post(ConditionFunc(c), r, x) <=> (r = "true" <=> E2EHolds(c, x))
  BY CondContract DEF CondPost, E2EConditions, InfraConditions, InfraComponents, AllRepos

\* The assertions of the filter and of the rule fit, for a mapping.
LEMMA MapRulesFit ==
    ASSUME NEW m \in MapRules, NEW x \in RuleCtxs, NEW b \in BOOLEAN
    PROVE  RuleFits(m, b, x)
<1>1. PICK c \in E2EConditions, a \in Mappings : m.kids = <<ConditionFunc(c)>> /\ m.actions = <<a>>
  BY MapRuleShape
<1>2. m.kids[1] = ConditionFunc(c) /\ m.actions # <<>> /\ m.kids[1].name = c
  <2>1. ConditionFunc(c).name = c
    BY DEF ConditionFunc
  <2> QED BY <1>1, <2>1
<1>3. Pre(ConditionFunc(c), x)
  BY CondPres
<1>4. \A r : Post(ConditionFunc(c), r, x) => (r = "true" <=> E2EHolds(c, x))
  BY MorePosts
<1>5. /\ Pre(m, x) => Loop(m, 2, b, x)
      /\ Loop(m, 2, b, x) /\ ~E2EHolds(m.kids[1].name, x) => Post(m, "false", x)
  BY MapRuleIs
<1> QED BY <1>2, <1>3, <1>4, <1>5 DEF RuleFits

\* They do for the rule of a component.
LEMMA ComponentRulesFit ==
    ASSUME NEW c \in InfraConditions, NEW x \in RuleCtxs, NEW b \in BOOLEAN
    PROVE  RuleFits(ComponentChangeRule(c), b, x)
<1> DEFINE n == ComponentChangeRule(c)
<1>2. n.kids[1] = ConditionFunc(c) /\ n.actions # <<>>
  BY RuleKids
<1>3. Pre(ConditionFunc(c), x)
  BY CondPres
<1>4. \A r : Post(ConditionFunc(c), r, x) => (r = "true" <=> InfraHolds(c, x))
  BY MorePosts
<1>5. /\ Pre(n, x) => Loop(n, 2, b, x)
      /\ Loop(n, 2, b, x) /\ ~InfraHolds(c, x) => Post(n, "false", x)
  BY ComponentRuleIs
<1> HIDE DEF n
<1> QED BY <1>2, <1>3, <1>4, <1>5 DEF RuleFits, n

\* They do for a settings rule.
LEMMA SettingsRulesFit ==
    ASSUME NEW repo \in AllRepos, NEW x \in RuleCtxs, NEW b \in BOOLEAN
    PROVE  RuleFits(Settings(repo), b, x)
<1> DEFINE n == Settings(repo)
<1>2. n.kids[1] = SettingsAny(repo) /\ n.actions # <<>>
  BY RuleKids
<1>3. Pre(SettingsAny(repo), x) <=> Workflow(x)
  BY SettingsAnyIs
<1>4. \A r : Post(SettingsAny(repo), r, x) <=> Workflow(x) /\ (r = "true" <=> x.RepoName = repo)
  BY SettingsAnyIs
<1>5. /\ Pre(n, x) <=> Workflow(x)
      /\ Loop(n, 2, b, x)
      /\ \A r : Post(n, r, x) <=>
           Workflow(x) /\ (r = "true" <=> x.RepoName = repo) /\ (r = "true" => Settled(x))
  BY SettingsRuleIs
<1> HIDE DEF n
<1> QED BY <1>2, <1>3, <1>4, <1>5 DEF RuleFits, n

\* The assertions of the filter and of the rule fit, for every rule.
LEMMA RulesFit ==
    ASSUME NEW n \in Rules, NEW x \in RuleCtxs, NEW b \in BOOLEAN
    PROVE  RuleFits(n, b, x)
<1>1. RuleFits(NonTestFilesRule, b, x)
  BY RuleKids, NextStage, NonTestRuleIs, NonTestAllIs DEF RuleFits
<1>2. RuleFits(NonTestFilesRuleWithReleasePipelines, b, x)
  BY RuleKids, NextStage, PipelinesRuleIs, PipelinesAllIs DEF RuleFits
<1>3. RuleFits(TestFilesOnlyRule, b, x)
  BY RuleKids, NextStage, FilesRuleIs, FilesAllIs DEF RuleFits
<1>4. RuleFits(InfraDeploymentsPRPairingRule, b, x)
  BY RuleKids, MorePosts, CondPres, PairingRuleIs DEF RuleFits, CIConditions
<1>5. RuleFits(PreflightInstallGinkgoRule, b, x)
  BY RuleKids, MorePosts, CondPres, PreflightRuleIs DEF RuleFits, CIConditions
<1>6. RuleFits(InstallKonfluxRule, b, x)
  BY RuleKids, MorePosts, CondPres, InstallRuleIs DEF RuleFits, CIConditions
<1>7. RuleFits(RegisterKonfluxToSprayProxyRule, b, x)
  BY RuleKids, SprayAnyIs, SprayRuleIs DEF RuleFits
<1>8. RuleFits(SetupMultiPlatformTestsRule, b, x)
  BY RuleKids, MultiAnyIs, MultiRuleIs DEF RuleFits
<1>9. RuleFits(BootstrapClusterRuleChain, b, x)
  BY RuleKids, BootAllIs, BootChainIs DEF RuleFits
<1>10. RuleFits(BootstrapClusterWithSprayProxyRuleChain, b, x)
  BY RuleKids, SprayBootAllIs, SprayBootChainIs DEF RuleFits
<1> QED BY <1>1, <1>2, <1>3, <1>4, <1>5, <1>6, <1>7, <1>8, <1>9, <1>10,
        MapRulesFit, ComponentRulesFit, SettingsRulesFit DEF Rules

-----------------------------------------------------------------------------
(* The ConditionFuncs.                                                     *)

\* Only what is outside of the RuleCtx changes, and it grows.
Untouched(x, y) ==
    /\ Same(x, y)
    /\ y.runs = x.runs /\ y.FocusFiles = x.FocusFiles /\ y.DiffFiles = x.DiffFiles
    /\ y.LabelFilter = x.LabelFilter
    /\ y.RequiresMultiPlatformTests = x.RequiresMultiPlatformTests
    /\ y.RequiresSprayProxyRegistering = x.RequiresSprayProxyRegistering
    /\ y.imageOf = x.imageOf
    /\ x.asked \subseteq y.asked
    /\ x.ginkgo => y.ginkgo
    /\ x.installs > 0 => y.installs > 0
    /\ Reachable(x) => Reachable(y)
    /\ x.multiPlatform => y.multiPlatform

\* What leaves the RuleCtx alone keeps what the callers rely on.
LEMMA UntouchedKeeps ==
    ASSUME NEW x, NEW y, Untouched(x, y)
    PROVE  /\ Keeps(x, y)
           /\ Workflow(x) => Workflow(y)
           /\ RequiredOnly(x) => RequiredOnly(y)
<1>1. Settled(x) => Settled(y)
  BY DEF Untouched, Same, Settled
<1>2. Infra(x) => Infra(y)
  <2>1. /\ Labels(y) = Labels(x)
    BY SameFacts DEF Untouched
  <2>2. InfraHolds("components/build-service", y) <=> InfraHolds("components/build-service", x)
    BY SameDiff DEF Untouched, InfraConditions, InfraComponents
  <2> QED BY <2>1, <2>2 DEF Untouched, Same, Infra
<1>3. Keeps(x, y)
  BY <1>1, <1>2 DEF Untouched, Same, Keeps
<1> QED BY <1>3 DEF Untouched, Same, Workflow, RequiredOnly

\* Untouched is reflexive.
LEMMA UntouchedSelf ==
    ASSUME NEW x PROVE Untouched(x, x)
  BY DEF Untouched, Same

\* The fields of an answer.
LEMMA AnswerIs ==
    ASSUME NEW b, NEW x, NEW o, o = Answer(b, x)
    PROVE  o.ok = b /\ o.err = FALSE /\ o.ctx = x
  BY DEF Answer

\* The fields of a failure.
LEMMA FailsIs ==
    ASSUME NEW x, NEW o, o = Fails(x)
    PROVE  o.ok = FALSE /\ o.err = TRUE /\ o.ctx = x
  BY DEF Fails

\* CheckCI by cases.
LEMMA CheckCIIs ==
    ASSUME NEW x
    PROVE  /\ \A c \in AllRepos : CheckCI(c, x) = {Answer(x.RepoName = c, x)}
           /\ CheckCI("isPaired", x) = isPaired(x)
           /\ CheckCI("isRehearse", x) = {Answer(x.rehearse, x)}
           /\ CheckCI("InfraPairing", x) = IsPRPairingRequired("infra-deployments", x)
           /\ CheckCI("IsPrelightChecked", x) = {Succeeds(x), Fails(x)}
           /\ CheckCI("BootstrapWanted", x) = {Answer(~x.skipBootstrap, x)}
           /\ CheckCI("IsSprayProxyRequired", x) = {Answer(x.RequiresSprayProxyRegistering, x)}
           /\ CheckCI("IsMultiPlatformConfigRequired", x) = {Answer(x.RequiresMultiPlatformTests, x)}
           /\ \A c \in E2EConditions \cup InfraConditions : CheckCI(c, x) = CheckTests(c, x)
<1>1. \A c \in AllRepos : CheckCI(c, x) = {Answer(x.RepoName = c, x)}
  <2>1. SUFFICES ASSUME NEW c \in AllRepos PROVE CheckCI(c, x) = {Answer(x.RepoName = c, x)}
    OBVIOUS
  <2>2. c \notin CIConditions
    BY DEF AllRepos, CIConditions
  <2> QED BY <2>1, <2>2, Zenon DEF CheckCI, CIConditions
<1>2. /\ \A c \in CIConditions : c \notin AllRepos
  BY DEF AllRepos, CIConditions
<1>3. CheckCI("isPaired", x) = isPaired(x)
  BY <1>2, Zenon DEF CheckCI, CIConditions
<1>4. CheckCI("isRehearse", x) = {Answer(x.rehearse, x)}
  BY <1>2, Zenon DEF CheckCI, CIConditions
<1>5. CheckCI("InfraPairing", x) = IsPRPairingRequired("infra-deployments", x)
  BY <1>2, Zenon DEF CheckCI, CIConditions
<1>6. CheckCI("IsPrelightChecked", x) = {Succeeds(x), Fails(x)}
  BY <1>2, Zenon DEF CheckCI, CIConditions
<1>7. CheckCI("BootstrapWanted", x) = {Answer(~x.skipBootstrap, x)}
  BY <1>2, Zenon DEF CheckCI, CIConditions
<1>8. CheckCI("IsSprayProxyRequired", x) = {Answer(x.RequiresSprayProxyRegistering, x)}
  BY <1>2, Zenon DEF CheckCI, CIConditions
<1>9. CheckCI("IsMultiPlatformConfigRequired", x) = {Answer(x.RequiresMultiPlatformTests, x)}
  BY <1>2, Zenon DEF CheckCI, CIConditions
<1>10. \A c \in E2EConditions \cup InfraConditions : CheckCI(c, x) = CheckTests(c, x)
  <2>1. SUFFICES ASSUME NEW c \in E2EConditions \cup InfraConditions PROVE CheckCI(c, x) = CheckTests(c, x)
    OBVIOUS
  <2>2. c \notin CIConditions /\ c \notin AllRepos
    BY DEF AllRepos, CIConditions, E2EConditions, InfraConditions, InfraComponents
  <2> QED BY <2>1, <2>2, Zenon DEF CheckCI, CIConditions
<1> QED BY <1>1, <1>3, <1>4, <1>5, <1>6, <1>7, <1>8, <1>9, <1>10

\* Asking GitHub.
LEMMA AskedIs ==
    ASSUME NEW x \in RuleCtxs, NEW repo \in {"release-service", "infra-deployments"}, NEW b \in BOOLEAN,
           NEW y, y = [x EXCEPT !.asked = @ \cup {<<repo, b>>}]
    PROVE  /\ y \in RuleCtxs /\ Untouched(x, y)
           /\ <<repo, b>> \in y.asked
<1>1. x.asked \cup {<<repo, b>>} \in SUBSET ({"release-service", "infra-deployments"} \X BOOLEAN)
  <2>1. x.asked \in SUBSET ({"release-service", "infra-deployments"} \X BOOLEAN)
    BY Zenon DEF RuleCtxs
  <2>2. <<repo, b>> \in {"release-service", "infra-deployments"} \X BOOLEAN
    BY Zenon
  <2> QED BY <2>1, <2>2, Zenon
<1>2. y \in RuleCtxs
  BY <1>1, Zenon DEF RuleCtxs
<1>3. y.asked = x.asked \cup {<<repo, b>>}
  BY Zenon DEF RuleCtxs
<1>4. /\ Same(x, y)
      /\ y.runs = x.runs /\ y.FocusFiles = x.FocusFiles /\ y.DiffFiles = x.DiffFiles
      /\ y.LabelFilter = x.LabelFilter
  BY Zenon DEF RuleCtxs, Same
<1>5. /\ y.RequiresMultiPlatformTests = x.RequiresMultiPlatformTests
      /\ y.RequiresSprayProxyRegistering = x.RequiresSprayProxyRegistering
      /\ y.imageOf = x.imageOf
  BY Zenon DEF RuleCtxs
<1>6. /\ y.ginkgo = x.ginkgo /\ y.installs = x.installs /\ y.registered = x.registered
      /\ y.skipPac = x.skipPac /\ y.multiPlatform = x.multiPlatform
  BY Zenon DEF RuleCtxs
<1> QED BY <1>2, <1>3, <1>4, <1>5, <1>6 DEF Untouched, Reachable

\* Recording that the job is paired leaves the rest of the RuleCtx alone.
LEMMA PairedIs ==
    ASSUME NEW x \in RuleCtxs, NEW b \in BOOLEAN, NEW y, y = [x EXCEPT !.IsPaired = b]
    PROVE  y \in RuleCtxs /\ Untouched(x, y) /\ y.asked = x.asked
<1>2. y \in RuleCtxs
  BY Zenon DEF RuleCtxs
<1>4. /\ Same(x, y)
      /\ y.runs = x.runs /\ y.FocusFiles = x.FocusFiles /\ y.DiffFiles = x.DiffFiles
      /\ y.LabelFilter = x.LabelFilter
  BY Zenon DEF RuleCtxs, Same
<1>5. /\ y.RequiresMultiPlatformTests = x.RequiresMultiPlatformTests
      /\ y.RequiresSprayProxyRegistering = x.RequiresSprayProxyRegistering
      /\ y.imageOf = x.imageOf /\ y.asked = x.asked
  BY Zenon DEF RuleCtxs
<1>6. /\ y.ginkgo = x.ginkgo /\ y.installs = x.installs /\ y.registered = x.registered
      /\ y.skipPac = x.skipPac /\ y.multiPlatform = x.multiPlatform
  BY Zenon DEF RuleCtxs
<1> QED BY <1>2, <1>4, <1>5, <1>6 DEF Untouched, Reachable

\* Untouched is transitive.
LEMMA UntouchedTwice ==
    ASSUME NEW x, NEW y, NEW z, Untouched(x, y), Untouched(y, z)
    PROVE  Untouched(x, z)
  BY DEF Untouched, Same

\* IsPRPairingRequired records the answer of GitHub that it returns.
LEMMA IsPRPairingRequiredIs ==
    ASSUME NEW x \in RuleCtxs, NEW repo \in {"release-service", "infra-deployments"},
           NEW o \in IsPRPairingRequired(repo, x)
    PROVE  /\ o.ok \in BOOLEAN /\ o.err = FALSE
           /\ o.ctx \in RuleCtxs /\ Untouched(x, o.ctx)
           /\ <<repo, o.ok>> \in o.ctx.asked
           /\ o = [ok |-> o.ok, err |-> FALSE, ctx |-> o.ctx]
<1>1. PICK b \in BOOLEAN : o = Answer(b, [x EXCEPT !.asked = @ \cup {<<repo, b>>}])
  BY DEF IsPRPairingRequired
<1> DEFINE y == [x EXCEPT !.asked = @ \cup {<<repo, b>>}]
<1>2. y \in RuleCtxs /\ Untouched(x, y) /\ <<repo, b>> \in y.asked
  BY AskedIs
<1>3. o = Answer(b, y)
  BY <1>1
<1> HIDE DEF y
<1> QED BY <1>2, <1>3 DEF Answer

\* So does isPaired, about release-service.
LEMMA isPairedIs ==
    ASSUME NEW x \in RuleCtxs, NEW o \in isPaired(x)
    PROVE  /\ o.ok \in BOOLEAN /\ o.err = FALSE
           /\ o.ctx \in RuleCtxs /\ Untouched(x, o.ctx)
           /\ <<"release-service", o.ok>> \in o.ctx.asked
<1>1. PICK p \in IsPRPairingRequired("release-service", x) : o = [p EXCEPT !.ctx.IsPaired = p.ok]
  BY Zenon DEF isPaired
<1>2. /\ p.ok \in BOOLEAN /\ p.err = FALSE
      /\ p.ctx \in RuleCtxs /\ Untouched(x, p.ctx)
      /\ <<"release-service", p.ok>> \in p.ctx.asked
      /\ p = [ok |-> p.ok, err |-> FALSE, ctx |-> p.ctx]
  BY IsPRPairingRequiredIs
<1> DEFINE y == [p.ctx EXCEPT !.IsPaired = p.ok]
<1>3. y \in RuleCtxs /\ Untouched(p.ctx, y) /\ y.asked = p.ctx.asked
  BY <1>2, PairedIs
<1>4. o = [p EXCEPT !.ctx = y]
  BY <1>1, Zenon
<1>5. o.ok = p.ok /\ o.err = FALSE /\ o.ctx = y
  <2>1. "ctx" \in DOMAIN p /\ "ok" \in DOMAIN p /\ "err" \in DOMAIN p
    <3>1. DOMAIN p = {"ok", "err", "ctx"}
      BY <1>2
    <3> QED BY <3>1
  <2> QED BY <1>4, <1>2, <2>1, Zenon
<1> QED BY <1>2, <1>3, <1>5, UntouchedTwice

\* A condition that is true or false of the context.
LEMMA Decided ==
    ASSUME NEW x \in RuleCtxs, NEW b \in BOOLEAN, NEW o, o = Answer(b, x)
    PROVE  o.ok = b /\ o.err = FALSE /\ o.ctx \in RuleCtxs /\ Untouched(x, o.ctx) /\ o.ctx = x
  BY UntouchedSelf DEF Answer

\* A ConditionFunc establishes its Post, whatever GitHub answers.
CheckOK(c, x, o) ==
    /\ o.ctx \in RuleCtxs /\ Untouched(x, o.ctx)
    /\ o.ctx.asked = x.asked \/ x.runs = <<>>
    /\ ~o.err /\ o.ok => Post(ConditionFunc(c), "true", o.ctx)
    /\ ~o.err /\ ~o.ok => Post(ConditionFunc(c), "false", o.ctx)

\* Every ConditionFunc establishes Post of its node and keeps what Keeps says.
LEMMA ConditionsOK ==
    ASSUME NEW c \in CondNames, NEW x \in RuleCtxs, Pre(ConditionFunc(c), x), NEW o \in CheckCI(c, x)
    PROVE  CheckOK(c, x, o)
<1>1. CASE c \in AllRepos
  <2>1. o = Answer(x.RepoName = c, x)
    BY <1>1, CheckCIIs
  <2>2. (o.ok <=> x.RepoName = c) /\ o.ctx = x
    BY <2>1, Zenon DEF Answer
  <2>3. /\ Workflow(x)
        /\ x.RepoName = c => Post(ConditionFunc(c), "true", x)
        /\ x.RepoName # c => Post(ConditionFunc(c), "false", x)
    BY <1>1, CondPosts, CondPres
  <2> QED BY <2>2, <2>3, UntouchedSelf DEF CheckOK
<1>2. CASE c = "isPaired"
  <2>1. o \in isPaired(x)
    BY <1>2, CheckCIIs
  <2>2. /\ o.ok \in BOOLEAN /\ o.err = FALSE
        /\ o.ctx \in RuleCtxs /\ Untouched(x, o.ctx)
        /\ <<"release-service", o.ok>> \in o.ctx.asked
    BY <2>1, isPairedIs
  <2>3. Workflow(x)
    BY <1>2, CondPres DEF CIConditions
  <2>4. Workflow(o.ctx) /\ x.runs = <<>>
    BY <2>2, <2>3, UntouchedKeeps DEF Workflow
  <2>5. /\ o.ok => Asked("release-service", "true", o.ctx)
        /\ ~o.ok => Asked("release-service", "false", o.ctx)
    BY <2>2 DEF Asked
  <2> QED BY <1>2, <2>2, <2>4, <2>5, CondPosts DEF CheckOK
<1>3. CASE c = "InfraPairing"
  <2>1. o \in IsPRPairingRequired("infra-deployments", x)
    BY <1>3, CheckCIIs
  <2>2. /\ o.ok \in BOOLEAN /\ o.err = FALSE
        /\ o.ctx \in RuleCtxs /\ Untouched(x, o.ctx)
        /\ <<"infra-deployments", o.ok>> \in o.ctx.asked
    BY <2>1, IsPRPairingRequiredIs
  <2>3. Workflow(x)
    BY <1>3, CondPres DEF CIConditions
  <2>4. Workflow(o.ctx) /\ x.runs = <<>>
    BY <2>2, <2>3, UntouchedKeeps DEF Workflow
  <2>5. /\ o.ok => Asked("infra-deployments", "true", o.ctx)
        /\ ~o.ok => Asked("infra-deployments", "false", o.ctx)
    BY <2>2 DEF Asked
  <2> QED BY <1>3, <2>2, <2>4, <2>5, MorePosts DEF CheckOK
<1>4. CASE c = "isRehearse"
  <2>1. o = Answer(x.rehearse, x)
    BY <1>4, CheckCIIs
  <2>2. (o.ok = x.rehearse) /\ o.ctx = x
    BY <2>1, Zenon DEF Answer
  <2>3. /\ Workflow(x)
        /\ x.rehearse => Post(ConditionFunc(c), "true", x)
        /\ ~x.rehearse => Post(ConditionFunc(c), "false", x)
    BY <1>4, CondPosts, CondPres DEF CIConditions
  <2> QED BY <2>2, <2>3, UntouchedSelf DEF CheckOK
<1>5. CASE c = "IsPrelightChecked"
  <2>1. o \in {Succeeds(x), Fails(x)}
    <3>1. CheckCI("IsPrelightChecked", x) = {Succeeds(x), Fails(x)}
      BY CheckCIIs
    <3> QED BY <1>5, <3>1, Zenon
  <2>2. o.ctx = x /\ (~o.err => o.ok)
    <3>1. CASE o = Succeeds(x)
      BY <3>1, Zenon DEF Answer, Succeeds
    <3>2. CASE o = Fails(x)
      BY <3>2, Zenon DEF Fails
    <3> QED BY <2>1, <3>1, <3>2
  <2>3. /\ Workflow(x)
        /\ Post(ConditionFunc(c), "true", x)
    BY <1>5, MorePosts, CondPres DEF CIConditions
  <2> QED BY <2>2, <2>3, UntouchedSelf DEF CheckOK
<1>6. CASE c = "BootstrapWanted"
  <2>1. o = Answer(~x.skipBootstrap, x)
    BY <1>6, CheckCIIs
  <2>2. (o.ok <=> ~x.skipBootstrap) /\ o.ctx = x
    BY <2>1, Zenon DEF Answer
  <2>3. /\ Workflow(x)
        /\ ~x.skipBootstrap => Post(ConditionFunc(c), "true", x)
        /\ x.skipBootstrap => Post(ConditionFunc(c), "false", x)
    BY <1>6, MorePosts, CondPres DEF CIConditions
  <2> QED BY <2>2, <2>3, UntouchedSelf DEF CheckOK
<1>7. CASE c = "IsSprayProxyRequired"
  <2>1. o = Answer(x.RequiresSprayProxyRegistering, x)
    BY <1>7, CheckCIIs
  <2>2. (o.ok = x.RequiresSprayProxyRegistering) /\ o.ctx = x
    BY <2>1, Zenon DEF Answer
  <2>3. /\ Workflow(x)
        /\ x.RequiresSprayProxyRegistering => Post(ConditionFunc(c), "true", x)
        /\ ~x.RequiresSprayProxyRegistering => Post(ConditionFunc(c), "false", x)
    BY <1>7, CondPosts, CondPres DEF CIConditions
  <2> QED BY <2>2, <2>3, UntouchedSelf DEF CheckOK
<1>8. CASE c = "IsMultiPlatformConfigRequired"
  <2>1. o = Answer(x.RequiresMultiPlatformTests, x)
    BY <1>8, CheckCIIs
  <2>2. (o.ok = x.RequiresMultiPlatformTests) /\ o.ctx = x
    BY <2>1, Zenon DEF Answer
  <2>3. /\ Workflow(x)
        /\ x.RequiresMultiPlatformTests => Post(ConditionFunc(c), "true", x)
        /\ ~x.RequiresMultiPlatformTests => Post(ConditionFunc(c), "false", x)
    BY <1>8, CondPosts, CondPres DEF CIConditions
  <2> QED BY <2>2, <2>3, UntouchedSelf DEF CheckOK
<1>9. CASE c \in E2EConditions
  <2>1. o = Answer(E2EHolds(c, x), x)
    <3>1. CheckCI(c, x) = CheckTests(c, x)
      BY <1>9, CheckCIIs
    <3> QED BY <1>9, <3>1, Zenon DEF CheckTests
  <2>2. (o.ok <=> E2EHolds(c, x)) /\ o.ctx = x
    BY <2>1, Zenon DEF Answer
  <2>3. /\ E2EHolds(c, x) => Post(ConditionFunc(c), "true", x)
        /\ ~E2EHolds(c, x) => Post(ConditionFunc(c), "false", x)
    BY <1>9, MorePosts
  <2> QED BY <2>2, <2>3, UntouchedSelf DEF CheckOK
<1>10. CASE c \in InfraConditions
  <2>0. c \notin E2EConditions
    BY <1>10 DEF E2EConditions, InfraConditions, InfraComponents
  <2>1. o = Answer(InfraHolds(c, x), x)
    <3>1. CheckCI(c, x) = CheckTests(c, x)
      BY <1>10, CheckCIIs
    <3> QED BY <1>10, <2>0, <3>1, Zenon DEF CheckTests
  <2>2. (o.ok <=> InfraHolds(c, x)) /\ o.ctx = x
    BY <2>1, Zenon DEF Answer
  <2>3. /\ InfraHolds(c, x) => Post(ConditionFunc(c), "true", x)
        /\ ~InfraHolds(c, x) => Post(ConditionFunc(c), "false", x)
    BY <1>10, MorePosts
  <2> QED BY <2>2, <2>3, UntouchedSelf DEF CheckOK
<1> QED BY <1>1, <1>2, <1>3, <1>4, <1>5, <1>6, <1>7, <1>8, <1>9, <1>10 DEF CondNames, CIConditions

-----------------------------------------------------------------------------
(* The ActionFuncs, but for the ones that run tests.                       *)

\* ExecuteCI by cases.
LEMMA ExecuteCIIs ==
    ASSUME NEW x
    PROVE  /\ ExecuteCI("SetE2EDefaults", x) = SetE2EDefaults(x)
           /\ ExecuteCI("SetServiceDefaults", x) = SetServiceDefaults(x)
           /\ ExecuteCI("SetReleaseCatalogDefaults", x) = SetReleaseCatalogDefaults(x)
           /\ ExecuteCI("SetInfraDeployments", x) = {Succeeds([x EXCEPT !.infraPaired = TRUE])}
           /\ ExecuteCI("InstallGinkgo", x) = {Fails(x), Succeeds([x EXCEPT !.ginkgo = TRUE])}
           /\ ExecuteCI("InstallKonflux", x) = InstallKonflux(x)
           /\ ExecuteCI("RegisterSprayProxy", x) = RegisterKonfluxToSprayProxy(x)
           /\ ExecuteCI("SetupMultiPlatformTests", x) =
                {Fails(x), Succeeds([x EXCEPT !.multiPlatform = TRUE])}
           /\ ExecuteCI("ExecuteReleaseCatalogPairedAction", x) = ExecuteReleaseCatalogPairedAction(x)
           /\ ExecuteCI("ExecuteReleaseCatalogAction", x) = ExecuteTestAction(x)
           /\ ExecuteCI("AddKonfluxLabel", x) = {Succeeds(AddLabelToLabelFilter(x, "konflux"))}
           /\ ExecuteCI("ExecuteTestAction", x) = ExecuteTestAction(x)
           /\ ExecuteCI("ExecuteDefaultTestAction", x) = ExecuteDefaultTestAction(x)
           /\ ExecuteCI("ExecuteAllTestsExceptUpgradeTestSuite", x) =
                ExecuteAllTestsExceptUpgradeTestSuite(x)
           /\ ExecuteCI("ExecuteInfraDeploymentsDefaultTestAction", x) =
                ExecuteTestAction([x EXCEPT !.LabelFilter = Filter({"konflux"}, {})])
           /\ \A a \in Mappings :
                ExecuteCI(a, x) = {Succeeds([x EXCEPT !.FocusFiles = @ \cup MappedFiles(a, x)])}
           /\ \A a \in InfraConditions :
                ExecuteCI(a, x) = {Succeeds(AddLabelToLabelFilter(x, LabelOf(a)))}
<1>1. ExecuteCI("SetE2EDefaults", x) = SetE2EDefaults(x)
  BY Zenon DEF ExecuteCI
<1>2. ExecuteCI("SetServiceDefaults", x) = SetServiceDefaults(x)
  BY Zenon DEF ExecuteCI
<1>3. ExecuteCI("SetReleaseCatalogDefaults", x) = SetReleaseCatalogDefaults(x)
  BY Zenon DEF ExecuteCI
<1>4. ExecuteCI("SetInfraDeployments", x) = {Succeeds([x EXCEPT !.infraPaired = TRUE])}
  BY Zenon DEF ExecuteCI
<1>5. ExecuteCI("InstallGinkgo", x) = {Fails(x), Succeeds([x EXCEPT !.ginkgo = TRUE])}
  BY Zenon DEF ExecuteCI
<1>6. ExecuteCI("InstallKonflux", x) = InstallKonflux(x)
  BY Zenon DEF ExecuteCI
<1>7. ExecuteCI("RegisterSprayProxy", x) = RegisterKonfluxToSprayProxy(x)
  BY Zenon DEF ExecuteCI
<1>8. ExecuteCI("SetupMultiPlatformTests", x) = {Fails(x), Succeeds([x EXCEPT !.multiPlatform = TRUE])}
  BY Zenon DEF ExecuteCI
<1>9. ExecuteCI("ExecuteReleaseCatalogPairedAction", x) = ExecuteReleaseCatalogPairedAction(x)
  BY Zenon DEF ExecuteCI
<1>10. ExecuteCI("ExecuteReleaseCatalogAction", x) = ExecuteTestAction(x)
  BY Zenon DEF ExecuteCI
<1>m. \A a \in Mappings \cup InfraConditions \cup {"AddKonfluxLabel", "ExecuteTestAction",
        "ExecuteDefaultTestAction", "ExecuteAllTestsExceptUpgradeTestSuite",
        "ExecuteInfraDeploymentsDefaultTestAction"} : ExecuteCI(a, x) = ExecuteTests(a, x)
  <2>1. SUFFICES ASSUME NEW a \in Mappings \cup InfraConditions \cup {"AddKonfluxLabel", "ExecuteTestAction",
                  "ExecuteDefaultTestAction", "ExecuteAllTestsExceptUpgradeTestSuite",
                  "ExecuteInfraDeploymentsDefaultTestAction"}
                 PROVE  ExecuteCI(a, x) = ExecuteTests(a, x)
    OBVIOUS
  <2>2. a \notin {"SetE2EDefaults", "SetServiceDefaults", "SetReleaseCatalogDefaults", "SetInfraDeployments",
                  "InstallGinkgo", "InstallKonflux", "RegisterSprayProxy", "SetupMultiPlatformTests",
                  "ExecuteReleaseCatalogPairedAction", "ExecuteReleaseCatalogAction"}
    BY <2>1 DEF Mappings, InfraConditions, InfraComponents
  <2> QED BY <2>2, Zenon DEF ExecuteCI
<1>n. /\ \A a \in Mappings : a \notin InfraConditions
      /\ \A a \in Mappings \cup InfraConditions :
           a \notin {"AddKonfluxLabel", "ExecuteTestAction",
                     "ExecuteDefaultTestAction", "ExecuteAllTestsExceptUpgradeTestSuite",
                     "ExecuteInfraDeploymentsDefaultTestAction"}
  BY DEF Mappings, InfraConditions, InfraComponents
<1>11. ExecuteCI("AddKonfluxLabel", x) = {Succeeds(AddLabelToLabelFilter(x, "konflux"))}
  <2>1. ExecuteTests("AddKonfluxLabel", x) = {Succeeds(AddLabelToLabelFilter(x, "konflux"))}
    BY <1>n, Zenon DEF ExecuteTests
  <2> QED BY <1>m, <2>1, Zenon
<1>12. ExecuteCI("ExecuteTestAction", x) = ExecuteTestAction(x)
  <2>1. ExecuteTests("ExecuteTestAction", x) = ExecuteTestAction(x)
    BY <1>n, Zenon DEF ExecuteTests
  <2> QED BY <1>m, <2>1, Zenon
<1>13. ExecuteCI("ExecuteDefaultTestAction", x) = ExecuteDefaultTestAction(x)
  <2>1. ExecuteTests("ExecuteDefaultTestAction", x) = ExecuteDefaultTestAction(x)
    BY <1>n, Zenon DEF ExecuteTests
  <2> QED BY <1>m, <2>1, Zenon
<1>14. ExecuteCI("ExecuteAllTestsExceptUpgradeTestSuite", x) = ExecuteAllTestsExceptUpgradeTestSuite(x)
  <2>1. ExecuteTests("ExecuteAllTestsExceptUpgradeTestSuite", x) = ExecuteAllTestsExceptUpgradeTestSuite(x)
    BY <1>n, Zenon DEF ExecuteTests
  <2> QED BY <1>m, <2>1, Zenon
<1>15. ExecuteCI("ExecuteInfraDeploymentsDefaultTestAction", x) = ExecuteTestAction([x EXCEPT !.LabelFilter = Filter({"konflux"}, {})])
  <2>1. ExecuteTests("ExecuteInfraDeploymentsDefaultTestAction", x) = ExecuteTestAction([x EXCEPT !.LabelFilter = Filter({"konflux"}, {})])
    BY <1>n, Zenon DEF ExecuteTests
  <2> QED BY <1>m, <2>1, Zenon
<1>16. \A a \in Mappings :
        ExecuteCI(a, x) = {Succeeds([x EXCEPT !.FocusFiles = @ \cup MappedFiles(a, x)])}
  <2>1. SUFFICES ASSUME NEW a \in Mappings
                 PROVE  ExecuteCI(a, x) = {Succeeds([x EXCEPT !.FocusFiles = @ \cup MappedFiles(a, x)])}
    BY Zenon
  <2>2. ExecuteTests(a, x) = {Succeeds([x EXCEPT !.FocusFiles = @ \cup MappedFiles(a, x)])}
    BY <1>n, Zenon DEF ExecuteTests
  <2> QED BY <1>m, <2>2, Zenon
<1>17. \A a \in InfraConditions : ExecuteCI(a, x) = {Succeeds(AddLabelToLabelFilter(x, LabelOf(a)))}
  <2>1. SUFFICES ASSUME NEW a \in InfraConditions
                 PROVE  ExecuteCI(a, x) = {Succeeds(AddLabelToLabelFilter(x, LabelOf(a)))}
    BY Zenon
  <2>2. ExecuteTests(a, x) = {Succeeds(AddLabelToLabelFilter(x, LabelOf(a)))}
    BY <1>n, Zenon DEF ExecuteTests
  <2> QED BY <1>m, <2>2, Zenon
<1> QED BY <1>1, <1>2, <1>3, <1>4, <1>5, <1>6, <1>7, <1>8, <1>9, <1>10, <1>11, <1>12, <1>13, <1>14, <1>15, <1>16, <1>17, Zenon

\* Installing ginkgo leaves the rest of the RuleCtx alone.
LEMMA GinkgoIs ==
    ASSUME NEW x \in RuleCtxs, NEW y, y = [x EXCEPT !.ginkgo = TRUE]
    PROVE  y \in RuleCtxs /\ Untouched(x, y) /\ y.asked = x.asked /\ y.ginkgo
<1>2. y \in RuleCtxs
  BY Zenon DEF RuleCtxs
<1>3. y.ginkgo = TRUE
  BY Zenon DEF RuleCtxs
<1>4. /\ Same(x, y)
      /\ y.runs = x.runs /\ y.FocusFiles = x.FocusFiles /\ y.DiffFiles = x.DiffFiles
      /\ y.LabelFilter = x.LabelFilter
  BY Zenon DEF RuleCtxs, Same
<1>5. /\ y.RequiresMultiPlatformTests = x.RequiresMultiPlatformTests
      /\ y.RequiresSprayProxyRegistering = x.RequiresSprayProxyRegistering
      /\ y.imageOf = x.imageOf /\ y.asked = x.asked
  BY Zenon DEF RuleCtxs
<1>6. y.installs = x.installs /\ y.registered = x.registered /\ y.skipPac = x.skipPac /\ y.multiPlatform = x.multiPlatform
  BY Zenon DEF RuleCtxs
<1> QED BY <1>2, <1>3, <1>4, <1>5, <1>6 DEF Untouched, Reachable

\* Pairing with infra-deployments leaves the rest of the RuleCtx alone.
LEMMA InfraPairedIs ==
    ASSUME NEW x \in RuleCtxs, NEW y, y = [x EXCEPT !.infraPaired = TRUE]
    PROVE  y \in RuleCtxs /\ Untouched(x, y) /\ y.asked = x.asked
<1>2. y \in RuleCtxs
  BY Zenon DEF RuleCtxs
<1>3. y.infraPaired = TRUE
  BY Zenon DEF RuleCtxs
<1>4. /\ Same(x, y)
      /\ y.runs = x.runs /\ y.FocusFiles = x.FocusFiles /\ y.DiffFiles = x.DiffFiles
      /\ y.LabelFilter = x.LabelFilter
  BY Zenon DEF RuleCtxs, Same
<1>5. /\ y.RequiresMultiPlatformTests = x.RequiresMultiPlatformTests
      /\ y.RequiresSprayProxyRegistering = x.RequiresSprayProxyRegistering
      /\ y.imageOf = x.imageOf /\ y.asked = x.asked
  BY Zenon DEF RuleCtxs
<1>6. y.ginkgo = x.ginkgo /\ y.installs = x.installs /\ y.registered = x.registered /\ y.skipPac = x.skipPac /\ y.multiPlatform = x.multiPlatform
  BY Zenon DEF RuleCtxs
<1> QED BY <1>2, <1>3, <1>4, <1>5, <1>6 DEF Untouched, Reachable

\* Building the multi-platform bundles leaves the rest of the RuleCtx alone.
LEMMA MultiPlatformIs ==
    ASSUME NEW x \in RuleCtxs, NEW y, y = [x EXCEPT !.multiPlatform = TRUE]
    PROVE  y \in RuleCtxs /\ Untouched(x, y) /\ y.asked = x.asked /\ y.multiPlatform
<1>2. y \in RuleCtxs
  BY Zenon DEF RuleCtxs
<1>3. y.multiPlatform = TRUE
  BY Zenon DEF RuleCtxs
<1>4. /\ Same(x, y)
      /\ y.runs = x.runs /\ y.FocusFiles = x.FocusFiles /\ y.DiffFiles = x.DiffFiles
      /\ y.LabelFilter = x.LabelFilter
  BY Zenon DEF RuleCtxs, Same
<1>5. /\ y.RequiresMultiPlatformTests = x.RequiresMultiPlatformTests
      /\ y.RequiresSprayProxyRegistering = x.RequiresSprayProxyRegistering
      /\ y.imageOf = x.imageOf /\ y.asked = x.asked
  BY Zenon DEF RuleCtxs
<1>6. y.ginkgo = x.ginkgo /\ y.installs = x.installs /\ y.registered = x.registered /\ y.skipPac = x.skipPac
  BY Zenon DEF RuleCtxs
<1> QED BY <1>2, <1>3, <1>4, <1>5, <1>6 DEF Untouched, Reachable

\* Registering with the SprayProxy makes the cluster reachable.
LEMMA RegisteredIs ==
    ASSUME NEW x \in RuleCtxs, NEW y, y = [x EXCEPT !.registered = TRUE]
    PROVE  y \in RuleCtxs /\ Untouched(x, y) /\ y.asked = x.asked /\ Reachable(y)
<1>2. y \in RuleCtxs
  BY Zenon DEF RuleCtxs
<1>3. y.registered = TRUE
  BY Zenon DEF RuleCtxs
<1>4. /\ Same(x, y)
      /\ y.runs = x.runs /\ y.FocusFiles = x.FocusFiles /\ y.DiffFiles = x.DiffFiles
      /\ y.LabelFilter = x.LabelFilter
  BY Zenon DEF RuleCtxs, Same
<1>5. /\ y.RequiresMultiPlatformTests = x.RequiresMultiPlatformTests
      /\ y.RequiresSprayProxyRegistering = x.RequiresSprayProxyRegistering
      /\ y.imageOf = x.imageOf /\ y.asked = x.asked
  BY Zenon DEF RuleCtxs
<1>6. y.ginkgo = x.ginkgo /\ y.installs = x.installs /\ y.skipPac = x.skipPac /\ y.multiPlatform = x.multiPlatform
  BY Zenon DEF RuleCtxs
<1> QED BY <1>2, <1>3, <1>4, <1>5, <1>6 DEF Untouched, Reachable

\* Switching the PaC tests off counts as reachable.
LEMMA SkipPacIs ==
    ASSUME NEW x \in RuleCtxs, NEW y, y = [x EXCEPT !.skipPac = TRUE]
    PROVE  y \in RuleCtxs /\ Untouched(x, y) /\ y.asked = x.asked /\ Reachable(y)
<1>2. y \in RuleCtxs
  BY Zenon DEF RuleCtxs
<1>3. y.skipPac = TRUE
  BY Zenon DEF RuleCtxs
<1>4. /\ Same(x, y)
      /\ y.runs = x.runs /\ y.FocusFiles = x.FocusFiles /\ y.DiffFiles = x.DiffFiles
      /\ y.LabelFilter = x.LabelFilter
  BY Zenon DEF RuleCtxs, Same
<1>5. /\ y.RequiresMultiPlatformTests = x.RequiresMultiPlatformTests
      /\ y.RequiresSprayProxyRegistering = x.RequiresSprayProxyRegistering
      /\ y.imageOf = x.imageOf /\ y.asked = x.asked
  BY Zenon DEF RuleCtxs
<1>6. y.ginkgo = x.ginkgo /\ y.installs = x.installs /\ y.registered = x.registered /\ y.multiPlatform = x.multiPlatform
  BY Zenon DEF RuleCtxs
<1> QED BY <1>2, <1>3, <1>4, <1>5, <1>6 DEF Untouched, Reachable

\* The number of installations is a natural number, one more is positive.
LEMMA InstallsNat ==
    ASSUME NEW x \in RuleCtxs PROVE x.installs + 1 \in Nat /\ x.installs + 1 > 0
<1>1. x.installs \in Nat
  BY Zenon DEF RuleCtxs
<1> QED BY <1>1

\* Installing Konflux leaves the rest of the RuleCtx alone.
LEMMA InstalledIs ==
    ASSUME NEW x \in RuleCtxs, NEW y, y = [x EXCEPT !.installs = @ + 1]
    PROVE  y \in RuleCtxs /\ Untouched(x, y) /\ y.asked = x.asked /\ y.installs > 0
<1>1. x.installs + 1 \in Nat /\ x.installs + 1 > 0
  BY InstallsNat
<1>2. y \in RuleCtxs
  BY <1>1, Zenon DEF RuleCtxs
<1>3. y.installs = x.installs + 1
  BY Zenon DEF RuleCtxs
<1>4. /\ Same(x, y)
      /\ y.runs = x.runs /\ y.FocusFiles = x.FocusFiles /\ y.DiffFiles = x.DiffFiles
      /\ y.LabelFilter = x.LabelFilter
  BY Zenon DEF RuleCtxs, Same
<1>5. /\ y.RequiresMultiPlatformTests = x.RequiresMultiPlatformTests
      /\ y.RequiresSprayProxyRegistering = x.RequiresSprayProxyRegistering
      /\ y.imageOf = x.imageOf /\ y.asked = x.asked
  BY Zenon DEF RuleCtxs
<1>6. y.ginkgo = x.ginkgo /\ y.registered = x.registered /\ y.skipPac = x.skipPac /\ y.multiPlatform = x.multiPlatform
  BY Zenon DEF RuleCtxs
<1> QED BY <1>1, <1>2, <1>3, <1>4, <1>5, <1>6 DEF Untouched, Reachable

\* The action of a rule establishes its Post.
ActionOK(n, x, o) ==
    /\ o.ctx \in RuleCtxs /\ Keeps(x, o.ctx) /\ o.ctx.asked = x.asked
    /\ RequiredOnly(x) => RequiredOnly(o.ctx)
    /\ ~o.err => Post(n, "true", o.ctx)

\* The fields of a success.
LEMMA SucceedsIs ==
    ASSUME NEW x, NEW o, o = Succeeds(x)
    PROVE  o.err = FALSE /\ o.ctx = x
  BY DEF Succeeds, Answer

\* An action that leaves the RuleCtx alone only has to establish Post of its rule.
LEMMA UntouchedOK ==
    ASSUME NEW n, NEW x \in RuleCtxs, NEW o, o.ctx \in RuleCtxs, Untouched(x, o.ctx), o.ctx.asked = x.asked,
           ~o.err => Post(n, "true", o.ctx)
    PROVE  ActionOK(n, x, o)
  BY UntouchedKeeps DEF ActionOK

\* SetInfraDeployments establishes Post of its rule.
LEMMA PairingActionOK ==
    ASSUME NEW x \in RuleCtxs, Post(InfraDeploymentsPRPairingRule.kids[1], "true", x),
           NEW o \in ExecuteCI("SetInfraDeployments", x)
    PROVE  ActionOK(InfraDeploymentsPRPairingRule, x, o)
<1> DEFINE y == [x EXCEPT !.infraPaired = TRUE]
<1>1. o \in {Succeeds(y)}
  BY ExecuteCIIs, Zenon
<1>2. y \in RuleCtxs /\ Untouched(x, y) /\ y.asked = x.asked
  BY InfraPairedIs
<1> HIDE DEF y
<1>3. o.err = FALSE /\ o.ctx = y
  BY <1>1, SucceedsIs
<1>4. Workflow(x) /\ Asked("infra-deployments", "true", x)
  BY RuleKids, MorePosts
<1>5. Workflow(y) /\ Asked("infra-deployments", "true", y)
  BY <1>2, <1>4, UntouchedKeeps DEF Asked
<1>6. Post(InfraDeploymentsPRPairingRule, "true", y)
  BY <1>5, PairingRuleIs
<1> QED BY <1>2, <1>3, <1>6, UntouchedOK

\* InstallGinkgo establishes Post of its rule.
LEMMA PreflightActionOK ==
    ASSUME NEW x \in RuleCtxs, Post(PreflightInstallGinkgoRule.kids[1], "true", x),
           NEW o \in ExecuteCI("InstallGinkgo", x)
    PROVE  ActionOK(PreflightInstallGinkgoRule, x, o)
<1> DEFINE y == [x EXCEPT !.ginkgo = TRUE]
<1>1. o \in {Fails(x), Succeeds(y)}
  BY ExecuteCIIs, Zenon
<1>2. y \in RuleCtxs /\ Untouched(x, y) /\ y.asked = x.asked /\ y.ginkgo
  BY GinkgoIs
<1> HIDE DEF y
<1>3. Workflow(x)
  BY RuleKids, MorePosts
<1>4. Post(PreflightInstallGinkgoRule, "true", y)
  BY <1>2, <1>3, UntouchedKeeps, PreflightRuleIs
<1>5. (o.err = TRUE /\ o.ctx = x) \/ (o.err = FALSE /\ o.ctx = y)
  BY <1>1, SucceedsIs, FailsIs
<1> QED BY <1>2, <1>4, <1>5, UntouchedOK, UntouchedSelf

\* InstallKonflux establishes Post of its rule.
LEMMA InstallActionOK ==
    ASSUME NEW x \in RuleCtxs, Post(InstallKonfluxRule.kids[1], "true", x),
           NEW o \in ExecuteCI("InstallKonflux", x)
    PROVE  ActionOK(InstallKonfluxRule, x, o)
<1> DEFINE y == [x EXCEPT !.installs = @ + 1]
<1>1. o \in {Fails(x), Succeeds(y)}
  BY ExecuteCIIs, Zenon DEF InstallKonflux
<1>2. y \in RuleCtxs /\ Untouched(x, y) /\ y.asked = x.asked /\ y.installs > 0
  BY InstalledIs
<1> HIDE DEF y
<1>3. Workflow(x) /\ ~x.skipBootstrap
  BY RuleKids, MorePosts
<1>4. Workflow(y) /\ ~y.skipBootstrap /\ Booted("InstallKonflux", y)
  BY <1>2, <1>3, UntouchedKeeps DEF Untouched, Same, Booted
<1>5. Post(InstallKonfluxRule, "true", y)
  BY <1>4, InstallRuleIs
<1>6. (o.err = TRUE /\ o.ctx = x) \/ (o.err = FALSE /\ o.ctx = y)
  BY <1>1, SucceedsIs, FailsIs
<1> QED BY <1>2, <1>5, <1>6, UntouchedOK, UntouchedSelf

\* RegisterSprayProxy establishes Post of its rule, also when it switches PaC tests off.
LEMMA SprayActionOK ==
    ASSUME NEW x \in RuleCtxs, Post(RegisterKonfluxToSprayProxyRule.kids[1], "true", x),
           NEW o \in ExecuteCI("RegisterSprayProxy", x)
    PROVE  ActionOK(RegisterKonfluxToSprayProxyRule, x, o)
<1> DEFINE y == [x EXCEPT !.registered = TRUE]
           z == [x EXCEPT !.skipPac = TRUE]
<1>1. o \in {Succeeds(y), Succeeds(z), Fails(z)}
  BY ExecuteCIIs, Zenon DEF RegisterKonfluxToSprayProxy
<1>2. /\ y \in RuleCtxs /\ Untouched(x, y) /\ y.asked = x.asked /\ Reachable(y)
      /\ z \in RuleCtxs /\ Untouched(x, z) /\ z.asked = x.asked /\ Reachable(z)
  BY RegisteredIs, SkipPacIs
<1> HIDE DEF y, z
<1>3. Workflow(x)
  BY RuleKids, SprayAnyIs
<1>4. Post(RegisterKonfluxToSprayProxyRule, "true", y) /\ Post(RegisterKonfluxToSprayProxyRule, "true", z)
  BY <1>2, <1>3, UntouchedKeeps, SprayRuleIs
<1>5. o.ctx = y \/ o.ctx = z
  BY <1>1, SucceedsIs, FailsIs
<1> QED BY <1>2, <1>4, <1>5, UntouchedOK

\* SetupMultiPlatformTests establishes Post of its rule.
LEMMA MultiActionOK ==
    ASSUME NEW x \in RuleCtxs, Post(SetupMultiPlatformTestsRule.kids[1], "true", x),
           NEW o \in ExecuteCI("SetupMultiPlatformTests", x)
    PROVE  ActionOK(SetupMultiPlatformTestsRule, x, o)
<1> DEFINE y == [x EXCEPT !.multiPlatform = TRUE]
<1>1. o \in {Fails(x), Succeeds(y)}
  BY ExecuteCIIs, Zenon
<1>2. y \in RuleCtxs /\ Untouched(x, y) /\ y.asked = x.asked /\ y.multiPlatform
  BY MultiPlatformIs
<1> HIDE DEF y
<1>3. Workflow(x)
  BY RuleKids, MultiAnyIs
<1>4. Post(SetupMultiPlatformTestsRule, "true", y)
  BY <1>2, <1>3, UntouchedKeeps, MultiRuleIs
<1>5. (o.err = TRUE /\ o.ctx = x) \/ (o.err = FALSE /\ o.ctx = y)
  BY <1>1, SucceedsIs, FailsIs
<1> QED BY <1>2, <1>4, <1>5, UntouchedOK, UntouchedSelf

-----------------------------------------------------------------------------
(* The settings.                                                           *)

\* What settings rules leave alone.
SettingsOnly(x, y) ==
    /\ Same(x, y)
    /\ y.runs = x.runs /\ y.FocusFiles = x.FocusFiles /\ y.asked = x.asked
    /\ y.ginkgo = x.ginkgo /\ y.installs = x.installs /\ y.registered = x.registered
    /\ y.skipPac = x.skipPac /\ y.multiPlatform = x.multiPlatform

\* A settings action keeps what Keeps says if its settings are those of the job.
LEMMA SettingsKeep ==
    ASSUME NEW x, NEW y, SettingsOnly(x, y), Workflow(x),
           x.DiffFiles = x.change => y.DiffFiles = x.DiffFiles,
           x.RequiresMultiPlatformTests => y.RequiresMultiPlatformTests,
           x.RequiresSprayProxyRegistering => y.RequiresSprayProxyRegistering,
           x.RepoName # "release-service-catalog" /\ x.imageOf = x.RepoName => y.imageOf = y.RepoName,
           Settled(x) => Settled(y),
           x.RepoName = "e2e-tests" => y.LabelFilter = x.LabelFilter
    PROVE  Keeps(x, y) /\ Workflow(y)
<1>1. ~Infra(x)
  BY DEF Workflow, Infra
<1> QED BY <1>1 DEF SettingsOnly, Same, Keeps, Workflow, Reachable

\* The settings of this repository establish Post of their rule.
LEMMA SetE2EDefaultsOK ==
    ASSUME NEW x \in RuleCtxs, Post(Settings("e2e-tests").kids[1], "true", x),
           NEW o \in ExecuteCI("SetE2EDefaults", x)
    PROVE  ActionOK(Settings("e2e-tests"), x, o)
<1> DEFINE y == [x EXCEPT !.RequiresMultiPlatformTests = TRUE, !.RequiresSprayProxyRegistering = TRUE]
           z == [y EXCEPT !.DiffFiles = x.change]
<1>1. o \in {Fails(y), Succeeds(z)}
  BY ExecuteCIIs, Zenon DEF SetE2EDefaults
<1>2. /\ y \in RuleCtxs /\ SettingsOnly(x, y)
      /\ y.RequiresMultiPlatformTests /\ y.RequiresSprayProxyRegistering
      /\ y.DiffFiles = x.DiffFiles /\ y.LabelFilter = x.LabelFilter /\ y.imageOf = x.imageOf
  <2>1. y \in RuleCtxs
    BY Zenon DEF RuleCtxs
  <2>2. /\ Same(x, y)
        /\ y.runs = x.runs /\ y.FocusFiles = x.FocusFiles /\ y.asked = x.asked
    BY Zenon DEF RuleCtxs, Same
  <2>3. /\ y.ginkgo = x.ginkgo /\ y.installs = x.installs /\ y.registered = x.registered
        /\ y.skipPac = x.skipPac /\ y.multiPlatform = x.multiPlatform
    BY Zenon DEF RuleCtxs
  <2>4. /\ y.RequiresMultiPlatformTests /\ y.RequiresSprayProxyRegistering
        /\ y.DiffFiles = x.DiffFiles /\ y.LabelFilter = x.LabelFilter /\ y.imageOf = x.imageOf
    BY Zenon DEF RuleCtxs
  <2> QED BY <2>1, <2>2, <2>3, <2>4, Zenon DEF SettingsOnly
<1> HIDE DEF y
<1>3. /\ z \in RuleCtxs /\ SettingsOnly(y, z)
      /\ z.RequiresMultiPlatformTests /\ z.RequiresSprayProxyRegistering
      /\ z.DiffFiles = x.change /\ z.LabelFilter = x.LabelFilter /\ z.imageOf = x.imageOf
  <2>0. x.change \in SUBSET (E2EFiles \cup InfraFiles)
    BY Zenon DEF RuleCtxs
  <2>1. z \in RuleCtxs
    BY <1>2, <2>0, ZenonT(30) DEF RuleCtxs
  <2>2. /\ Same(y, z)
        /\ z.runs = y.runs /\ z.FocusFiles = y.FocusFiles /\ z.asked = y.asked
    BY <1>2, Zenon DEF RuleCtxs, Same
  <2>3. /\ z.ginkgo = y.ginkgo /\ z.installs = y.installs /\ z.registered = y.registered
        /\ z.skipPac = y.skipPac /\ z.multiPlatform = y.multiPlatform
    BY <1>2, Zenon DEF RuleCtxs
  <2>4. /\ z.RequiresMultiPlatformTests /\ z.RequiresSprayProxyRegistering
        /\ z.DiffFiles = x.change /\ z.LabelFilter = x.LabelFilter /\ z.imageOf = x.imageOf
    BY <1>2, Zenon DEF RuleCtxs
  <2> QED BY <2>1, <2>2, <2>3, <2>4, Zenon DEF SettingsOnly
<1> HIDE DEF z
<1>4. SettingsOnly(x, z)
  BY <1>2, <1>3 DEF SettingsOnly, Same
<1>5. Workflow(x) /\ x.RepoName = "e2e-tests"
  BY RuleKids, SettingsAnyIs DEF AllRepos
<1>6. /\ Settled(z) /\ (Settled(x) => Settled(y))
      /\ RequiredOnly(y) /\ RequiredOnly(z)
  BY <1>2, <1>3, <1>4, <1>5 DEF Settled, RequiredOnly, SettingsOnly, Same
<1>7. Keeps(x, y) /\ Keeps(x, z) /\ Workflow(z)
  BY <1>2, <1>3, <1>4, <1>5, <1>6, SettingsKeep DEF SettingsOnly, Same
<1>8. Post(Settings("e2e-tests"), "true", z)
  <2>1. z.RepoName = "e2e-tests"
    BY <1>4, <1>5 DEF SettingsOnly, Same
  <2> QED BY <2>1, <1>6, <1>7, SettingsRuleIs DEF AllRepos
<1>9. (o.err = TRUE /\ o.ctx = y) \/ (o.err = FALSE /\ o.ctx = z)
  BY <1>1, SucceedsIs, FailsIs
<1>10. y.asked = x.asked /\ z.asked = x.asked
  BY <1>2, <1>4 DEF SettingsOnly
<1> QED BY <1>2, <1>3, <1>6, <1>7, <1>8, <1>9, <1>10 DEF ActionOK

\* The fields of a label filter.
LEMMA FilterType ==
    ASSUME NEW a \in SUBSET FilterLabels, NEW b \in SUBSET FilterLabels
    PROVE  Filter(a, b) \in Filters /\ Filter(a, b).only = a /\ Filter(a, b).not = b
  BY DEF Filter, Filters

\* The filters of release-service-catalog exclude nothing.
LEMMA CatalogFilterIs ==
    ASSUME NEW f \in CatalogFilters
    PROVE  f \in Filters /\ f.not = {} /\ [f EXCEPT !.not = {}] = f
<1>1. CASE \E last \in TestCases : \E others \in SUBSET (TestCases \ {last}) :
              f = [before |-> others, only |-> {last}, not |-> {}]
  <2>1. PICK last \in TestCases : \E others \in SUBSET (TestCases \ {last}) :
              f = [before |-> others, only |-> {last}, not |-> {}]
    BY <1>1
  <2>2. PICK others \in SUBSET (TestCases \ {last}) :
              f = [before |-> others, only |-> {last}, not |-> {}]
    BY <2>1
  <2>3. others \in SUBSET FilterLabels /\ {last} \in SUBSET FilterLabels /\ {} \in SUBSET FilterLabels
    BY DEF FilterLabels
  <2> QED BY <2>2, <2>3 DEF Filters
<1>2. CASE \E label \in {"release-pipelines", "no-test-case"} : f = Filter({label}, {})
  <2>1. PICK label \in {"release-pipelines", "no-test-case"} : f = Filter({label}, {})
    BY <1>2
  <2>2. {label} \in SUBSET FilterLabels /\ {} \in SUBSET FilterLabels
    BY DEF FilterLabels
  <2> QED BY <2>1, <2>2 DEF Filter, Filters
<1> QED BY <1>1, <1>2 DEF CatalogFilters

\* The settings of a service establish Post of their rule.
LEMMA SetServiceDefaultsOK ==
    ASSUME NEW repo \in Services, NEW x \in RuleCtxs, Post(Settings(repo).kids[1], "true", x),
           NEW o \in ExecuteCI("SetServiceDefaults", x)
    PROVE  ActionOK(Settings(repo), x, o)
<1> DEFINE s == IF x.RepoName # "release-service" THEN TRUE ELSE x.RequiresSprayProxyRegistering
           f == Filter({x.RepoName}, {})
           y == [x EXCEPT !.RequiresSprayProxyRegistering = s, !.LabelFilter = f]
           z == [y EXCEPT !.imageOf = y.RepoName]
<1>1. o \in {Fails(y), Succeeds(z)}
  <2>1. y = [x EXCEPT !.RequiresSprayProxyRegistering = IF x.RepoName # "release-service" THEN TRUE ELSE @,
                      !.LabelFilter = Filter({x.RepoName}, {})]
    OBVIOUS
  <2>2. SetServiceDefaults(x) = SetEnvVarsForComponentImageDeployment(y)
    BY <2>1, Zenon DEF SetServiceDefaults
  <2> HIDE DEF y
  <2>3. SetServiceDefaults(x) = {Fails(y), Succeeds(z)}
    BY <2>2, Zenon DEF SetEnvVarsForComponentImageDeployment
  <2> QED BY <2>3, ExecuteCIIs, Zenon
<1>w. /\ Workflow(x) /\ x.RepoName = repo
      /\ repo \in AllRepos /\ repo \notin {"e2e-tests", "release-service-catalog"}
  BY RuleKids, SettingsAnyIs DEF Services
<1>a. s \in BOOLEAN /\ f \in Filters
  <2>1. x.RequiresSprayProxyRegistering \in BOOLEAN
    BY Zenon DEF RuleCtxs
  <2>2. {x.RepoName} \in SUBSET FilterLabels /\ {} \in SUBSET FilterLabels
    BY <1>w, Zenon DEF FilterLabels
  <2> QED BY <2>1, <2>2, FilterType
<1>b. s <=> (x.RepoName # "release-service" \/ x.RequiresSprayProxyRegistering)
  OBVIOUS
<1>f. f = Filter({repo}, {})
  BY <1>w
<1> HIDE DEF s, f
<1>2. /\ y \in RuleCtxs /\ SettingsOnly(x, y)
      /\ y.RequiresMultiPlatformTests = x.RequiresMultiPlatformTests
      /\ y.RequiresSprayProxyRegistering = s
      /\ y.DiffFiles = x.DiffFiles /\ y.LabelFilter = f /\ y.imageOf = x.imageOf
  <2>1. y \in RuleCtxs
    BY <1>a, Zenon DEF RuleCtxs
  <2>2. /\ Same(x, y)
        /\ y.runs = x.runs /\ y.FocusFiles = x.FocusFiles /\ y.asked = x.asked
    BY Zenon DEF RuleCtxs, Same
  <2>3. /\ y.ginkgo = x.ginkgo /\ y.installs = x.installs /\ y.registered = x.registered
        /\ y.skipPac = x.skipPac /\ y.multiPlatform = x.multiPlatform
    BY Zenon DEF RuleCtxs
  <2>4. /\ y.RequiresMultiPlatformTests = x.RequiresMultiPlatformTests
        /\ y.RequiresSprayProxyRegistering = s
        /\ y.DiffFiles = x.DiffFiles /\ y.LabelFilter = f /\ y.imageOf = x.imageOf
    BY Zenon DEF RuleCtxs
  <2> QED BY <2>1, <2>2, <2>3, <2>4, Zenon DEF SettingsOnly
<1> HIDE DEF y
<1>3. /\ z \in RuleCtxs /\ SettingsOnly(y, z)
      /\ z.RequiresMultiPlatformTests = x.RequiresMultiPlatformTests
      /\ z.RequiresSprayProxyRegistering = s
      /\ z.DiffFiles = x.DiffFiles /\ z.LabelFilter = f /\ z.imageOf = y.RepoName
  <2>0. y.RepoName = repo /\ y.RepoName \in AllRepos \cup {"none"}
    BY <1>2, <1>w, Zenon DEF SettingsOnly, Same
  <2>1. z \in RuleCtxs
    BY <1>2, <2>0, ZenonT(30) DEF RuleCtxs
  <2>2. /\ Same(y, z)
        /\ z.runs = y.runs /\ z.FocusFiles = y.FocusFiles /\ z.asked = y.asked
    BY <1>2, Zenon DEF RuleCtxs, Same
  <2>3. /\ z.ginkgo = y.ginkgo /\ z.installs = y.installs /\ z.registered = y.registered
        /\ z.skipPac = y.skipPac /\ z.multiPlatform = y.multiPlatform
    BY <1>2, Zenon DEF RuleCtxs
  <2>4. /\ z.RequiresMultiPlatformTests = x.RequiresMultiPlatformTests
        /\ z.RequiresSprayProxyRegistering = s
        /\ z.DiffFiles = x.DiffFiles /\ z.LabelFilter = f /\ z.imageOf = y.RepoName
    BY <1>2, Zenon DEF RuleCtxs
  <2> QED BY <2>1, <2>2, <2>3, <2>4, Zenon DEF SettingsOnly
<1> HIDE DEF z
<1>4. SettingsOnly(x, z)
  BY <1>2, <1>3 DEF SettingsOnly, Same
<1>5. y.RepoName = repo /\ z.RepoName = repo
  BY <1>2, <1>4, <1>w DEF SettingsOnly, Same
<1>6. /\ Settled(z) /\ (Settled(x) => Settled(y))
      /\ RequiredOnly(x) => RequiredOnly(y) /\ RequiredOnly(z)
  BY <1>2, <1>3, <1>5, <1>w, <1>b, <1>f DEF Settled, RequiredOnly
<1>7. Keeps(x, y) /\ Keeps(x, z) /\ Workflow(z)
  BY <1>2, <1>3, <1>4, <1>5, <1>6, <1>w, <1>b, SettingsKeep
<1>8. Post(Settings(repo), "true", z)
  BY <1>5, <1>6, <1>7, <1>w, SettingsRuleIs
<1>9. (o.err = TRUE /\ o.ctx = y) \/ (o.err = FALSE /\ o.ctx = z)
  BY <1>1, SucceedsIs, FailsIs
<1>10. y.asked = x.asked /\ z.asked = x.asked
  BY <1>2, <1>4 DEF SettingsOnly
<1> QED BY <1>2, <1>3, <1>6, <1>7, <1>8, <1>9, <1>10 DEF ActionOK

\* The settings of release-service-catalog establish Post of their rule.
LEMMA SetCatalogDefaultsOK ==
    ASSUME NEW x \in RuleCtxs, Post(Settings("release-service-catalog").kids[1], "true", x),
           NEW o \in ExecuteCI("SetReleaseCatalogDefaults", x)
    PROVE  ActionOK(Settings("release-service-catalog"), x, o)
<1> DEFINE s == IF x.IsPaired /\ ~x.rehearse THEN "release-service" ELSE x.imageOf
           With(f) == [x EXCEPT !.LabelFilter = f, !.imageOf = s]
<1>0. PICK f \in CatalogFilters : o = Succeeds(With(f))
  <2>1. SetReleaseCatalogDefaults(x) = {Succeeds(With(f)) : f \in CatalogFilters}
    BY Zenon DEF SetReleaseCatalogDefaults
  <2>2. o \in {Succeeds(With(f)) : f \in CatalogFilters}
    BY <2>1, ExecuteCIIs, Zenon
  <2> QED BY <2>2, Zenon
<1> DEFINE y == [x EXCEPT !.LabelFilter = f, !.imageOf = s]
<1>1. o = Succeeds(y)
  BY <1>0, Zenon
<1>a. s \in AllRepos \cup {"none"} /\ f \in Filters
  <2>1. x.imageOf \in AllRepos \cup {"none"}
    BY Zenon DEF RuleCtxs
  <2> QED BY <2>1, CatalogFilterIs DEF AllRepos
<1>w. Workflow(x) /\ x.RepoName = "release-service-catalog"
  BY RuleKids, SettingsAnyIs DEF AllRepos
<1> HIDE DEF s
<1>2. /\ y \in RuleCtxs /\ SettingsOnly(x, y)
      /\ y.RequiresMultiPlatformTests = x.RequiresMultiPlatformTests
      /\ y.RequiresSprayProxyRegistering = x.RequiresSprayProxyRegistering
      /\ y.DiffFiles = x.DiffFiles /\ y.LabelFilter = f
  <2>1. y \in RuleCtxs
    BY <1>a, Zenon DEF RuleCtxs
  <2>2. /\ Same(x, y)
        /\ y.runs = x.runs /\ y.FocusFiles = x.FocusFiles /\ y.asked = x.asked
    BY Zenon DEF RuleCtxs, Same
  <2>3. /\ y.ginkgo = x.ginkgo /\ y.installs = x.installs /\ y.registered = x.registered
        /\ y.skipPac = x.skipPac /\ y.multiPlatform = x.multiPlatform
    BY Zenon DEF RuleCtxs
  <2>4. /\ y.RequiresMultiPlatformTests = x.RequiresMultiPlatformTests
        /\ y.RequiresSprayProxyRegistering = x.RequiresSprayProxyRegistering
        /\ y.DiffFiles = x.DiffFiles /\ y.LabelFilter = f
    BY Zenon DEF RuleCtxs
  <2> QED BY <2>1, <2>2, <2>3, <2>4, Zenon DEF SettingsOnly
<1> HIDE DEF y
<1>5. y.RepoName = "release-service-catalog"
  BY <1>2, <1>w DEF SettingsOnly, Same
<1>6. Settled(y) /\ (RequiredOnly(x) => RequiredOnly(y))
  BY <1>2, <1>5, <1>w DEF Settled, RequiredOnly
<1>7. Keeps(x, y) /\ Workflow(y)
  BY <1>2, <1>5, <1>6, <1>w, SettingsKeep
<1>8. Post(Settings("release-service-catalog"), "true", y)
  BY <1>5, <1>6, <1>7, SettingsRuleIs DEF AllRepos
<1>9. o.err = FALSE /\ o.ctx = y
  BY <1>1, SucceedsIs
<1>10. y.asked = x.asked
  BY <1>2 DEF SettingsOnly
<1> QED BY <1>2, <1>6, <1>7, <1>8, <1>9, <1>10 DEF ActionOK

-----------------------------------------------------------------------------
(* The mappings.                                                           *)

\* A mapping yields files of this repository.
LEMMA MappedType ==
    ASSUME NEW a \in Mappings, NEW x
    PROVE  MappedFiles(a, x) \subseteq E2EFiles
  BY MappedFilesIs DEF Mappings, E2EFiles, BuildFiles, ReleaseTests, DemoFiles, IntegrationFiles

\* Adding spec files to the focus leaves the rest of the RuleCtx alone.
LEMMA FocusedIs ==
    ASSUME NEW x \in RuleCtxs, NEW files \in SUBSET E2EFiles, NEW y,
           y = [x EXCEPT !.FocusFiles = @ \cup files]
    PROVE  /\ y \in RuleCtxs /\ Same(x, y)
           /\ y.FocusFiles = x.FocusFiles \cup files
           /\ y.runs = x.runs /\ y.DiffFiles = x.DiffFiles /\ y.LabelFilter = x.LabelFilter
           /\ y.RequiresMultiPlatformTests = x.RequiresMultiPlatformTests
           /\ y.RequiresSprayProxyRegistering = x.RequiresSprayProxyRegistering
           /\ y.imageOf = x.imageOf /\ y.asked = x.asked
           /\ y.ginkgo = x.ginkgo /\ y.installs = x.installs /\ y.registered = x.registered
           /\ y.skipPac = x.skipPac /\ y.multiPlatform = x.multiPlatform
<1>1. x.FocusFiles \cup files \in SUBSET E2EFiles
  <2>1. x.FocusFiles \in SUBSET E2EFiles
    BY Zenon DEF RuleCtxs
  <2> QED BY <2>1, Zenon
<1>2. y \in RuleCtxs
  BY <1>1, Zenon DEF RuleCtxs
<1>3. y.FocusFiles = x.FocusFiles \cup files
  BY Zenon DEF RuleCtxs
<1>4. /\ Same(x, y)
      /\ y.runs = x.runs /\ y.DiffFiles = x.DiffFiles
      /\ y.LabelFilter = x.LabelFilter
  BY Zenon DEF RuleCtxs, Same
<1>5. /\ y.RequiresMultiPlatformTests = x.RequiresMultiPlatformTests
      /\ y.RequiresSprayProxyRegistering = x.RequiresSprayProxyRegistering
      /\ y.imageOf = x.imageOf /\ y.asked = x.asked
  BY Zenon DEF RuleCtxs
<1>6. /\ y.ginkgo = x.ginkgo /\ y.installs = x.installs /\ y.registered = x.registered
      /\ y.skipPac = x.skipPac /\ y.multiPlatform = x.multiPlatform
  BY Zenon DEF RuleCtxs
<1> QED BY <1>2, <1>3, <1>4, <1>5, <1>6, Zenon

\* Prepared only depends on what the bootstrap left.
LEMMA PreparedSame ==
    ASSUME NEW x, NEW y, Prepared(x), Same(x, y), y.imageOf = x.imageOf, y.ginkgo = x.ginkgo,
           y.installs = x.installs, y.registered = x.registered, y.skipPac = x.skipPac,
           y.multiPlatform = x.multiPlatform
    PROVE  Prepared(y)
  BY DEF Prepared, Same, Booted, Reachable

\* A mapping establishes Post of its rule and keeps what Keeps says.
LEMMA MapActionOK ==
    ASSUME NEW m \in MapRules, NEW x \in RuleCtxs, NEW b, Loop(m, 2, b, x), Post(m.kids[1], "true", x),
           NEW o \in ExecuteCI(m.actions[1], x)
    PROVE  ActionOK(m, x, o)
<1> DEFINE j == IF m = ReleaseTestHelperFilesChangeOnlyRule THEN 1 ELSE 2
<1>0. PICK c \in E2EConditions, a \in Mappings : m.kids = <<ConditionFunc(c)>> /\ m.actions = <<a>>
  BY MapRuleShape
<1> DEFINE y == [x EXCEPT !.FocusFiles = @ \cup MappedFiles(a, x)]
<1>1. o \in {Succeeds(y)}
  <2>1. m.actions[1] = a
    BY <1>0
  <2> QED BY <2>1, ExecuteCIIs, Zenon
<1>2. /\ y \in RuleCtxs /\ Same(x, y)
      /\ y.FocusFiles = x.FocusFiles \cup MappedFiles(a, x)
      /\ y.runs = x.runs /\ y.DiffFiles = x.DiffFiles /\ y.LabelFilter = x.LabelFilter
      /\ y.RequiresMultiPlatformTests = x.RequiresMultiPlatformTests
      /\ y.RequiresSprayProxyRegistering = x.RequiresSprayProxyRegistering
      /\ y.imageOf = x.imageOf /\ y.asked = x.asked
      /\ y.ginkgo = x.ginkgo /\ y.installs = x.installs /\ y.registered = x.registered
      /\ y.skipPac = x.skipPac /\ y.multiPlatform = x.multiPlatform
  BY MappedType, FocusedIs
<1> HIDE DEF y
<1>3. m.kids[1] = ConditionFunc(c) /\ m.kids[1].name = c /\ m.actions[1] = a
  <2>1. ConditionFunc(c).name = c
    BY DEF ConditionFunc
  <2> QED BY <1>0, <2>1
<1>4. E2EHolds(c, x)
  BY <1>3, MorePosts
<1>5. Stage(j, x) /\ (j = 2 => H3(x))
  BY MapRuleIs
<1>6. HelpersOnly(x) \/ H3(x)
  <2>1. CASE m = ReleaseTestHelperFilesChangeOnlyRule
    <3>1. m.kids[1].name = "ReleaseHelpersOnly"
      BY <2>1 DEF ReleaseTestHelperFilesChangeOnlyRule, Rule, ConditionFunc
    <3> QED BY <1>3, <1>4, <3>1 DEF HelpersOnly
  <2> QED BY <1>5, <2>1
<1>7. ~(x.catalog = "ci" /\ H1(x) /\ x.runs = <<>>)
  <2>1. CASE j = 2
    BY <1>5, <2>1, ExactlyOneHolds
  <2>2. CASE j = 1
    BY <1>5, <2>2 DEF Stage, OneGoodRun
  <2> QED BY <2>1, <2>2
<1>8. /\ (H1(y) <=> H1(x)) /\ (H2(y) <=> H2(x)) /\ (H3(y) <=> H3(x))
      /\ (HelpersOnly(y) <=> HelpersOnly(x)) /\ Labels(y) = Labels(x)
      /\ E2EHolds(c, y) <=> E2EHolds(c, x)
      /\ InfraHolds("components/build-service", y) <=> InfraHolds("components/build-service", x)
      /\ MappedFiles(a, y) = MappedFiles(a, x)
  <2>1. /\ (H1(y) <=> H1(x)) /\ (H2(y) <=> H2(x)) /\ (H3(y) <=> H3(x))
        /\ (HelpersOnly(y) <=> HelpersOnly(x)) /\ Labels(y) = Labels(x)
    BY <1>2, SameFacts
  <2>2. /\ E2EHolds(c, y) <=> E2EHolds(c, x)
        /\ InfraHolds("components/build-service", y) <=> InfraHolds("components/build-service", x)
        /\ MappedFiles(a, y) = MappedFiles(a, x)
    BY <1>2, SameDiff DEF InfraConditions, InfraComponents
  <2> QED BY <2>1, <2>2
<1>9. Stage(j, y)
  <2>1. Prepared(x) => Prepared(y)
    BY <1>2, PreparedSame
  <2>2. OneGoodRun(x) => OneGoodRun(y)
    BY <1>2 DEF OneGoodRun, GoodRun, Same
  <2> QED BY <1>2, <1>5, <1>6, <1>7, <1>8, <2>1, <2>2 DEF Stage, Same
<1>10. Keeps(x, y)
  <2>1. Settled(x) => Settled(y)
    BY <1>2 DEF Settled, Same
  <2>2. Infra(x) => Infra(y)
    BY <1>2, <1>8 DEF Infra, Same
  <2>3. x.DiffFiles = x.change
    BY <1>5 DEF Stage
  <2> QED BY <1>2, <1>6, <1>7, <2>1, <2>2, <2>3 DEF Keeps, Reachable, Same
<1>11. RequiredOnly(x) => RequiredOnly(y)
  BY <1>2 DEF RequiredOnly, Same
<1>12. Post(m, "true", y)
  <2>1. E2EHolds(m.kids[1].name, y) /\ MappedFiles(m.actions[1], y) \subseteq y.FocusFiles
    BY <1>2, <1>3, <1>4, <1>8
  <2>2. j = 2 => H3(y)
    BY <1>5, <1>8
  <2> QED BY <1>9, <2>1, <2>2, MapRuleIs
<1>13. o.err = FALSE /\ o.ctx = y
  BY <1>1, SucceedsIs
<1> QED BY <1>2, <1>10, <1>11, <1>12, <1>13 DEF ActionOK

-----------------------------------------------------------------------------
(* The labels.                                                             *)

\* y is x but for the label filter.
Relabelled(x, y) ==
    /\ Same(x, y)
    /\ y.runs = x.runs /\ y.FocusFiles = x.FocusFiles /\ y.DiffFiles = x.DiffFiles
    /\ y.RequiresMultiPlatformTests = x.RequiresMultiPlatformTests
    /\ y.RequiresSprayProxyRegistering = x.RequiresSprayProxyRegistering
    /\ y.imageOf = x.imageOf /\ y.asked = x.asked
    /\ y.ginkgo = x.ginkgo /\ y.installs = x.installs /\ y.registered = x.registered
    /\ y.skipPac = x.skipPac /\ y.multiPlatform = x.multiPlatform

\* Setting the label filter leaves the rest of the RuleCtx alone.
LEMMA RelabelledIs ==
    ASSUME NEW x \in RuleCtxs, NEW f \in Filters, NEW y, y = [x EXCEPT !.LabelFilter = f]
    PROVE  y \in RuleCtxs /\ y.LabelFilter = f /\ Relabelled(x, y)
<1>2. y \in RuleCtxs
  BY Zenon DEF RuleCtxs
<1>3. y.LabelFilter = f
  BY Zenon DEF RuleCtxs
<1>4. /\ Same(x, y)
      /\ y.runs = x.runs /\ y.FocusFiles = x.FocusFiles /\ y.DiffFiles = x.DiffFiles
  BY Zenon DEF RuleCtxs, Same
<1>5. /\ y.RequiresMultiPlatformTests = x.RequiresMultiPlatformTests
      /\ y.RequiresSprayProxyRegistering = x.RequiresSprayProxyRegistering
      /\ y.imageOf = x.imageOf /\ y.asked = x.asked
  BY Zenon DEF RuleCtxs
<1>6. /\ y.ginkgo = x.ginkgo /\ y.installs = x.installs /\ y.registered = x.registered
      /\ y.skipPac = x.skipPac /\ y.multiPlatform = x.multiPlatform
  BY Zenon DEF RuleCtxs
<1> QED BY <1>2, <1>3, <1>4, <1>5, <1>6, Zenon DEF Relabelled

\* The label filter of a RuleCtx is one of Filters.
LEMMA FilterIs ==
    ASSUME NEW x \in RuleCtxs
    PROVE  /\ x.LabelFilter \in Filters
           /\ x.LabelFilter.only \in SUBSET FilterLabels /\ x.LabelFilter.not \in SUBSET FilterLabels
           /\ x.LabelFilter.before = {} => x.LabelFilter = Filter(x.LabelFilter.only, x.LabelFilter.not)
<1>1. x.LabelFilter \in Filters
  BY Zenon DEF RuleCtxs
<1> QED BY <1>1 DEF Filters, Filter

\* The update of a field of a label filter.
LEMMA FilterExcept ==
    ASSUME NEW f \in Filters, NEW s \in SUBSET FilterLabels
    PROVE  /\ f.before = {} => [f EXCEPT !.only = s] = Filter(s, f.not)
           /\ [f EXCEPT !.not = s] \in Filters /\ [f EXCEPT !.not = s].not = s
           /\ [[f EXCEPT !.not = s] EXCEPT !.not = {}] = [f EXCEPT !.not = {}]
<1>1. f.before = {} => [f EXCEPT !.only = s] = Filter(s, f.not)
  BY DEF Filter, Filters
<1>2. [f EXCEPT !.not = s] \in Filters /\ [f EXCEPT !.not = s].not = s
  BY Zenon DEF Filters
<1>3. [[f EXCEPT !.not = s] EXCEPT !.not = {}] = [f EXCEPT !.not = {}]
  BY DEF Filters
<1> QED BY <1>1, <1>2, <1>3

\* AddLabelToLabelFilter by cases.
LEMMA LabelAdded ==
    ASSUME NEW x \in RuleCtxs, NEW label \in FilterLabels, x.LabelFilter.before = {}
    PROVE  LET y == AddLabelToLabelFilter(x, label)
               add == IF Contains(x.LabelFilter.only, label) THEN {} ELSE {label}
           IN /\ y \in RuleCtxs /\ Relabelled(x, y)
              /\ y.LabelFilter = Filter(x.LabelFilter.only \cup add, x.LabelFilter.not)
<1>1. CASE Contains(x.LabelFilter.only, label)
  <2>1. AddLabelToLabelFilter(x, label) = x
    BY <1>1 DEF AddLabelToLabelFilter
  <2>2. x.LabelFilter.only \cup {} = x.LabelFilter.only
    OBVIOUS
  <2> QED BY <1>1, <2>1, <2>2, FilterIs DEF Relabelled, Same
<1>2. CASE ~Contains(x.LabelFilter.only, label)
  <2> DEFINE s == x.LabelFilter.only \cup {label}
             f == Filter(s, x.LabelFilter.not)
             y == [x EXCEPT !.LabelFilter = f]
  <2>1. f \in Filters
    <3>1. s \in SUBSET FilterLabels /\ x.LabelFilter.not \in SUBSET FilterLabels
      BY FilterIs
    <3> HIDE DEF s
    <3> QED BY <3>1, FilterType
  <2>2. AddLabelToLabelFilter(x, label) = y
    <3>1. AddLabelToLabelFilter(x, label) = [x EXCEPT !.LabelFilter = [x.LabelFilter EXCEPT !.only = s]]
      BY <1>2, Zenon DEF AddLabelToLabelFilter
    <3>2. [x.LabelFilter EXCEPT !.only = s] = f
      <4>1. s \in SUBSET FilterLabels
        BY FilterIs
      <4> HIDE DEF s
      <4> QED BY <4>1, FilterIs, FilterExcept DEF f
    <3> QED BY <3>1, <3>2, Zenon
  <2> HIDE DEF f
  <2>3. y \in RuleCtxs /\ y.LabelFilter = f /\ Relabelled(x, y)
    BY <2>1, RelabelledIs
  <2> HIDE DEF y
  <2> QED BY <1>2, <2>2, <2>3 DEF f
<1> QED BY <1>1, <1>2

\* LabelOf by cases.
LEMMA LabelOfIs ==
    /\ LabelOf("components/integration") = "integration-service"
    /\ LabelOf("components/image-controller") = "image-controller"
    /\ LabelOf("components/multi-platform-controller") = "multi-platform"
    /\ LabelOf("build-pipeline-config") = "build-templates"
    /\ LabelOf("components/build-service") = "build-service"
    /\ LabelOf("components/release") = "release-service"
    /\ LabelOf("components/enterprise-contract") = "ec"
    /\ LabelOf("components/jvm-build-service") = "jvm-build-service"
    /\ LabelOf("components/pipeline-service") = "pipeline-service"
  BY Zenon DEF LabelOf

\* The labels of two components differ where one name contains the other.
LEMMA LabelsDistinct ==
    ASSUME NEW c \in InfraConditions
    PROVE  /\ LabelOf(c) \in FilterLabels
           /\ LabelOf(c) = "build-service" => c = "components/build-service"
           /\ LabelOf(c) = "jvm-build-service" => c = "components/jvm-build-service"
           /\ LabelOf(c) # "konflux"
<1>1. LabelOf(c) \in FilterLabels
  BY DEF FilterLabels
<1> QED BY <1>1, LabelOfIs DEF InfraConditions, InfraComponents

\* The action of a component adds its label, whatever labels are there already.
LEMMA ComponentActionOK ==
    ASSUME NEW c \in InfraConditions, NEW x \in RuleCtxs, NEW b,
           x.catalog = "ci" <=> x.RepoName \in AllRepos,
           Loop(ComponentChangeRule(c), 2, b, x),
           Post(ComponentChangeRule(c).kids[1], "true", x), NEW o \in ExecuteCI(c, x)
    PROVE  ActionOK(ComponentChangeRule(c), x, o)
<1> DEFINE y == AddLabelToLabelFilter(x, LabelOf(c))
           add == IF Contains(x.LabelFilter.only, LabelOf(c)) THEN {} ELSE {LabelOf(c)}
           only == x.LabelFilter.only
<1>1. o \in {Succeeds(y)}
  BY ExecuteCIIs, Zenon
<1>4. InfraHolds(c, x)
  BY RuleKids, MorePosts
<1>5. Infra(x) /\ (c = "components/jvm-build-service" /\ InfraHolds("components/build-service", x)
                     => "build-service" \in only)
  BY ComponentRuleIs
<1>2. /\ y \in RuleCtxs /\ Relabelled(x, y)
      /\ y.LabelFilter = Filter(only \cup add, x.LabelFilter.not)
  <2>1. x.LabelFilter.before = {}
    BY <1>5 DEF Infra
  <2> QED BY <2>1, LabelsDistinct, LabelAdded
<1>3. /\ y.LabelFilter.only = only \cup add /\ y.LabelFilter.not = x.LabelFilter.not
      /\ y.LabelFilter.before = {}
  BY <1>2 DEF Filter
<1>6. add = {LabelOf(c)} \/ (add = {} /\ LabelOf(c) \in only)
  <2>1. Contains(only, LabelOf(c)) => LabelOf(c) \in only
    BY <1>4, <1>5, LabelsDistinct DEF Contains, Infra
  <2> QED BY <2>1
<1> HIDE DEF y, add
<1>7. /\ Labels(y) = Labels(x)
      /\ InfraHolds(c, y) <=> InfraHolds(c, x)
      /\ InfraHolds("components/build-service", y) <=> InfraHolds("components/build-service", x)
  BY <1>2, SameFacts, SameDiff DEF Relabelled, InfraConditions, InfraComponents
<1>8. only \cup add \subseteq Labels(x)
  <2>1. LabelOf(c) \in Labels(x)
    BY <1>4 DEF Labels
  <2> QED BY <1>5, <1>6, <2>1 DEF Infra
<1>9. Infra(y)
  <2>1. "jvm-build-service" \in only \cup add /\ InfraHolds("components/build-service", x)
          => "build-service" \in only \cup add
    BY <1>5, <1>6, LabelsDistinct DEF Infra
  <2> QED BY <1>2, <1>3, <1>5, <1>7, <1>8, <2>1 DEF Infra, Relabelled, Same
<1>10. Keeps(x, y)
  <2>1. x.catalog = "infra-deployments" /\ x.RepoName \notin AllRepos
    BY <1>5 DEF Infra
  <2>2. x.imageOf \in AllRepos \cup {"none"} /\ x.RepoName \in AllRepos \cup {"infra-deployments", ""}
    BY Zenon DEF RuleCtxs
  <2>3. ~Settled(x)
    BY <2>1, <2>2 DEF Settled, AllRepos
  <2>4. x.RepoName # "e2e-tests" /\ x.catalog # "e2e-repo"
    BY <2>1 DEF AllRepos
  <2> QED BY <1>2, <1>3, <1>5, <1>9, <2>3, <2>4 DEF Keeps, Relabelled, Same, Reachable
<1>11. RequiredOnly(x) => RequiredOnly(y)
  BY <1>2 DEF Relabelled, RequiredOnly, Same
<1>12. Post(ComponentChangeRule(c), "true", y)
  <2>1. LabelOf(c) \in y.LabelFilter.only
    BY <1>3, <1>6
  <2>2. c = "components/jvm-build-service" /\ InfraHolds("components/build-service", y)
          => "build-service" \in y.LabelFilter.only
    BY <1>3, <1>5, <1>7
  <2> QED BY <1>4, <1>7, <1>9, <2>1, <2>2, ComponentRuleIs
<1>13. o.err = FALSE /\ o.ctx = y
  BY <1>1, SucceedsIs
<1> QED BY <1>2, <1>10, <1>11, <1>12, <1>13 DEF ActionOK, Relabelled

-----------------------------------------------------------------------------
(* Every rule.                                                             *)

\* The rules of the catalog e2e-repo.
TestRuleSet == {NonTestFilesRule, NonTestFilesRuleWithReleasePipelines, TestFilesOnlyRule}

\* A rule has one condition and at most one action.
LEMMA RuleLen ==
    ASSUME NEW n \in Rules
    PROVE  n.op = "rule" /\ Len(n.kids) = 1 /\ (n.actions = <<>> \/ Len(n.actions) = 1)
<1>0. ASSUME NEW name, NEW k, NEW a, n = Rule(name, k, <<a>>) \/ n = Rule(name, k, <<>>)
      PROVE  n.op = "rule" /\ Len(n.kids) = 1 /\ (n.actions = <<>> \/ Len(n.actions) = 1)
  BY <1>0 DEF Rule
<1>1. CASE n \in MapRules
  <2>1. PICK c \in E2EConditions, a \in Mappings : n = Rule(n.name, ConditionFunc(c), <<a>>)
    BY <1>1, MapRuleShape
  <2> QED BY <1>0, <2>1
<1>2. CASE n \in {ComponentChangeRule(c) : c \in InfraConditions}
  BY <1>0, <1>2 DEF ComponentChangeRule
<1>3. CASE n \in {Settings(repo) : repo \in AllRepos}
  BY <1>0, <1>3 DEF Settings, SetDefaultSettingsRule
<1>4. CASE n \in TestRuleSet
  BY <1>0, <1>4, TestRuleShapes DEF TestRuleSet
<1>5. CASE n \in {InfraDeploymentsPRPairingRule, PreflightInstallGinkgoRule, InstallKonfluxRule}
  BY <1>0, <1>5 DEF InfraDeploymentsPRPairingRule, PreflightInstallGinkgoRule, InstallKonfluxRule
<1>6. CASE n \in {RegisterKonfluxToSprayProxyRule, SetupMultiPlatformTestsRule,
                  BootstrapClusterRuleChain, BootstrapClusterWithSprayProxyRuleChain}
  BY <1>0, <1>6, BootRuleShapes
<1> QED BY <1>1, <1>2, <1>3, <1>4, <1>5, <1>6 DEF Rules, TestRuleSet

\* The settings of every repository establish Post of their rule.
LEMMA SettingsActionOK ==
    ASSUME NEW repo \in AllRepos, NEW x \in RuleCtxs, Post(Settings(repo).kids[1], "true", x),
           NEW o \in ExecuteCI(Settings(repo).actions[1], x)
    PROVE  ActionOK(Settings(repo), x, o)
<1>0. Settings(repo).actions[1] = SettingsAction(repo)
  BY RuleKids
<1>1. CASE repo = "e2e-tests"
  BY <1>0, <1>1, SettingsActionIs, SetE2EDefaultsOK
<1>2. CASE repo = "release-service-catalog"
  BY <1>0, <1>2, SettingsActionIs, SetCatalogDefaultsOK
<1>3. CASE repo \in Services
  BY <1>0, <1>3, SettingsActionIs, SetServiceDefaultsOK
<1> QED BY <1>1, <1>2, <1>3 DEF Services

\* The action of every rule but the ones that run tests establishes its Post.
LEMMA RuleActionsOK ==
    ASSUME NEW n \in Rules \ TestRuleSet, NEW x \in RuleCtxs, NEW b, n.actions # <<>>,
           x.catalog = "ci" <=> x.RepoName \in AllRepos,
           Loop(n, 2, b, x), Post(n.kids[1], "true", x), NEW o \in ExecuteCI(n.actions[1], x)
    PROVE  ActionOK(n, x, o)
<1>1. CASE n \in MapRules
  BY <1>1, MapActionOK
<1>2. CASE n \in {ComponentChangeRule(c) : c \in InfraConditions}
  <2>1. PICK c \in InfraConditions : n = ComponentChangeRule(c)
    BY <1>2
  <2>2. n.actions[1] = c
    BY <2>1, RuleKids
  <2> QED BY <2>1, <2>2, ComponentActionOK
<1>3. CASE n \in {Settings(repo) : repo \in AllRepos}
  BY <1>3, SettingsActionOK
<1>4. CASE n = InfraDeploymentsPRPairingRule
  <2>1. n.actions[1] = "SetInfraDeployments"
    BY <1>4, RuleKids
  <2> QED BY <1>4, <2>1, PairingActionOK
<1>5. CASE n = PreflightInstallGinkgoRule
  <2>1. n.actions[1] = "InstallGinkgo"
    BY <1>5, RuleKids
  <2> QED BY <1>5, <2>1, PreflightActionOK
<1>6. CASE n = InstallKonfluxRule
  <2>1. n.actions[1] = "InstallKonflux"
    BY <1>6, RuleKids
  <2> QED BY <1>6, <2>1, InstallActionOK
<1>7. CASE n = RegisterKonfluxToSprayProxyRule
  <2>1. n.actions[1] = "RegisterSprayProxy"
    BY <1>7, RuleKids
  <2> QED BY <1>7, <2>1, SprayActionOK
<1>8. CASE n = SetupMultiPlatformTestsRule
  <2>1. n.actions[1] = "SetupMultiPlatformTests"
    BY <1>8, RuleKids
  <2> QED BY <1>8, <2>1, MultiActionOK
<1>9. n \notin {BootstrapClusterRuleChain, BootstrapClusterWithSprayProxyRuleChain}
  BY RuleKids
<1> QED BY <1>1, <1>2, <1>3, <1>4, <1>5, <1>6, <1>7, <1>8, <1>9 DEF Rules, TestRuleSet

-----------------------------------------------------------------------------
(* The actions that run the tests.                                         *)

\* What ginkgo is started with.
RunOf(x) == [focus |-> x.FocusFiles, filter |-> x.LabelFilter]

\* y is x but for the label filter and the runs.
Tested(x, y) ==
    /\ Same(x, y)
    /\ y.FocusFiles = x.FocusFiles /\ y.DiffFiles = x.DiffFiles
    /\ y.RequiresMultiPlatformTests = x.RequiresMultiPlatformTests
    /\ y.RequiresSprayProxyRegistering = x.RequiresSprayProxyRegistering
    /\ y.imageOf = x.imageOf /\ y.asked = x.asked
    /\ y.ginkgo = x.ginkgo /\ y.installs = x.installs /\ y.registered = x.registered
    /\ y.skipPac = x.skipPac /\ y.multiPlatform = x.multiPlatform

\* What a call of ExecuteTestAction in x leads to.
TestOutcome(x, o) ==
    /\ o.ctx \in RuleCtxs /\ o.err \in BOOLEAN
    /\ Tested(x, o.ctx) /\ o.ctx.LabelFilter = x.LabelFilter
    /\ \/ o.ctx.runs = x.runs /\ o.err
       \/ o.ctx.runs = Append(x.runs, RunOf(x))

\* Starting ginkgo only appends to the runs.
LEMMA RanIs ==
    ASSUME NEW x \in RuleCtxs, NEW y, y = [x EXCEPT !.runs = Append(@, RunOf(x))]
    PROVE  /\ y \in RuleCtxs /\ Tested(x, y) /\ y.LabelFilter = x.LabelFilter
           /\ y.runs = Append(x.runs, RunOf(x))
<1>1. Append(x.runs, RunOf(x)) \in Seq([focus : SUBSET E2EFiles, filter : Filters])
  <2>1. x.runs \in Seq([focus : SUBSET E2EFiles, filter : Filters]) /\ x.FocusFiles \in SUBSET E2EFiles
        /\ x.LabelFilter \in Filters
    BY Zenon DEF RuleCtxs
  <2>2. RunOf(x) \in [focus : SUBSET E2EFiles, filter : Filters]
    BY <2>1, Zenon DEF RunOf
  <2> HIDE DEF RunOf
  <2> QED BY <2>1, <2>2
<1>2. y \in RuleCtxs
  BY <1>1, Zenon DEF RuleCtxs
<1>3. y.runs = Append(x.runs, RunOf(x)) /\ y.LabelFilter = x.LabelFilter
  BY Zenon DEF RuleCtxs
<1>4. Same(x, y) /\ y.FocusFiles = x.FocusFiles /\ y.DiffFiles = x.DiffFiles
  BY Zenon DEF RuleCtxs, Same
<1>5. /\ y.RequiresMultiPlatformTests = x.RequiresMultiPlatformTests
      /\ y.RequiresSprayProxyRegistering = x.RequiresSprayProxyRegistering
      /\ y.imageOf = x.imageOf /\ y.asked = x.asked
  BY Zenon DEF RuleCtxs
<1>6. /\ y.ginkgo = x.ginkgo /\ y.installs = x.installs /\ y.registered = x.registered
      /\ y.skipPac = x.skipPac /\ y.multiPlatform = x.multiPlatform
  BY Zenon DEF RuleCtxs
<1> QED BY <1>2, <1>3, <1>4, <1>5, <1>6, Zenon DEF Tested

\* ExecuteTestAction starts ginkgo once or fails.
LEMMA TestActionIs ==
    ASSUME NEW x \in RuleCtxs, NEW o \in ExecuteTestAction(x)
    PROVE  TestOutcome(x, o)
<1> DEFINE y == [x EXCEPT !.runs = Append(@, RunOf(x))]
<1>1. o \in {Succeeds(y), Fails(y), Fails(x)}
  BY DEF ExecuteTestAction, RunOf
<1>2. /\ y \in RuleCtxs /\ Tested(x, y) /\ y.LabelFilter = x.LabelFilter
      /\ y.runs = Append(x.runs, RunOf(x))
  BY RanIs
<1> HIDE DEF y
<1>3. (o.ctx = y /\ o.err \in BOOLEAN) \/ (o.ctx = x /\ o.err = TRUE)
  BY <1>1, SucceedsIs, FailsIs
<1>4. Tested(x, x)
  BY DEF Tested, Same
<1> QED BY <1>2, <1>3, <1>4 DEF TestOutcome

\* The same after the label filter was set.
LEMMA LabelledTestIs ==
    ASSUME NEW x \in RuleCtxs, NEW f \in Filters,
           NEW o \in ExecuteTestAction([x EXCEPT !.LabelFilter = f])
    PROVE  /\ o.ctx \in RuleCtxs /\ o.err \in BOOLEAN /\ Tested(x, o.ctx) /\ o.ctx.LabelFilter = f
           /\ \/ o.ctx.runs = x.runs /\ o.err
              \/ o.ctx.runs = Append(x.runs, [focus |-> x.FocusFiles, filter |-> f])
<1> DEFINE z == [x EXCEPT !.LabelFilter = f]
<1>1. z \in RuleCtxs /\ z.LabelFilter = f /\ Relabelled(x, z)
  BY RelabelledIs
<1> HIDE DEF z
<1>2. TestOutcome(z, o)
  BY <1>1, TestActionIs DEF z
<1> QED BY <1>1, <1>2 DEF TestOutcome, Tested, Relabelled, Same, RunOf

\* The files a condition of the catalog e2e-repo looks for.
LEMMA ChangedIs ==
    ASSUME NEW x, x.DiffFiles = x.change
    PROVE  /\ Shared(x) <=> x.change \cap SharedFiles # {}
           /\ Pipelines(x) <=> x.change \cap ReleasePipelines # {}
           /\ Empty(x) <=> x.change = {}
           /\ Shared(x) <=> Changed(x, SharedFiles)
  BY E2EHoldsIs DEF Shared, Pipelines, Empty, Changed

\* The label filters that the actions set.
LEMMA LabelFacts ==
    /\ NoFilter \in Filters /\ NoFilter.before = {} /\ NoFilter.only = {} /\ NoFilter.not = {}
    /\ Filter({}, Upgrades) \in Filters
    /\ Filter({}, Upgrades \cup {"release-pipelines"}) \in Filters
    /\ Upgrades \cap Slow = {} /\ (Upgrades \cup {"release-pipelines"}) \cap Slow = {}
    /\ Upgrades \cap {"release-pipelines"} = {}
    /\ \A a, b : Filter(a, b).before = {} /\ Filter(a, b).only = a /\ Filter(a, b).not = b
<1>1. /\ {} \in SUBSET FilterLabels /\ Upgrades \in SUBSET FilterLabels
      /\ Upgrades \cup {"release-pipelines"} \in SUBSET FilterLabels
  BY DEF FilterLabels
<1>2. \A a, b : Filter(a, b).before = {} /\ Filter(a, b).only = a /\ Filter(a, b).not = b
  BY DEF Filter
<1>3. /\ Upgrades \cap Slow = {} /\ (Upgrades \cup {"release-pipelines"}) \cap Slow = {}
      /\ Upgrades \cap {"release-pipelines"} = {}
  BY DEF Upgrades, Slow
<1> QED BY <1>1, <1>2, <1>3, FilterType DEF NoFilter

\* The three rules make a good run.
LEMMA H1Run ==
    ASSUME NEW x \in RuleCtxs, x.DiffFiles = x.change, H1(x), NEW run,
           run = [focus |-> {}, filter |-> Filter({}, Upgrades \cup {"release-pipelines"})]
    PROVE  GoodRun(run, x)
<1>1. x.change \cap ReleasePipelines = {}
  BY ChangedIs DEF H1
<1>2. /\ run.focus = {} /\ run.filter.before = {}
      /\ run.filter.only = {} /\ run.filter.not = Upgrades \cup {"release-pipelines"}
  BY LabelFacts
<1>3. ASSUME NEW f \in x.change \cap SpecFiles
      PROVE  Selects(run, f, IF f \in ReleasePipelines THEN {"release-pipelines"} ELSE {})
  BY <1>1, <1>2 DEF Selects
<1> QED BY <1>1, <1>2, <1>3, LabelFacts DEF GoodRun

\* The run of NonTestFilesWithReleasePipelines is as it should be.
LEMMA H2Run ==
    ASSUME NEW x \in RuleCtxs, x.DiffFiles = x.change, H2(x), NEW run,
           run = [focus |-> {}, filter |-> Filter({}, Upgrades)]
    PROVE  GoodRun(run, x)
<1>1. x.change \cap ReleasePipelines # {}
  BY ChangedIs DEF H2
<1>2. /\ run.focus = {} /\ run.filter.before = {}
      /\ run.filter.only = {} /\ run.filter.not = Upgrades
  BY LabelFacts
<1>3. ASSUME NEW f \in x.change \cap SpecFiles
      PROVE  Selects(run, f, IF f \in ReleasePipelines THEN {"release-pipelines"} ELSE {})
  BY <1>2, LabelFacts DEF Selects
<1>4. Upgrades \cup {} = Upgrades
  OBVIOUS
<1> QED BY <1>1, <1>2, <1>3, <1>4, LabelFacts DEF GoodRun

\* The run of TestFilesOnly is, if the changed spec files are in focus.
LEMMA H3Run ==
    ASSUME NEW x \in RuleCtxs, x.DiffFiles = x.change, H3(x), SpecsFocused(x), NEW run,
           run = [focus |-> x.FocusFiles, filter |-> NoFilter]
    PROVE  GoodRun(run, x)
<1>1. x.change \cap SharedFiles = {}
  BY ChangedIs DEF H3
<1>2. run.focus = x.FocusFiles /\ run.filter.before = {} /\ run.filter.only = {} /\ run.filter.not = {}
  BY LabelFacts
<1>3. ASSUME NEW f \in x.change \cap SpecFiles
      PROVE  Selects(run, f, IF f \in ReleasePipelines THEN {"release-pipelines"} ELSE {})
  BY <1>2 DEF Selects, SpecsFocused
<1> QED BY <1>1, <1>2, <1>3 DEF GoodRun

\* The outcome o of the action of the rule n: ginkgo is started once, in a prepared
\* CI job of this repository, or the action fails.
TestActionOK(n, x, o) ==
    /\ o.ctx \in RuleCtxs /\ o.err \in BOOLEAN /\ Tested(x, o.ctx)
    /\ x.runs = <<>> /\ x.RepoName = "e2e-tests" /\ Prepared(x)
    /\ \/ o.ctx.runs = <<>> /\ o.err
       \/ OneGoodRun(o.ctx) /\ Post(n, "true", o.ctx)

\* What does not depend on the label filter and the runs.
LEMMA TestedSame ==
    ASSUME NEW x, NEW y, Tested(x, y)
    PROVE  /\ (H1(y) <=> H1(x)) /\ (H2(y) <=> H2(x)) /\ (H3(y) <=> H3(x))
           /\ HelpersOnly(y) <=> HelpersOnly(x)
           /\ Prepared(x) => Prepared(y)
           /\ \A run : GoodRun(run, x) => GoodRun(run, y)
           /\ RequiredOnly(x) => RequiredOnly(y)
<1>1. /\ (H1(y) <=> H1(x)) /\ (H2(y) <=> H2(x)) /\ (H3(y) <=> H3(x))
      /\ HelpersOnly(y) <=> HelpersOnly(x)
  BY SameFacts DEF Tested
<1>2. Prepared(x) => Prepared(y)
  BY PreparedSame DEF Tested
<1>3. \A run : GoodRun(run, x) => GoodRun(run, y)
  BY DEF Tested, GoodRun, Same
<1>4. RequiredOnly(x) => RequiredOnly(y)
  BY DEF Tested, RequiredOnly, Same
<1> QED BY <1>1, <1>2, <1>3, <1>4

\* The first run, as it should be, makes one good run.
LEMMA OneRun ==
    ASSUME NEW x, NEW y, Tested(x, y), x.runs = <<>>, NEW run, y.runs = Append(x.runs, run), GoodRun(run, x)
    PROVE  OneGoodRun(y)
<1>1. GoodRun(run, y)
  BY TestedSame
<1>2. Len(y.runs) = 1 /\ y.runs[1] = run
  OBVIOUS
<1> QED BY <1>1, <1>2 DEF OneGoodRun

\* After it the rule of the catalog e2e-repo was applied.
LEMMA TestedStage ==
    ASSUME NEW x, NEW y, Tested(x, y), OneGoodRun(y), NEW j \in {0, 1, 2}, Stage(j, x), x.catalog = "ci",
           j = 0 => H1(x), j = 1 => H2(x), j = 2 => H3(x)
    PROVE  Stage(j + 1, y)
<1>1. x.RepoName = "e2e-tests" /\ Prepared(x) /\ x.DiffFiles = x.change
      /\ (x.FocusFiles # {} => HelpersOnly(x) \/ H3(x))
  BY DEF Stage
<1>2. y.catalog = "ci" /\ y.RepoName = "e2e-tests" /\ Prepared(y) /\ y.DiffFiles = y.change
      /\ (y.FocusFiles # {} => HelpersOnly(y) \/ H3(y))
  BY <1>1, TestedSame DEF Tested, Same
<1>3. y.runs # <<>>
  BY DEF OneGoodRun
<1>4. (j + 1 >= 1 /\ H1(y)) \/ (j + 1 >= 2 /\ H2(y)) \/ (j + 1 >= 3 /\ H3(y))
  BY TestedSame
<1> QED BY <1>2, <1>3, <1>4 DEF Stage

\* Before the rule that holds is applied no test was run and the cluster is prepared.
LEMMA InStage ==
    ASSUME NEW j \in {0, 1, 2}, NEW x, Stage(j, x), x.catalog = "ci",
           j = 0 => H1(x), j = 1 => H2(x), j = 2 => H3(x)
    PROVE  /\ x.runs = <<>> /\ x.LabelFilter = NoFilter
           /\ x.RepoName = "e2e-tests" /\ Prepared(x) /\ x.DiffFiles = x.change
           /\ j < 2 => x.FocusFiles = {}
<1>1. /\ x.runs = <<>> /\ x.LabelFilter = NoFilter
      /\ x.RepoName = "e2e-tests" /\ Prepared(x) /\ x.DiffFiles = x.change
  BY ExactlyOneHolds DEF Stage
<1>2. j = 1 => ~HelpersOnly(x) /\ ~H3(x)
  BY HelpersNoPipelines, ExactlyOneHolds DEF H2
<1> QED BY <1>1, <1>2 DEF Stage

\* The action of NonTestFiles runs the tests as it should.
LEMMA NonTestActionOK ==
    ASSUME NEW x \in RuleCtxs, NEW b, Loop(NonTestFilesRule, 2, b, x),
           Post(NonTestFilesRule.kids[1], "true", x),
           NEW o \in ExecuteCI(NonTestFilesRule.actions[1], x)
    PROVE  TestActionOK(NonTestFilesRule, x, o)
<1> DEFINE f == Filter({}, Upgrades \cup {"release-pipelines"})
<1>1. NonTestFilesRule.kids[1] = NonTestAll /\ NonTestFilesRule.actions[1] = "ExecuteDefaultTestAction"
  BY RuleKids
<1>2. Stage(0, x) /\ x.catalog = "ci" /\ H1(x)
  BY <1>1, NonTestRuleIs, NonTestAllIs
<1>3. o \in ExecuteTestAction([x EXCEPT !.LabelFilter = f])
  BY <1>1, ExecuteCIIs, Zenon DEF ExecuteDefaultTestAction
<1>4. f \in Filters
  BY LabelFacts
<1>5. /\ o.ctx \in RuleCtxs /\ o.err \in BOOLEAN /\ Tested(x, o.ctx)
      /\ \/ o.ctx.runs = x.runs /\ o.err
         \/ o.ctx.runs = Append(x.runs, [focus |-> x.FocusFiles, filter |-> f])
  BY <1>3, <1>4, LabelledTestIs
<1>6. /\ x.runs = <<>> /\ x.RepoName = "e2e-tests" /\ Prepared(x) /\ x.DiffFiles = x.change
      /\ x.FocusFiles = {}
  BY <1>2, InStage
<1>7. GoodRun([focus |-> x.FocusFiles, filter |-> f], x)
  BY <1>2, <1>6, H1Run
<1> HIDE DEF f
<1>8. ASSUME o.ctx.runs = Append(x.runs, [focus |-> x.FocusFiles, filter |-> f])
      PROVE  OneGoodRun(o.ctx) /\ Post(NonTestFilesRule, "true", o.ctx)
  <2>1. OneGoodRun(o.ctx)
    BY <1>5, <1>6, <1>7, <1>8, OneRun
  <2>2. Stage(1, o.ctx) /\ H1(o.ctx)
    BY <1>2, <1>5, <2>1, TestedStage, TestedSame
  <2> QED BY <2>1, <2>2, NonTestRuleIs
<1> QED BY <1>5, <1>6, <1>8 DEF TestActionOK

\* The action of NonTestFilesWithReleasePipelines does.
LEMMA PipelinesActionOK ==
    ASSUME NEW x \in RuleCtxs, NEW b, Loop(NonTestFilesRuleWithReleasePipelines, 2, b, x),
           Post(NonTestFilesRuleWithReleasePipelines.kids[1], "true", x),
           NEW o \in ExecuteCI(NonTestFilesRuleWithReleasePipelines.actions[1], x)
    PROVE  TestActionOK(NonTestFilesRuleWithReleasePipelines, x, o)
<1> DEFINE f == Filter({}, Upgrades)
<1>1. /\ NonTestFilesRuleWithReleasePipelines.kids[1] = PipelinesAll
      /\ NonTestFilesRuleWithReleasePipelines.actions[1] = "ExecuteAllTestsExceptUpgradeTestSuite"
  BY RuleKids
<1>2. Stage(1, x) /\ x.catalog = "ci" /\ H2(x)
  BY <1>1, PipelinesRuleIs, PipelinesAllIs
<1>3. o \in ExecuteTestAction([x EXCEPT !.LabelFilter = f])
  BY <1>1, ExecuteCIIs, Zenon DEF ExecuteAllTestsExceptUpgradeTestSuite
<1>4. f \in Filters
  BY LabelFacts
<1>5. /\ o.ctx \in RuleCtxs /\ o.err \in BOOLEAN /\ Tested(x, o.ctx)
      /\ \/ o.ctx.runs = x.runs /\ o.err
         \/ o.ctx.runs = Append(x.runs, [focus |-> x.FocusFiles, filter |-> f])
  BY <1>3, <1>4, LabelledTestIs
<1>6. /\ x.runs = <<>> /\ x.RepoName = "e2e-tests" /\ Prepared(x) /\ x.DiffFiles = x.change
      /\ x.FocusFiles = {}
  BY <1>2, InStage
<1>7. GoodRun([focus |-> x.FocusFiles, filter |-> f], x)
  BY <1>2, <1>6, H2Run
<1> HIDE DEF f
<1>8. ASSUME o.ctx.runs = Append(x.runs, [focus |-> x.FocusFiles, filter |-> f])
      PROVE  OneGoodRun(o.ctx) /\ Post(NonTestFilesRuleWithReleasePipelines, "true", o.ctx)
  <2>1. OneGoodRun(o.ctx)
    BY <1>5, <1>6, <1>7, <1>8, OneRun
  <2>2. Stage(2, o.ctx) /\ H2(o.ctx)
    BY <1>2, <1>5, <2>1, TestedStage, TestedSame
  <2> QED BY <2>1, <2>2, PipelinesRuleIs
<1> QED BY <1>5, <1>6, <1>8 DEF TestActionOK

\* The action of TestFilesOnly does.
LEMMA FilesActionOK ==
    ASSUME NEW x \in RuleCtxs, NEW b, Loop(TestFilesOnlyRule, 2, b, x),
           Post(TestFilesOnlyRule.kids[1], "true", x),
           NEW o \in ExecuteCI(TestFilesOnlyRule.actions[1], x)
    PROVE  TestActionOK(TestFilesOnlyRule, x, o)
<1>1. TestFilesOnlyRule.kids[1] = FilesAll /\ TestFilesOnlyRule.actions[1] = "ExecuteTestAction"
  BY RuleKids
<1>2. Stage(2, x) /\ x.catalog = "ci" /\ H3(x) /\ SpecsFocused(x)
  BY <1>1, FilesRuleIs, FilesAllIs
<1>3. o \in ExecuteTestAction(x)
  BY <1>1, ExecuteCIIs, Zenon
<1>5. TestOutcome(x, o)
  BY <1>3, TestActionIs
<1>6. /\ x.runs = <<>> /\ x.RepoName = "e2e-tests" /\ Prepared(x) /\ x.DiffFiles = x.change
      /\ x.LabelFilter = NoFilter
  BY <1>2, InStage
<1>7. GoodRun(RunOf(x), x)
  BY <1>2, <1>6, H3Run DEF RunOf
<1>8. ASSUME o.ctx.runs = Append(x.runs, RunOf(x))
      PROVE  OneGoodRun(o.ctx) /\ Post(TestFilesOnlyRule, "true", o.ctx)
  <2>0. Tested(x, o.ctx)
    BY <1>5 DEF TestOutcome
  <2>1. OneGoodRun(o.ctx)
    BY <2>0, <1>6, <1>7, <1>8, OneRun
  <2>2. Stage(3, o.ctx) /\ H3(o.ctx)
    BY <1>2, <2>0, <2>1, TestedStage, TestedSame
  <2> QED BY <2>1, <2>2, FilesRuleIs
<1> QED BY <1>5, <1>6, <1>8 DEF TestActionOK, TestOutcome

\* A rule that runs tests in CI finds a prepared cluster and no earlier run, and
\* makes a good one.
LEMMA TestRulesOK ==
    ASSUME NEW n \in TestRuleSet, NEW x \in RuleCtxs, NEW b, Loop(n, 2, b, x), Post(n.kids[1], "true", x),
           NEW o \in ExecuteCI(n.actions[1], x)
    PROVE  TestActionOK(n, x, o)
  BY NonTestActionOK, PipelinesActionOK, FilesActionOK DEF TestRuleSet

-----------------------------------------------------------------------------
(* What is kept while a child is checked.                                  *)

\* Keeps keeps the facts about the change.
LEMMA KeepsFacts ==
    ASSUME NEW x, NEW y, Keeps(x, y), x.DiffFiles = x.change
    PROVE  /\ y.DiffFiles = x.DiffFiles /\ y.DiffFiles = y.change
           /\ (Shared(y) <=> Shared(x)) /\ (Empty(y) <=> Empty(x))
           /\ HelpersOnly(y) <=> HelpersOnly(x)
           /\ (H1(y) <=> H1(x)) /\ (H2(y) <=> H2(x)) /\ (H3(y) <=> H3(x))
           /\ Component(y) <=> Component(x)
           /\ Labels(y) = Labels(x)
           /\ \A c \in E2EConditions : E2EHolds(c, y) <=> E2EHolds(c, x)
           /\ \A c \in InfraConditions : InfraHolds(c, y) <=> InfraHolds(c, x)
           /\ \A a \in Mappings : MappedFiles(a, y) = MappedFiles(a, x)
<1>1. y.DiffFiles = x.DiffFiles /\ y.DiffFiles = y.change
  BY DEF Keeps, Same
<1> QED BY <1>1, SameFacts, SameDiff

\* The answers of GitHub are never forgotten.
LEMMA KeepsAsked ==
    ASSUME NEW x, NEW y, x.asked \subseteq y.asked, y.rehearse = x.rehearse
    PROVE  /\ \A repo, r : Asked(repo, r, x) => Asked(repo, r, y)
           /\ NotPaired(x) => NotPaired(y)
           /\ Paired(x) => Paired(y)
           /\ ~Stable(x) => ~Stable(y)
<1>1. \A repo, r : Asked(repo, r, x) => Asked(repo, r, y)
  BY DEF Asked
<1>2. NotPaired(x) => NotPaired(y)
  BY <1>1 DEF NotPaired
<1>3. Paired(x) => Paired(y)
  BY <1>1 DEF Paired
<1>4. ~Stable(x) => ~Stable(y)
  BY <1>1 DEF Stable
<1> QED BY <1>1, <1>2, <1>3, <1>4

\* A bootstrap is never undone.
LEMMA KeepsBooted ==
    ASSUME NEW x, NEW y, Keeps(x, y)
    PROVE  \A name : Booted(name, x) => Booted(name, y)
  BY DEF Keeps, Booted

\* Keeps keeps the stage within the catalog e2e-repo.
LEMMA KeepsStage ==
    ASSUME NEW x, NEW y, Keeps(x, y), NEW j, Stage(j, x)
    PROVE  Stage(j, y)
<1>1. x.DiffFiles = x.change
  BY DEF Stage
<1>2. x.RepoName = "e2e-tests" /\ Prepared(x) => Prepared(y)
  BY KeepsBooted DEF Keeps, Prepared, Same
<1>3. OneGoodRun(x) => OneGoodRun(y)
  BY DEF Keeps, OneGoodRun, GoodRun, Same
<1>4. /\ y.DiffFiles = y.change
      /\ HelpersOnly(y) <=> HelpersOnly(x)
      /\ (H1(y) <=> H1(x)) /\ (H2(y) <=> H2(x)) /\ (H3(y) <=> H3(x))
  BY <1>1, KeepsFacts
<1>5. y.FocusFiles # {} => HelpersOnly(y) \/ H3(y)
  BY <1>4 DEF Stage, Keeps
<1>6. y.catalog = "ci" /\ H1(y) /\ y.runs = <<>> => y.FocusFiles = {}
  BY <1>4 DEF Stage, Keeps, Same
<1>7. y.catalog = x.catalog /\ y.RepoName = x.RepoName /\ y.runs = x.runs
  BY DEF Keeps, Same
<1>8. x.RepoName = "e2e-tests" \/ x.catalog = "e2e-repo" => y.LabelFilter = x.LabelFilter
  BY DEF Keeps
<1>9. x.catalog = "e2e-repo" \/ (x.catalog = "ci" /\ x.RepoName = "e2e-tests" /\ Prepared(x))
  BY DEF Stage
<1> QED BY <1>2, <1>3, <1>4, <1>5, <1>6, <1>7, <1>8, <1>9 DEF Stage

\* Loop of the rules of the catalog e2e-repo survives what the children do.
LEMMA KeepsTestLoops ==
    ASSUME NEW x, NEW y, Keeps(x, y), NEW i, NEW b,
           NEW n \in {NonTestFilesRule, NonTestAll, NonTestAny, NonTestNone,
                      NonTestFilesRuleWithReleasePipelines, PipelinesAll, PipelinesAny,
                      TestFilesOnlyRule, FilesAll, FilesNone},
           Loop(n, i, b, x)
    PROVE  Loop(n, i, b, y)
<1>1. x.catalog = "ci" => y.catalog = "ci"
  BY DEF Keeps, Same
<1>2. \A j : Stage(j, x) => /\ Stage(j, y)
                            /\ (Shared(y) <=> Shared(x)) /\ (Empty(y) <=> Empty(x))
                            /\ (HelpersOnly(y) <=> HelpersOnly(x)) /\ (H3(y) <=> H3(x))
  <2>1. \A j : Stage(j, x) => x.DiffFiles = x.change
    BY DEF Stage
  <2> QED BY <2>1, KeepsStage, KeepsFacts
<1>3. CASE n \in {NonTestFilesRule, NonTestAll, NonTestAny, NonTestNone}
  BY <1>1, <1>2, <1>3, NonTestRuleIs, NonTestAllIs, NonTestAnyIs, NonTestNoneIs
<1>4. CASE n \in {NonTestFilesRuleWithReleasePipelines, PipelinesAll, PipelinesAny}
  BY <1>1, <1>2, <1>4, PipelinesRuleIs, PipelinesAllIs, PipelinesAnyIs
<1>5. CASE n \in {TestFilesOnlyRule, FilesAll, FilesNone}
  BY <1>1, <1>2, <1>5, FilesRuleIs, FilesAllIs, FilesNoneIs
<1> QED BY <1>3, <1>4, <1>5

\* So does Loop of the rules with a mapping.
LEMMA KeepsMapLoops ==
    ASSUME NEW x, NEW y, Keeps(x, y), NEW i, NEW b, NEW n \in MapRules, Loop(n, i, b, x)
    PROVE  Loop(n, i, b, y)
<1> DEFINE j == IF n = ReleaseTestHelperFilesChangeOnlyRule THEN 1 ELSE 2
<1>1. Stage(j, x) /\ (j = 2 => H3(x))
  BY MapRuleIs
<1>2. x.DiffFiles = x.change
  BY <1>1 DEF Stage
<1>3. Stage(j, y) /\ (j = 2 => H3(y))
  BY <1>1, <1>2, KeepsStage, KeepsFacts
<1> QED BY <1>3, MapRuleIs

\* Keeps keeps the labels that were added.
LEMMA KeepsInfra ==
    ASSUME NEW x, NEW y, Keeps(x, y), Infra(x)
    PROVE  /\ Infra(y) /\ x.DiffFiles = x.change
           /\ x.LabelFilter.only \subseteq y.LabelFilter.only
  BY DEF Keeps, Infra

\* Loop of the rule of a component survives what its condition does.
LEMMA KeepsInfraLoops ==
    ASSUME NEW x, NEW y, Keeps(x, y), NEW c \in InfraConditions, NEW i, NEW b,
           Loop(ComponentChangeRule(c), i, b, x)
    PROVE  Loop(ComponentChangeRule(c), i, b, y)
<1>1. /\ Infra(x)
      /\ c = "components/jvm-build-service" /\ InfraHolds("components/build-service", x)
           => "build-service" \in x.LabelFilter.only
  BY ComponentRuleIs
<1>2. Infra(y) /\ x.DiffFiles = x.change /\ x.LabelFilter.only \subseteq y.LabelFilter.only
  BY <1>1, KeepsInfra
<1>3. InfraHolds("components/build-service", y) <=> InfraHolds("components/build-service", x)
  BY <1>2, KeepsFacts DEF InfraConditions, InfraComponents
<1> QED BY <1>1, <1>2, <1>3, ComponentRuleIs

\* So does Loop of the bootstrap rules.
LEMMA KeepsBootLoops ==
    ASSUME NEW x, NEW y, Keeps(x, y), NEW i, NEW b,
           NEW n \in {InstallKonfluxRule, RegisterKonfluxToSprayProxyRule, SprayAny,
                      SetupMultiPlatformTestsRule, MultiAny, BootstrapClusterRuleChain, BootAll,
                      BootstrapClusterWithSprayProxyRuleChain, SprayBootAll, InstallAny, InstallNone,
                      SprayBootAny, SprayBootNone},
           Loop(n, i, b, x)
    PROVE  Loop(n, i, b, y)
<1>1. /\ x.RequiresMultiPlatformTests => y.RequiresMultiPlatformTests
      /\ x.RequiresSprayProxyRegistering => y.RequiresSprayProxyRegistering
      /\ y.skipBootstrap = x.skipBootstrap
      /\ x.installs > 0 => y.installs > 0
      /\ Reachable(x) => Reachable(y)
  BY DEF Keeps, Same
<1>2. CASE n \in {InstallKonfluxRule, RegisterKonfluxToSprayProxyRule, SprayAny,
                  SetupMultiPlatformTestsRule, MultiAny}
  BY <1>1, <1>2, InstallRuleIs, SprayRuleIs, SprayAnyIs, MultiRuleIs, MultiAnyIs
<1>3. CASE n \in {BootstrapClusterRuleChain, BootAll, BootstrapClusterWithSprayProxyRuleChain, SprayBootAll}
  BY <1>1, <1>3, BootChainIs, BootAllIs, SprayBootChainIs, SprayBootAllIs
<1>4. CASE n \in {InstallAny, InstallNone, SprayBootAny, SprayBootNone}
  BY <1>1, <1>4, InstallAnyIs, InstallNoneIs, SprayBootAnyIs, SprayBootNoneIs
<1> QED BY <1>2, <1>3, <1>4

\* So does Loop of the workflows of CI.
LEMMA KeepsWorkflowLoops ==
    ASSUME NEW x, NEW y, Keeps(x, y), NEW i, NEW b,
           NEW n \in {InfraDeploymentsPRPairingRule, PairingAny, PairingNone, PreflightInstallGinkgoRule,
                      E2EAll, E2EAny, PairedAll, PairedNone, UnpairedAll, UnpairedAny, UnpairedNone}
                       \cup {Settings(repo) : repo \in AllRepos}
                       \cup {SettingsAny(repo) : repo \in AllRepos}
                       \cup {ServiceAll(repo) : repo \in Services},
           Loop(n, i, b, x)
    PROVE  Loop(n, i, b, y)
<1>1. /\ y.RepoName = x.RepoName /\ y.catalog = x.catalog /\ y.rehearse = x.rehearse
      /\ Settled(x) => Settled(y)
      /\ x.ginkgo => y.ginkgo
  BY DEF Keeps, Same
<1>2. /\ \A repo, r : Asked(repo, r, x) => Asked(repo, r, y)
      /\ NotPaired(x) => NotPaired(y)
  BY KeepsAsked DEF Keeps, Same
<1>3. CASE n \in {InfraDeploymentsPRPairingRule, PairingAny, PairingNone, PreflightInstallGinkgoRule}
  BY <1>2, <1>3, PairingRuleIs, PairingAnyIs, PairingNoneIs, PreflightRuleIs
<1>4. CASE n = E2EAll
  BY <1>1, <1>4, E2EAllIs, KeepsBooted
<1>5. CASE n = E2EAny
  <2>1. x.catalog = "ci" /\ x.DiffFiles = x.change
    BY <1>5, E2EAnyIs
  <2>2. y.DiffFiles = y.change /\ (H1(y) <=> H1(x)) /\ (H2(y) <=> H2(x))
    BY <2>1, KeepsFacts
  <2> QED BY <1>1, <1>5, <2>1, <2>2, E2EAnyIs
<1>6. CASE n \in {PairedAll, PairedNone}
  BY <1>1, <1>2, <1>6, PairedAllIs, PairedNoneIs
<1>7. CASE n \in {UnpairedAll, UnpairedAny, UnpairedNone}
  BY <1>1, <1>2, <1>7, UnpairedAllIs, UnpairedAnyIs, UnpairedNoneIs
<1>8. CASE n \in {Settings(repo) : repo \in AllRepos} \cup {SettingsAny(repo) : repo \in AllRepos}
  BY <1>8, SettingsRuleIs, SettingsAnyIs
<1>9. CASE n \in {ServiceAll(repo) : repo \in Services}
  BY <1>1, <1>9, ServiceAllIs
<1> QED BY <1>3, <1>4, <1>5, <1>6, <1>7, <1>8, <1>9

\* So does Loop of FilesAny: the focus only grows.
LEMMA KeepsFilesAny ==
    ASSUME NEW x, NEW y, Keeps(x, y), NEW i \in 2..10, NEW b, Loop(FilesAny, i, b, x)
    PROVE  Loop(FilesAny, i, b, y)
<1> DEFINE Holds(k, z) == E2EHolds(FilesAny.kids[k].kids[1].name, z)
           Mapped(k, z) == MappedFiles(FilesAny.kids[k].actions[1], z)
<1>1. /\ Stage(2, x) /\ H3(x) /\ (i = 2 => ~b)
      /\ b <=> \E k \in 1..(i - 2) : Holds(k, x)
      /\ \A k \in 1..(i - 2) : Holds(k, x) => Mapped(k, x) \subseteq x.FocusFiles
  BY FilesAnyIs
<1>2. x.DiffFiles = x.change
  BY <1>1 DEF Stage
<1>3. Stage(2, y) /\ H3(y)
  BY <1>1, <1>2, KeepsStage, KeepsFacts
<1>4. ASSUME NEW k \in 1..9
      PROVE  (Holds(k, y) <=> Holds(k, x)) /\ Mapped(k, y) = Mapped(k, x)
  <2>1. FilesAny.kids[k] \in MapRules
    BY FilesKids
  <2>2. PICK c \in E2EConditions, a \in Mappings :
          FilesAny.kids[k].kids = <<ConditionFunc(c)>> /\ FilesAny.kids[k].actions = <<a>>
    BY <2>1, MapRuleShape
  <2>3. FilesAny.kids[k].kids[1].name = c /\ FilesAny.kids[k].actions[1] = a
    BY <2>2, NodeShape
  <2> QED BY <1>2, <2>3, KeepsFacts
<1>5. x.FocusFiles \subseteq y.FocusFiles
  BY DEF Keeps
<1>6. \A k \in 1..(i - 2) : k \in 1..9
  OBVIOUS
<1> HIDE DEF Holds, Mapped
<1>7. /\ b <=> \E k \in 1..(i - 2) : Holds(k, y)
      /\ \A k \in 1..(i - 2) : Holds(k, y) => Mapped(k, y) \subseteq y.FocusFiles
  BY <1>1, <1>4, <1>5, <1>6
<1> QED BY <1>1, <1>3, <1>7, FilesAnyIs DEF Holds, Mapped

\* So does Loop of ComponentsAny: the labels only grow.
LEMMA KeepsComponentsAny ==
    ASSUME NEW x, NEW y, Keeps(x, y), NEW i \in 2..10, NEW b, Loop(ComponentsAny, i, b, x)
    PROVE  Loop(ComponentsAny, i, b, y)
<1> DEFINE Holds(k, z) == InfraHolds(ComponentsAny.kids[k].name, z)
           Done(k, z) == LabelOf(ComponentsAny.kids[k].name) \in z.LabelFilter.only
<1>1. /\ Infra(x) /\ (i = 2 => ~b)
      /\ b <=> \E k \in 1..(i - 2) : Holds(k, x)
      /\ \A k \in 1..(i - 2) : Holds(k, x) => Done(k, x)
  BY ComponentsAnyIs
<1>2. Infra(y) /\ x.DiffFiles = x.change /\ x.LabelFilter.only \subseteq y.LabelFilter.only
  BY <1>1, KeepsInfra
<1>4. ASSUME NEW k \in 1..9
      PROVE  (Holds(k, y) <=> Holds(k, x)) /\ (Done(k, x) => Done(k, y))
  BY <1>2, KeepsFacts, ComponentKids
<1>6. \A k \in 1..(i - 2) : k \in 1..9
  OBVIOUS
<1> HIDE DEF Holds, Done
<1>7. /\ b <=> \E k \in 1..(i - 2) : Holds(k, y)
      /\ \A k \in 1..(i - 2) : Holds(k, y) => Done(k, y)
  BY <1>1, <1>4, <1>6
<1> QED BY <1>1, <1>2, <1>7, ComponentsAnyIs DEF Holds, Done

\* So does Loop of DefaultNone: the change stays the same.
LEMMA KeepsDefaultNone ==
    ASSUME NEW x, NEW y, Keeps(x, y), NEW i \in 2..11, NEW b, Loop(DefaultNone, i, b, x)
    PROVE  Loop(DefaultNone, i, b, y)
<1> DEFINE Holds(k, z) == InfraHolds(DefaultNone.kids[k].name, z)
<1>1. Infra(x) /\ \A k \in 1..(i - 2) : ~Holds(k, x)
  BY DefaultNoneIs
<1>2. Infra(y) /\ x.DiffFiles = x.change
  BY <1>1, KeepsInfra
<1>4. ASSUME NEW k \in 1..9
      PROVE  Holds(k, y) <=> Holds(k, x)
  BY <1>2, KeepsFacts, ComponentKids
<1>6. \A k \in 1..(i - 2) : k \in 1..9
  OBVIOUS
<1> HIDE DEF Holds
<1>7. \A k \in 1..(i - 2) : ~Holds(k, y)
  BY <1>1, <1>4, <1>6
<1> QED BY <1>2, <1>7, DefaultNoneIs DEF Holds

\* What a function relies on while it waits for a child is kept.
LEMMA KeepsLoop ==
    ASSUME NEW x, NEW y, Keeps(x, y), NEW n \in Nodes \ Conds, NEW i \in 2..(1 + Len(n.kids)), NEW b,
           Loop(n, i, b, x)
    PROVE  Loop(n, i, b, y)
<1>1. CASE n = FilesAny
  BY <1>1, KeepsFilesAny, MapShapes
<1>2. CASE n = ComponentsAny
  BY <1>2, KeepsComponentsAny, ComponentKids
<1>3. CASE n = DefaultNone
  BY <1>3, KeepsDefaultNone, ComponentKids
<1>4. CASE n \in MapRules
  BY <1>4, KeepsMapLoops
<1>5. CASE n \in {ComponentChangeRule(c) : c \in InfraConditions}
  BY <1>5, KeepsInfraLoops
<1>6. CASE n \in Rules
  <2>1. CASE n \in TestRuleSet
    BY <2>1, KeepsTestLoops DEF TestRuleSet
  <2>2. CASE n \in {Settings(repo) : repo \in AllRepos}
    BY <2>2, KeepsWorkflowLoops
  <2>3. CASE n \in {InfraDeploymentsPRPairingRule, PreflightInstallGinkgoRule}
    BY <2>3, KeepsWorkflowLoops
  <2>4. CASE n \in {InstallKonfluxRule, RegisterKonfluxToSprayProxyRule, SetupMultiPlatformTestsRule,
                    BootstrapClusterRuleChain, BootstrapClusterWithSprayProxyRuleChain}
    BY <2>4, KeepsBootLoops
  <2> QED BY <1>4, <1>5, <1>6, <2>1, <2>2, <2>3, <2>4 DEF Rules, TestRuleSet
<1>7. CASE n \in Alls
  <2>1. CASE n \in {NonTestAll, PipelinesAll, FilesAll}
    BY <2>1, KeepsTestLoops
  <2>2. CASE n \in {BootAll, SprayBootAll}
    BY <2>2, KeepsBootLoops
  <2>3. CASE n \in {E2EAll, PairedAll, UnpairedAll} \cup {ServiceAll(repo) : repo \in Services}
    BY <2>3, KeepsWorkflowLoops
  <2> QED BY <1>7, <2>1, <2>2, <2>3 DEF Alls
<1>8. CASE n \in Anys
  <2>1. CASE n \in {NonTestAny, PipelinesAny}
    BY <2>1, KeepsTestLoops
  <2>2. CASE n \in {SprayAny, MultiAny, InstallAny, SprayBootAny}
    BY <2>2, KeepsBootLoops
  <2>3. CASE n \in {PairingAny, E2EAny, UnpairedAny} \cup {SettingsAny(repo) : repo \in AllRepos}
    BY <2>3, KeepsWorkflowLoops
  <2> QED BY <1>1, <1>2, <1>8, <2>1, <2>2, <2>3 DEF Anys
<1>9. CASE n \in Nones
  <2>1. CASE n \in {NonTestNone, FilesNone}
    BY <2>1, KeepsTestLoops
  <2>2. CASE n \in {InstallNone, SprayBootNone}
    BY <2>2, KeepsBootLoops
  <2>3. CASE n \in {PairingNone, PairedNone, UnpairedNone}
    BY <2>3, KeepsWorkflowLoops
  <2> QED BY <1>3, <1>9, <2>1, <2>2, <2>3 DEF Nones
<1> QED BY <1>6, <1>7, <1>8, <1>9 DEF Nodes

-----------------------------------------------------------------------------
(* The children of a node are nodes.                                       *)

\* The fields of a ConditionFunc.
LEMMA CondIs ==
    ASSUME NEW n \in Conds
    PROVE  /\ n.op = "cond" /\ n.name \in CondNames /\ n = ConditionFunc(n.name)
           /\ n.kids = <<>> /\ n.actions = <<>>
  BY DEF Conds, ConditionFunc

\* The kind of a node is its op.
LEMMA NodeOps ==
    ASSUME NEW n \in Nodes
    PROVE  /\ n.op \in {"cond", "rule", "all", "any", "none"}
           /\ n.op = "cond" <=> n \in Conds
           /\ n.op = "rule" <=> n \in Rules
           /\ n.op = "all" <=> n \in Alls
           /\ n.op = "any" <=> n \in Anys
           /\ n.op = "none" <=> n \in Nones
<1>1. n \in Conds => n.op = "cond"
  BY CondIs
<1>2. n \in Rules => n.op = "rule"
  BY RuleLen
<1>3. n \in Alls => n.op = "all"
  BY TestShapes, BootShapes, WorkflowShapes DEF Alls
<1>4. n \in Anys => n.op = "any"
  BY TestShapes, BootShapes, WorkflowShapes, InfraShapes DEF Anys
<1>5. n \in Nones => n.op = "none"
  BY TestShapes, BootShapes, WorkflowShapes, InfraShapes DEF Nones
<1> QED BY <1>1, <1>2, <1>3, <1>4, <1>5 DEF Nodes

\* The nodes that are no part of the workflow of this repository alone.
Inner == {m \in Nodes : m.name # "E2ERepoCI" /\ (m.op = "rule" => m.name \notin TestNames)}

\* The nodes that may be children.
LEMMA InnerIs ==
    /\ Conds \subseteq Inner
    /\ MapRules \subseteq Inner
    /\ \A c \in InfraConditions : ComponentChangeRule(c) \in Inner
    /\ \A repo \in AllRepos : Settings(repo) \in Inner /\ SettingsAny(repo) \in Inner
    /\ {NonTestAll, NonTestAny, NonTestNone, PipelinesAll, PipelinesAny, FilesAll, FilesNone, FilesAny} \subseteq Inner
    /\ {InstallKonfluxRule, RegisterKonfluxToSprayProxyRule, SprayAny, SetupMultiPlatformTestsRule,
        MultiAny, BootstrapClusterRuleChain, BootAll, BootstrapClusterWithSprayProxyRuleChain,
        SprayBootAll, InstallAny, InstallNone, SprayBootAny, SprayBootNone} \subseteq Inner
    /\ {InfraDeploymentsPRPairingRule, PairingAny, PairingNone, PreflightInstallGinkgoRule,
        PairedNone, UnpairedAny, UnpairedNone} \subseteq Inner
<1>1. Conds \subseteq Inner
  <2>1. "E2ERepoCI" \notin CondNames
    BY DEF CondNames, E2EConditions, InfraConditions, InfraComponents, AllRepos, CIConditions
  <2> QED BY <2>1, CondIs DEF Inner, Nodes
<1>2. MapRules \subseteq Inner
  <2>1. MapNames \cap (TestNames \cup {"E2ERepoCI"}) = {}
    BY DEF MapNames, TestNames
  <2>2. MapRules \subseteq Nodes
    BY DEF Nodes, Rules
  <2> QED BY <2>1, <2>2, MapRuleShape DEF Inner
<1>3. ASSUME NEW c \in InfraConditions PROVE ComponentChangeRule(c) \in Inner
  <2>1. InfraConditions \cap (TestNames \cup {"E2ERepoCI"}) = {}
    BY DEF InfraConditions, InfraComponents, TestNames
  <2>2. ComponentChangeRule(c) \in Nodes
    BY DEF Nodes, Rules
  <2>3. ComponentChangeRule(c).name = c
    BY DEF ComponentChangeRule, Rule
  <2> QED BY <2>1, <2>2, <2>3 DEF Inner
<1>4. ASSUME NEW repo \in AllRepos PROVE Settings(repo) \in Inner /\ SettingsAny(repo) \in Inner
  <2>1. AllRepos \cap (TestNames \cup {"E2ERepoCI"}) = {}
    BY DEF AllRepos, TestNames
  <2>2. Settings(repo) \in Nodes /\ SettingsAny(repo) \in Nodes
    BY DEF Nodes, Rules, Anys
  <2>3. Settings(repo).name = repo /\ SettingsAny(repo).name = repo
    BY WorkflowShapes
  <2> QED BY <2>1, <2>2, <2>3 DEF Inner
<1>5. {NonTestAll, NonTestAny, NonTestNone, PipelinesAll, PipelinesAny, FilesAll, FilesNone, FilesAny} \subseteq Inner
  <2>1. {NonTestAll, NonTestAny, NonTestNone, PipelinesAll, PipelinesAny, FilesAll, FilesNone, FilesAny} \subseteq Nodes
    BY DEF Nodes, Alls, Anys, Nones
  <2> QED BY <2>1, TestShapes DEF Inner
<1>6. {InstallKonfluxRule, RegisterKonfluxToSprayProxyRule, SprayAny, SetupMultiPlatformTestsRule,
        MultiAny, BootstrapClusterRuleChain, BootAll, BootstrapClusterWithSprayProxyRuleChain,
        SprayBootAll, InstallAny, InstallNone, SprayBootAny, SprayBootNone} \subseteq Inner
  <2>1. {InstallKonfluxRule, RegisterKonfluxToSprayProxyRule, SprayAny, SetupMultiPlatformTestsRule,
        MultiAny, BootstrapClusterRuleChain, BootAll, BootstrapClusterWithSprayProxyRuleChain,
        SprayBootAll, InstallAny, InstallNone, SprayBootAny, SprayBootNone} \subseteq Nodes
    BY DEF Nodes, Rules, Alls, Anys, Nones
  <2> QED BY <2>1, BootShapes DEF Inner, TestNames
<1>7. {InfraDeploymentsPRPairingRule, PairingAny, PairingNone, PreflightInstallGinkgoRule,
        PairedNone, UnpairedAny, UnpairedNone} \subseteq Inner
  <2>1. {InfraDeploymentsPRPairingRule, PairingAny, PairingNone, PreflightInstallGinkgoRule,
        PairedNone, UnpairedAny, UnpairedNone} \subseteq Nodes
    BY DEF Nodes, Rules, Alls, Anys, Nones
  <2> QED BY <2>1, WorkflowShapes DEF Inner, TestNames
<1> QED BY <1>1, <1>2, <1>3, <1>4, <1>5, <1>6, <1>7

\* The children of n are in S.
KidsIn(n, S) == Len(n.kids) \in Nat \ {0} /\ \A k \in 1..Len(n.kids) : n.kids[k] \in S

\* The children of a node, from the sequence of them.
LEMMA ShortKids ==
    ASSUME NEW n, NEW S
    PROVE  /\ \A a \in S : n.kids = <<a>> => KidsIn(n, S)
           /\ \A a, b \in S : n.kids = <<a, b>> => KidsIn(n, S)
           /\ \A a, b, c \in S : n.kids = <<a, b, c>> => KidsIn(n, S)
           /\ \A a, b, c, d \in S : n.kids = <<a, b, c, d>> => KidsIn(n, S)
           /\ \A a, b, c, d, e \in S : n.kids = <<a, b, c, d, e>> => KidsIn(n, S)
           /\ \A a, b, c, d, e, f \in S : n.kids = <<a, b, c, d, e, f>> => KidsIn(n, S)
<1>1. \A a \in S : n.kids = <<a>> => KidsIn(n, S)
  BY DEF KidsIn
<1>2. \A a, b \in S : n.kids = <<a, b>> => KidsIn(n, S)
  BY DEF KidsIn
<1>3. \A a, b, c \in S : n.kids = <<a, b, c>> => KidsIn(n, S)
  BY DEF KidsIn
<1>4. \A a, b, c, d \in S : n.kids = <<a, b, c, d>> => KidsIn(n, S)
  BY DEF KidsIn
<1>5. \A a, b, c, d, e \in S : n.kids = <<a, b, c, d, e>> => KidsIn(n, S)
  BY DEF KidsIn
<1>6. \A a, b, c, d, e, f \in S : n.kids = <<a, b, c, d, e, f>> => KidsIn(n, S)
  BY DEF KidsIn
<1> QED BY <1>1, <1>2, <1>3, <1>4, <1>5, <1>6

\* The filters of the rules are nodes.
LEMMA RulesKids ==
    ASSUME NEW n \in Rules
    PROVE  KidsIn(n, Inner)
<1>0. Len(n.kids) = 1
  BY RuleLen
<1>1. n.kids[1] \in Inner
  <2>c. \A c \in CondNames : ConditionFunc(c) \in Inner
    BY InnerIs DEF Conds
  <2>1. CASE n \in MapRules
    <3>1. PICK c \in E2EConditions : n.kids = <<ConditionFunc(c)>>
      BY <2>1, MapRuleShape
    <3> QED BY <2>c, <3>1 DEF CondNames
  <2>2. CASE n \in {ComponentChangeRule(c) : c \in InfraConditions}
    BY <2>2, <2>c, RuleKids DEF CondNames
  <2>3. CASE n \in {Settings(repo) : repo \in AllRepos}
    BY <2>3, RuleKids, InnerIs
  <2>4. CASE n \in TestRuleSet
    BY <2>4, RuleKids, InnerIs DEF TestRuleSet
  <2>5. CASE n \in {InfraDeploymentsPRPairingRule, PreflightInstallGinkgoRule, InstallKonfluxRule}
    BY <2>5, <2>c, RuleKids DEF CondNames, CIConditions
  <2>6. CASE n \in {RegisterKonfluxToSprayProxyRule, SetupMultiPlatformTestsRule,
                    BootstrapClusterRuleChain, BootstrapClusterWithSprayProxyRuleChain}
    BY <2>6, RuleKids, InnerIs
  <2> QED BY <2>1, <2>2, <2>3, <2>4, <2>5, <2>6 DEF Rules, TestRuleSet
<1> QED BY <1>0, <1>1 DEF KidsIn

\* The children of the other filters are nodes.
LEMMA FiltersKids ==
    ASSUME NEW n \in (Alls \cup Anys \cup Nones) \ {E2EAll, E2EAny}
    PROVE  KidsIn(n, Inner)
<1>c. \A c \in CondNames : ConditionFunc(c) \in Inner
  BY InnerIs DEF Conds
<1>d. /\ ConditionFunc("CheckSharedFilesChanged") \in Inner /\ ConditionFunc("CheckNoFilesChanged") \in Inner
      /\ ConditionFunc("CheckReleasePipelinesTestsChanged") \in Inner
      /\ ConditionFunc("IsSprayProxyRequired") \in Inner /\ ConditionFunc("isPaired") \in Inner
      /\ ConditionFunc("IsMultiPlatformConfigRequired") \in Inner /\ ConditionFunc("isRehearse") \in Inner
      /\ \A repo \in AllRepos : ConditionFunc(repo) \in Inner
  BY <1>c DEF CondNames, E2EConditions, CIConditions
<1>m. ReleaseTestHelperFilesChangeOnlyRule \in Inner
  BY InnerIs DEF MapRules
<1>1. CASE n \in {NonTestAll, PipelinesAll, FilesAll, NonTestAny, PipelinesAny, NonTestNone, FilesNone}
  BY <1>1, <1>d, <1>m, InnerIs, ShortKids, TestShapes
<1>2. CASE n \in {BootAll, SprayBootAll, SprayAny, MultiAny, InstallAny, SprayBootAny, InstallNone, SprayBootNone}
  BY <1>2, <1>d, InnerIs, ShortKids, BootShapes
<1>3. CASE n \in {PairingAny, PairingNone, PairedNone, UnpairedAny, UnpairedNone}
  BY <1>3, <1>d, InnerIs, ShortKids, WorkflowShapes
<1>4. CASE n \in {PairedAll, UnpairedAll}
  <2>1. Settings("release-service-catalog") \in Inner
    BY InnerIs DEF AllRepos
  <2> QED BY <1>4, <1>d, <2>1, InnerIs, ShortKids, WorkflowShapes
<1>5. CASE n \in {SettingsAny(repo) : repo \in AllRepos}
  BY <1>5, <1>d, ShortKids, WorkflowShapes
<1>6. CASE n \in {ServiceAll(repo) : repo \in Services}
  <2>1. PICK repo \in Services : n = ServiceAll(repo)
    BY <1>6
  <2> DEFINE boot == IF repo = "release-service" THEN InstallAny ELSE SprayBootAny
  <2>2. n.kids = <<Settings(repo), PairingAny, PreflightInstallGinkgoRule, boot>>
    BY <2>1, WorkflowShapes
  <2>3. boot \in Inner /\ Settings(repo) \in Inner
    BY InnerIs DEF Services
  <2> HIDE DEF boot
  <2> QED BY <2>2, <2>3, InnerIs, ShortKids
<1>7. CASE n = FilesAny
  BY <1>7, FilesKids, MapShapes, InnerIs DEF KidsIn
<1>8. CASE n = ComponentsAny
  BY <1>8, ComponentKids, InnerIs DEF KidsIn
<1>9. CASE n = DefaultNone
  <2>1. \A k \in 1..10 : k \in 1..9 \/ k = 10
    OBVIOUS
  <2>2. \A k \in 1..9 : DefaultNone.kids[k] \in Inner
    BY ComponentKids, InnerIs
  <2> QED BY <1>9, <1>d, <2>1, <2>2, ComponentKids DEF KidsIn
<1> QED BY <1>1, <1>2, <1>3, <1>4, <1>5, <1>6, <1>7, <1>8, <1>9 DEF Alls, Anys, Nones

\* The tests are run by children of E2EAny only, and that is a child of E2EAll only.
LEMMA KidsOf ==
    ASSUME NEW n \in Nodes \ Conds
    PROVE  /\ KidsIn(n, Nodes)
           /\ \A k \in 1..Len(n.kids) :
                /\ n.kids[k] \in TestRuleSet => n = E2EAny
                /\ n.kids[k] = E2EAny => n = E2EAll
                /\ n.kids[k] # E2EAll
<1>1. /\ \A m \in TestRuleSet : m.op = "rule" /\ m.name \in TestNames
      /\ \A m \in TestRuleSet : m # E2EAny /\ m # E2EAll
      /\ E2EAny.name = "E2ERepoCI" /\ E2EAll.name = "E2ERepoCI" /\ E2EAny # E2EAll
  BY TestShapes, WorkflowShapes DEF TestRuleSet, TestNames
<1>2. Inner \subseteq Nodes /\ Inner \cap (TestRuleSet \cup {E2EAny, E2EAll}) = {}
  BY <1>1 DEF Inner
<1>3. CASE KidsIn(n, Inner)
  BY <1>2, <1>3 DEF KidsIn
<1>4. CASE n = E2EAny
  <2>1. KidsIn(n, TestRuleSet)
    BY <1>4, ShortKids, WorkflowShapes DEF TestRuleSet
  <2>2. TestRuleSet \subseteq Nodes
    BY DEF TestRuleSet, Nodes, Rules
  <2> QED BY <1>1, <1>4, <2>1, <2>2 DEF KidsIn
<1>5. CASE n = E2EAll
  <2>1. Settings("e2e-tests") \in Inner
    BY InnerIs DEF AllRepos
  <2>2. KidsIn(n, Inner \cup {E2EAny})
    BY <1>5, <2>1, InnerIs, ShortKids, WorkflowShapes
  <2>3. E2EAny \in Nodes
    BY DEF Nodes, Anys
  <2> QED BY <1>1, <1>2, <1>5, <2>2, <2>3 DEF KidsIn
<1> QED BY <1>3, <1>4, <1>5, RulesKids, FiltersKids DEF Nodes

-----------------------------------------------------------------------------
(* The call stack.                                                         *)

\* The rest of a sequence.
LEMMA TailSeq ==
    ASSUME NEW S, NEW s \in Seq(S), s # <<>>
    PROVE  /\ Tail(s) \in Seq(S) /\ Len(Tail(s)) = Len(s) - 1 /\ Len(s) >= 1
           /\ \A k \in 1..(Len(s) - 1) : Tail(s)[k] = s[k + 1]
           /\ Head(s) = s[1] /\ s[1] \in S
           /\ Tail(s) = <<>> <=> Len(s) = 1
<1>1. Len(s) >= 1 /\ Head(s) = s[1] /\ s[1] \in S
  OBVIOUS
<1>2. Tail(s) \in Seq(S) /\ Len(Tail(s)) = Len(s) - 1
  BY <1>1
<1>3. \A k \in 1..(Len(s) - 1) : Tail(s)[k] = s[k + 1]
  BY <1>1
<1>4. Tail(s) = <<>> <=> Len(s) = 1
  <2> DEFINE u == Tail(s)
  <2>1. u \in Seq(S) /\ Len(u) = Len(s) - 1
    BY <1>2
  <2> HIDE DEF u
  <2>2. u = <<>> <=> Len(u) = 0
    BY <2>1, EmptySeq
  <2> QED BY <1>1, <2>1, <2>2 DEF u
<1> QED BY <1>1, <1>2, <1>3, <1>4

\* A sequence with another first element.
LEMMA PushSeq ==
    ASSUME NEW S, NEW s \in Seq(S), s # <<>>, NEW a \in S, NEW t, t = <<a>> \o Tail(s)
    PROVE  /\ t \in Seq(S) /\ Len(t) = Len(s) /\ t # <<>>
           /\ t[1] = a
           /\ \A k \in 2..Len(t) : t[k] = s[k]
<1> DEFINE u == Tail(s)
<1>1. u \in Seq(S) /\ Len(u) = Len(s) - 1 /\ Len(s) >= 1 /\ \A k \in 1..(Len(s) - 1) : u[k] = s[k + 1]
  BY TailSeq
<1> HIDE DEF u
<1>2. <<a>> \in Seq(S) /\ Len(<<a>>) = 1 /\ <<a>>[1] = a
  OBVIOUS
<1>3. t = <<a>> \o u
  BY DEF u
<1>4. t \in Seq(S) /\ Len(t) = 1 + Len(u)
  BY <1>1, <1>2, <1>3
<1>5. \A k \in 1..Len(t) : t[k] = IF k <= 1 THEN <<a>>[k] ELSE u[k - 1]
  BY <1>1, <1>2, <1>3, <1>4
<1> QED BY <1>1, <1>2, <1>4, <1>5

\* t is s with a and b in the place of its first element.
Called(t, s, a, b, S) ==
    /\ t \in Seq(S) /\ Len(t) = Len(s) + 1 /\ t # <<>>
    /\ t[1] = a /\ t[2] = b
    /\ \A k \in 3..Len(t) : t[k] = s[k - 1]

\* A call: the stack with another top and a new frame above it.
LEMMA CallSeq ==
    ASSUME NEW S, NEW s \in Seq(S), s # <<>>, NEW a \in S, NEW b \in S, NEW t, t = <<a, b>> \o Tail(s)
    PROVE  Called(t, s, a, b, S)
<1> DEFINE u == Tail(s)
<1>1. u \in Seq(S) /\ Len(u) = Len(s) - 1 /\ Len(s) >= 1 /\ \A k \in 1..(Len(s) - 1) : u[k] = s[k + 1]
  BY TailSeq
<1> HIDE DEF u
<1>2. <<a, b>> \in Seq(S) /\ Len(<<a, b>>) = 2 /\ <<a, b>>[1] = a /\ <<a, b>>[2] = b
  OBVIOUS
<1>3. t = <<a, b>> \o u
  BY DEF u
<1>4. t \in Seq(S) /\ Len(t) = 2 + Len(u)
  BY <1>1, <1>2, <1>3
<1>5. \A k \in 1..Len(t) : t[k] = IF k <= 2 THEN <<a, b>>[k] ELSE u[k - 2]
  BY <1>1, <1>2, <1>3, <1>4
<1> QED BY <1>1, <1>2, <1>4, <1>5 DEF Called

\* A node has at most one action, and only a rule has one.
LEMMA NodeActions ==
    ASSUME NEW n \in Nodes
    PROVE  /\ Len(n.actions) \in {0, 1} /\ Len(n.kids) \in Nat
           /\ n \notin Rules => n.actions = <<>> /\ Len(n.actions) = 0
           /\ n.actions = <<>> <=> Len(n.actions) = 0
           /\ n \in Conds => Len(n.kids) = 0
           /\ n \in Rules => Len(n.kids) = 1
<1>0. Len(<<>>) = 0
  OBVIOUS
<1>1. CASE n \in Conds
  <2>1. n \notin Rules
    BY <1>1, CondIs, RuleLen
  <2> QED BY <1>0, <1>1, <2>1, CondIs
<1>2. CASE n \in Rules
  <2>1. n \notin Conds
    BY <1>2, CondIs, RuleLen
  <2> QED BY <1>0, <1>2, <2>1, RuleLen
<1>3. CASE n \in Alls \cup Anys \cup Nones
  <2>1. n.actions = <<>>
    BY <1>3 DEF Alls, Anys, Nones, NonTestAll, PipelinesAll, FilesAll, BootAll, SprayBootAll, E2EAll,
       PairedAll, UnpairedAll, ServiceAll, NonTestAny, PipelinesAny, FilesAny, SprayAny, MultiAny,
       PairingAny, InstallAny, SprayBootAny, E2EAny, UnpairedAny, SettingsAny, NonTestNone, FilesNone,
       PairingNone, InstallNone, SprayBootNone, PairedNone, UnpairedNone, All, Any, None,
       DefaultNone, ComponentsAny, InfraDeploymentsDefaultRule, InfraDeploymentsComponentsRule, Rule
  <2>2. n \notin Conds /\ n \notin Rules
    BY <1>3, NodeOps
  <2>3. Len(n.kids) \in Nat
    BY <2>2, KidsOf DEF KidsIn
  <2> QED BY <1>0, <2>1, <2>2, <2>3
<1> QED BY <1>1, <1>2, <1>3 DEF Nodes

\* What FrameOK says of i.
LEMMA FrameRange ==
    ASSUME NEW f \in Frames, FrameOK(f)
    PROVE  /\ f.i \in 1..(1 + Len(f.node.kids) + Len(f.node.actions))
           /\ f.node \in Nodes /\ f.i \in Nat /\ f.isAny \in BOOLEAN
           /\ f.i > 1 => f.node \in Nodes \ Conds
           /\ f.i > 1 /\ (f.node.op = "rule" => f.i = 2) => f.i \in 2..(1 + Len(f.node.kids))
<1>1. f.node \in Nodes /\ f.i \in Nat /\ f.isAny \in BOOLEAN
  BY DEF Frames
<1>2. f.i > 1 => f.node \in Nodes \ Conds
  BY <1>1, CondIs DEF FrameOK
<1> DEFINE k == Len(f.node.kids)
           a == Len(f.node.actions)
<1>k. /\ k \in Nat /\ a \in {0, 1}
      /\ f.node.op = "rule" => k = 1
      /\ f.node.op # "rule" => a = 0
      /\ f.node.op = "cond" => k = 0
      /\ f.node.op \in {"cond", "rule", "all", "any", "none"}
  BY <1>1, NodeActions, NodeOps
<1>f. /\ f.i >= 1
      /\ f.node.op = "cond" => f.i = 1
      /\ f.node.op = "rule" => f.i <= 2 + a
      /\ f.node.op \in {"all", "any", "none"} => f.i <= 1 + k
  BY DEF FrameOK
<1> HIDE DEF k, a
<1>3. /\ f.i \in 1..(1 + k + a)
      /\ f.i > 1 /\ (f.node.op = "rule" => f.i = 2) => f.i \in 2..(1 + k)
  BY <1>1, <1>k, <1>f
<1> QED BY <1>1, <1>2, <1>3 DEF k, a

\* The frame of a function that was just called.
LEMMA FrameIs ==
    ASSUME NEW n \in Nodes
    PROVE  /\ Engine!Frame(n) \in Frames /\ FrameOK(Engine!Frame(n))
           /\ Engine!Frame(n).node = n /\ Engine!Frame(n).i = 1 /\ Engine!Frame(n).isAny = FALSE
<1>1. /\ Engine!Frame(n) \in Frames
      /\ Engine!Frame(n).node = n /\ Engine!Frame(n).i = 1 /\ Engine!Frame(n).isAny = FALSE
  BY DEF Engine!Frame, Frames
<1>2. Len(n.actions) \in Nat /\ (n.op \in {"all", "any", "none"} => Len(n.kids) \in Nat)
  BY NodeActions
<1> QED BY <1>1, <1>2 DEF FrameOK

\* The functions that wait still find what they rely on.
LoopsKept == \A k \in 2..Len(stack) : Loop(stack[k].node, stack[k].i, stack[k].isAny, ctx')

\* What StackInv says of a frame below the top.
LEMMA Waiting ==
    ASSUME StackInv, pc = "eval", stack # <<>>, NEW k \in 2..Len(stack)
    PROVE  /\ stack[k] \in Frames /\ FrameOK(stack[k])
           /\ stack[k].i \in 2..(1 + Len(stack[k].node.kids)) /\ stack[k].node \in Nodes \ Conds
           /\ stack[k - 1].node = stack[k].node.kids[stack[k].i - 1]
           /\ Loop(stack[k].node, stack[k].i, stack[k].isAny, ctx)
           /\ stack[k].i > 1 /\ (stack[k].node.op = "rule" => stack[k].i = 2)
<1>1. stack \in Seq(Frames) /\ k \in 1..Len(stack)
  BY DEF StackInv
<1>2. stack[k] \in Frames
  BY <1>1
<1>3. FrameOK(stack[k]) /\ WaitInv(stack[k], stack[k - 1].node)
  BY <1>1 DEF StackInv
<1> QED BY <1>2, <1>3, FrameRange DEF WaitInv

\* A step that keeps what Keeps says keeps Loop of every waiting function.
LEMMA KeptLoops ==
    ASSUME StackInv, pc = "eval", stack # <<>>, Keeps(ctx, ctx')
    PROVE  LoopsKept
<1> SUFFICES ASSUME NEW k \in 2..Len(stack)
             PROVE  Loop(stack[k].node, stack[k].i, stack[k].isAny, ctx')
  BY DEF LoopsKept
<1> QED BY Waiting, KeepsLoop

\* So does one that leaves the RuleCtx alone.
LEMMA SameLoops ==
    ASSUME StackInv, pc = "eval", stack # <<>>, ctx' = ctx
    PROVE  LoopsKept
  BY Waiting DEF LoopsKept

\* So does one that runs tests: no function that waits for it relies on the runs.
LEMMA TestedLoops ==
    ASSUME StackInv, pc = "eval", stack # <<>>, stack[1].node \in TestRuleSet, Tested(ctx, ctx')
    PROVE  LoopsKept
<1> SUFFICES ASSUME NEW k \in 2..Len(stack)
             PROVE  Loop(stack[k].node, stack[k].i, stack[k].isAny, ctx')
  BY DEF LoopsKept
<1>0. Len(stack) \in Nat
  BY DEF StackInv
<1>1. ASSUME NEW j \in 2..Len(stack)
      PROVE  /\ stack[j - 1].node \in TestRuleSet => stack[j].node = E2EAny
             /\ stack[j - 1].node = E2EAny => stack[j].node = E2EAll
             /\ stack[j - 1].node # E2EAll
  <2> DEFINE n == stack[j].node
             i == stack[j].i
  <2>1. n \in Nodes \ Conds /\ i \in 2..(1 + Len(n.kids)) /\ stack[j - 1].node = n.kids[i - 1]
    BY Waiting
  <2> HIDE DEF n, i
  <2>2. Len(n.kids) \in Nat
    BY <2>1, NodeActions
  <2>3. i - 1 \in 1..Len(n.kids)
    BY <2>1, <2>2
  <2> QED BY <2>1, <2>3, KidsOf DEF n
<1>2. stack[2].node = E2EAny
  <2>1. 2 \in 2..Len(stack)
    BY <1>0
  <2> QED BY <1>1, <2>1
<1>3. k >= 3 => stack[3].node = E2EAll
  <2>1. k >= 3 => 3 \in 2..Len(stack)
    BY <1>0
  <2> QED BY <1>1, <1>2, <2>1
<1>4. k = 2 \/ k = 3
  <2>1. k > 3 => 4 \in 2..Len(stack)
    BY <1>0
  <2> QED BY <1>0, <1>1, <1>3, <2>1
<1>5. Loop(stack[k].node, stack[k].i, stack[k].isAny, ctx)
  BY Waiting
<1>6. CASE k = 2
  <2>1. ctx'.DiffFiles = ctx.DiffFiles /\ ctx'.change = ctx.change /\ ctx'.catalog = ctx.catalog
    BY DEF Tested, Same
  <2>2. (H1(ctx') <=> H1(ctx)) /\ (H2(ctx') <=> H2(ctx))
    BY TestedSame
  <2> QED BY <1>2, <1>5, <1>6, <2>1, <2>2, E2EAnyIs
<1>7. CASE k = 3
  <2>1. ctx.RepoName = "e2e-tests" /\ Settled(ctx) => ctx'.RepoName = "e2e-tests" /\ Settled(ctx')
    BY DEF Settled, Tested, Same
  <2>2. Booted("BootstrapCluster", ctx) => Booted("BootstrapCluster", ctx')
    BY DEF Booted, Reachable, Tested
  <2>3. ctx'.ginkgo = ctx.ginkgo
    BY DEF Tested
  <2> QED BY <1>3, <1>5, <1>7, <2>1, <2>2, <2>3, E2EAllIs
<1> QED BY <1>4, <1>6, <1>7

\* What StackInv says of the top of the stack.
LEMMA TopIs ==
    ASSUME StackInv, pc = "eval", stack # <<>>
    PROVE  /\ Engine!Top = stack[1] /\ stack[1] \in Frames /\ FrameOK(stack[1]) /\ TopInv(stack[1])
           /\ stack \in Seq(Frames) /\ Len(stack) \in Nat /\ Len(stack) >= 1
           /\ stack[Len(stack)].node = Head(loaded).kids[1]
           /\ Len(stack) > 1 => FrameOK(stack[2])
<1>1. stack \in Seq(Frames)
  BY DEF StackInv
<1>2. Len(stack) \in Nat /\ Len(stack) >= 1 /\ Head(stack) = stack[1] /\ stack[1] \in Frames
  BY <1>1, TailSeq
<1> QED BY <1>1, <1>2 DEF StackInv, Engine!Top

\* The function on the top returns.
LEMMA StackReturn ==
    ASSUME StackInv, pc = "eval", stack # <<>>, stack' = Tail(stack), pc' = "eval", loaded' = loaded,
           ret' \in {"true", "false"}, Post(stack[1].node, ret', ctx'), LoopsKept
    PROVE  StackInv'
<1>1. /\ stack' \in Seq(Frames) /\ Len(stack') = Len(stack) - 1 /\ Len(stack) >= 1 /\ Len(stack) \in Nat
      /\ \A k \in 1..Len(stack') : k + 1 \in 2..Len(stack) /\ stack'[k] = stack[k + 1]
      /\ stack' = <<>> <=> Len(stack) = 1
  <2>1. stack \in Seq(Frames) /\ Len(stack) \in Nat
    BY TopIs
  <2>2. /\ Tail(stack) \in Seq(Frames) /\ Len(Tail(stack)) = Len(stack) - 1 /\ Len(stack) >= 1
        /\ \A k \in 1..(Len(stack) - 1) : Tail(stack)[k] = stack[k + 1]
        /\ Tail(stack) = <<>> <=> Len(stack) = 1
    BY <2>1, TailSeq
  <2>3. \A k \in 1..(Len(stack) - 1) : k + 1 \in 2..Len(stack)
    BY <2>1
  <2> QED BY <2>1, <2>2, <2>3
<1>2. \A k \in 1..Len(stack') : FrameOK(stack'[k])
  BY <1>1, Waiting
<1>3. ASSUME stack' # <<>>
      PROVE  /\ TopInv(stack[1])'
             /\ \A k \in 2..Len(stack') : WaitInv(stack[k], stack[k - 1].node)'
             /\ stack'[Len(stack')].node = Head(loaded').kids[1]
  <2>0. Len(stack') >= 1 /\ 1 \in 1..Len(stack') /\ Len(stack') \in 1..Len(stack')
    BY <1>1, <1>3
  <2>1. stack'[1] = stack[2] /\ 2 \in 2..Len(stack)
    BY <1>1, <2>0
  <2>2. /\ stack[2].i > 1 /\ (stack[2].node.op = "rule" => stack[2].i = 2)
        /\ stack[1].node = stack[2].node.kids[stack[2].i - 1]
        /\ stack[2].i \in 2..(1 + Len(stack[2].node.kids))
    BY <2>1, Waiting
  <2>3. Loop(stack[2].node, stack[2].i, stack[2].isAny, ctx')
    BY <2>1 DEF LoopsKept
  <2>4. TopInv(stack[1])'
    <3>1. stack[2].i \in Nat /\ stack[2].i # 1 /\ ~(stack[2].node.op = "rule" /\ stack[2].i > 2)
      BY <2>1, <2>2, Waiting DEF Frames
    <3> QED BY <2>1, <2>2, <2>3, <3>1 DEF TopInv
  <2>5. ASSUME NEW k \in 2..Len(stack') PROVE WaitInv(stack[k], stack[k - 1].node)'
    <3>1. k \in 1..Len(stack') /\ k - 1 \in 1..Len(stack') /\ k + 1 \in 2..Len(stack)
      BY <1>1
    <3>2. stack'[k] = stack[k + 1] /\ stack'[k - 1] = stack[k]
      BY <1>1, <3>1
    <3>3. Loop(stack[k + 1].node, stack[k + 1].i, stack[k + 1].isAny, ctx')
      BY <3>1 DEF LoopsKept
    <3>4. /\ stack[k + 1].i > 1 /\ (stack[k + 1].node.op = "rule" => stack[k + 1].i = 2)
          /\ stack[(k + 1) - 1].node = stack[k + 1].node.kids[stack[k + 1].i - 1]
      BY <3>1, Waiting
    <3>5. (k + 1) - 1 = k
      OBVIOUS
    <3> QED BY <3>2, <3>3, <3>4, <3>5 DEF WaitInv
  <2>6. stack'[Len(stack')].node = Head(loaded').kids[1]
    <3>1. stack'[Len(stack')] = stack[Len(stack)]
      BY <1>1, <2>0
    <3> QED BY <3>1, TopIs
  <2> QED BY <2>4, <2>5, <2>6
<1>4. ASSUME stack' = <<>> PROVE Post(Head(loaded').kids[1], ret', ctx')
  <2>1. stack[Len(stack)] = stack[1]
    BY <1>1, <1>4
  <2> QED BY <2>1, TopIs
<1> QED BY <1>1, <1>2, <1>3, <1>4 DEF StackInv

\* The indices of a sequence, the first two apart.
LEMMA FirstTwo ==
    ASSUME NEW n \in Nat, NEW k \in 1..n
    PROVE  k = 1 \/ k = 2 \/ k \in 3..n
  OBVIOUS

\* The last index of a sequence that grew by one.
LEMMA LastIndex ==
    ASSUME NEW n \in Nat, n > 1, NEW k, k = n + 1
    PROVE  k \in 3..k /\ k - 1 = n
  OBVIOUS

\* A function that was just called has come to no child yet.
LEMMA FirstCall == ~(1 > 1) /\ ~(1 > 2)
  OBVIOUS

\* The function on the top calls Check of a child.
LEMMA StackCall ==
    ASSUME StackInv, pc = "eval", stack # <<>>, pc' = pc, loaded' = loaded, ctx' = ctx,
           NEW f \in Frames, FrameOK(f), f.node = stack[1].node, f.i > 1,
           f.node.op = "rule" => f.i = 2,
           NEW m \in Nodes, m = f.node.kids[f.i - 1], Loop(f.node, f.i, f.isAny, ctx), Pre(m, ctx),
           stack' = <<Engine!Frame(m), f>> \o Tail(stack), ret' = "none"
    PROVE  StackInv'
<1> DEFINE a == Engine!Frame(m)
<1>1. a \in Frames /\ FrameOK(a) /\ a.node = m /\ a.i = 1 /\ a.isAny = FALSE
  BY FrameIs
<1> HIDE DEF a
<1>2. stack \in Seq(Frames) /\ Len(stack) \in Nat /\ Len(stack) >= 1
  BY TopIs
<1>3. /\ stack' \in Seq(Frames) /\ Len(stack') = Len(stack) + 1 /\ stack' # <<>>
      /\ stack'[1] = a /\ stack'[2] = f
      /\ \A k \in 3..Len(stack') : stack'[k] = stack[k - 1]
  <2>1. stack' = <<a, f>> \o Tail(stack)
    BY Zenon DEF a
  <2>2. stack \in Seq(Frames) /\ stack # <<>> /\ a \in Frames /\ f \in Frames
    BY <1>1, <1>2
  <2>3. Called(stack', stack, a, f, Frames)
    BY <2>1, <2>2, CallSeq, Zenon
  <2> QED BY <2>3, Zenon DEF Called
<1>4. \A k \in 3..Len(stack') : k - 1 \in 2..Len(stack)
  BY <1>2, <1>3
<1>5. \A k \in 1..Len(stack') : FrameOK(stack'[k])
  <2> SUFFICES ASSUME NEW k \in 1..Len(stack') PROVE FrameOK(stack'[k])
    OBVIOUS
  <2>1. CASE k = 1
    BY <1>1, <1>3, <2>1
  <2>2. CASE k = 2
    BY <1>3, <2>2
  <2>3. CASE k \in 3..Len(stack')
    BY <1>3, <1>4, <2>3, Waiting
  <2>4. Len(stack') \in Nat
    BY <1>2, <1>3
  <2>5. k = 1 \/ k = 2 \/ k \in 3..Len(stack')
    BY <2>4, FirstTwo, Zenon
  <2> QED BY <2>1, <2>2, <2>3, <2>5, Zenon
<1>6. TopInv(stack[1])'
  <2>1. Pre(stack'[1].node, ctx') /\ stack'[1].i = 1
    BY <1>1, <1>3
  <2>2. ~stack'[1].isAny
    BY <1>1, <1>3, Zenon
  <2>3. ~(stack'[1].i > 1) /\ ~(stack'[1].i > 2)
    BY <2>1, FirstCall, Zenon
  <2> QED BY <2>1, <2>2, <2>3, Zenon DEF TopInv
<1>7. ASSUME NEW k \in 2..Len(stack') PROVE WaitInv(stack[k], stack[k - 1].node)'
  <2>1. CASE k = 2
    <3>1. 2 - 1 = 1
      OBVIOUS
    <3> QED BY <1>1, <1>3, <2>1, <3>1 DEF WaitInv
  <2>2. CASE k = 3
    <3>1. 3 \in 3..Len(stack') /\ 3 - 1 = 2 /\ 2 - 1 = 1
      BY <2>2
    <3>2. stack'[3] = stack[2] /\ stack'[2] = f /\ 2 \in 2..Len(stack)
      BY <1>3, <1>4, <3>1
    <3>3. /\ stack[2].i > 1 /\ (stack[2].node.op = "rule" => stack[2].i = 2)
          /\ f.node = stack[2].node.kids[stack[2].i - 1]
          /\ Loop(stack[2].node, stack[2].i, stack[2].isAny, ctx')
      BY <3>1, <3>2, Waiting
    <3> QED BY <2>2, <3>1, <3>2, <3>3 DEF WaitInv
  <2>3. CASE k > 3
    <3>1. k \in 3..Len(stack') /\ k - 1 \in 3..Len(stack') /\ k - 1 \in 2..Len(stack)
      BY <1>2, <1>3, <2>3
    <3>2. stack'[k] = stack[k - 1] /\ stack'[k - 1] = stack[(k - 1) - 1]
      BY <1>3, <3>1
    <3>3. /\ stack[k - 1].i > 1 /\ (stack[k - 1].node.op = "rule" => stack[k - 1].i = 2)
          /\ stack[(k - 1) - 1].node = stack[k - 1].node.kids[stack[k - 1].i - 1]
          /\ Loop(stack[k - 1].node, stack[k - 1].i, stack[k - 1].isAny, ctx')
      BY <3>1, Waiting
    <3> QED BY <3>2, <3>3 DEF WaitInv
  <2> QED BY <2>1, <2>2, <2>3
<1>8. stack'[Len(stack')].node = Head(loaded').kids[1]
  <2>0. Len(stack) = 1 \/ Len(stack) > 1
    <3> DEFINE l == Len(stack)
    <3>1. l \in Nat /\ l >= 1
      BY <1>2
    <3> HIDE DEF l
    <3>2. l = 1 \/ l > 1
      BY <3>1
    <3> QED BY <3>2 DEF l
  <2>1. CASE Len(stack) = 1
    <3>1. Len(stack') = 2
      BY <1>3, <2>1
    <3>2. stack'[Len(stack')] = f /\ f.node = stack[Len(stack)].node
      BY <1>3, <2>1, <3>1
    <3>3. stack[Len(stack)].node = Head(loaded).kids[1]
      BY TopIs
    <3> QED BY <3>2, <3>3
  <2>2. CASE Len(stack) > 1
    <3>1. Len(stack') \in 3..Len(stack') /\ Len(stack') - 1 = Len(stack)
      BY <1>2, <1>3, <2>2, LastIndex, Zenon
    <3>2. stack'[Len(stack')] = stack[Len(stack)]
      BY <1>3, <3>1
    <3> QED BY <3>2, TopIs
  <2> QED BY <2>0, <2>1, <2>2
<1>9. pc' = "eval"
  OBVIOUS
<1> QED BY <1>3, <1>5, <1>6, <1>7, <1>8, <1>9 DEF StackInv

\* The rule on the top executed an action.
LEMMA StackApply ==
    ASSUME StackInv, pc = "eval", stack # <<>>, pc' = pc, loaded' = loaded,
           NEW f \in Frames, FrameOK(f), f.node = stack[1].node, f.i > 2, f.node.op = "rule",
           Post(f.node, "true", ctx'), LoopsKept,
           stack' = <<f>> \o Tail(stack), ret' = "true"
    PROVE  StackInv'
<1>2. stack \in Seq(Frames) /\ Len(stack) \in Nat /\ Len(stack) >= 1
  BY TopIs
<1>3. /\ stack' \in Seq(Frames) /\ Len(stack') = Len(stack) /\ stack' # <<>>
      /\ stack'[1] = f
      /\ \A k \in 2..Len(stack') : stack'[k] = stack[k]
  BY <1>2, PushSeq
<1>5. \A k \in 1..Len(stack') : FrameOK(stack'[k])
  <2> SUFFICES ASSUME NEW k \in 1..Len(stack') PROVE FrameOK(stack'[k])
    OBVIOUS
  <2>1. CASE k = 1
    BY <1>3, <2>1
  <2>2. CASE k \in 2..Len(stack')
    BY <1>3, <2>2, Waiting
  <2> QED BY <1>2, <1>3, <2>1, <2>2
<1>6. TopInv(stack[1])'
  <2>1. f.i \in Nat
    BY DEF Frames
  <2> QED BY <1>3, <2>1 DEF TopInv
<1>7. ASSUME NEW k \in 2..Len(stack') PROVE WaitInv(stack[k], stack[k - 1].node)'
  <2>1. k \in 2..Len(stack) /\ stack'[k] = stack[k]
    BY <1>3
  <2>2. stack'[k - 1].node = stack[k - 1].node
    <3>1. CASE k = 2
      <4>1. 2 - 1 = 1
        OBVIOUS
      <4> QED BY <1>3, <3>1, <4>1
    <3>2. CASE k > 2
      BY <1>2, <1>3, <2>1, <3>2
    <3> QED BY <3>1, <3>2
  <2>3. /\ stack[k].i > 1 /\ (stack[k].node.op = "rule" => stack[k].i = 2)
        /\ stack[k - 1].node = stack[k].node.kids[stack[k].i - 1]
    BY <2>1, Waiting
  <2>4. Loop(stack[k].node, stack[k].i, stack[k].isAny, ctx')
    BY <2>1 DEF LoopsKept
  <2> QED BY <2>1, <2>2, <2>3, <2>4 DEF WaitInv
<1>8. stack'[Len(stack')].node = Head(loaded').kids[1]
  <2>1. CASE Len(stack) = 1
    BY <1>3, <2>1, TopIs
  <2>2. CASE Len(stack) > 1
    <3>1. stack'[Len(stack')] = stack[Len(stack)]
      BY <1>2, <1>3, <2>2
    <3> QED BY <3>1, TopIs
  <2> QED BY <1>2, <2>1, <2>2
<1>9. pc' = "eval"
  OBVIOUS
<1> QED BY <1>3, <1>5, <1>6, <1>7, <1>8, <1>9 DEF StackInv

\* The stack is not looked at any more.
LEMMA StackDone ==
    ASSUME StackInv, pc' = "done", stack' = stack
    PROVE  StackInv'
  BY DEF StackInv, FrameOK

\* The type of the stack.
LEMMA StackType ==
    ASSUME StackInv
    PROVE  \A k \in 1..Len(stack) :
               stack[k].i \in 1..(1 + Len(stack[k].node.kids) + Len(stack[k].node.actions))
<1> SUFFICES ASSUME NEW k \in 1..Len(stack)
             PROVE  stack[k].i \in 1..(1 + Len(stack[k].node.kids) + Len(stack[k].node.actions))
  OBVIOUS
<1>1. stack \in Seq(Frames) /\ FrameOK(stack[k])
  BY DEF StackInv
<1>2. stack[k] \in Frames
  BY <1>1
<1> QED BY <1>1, <1>2, FrameRange

\* A prepared cluster stays so.
LEMMA KeepsPrepared ==
    ASSUME NEW x, NEW y, Keeps(x, y), Prepared(x)
    PROVE  Prepared(y)
<1>1. y.RepoName = x.RepoName /\ y.skipBootstrap = x.skipBootstrap /\ y.ginkgo
  BY DEF Keeps, Same, Prepared
<1>2. Booted(BootOf(x.RepoName).name, x) => Booted(BootOf(x.RepoName).name, y)
  BY KeepsBooted
<1>3. x.RepoName \notin {"e2e-tests", "release-service-catalog"} => y.imageOf = y.RepoName
  BY DEF Keeps, Prepared
<1> QED BY <1>1, <1>2, <1>3 DEF Prepared

\* The pairing only depends on the answers of GitHub.
LEMMA SameStable ==
    ASSUME NEW x, NEW y, y.asked = x.asked, y.rehearse = x.rehearse
    PROVE  (Stable(y) <=> Stable(x)) /\ (Paired(y) <=> Paired(x)) /\ (NotPaired(y) <=> NotPaired(x))
  BY DEF Stable, Paired, NotPaired, Asked

\* CtxInv survives the conditions and the actions of the evaluation.
LEMMA KeepsCtxInv ==
    ASSUME NEW x, NEW y, Keeps(x, y), CtxInv(x), RequiredOnly(y), x.runs = <<>> \/ y.asked = x.asked
    PROVE  CtxInv(y)
<1>1. Same(x, y) /\ y.runs = x.runs
  BY DEF Keeps
<1>2. y.catalog = x.catalog /\ y.RepoName = x.RepoName /\ y.change = x.change
  BY <1>1 DEF Same
<1>3. x.catalog # "ci" => x.DiffFiles = x.change /\ y.DiffFiles = x.DiffFiles
  BY DEF Keeps, CtxInv
<1>4. /\ y.catalog # "ci" => y.DiffFiles = y.change
      /\ y.catalog = "infra-deployments" => y.change \subseteq InfraFiles
      /\ y.catalog = "ci" <=> y.RepoName \in AllRepos
  BY <1>2, <1>3 DEF CtxInv
<1>5. ASSUME y.runs # <<>>, y.catalog = "e2e-repo" PROVE SelectedRun(y)
  <2>1. SelectedRun(x)
    BY <1>1, <1>2, <1>5 DEF CtxInv
  <2>2. x.DiffFiles = y.DiffFiles
    BY <1>2, <1>3, <1>5
  <2> QED BY <1>1, <2>1, <2>2 DEF SelectedRun, Changed
<1>6. ASSUME y.runs # <<>>, y.catalog = "infra-deployments" PROVE InfraRun(y)
  <2>1. InfraRun(x)
    BY <1>1, <1>2, <1>6 DEF CtxInv
  <2>2. x.DiffFiles = y.DiffFiles /\ x.DiffFiles = x.change
    BY <1>2, <1>3, <1>6
  <2>3. Labels(y) = Labels(x)
    BY <2>2, KeepsFacts
  <2> QED BY <1>1, <2>1, <2>2, <2>3 DEF InfraRun
<1>7. ASSUME y.runs # <<>>, y.RepoName = "e2e-tests" PROVE OneGoodRun(y)
  <2>1. OneGoodRun(x)
    BY <1>1, <1>2, <1>7 DEF CtxInv
  <2> QED BY <1>1, <1>2, <2>1 DEF OneGoodRun, GoodRun
<1>8. ASSUME y.runs # <<>>, y.RepoName \in AllRepos \ {"e2e-tests"}, Stable(y) PROVE WorkflowRun(y)
  <2>1. y.asked = x.asked /\ y.rehearse = x.rehearse
    BY <1>1, <1>8 DEF Same
  <2>2. (Stable(y) <=> Stable(x)) /\ (Paired(y) <=> Paired(x))
    BY <2>1, SameStable
  <2>3. WorkflowRun(x)
    BY <1>1, <1>2, <1>8, <2>2 DEF CtxInv
  <2> QED BY <1>1, <1>2, <2>2, <2>3 DEF WorkflowRun, CatalogRun
<1> QED BY <1>4, <1>5, <1>6, <1>7, <1>8 DEF CtxInv

\* It survives a run of the tests of this repository.
LEMMA TestedCtxInv ==
    ASSUME NEW x, NEW y, Tested(x, y), CtxInv(x), x.RepoName = "e2e-tests",
           y.runs = <<>> \/ OneGoodRun(y)
    PROVE  CtxInv(y)
<1>1. y.catalog = x.catalog /\ y.RepoName = x.RepoName /\ y.change = x.change /\ y.DiffFiles = x.DiffFiles
  BY DEF Tested, Same
<1>2. RequiredOnly(y)
  BY TestedSame DEF CtxInv
<1>3. x.catalog = "ci"
  BY DEF CtxInv, AllRepos
<1> QED BY <1>1, <1>2, <1>3 DEF CtxInv, AllRepos

\* OwnName by cases.
LEMMA OwnIs ==
    ASSUME NEW x \in RuleCtxs, CtxInv(x)
    PROVE  /\ OwnName(x) \in AllRepos \cup {"e2e-repo", "infra-deployments"}
           /\ x.catalog = "ci" => OwnName(x) = x.RepoName /\ x.RepoName \in AllRepos
           /\ x.catalog # "ci" => OwnName(x) = x.catalog
           /\ OwnName(x) \in AllRepos <=> x.catalog = "ci"
           /\ OwnName(x) \in {"e2e-repo", "infra-deployments"} => x.catalog = OwnName(x)
           /\ x.RepoName = "e2e-tests" => OwnName(x) = "e2e-tests"
           /\ x.catalog # "ci" => x.DiffFiles = x.change
<1>1. x.catalog \in {"ci", "e2e-repo", "infra-deployments"}
  BY Zenon DEF RuleCtxs
<1> QED BY <1>1 DEF CtxInv, OwnName, AllRepos

\* The rules that match are the same after a step that keeps the change.
LEMMA KeepsMatched ==
    ASSUME NEW x, NEW y, Keeps(x, y), x.DiffFiles = x.change
    PROVE  \A j : E2EMatched(j, y) = E2EMatched(j, x) /\ InfraMatched(j, y) = InfraMatched(j, x)
  BY KeepsFacts DEF E2EMatched, InfraMatched

\* The evaluation of one more rule keeps what is known of the matched ones.
LEMMA KeepsMatch ==
    ASSUME MatchInv, ctx \in RuleCtxs, CtxInv(ctx), Keeps(ctx, ctx'), loaded # <<>>,
           UNCHANGED <<catalogs, loaded, matched>>
    PROVE  MatchInv'
<1> DEFINE own == OwnName(ctx)
<1>0. Same(ctx, ctx')
  BY DEF Keeps
<1>1. OwnName(ctx') = own
  BY <1>0 DEF OwnName, Same
<1>2. own \in Services \cup {"e2e-tests", "release-service-catalog", "e2e-repo", "infra-deployments"}
  BY OwnIs DEF Services
<1>3. /\ ~Stable(ctx) => ~Stable(ctx')
      /\ NotPaired(ctx) => NotPaired(ctx')
      /\ Paired(ctx) => Paired(ctx')
  BY <1>0, KeepsAsked DEF Keeps, Same
<1>4. Ready(ctx) => Ready(ctx')
  BY KeepsPrepared DEF Ready, Keeps
<1>5. ctx'.skipBootstrap = ctx.skipBootstrap
  BY <1>0 DEF Same
<1>6. own \in {"e2e-repo", "infra-deployments"} =>
        \A j : E2EMatched(j, ctx') = E2EMatched(j, ctx) /\ InfraMatched(j, ctx') = InfraMatched(j, ctx)
  BY OwnIs, KeepsMatched
<1> HIDE DEF own
<1>7. own = "e2e-repo" /\ PreviewMatching(ctx, loaded, matched) => PreviewMatching(ctx', loaded, matched)
  BY <1>6 DEF PreviewMatching
<1>8. own = "infra-deployments" /\ InfraMatching(ctx, loaded, matched) => InfraMatching(ctx', loaded, matched)
  BY <1>6 DEF InfraMatching
<1>9. ServiceMatching(ctx, own, matched) => ServiceMatching(ctx', own, matched)
  BY <1>3, <1>4 DEF ServiceMatching
<1>10. CatalogMatching(ctx, loaded, matched) => CatalogMatching(ctx', loaded, matched)
  BY <1>3, <1>4 DEF CatalogMatching
<1>11. /\ catalogs' = catalogs /\ loaded' = loaded /\ matched' = matched
      /\ Matching(ctx, catalogs, loaded, matched)
  BY DEF MatchInv
<1>12. Matching(ctx', catalogs, loaded, matched)
  BY <1>1, <1>3, <1>5, <1>7, <1>8, <1>9, <1>10, <1>11 DEF Matching, own
<1> QED BY <1>11, <1>12 DEF MatchInv

\* So does a run of the tests of this repository.
LEMMA TestedMatch ==
    ASSUME MatchInv, ctx \in RuleCtxs, CtxInv(ctx), Tested(ctx, ctx'), ctx.RepoName = "e2e-tests",
           UNCHANGED <<catalogs, loaded, matched>>
    PROVE  MatchInv'
<1> DEFINE own == OwnName(ctx)
<1>0. /\ ctx'.catalog = ctx.catalog /\ ctx'.RepoName = ctx.RepoName
      /\ ctx'.skipBootstrap = ctx.skipBootstrap /\ ctx'.asked = ctx.asked /\ ctx'.rehearse = ctx.rehearse
  BY DEF Tested, Same
<1>1. OwnName(ctx') = own /\ own = "e2e-tests"
  BY <1>0, OwnIs DEF OwnName
<1>2. Stable(ctx') <=> Stable(ctx)
  BY <1>0, SameStable
<1> HIDE DEF own
<1>3. own \notin Services \cup {"e2e-repo", "infra-deployments", "release-service-catalog"}
  BY <1>1 DEF Services
<1>4. Matching(ctx', catalogs, loaded, matched)
  BY <1>0, <1>1, <1>2, <1>3 DEF MatchInv, Matching, own
<1> QED BY <1>4 DEF MatchInv

-----------------------------------------------------------------------------
(* The steps of the evaluation preserve the invariant.                     *)

\* The frames have the type of TypeOK.
LEMMA FramesType ==
    ASSUME NEW s \in Seq(Frames), \A k \in 1..Len(s) : FrameOK(s[k])
    PROVE  \A k \in 1..Len(s) : s[k].i \in 1..(1 + Len(s[k].node.kids) + Len(s[k].node.actions))
<1> SUFFICES ASSUME NEW k \in 1..Len(s)
             PROVE  s[k].i \in 1..(1 + Len(s[k].node.kids) + Len(s[k].node.actions))
  OBVIOUS
<1>1. s[k] \in Frames /\ FrameOK(s[k])
  OBVIOUS
<1> QED BY <1>1, FrameRange

\* What is left to show of a step of the evaluation.
LEMMA EvalStep ==
    ASSUME IInv, pc = "eval", StackInv', MatchInv', ctx' \in RuleCtxs, CtxInv(ctx'),
           Same(ctx, ctx'), ret' \in {"none", "true", "false"},
           UNCHANGED <<catalogs, loaded, matched, act>>,
           (pc' = "eval" /\ result' = result) \/ (pc' = "done" /\ result' = "error")
    PROVE  IInv'
<1>1. TypeOK'
  <2>1. stack' \in Seq(Frames) /\ \A k \in 1..Len(stack') : FrameOK(stack'[k])
    BY DEF StackInv
  <2>2. \A k \in 1..Len(stack') :
          stack'[k].i \in 1..(1 + Len(stack'[k].node.kids) + Len(stack'[k].node.actions))
    BY <2>1, FramesType
  <2> QED BY <2>2 DEF IInv, TypeOK
<1>2. LoadInv'
  <2>1. CatalogNames(ctx') = CatalogNames(ctx)
    BY DEF CatalogNames, Same
  <2> QED BY <2>1 DEF IInv, LoadInv
<1>3. ApplyInv'
  BY DEF ApplyInv
<1>4. NilInv'
  BY DEF IInv, NilInv
<1> QED BY <1>1, <1>2, <1>3, <1>4 DEF IInv

\* What is known of the function on the top.
LEMMA TopFacts ==
    ASSUME IInv, pc = "eval", stack # <<>>
    PROVE  /\ StackInv /\ MatchInv /\ CtxInv(ctx) /\ ctx \in RuleCtxs /\ ret \in {"none", "true", "false"}
           /\ loaded # <<>> /\ result \in {"none", "error"}
           /\ Engine!Top = stack[1] /\ stack[1] \in Frames /\ FrameOK(stack[1]) /\ TopInv(stack[1])
           /\ stack[1].node \in Nodes /\ stack[1].i \in Nat /\ stack[1].isAny \in BOOLEAN
<1>1. StackInv /\ MatchInv /\ CtxInv(ctx) /\ ctx \in RuleCtxs /\ ret \in {"none", "true", "false"} /\ loaded # <<>>
  BY DEF IInv, LoadInv, TypeOK
<1>2. result \in {"none", "error"}
  BY DEF IInv, NilInv, TypeOK
<1>3. Engine!Top = stack[1] /\ stack[1] \in Frames /\ FrameOK(stack[1]) /\ TopInv(stack[1])
  BY <1>1, TopIs
<1> QED BY <1>1, <1>2, <1>3, FrameRange

\* The function on the top returns and nothing else changes.
LEMMA ReturnStep ==
    ASSUME IInv, pc = "eval", stack # <<>>, stack' = Tail(stack), ret' \in {"true", "false"},
           Post(stack[1].node, ret', ctx), UNCHANGED <<ctx, catalogs, loaded, pc, matched, act, result>>
    PROVE  IInv'
<1>1. StackInv /\ MatchInv /\ CtxInv(ctx) /\ ctx \in RuleCtxs
  BY TopFacts
<1>2. LoopsKept
  BY <1>1, SameLoops
<1>3. StackInv'
  BY <1>1, <1>2, StackReturn
<1>4. MatchInv' /\ Same(ctx, ctx')
  BY <1>1 DEF MatchInv, Same
<1> QED BY <1>1, <1>3, <1>4, EvalStep

\* The function on the top calls Check of a child.
LEMMA CallStep ==
    ASSUME IInv, pc = "eval", stack # <<>>,
           NEW f \in Frames, FrameOK(f), f.node = stack[1].node, f.i > 1, f.node.op = "rule" => f.i = 2,
           NEW m, m = f.node.kids[f.i - 1],
           Loop(f.node, f.i, f.isAny, ctx), Pre(m, ctx),
           stack' = <<Engine!Frame(m), f>> \o Tail(stack), ret' = "none",
           UNCHANGED <<ctx, catalogs, loaded, pc, matched, act, result>>
    PROVE  IInv'
<1>1. StackInv /\ MatchInv /\ CtxInv(ctx) /\ ctx \in RuleCtxs
  BY TopFacts
<1>2. m \in Nodes
  <2> DEFINE n == f.node
             i == f.i
  <2>1. n \in Nodes \ Conds /\ i \in 2..(1 + Len(n.kids)) /\ m = n.kids[i - 1]
    BY FrameRange
  <2> HIDE DEF n, i
  <2>2. Len(n.kids) \in Nat
    BY <2>1, NodeActions
  <2>3. i - 1 \in 1..Len(n.kids)
    BY <2>1, <2>2
  <2> QED BY <2>1, <2>3, KidsOf DEF KidsIn
<1>3. StackInv'
  BY <1>1, <1>2, StackCall
<1>4. MatchInv' /\ Same(ctx, ctx')
  BY <1>1 DEF MatchInv, Same
<1> QED BY <1>1, <1>3, <1>4, EvalStep

\* The frame of a function that calls its next child.
LEMMA NextKidIs ==
    ASSUME NEW f \in Frames
    PROVE  /\ Engine!NextKid(f) \in Frames
           /\ Engine!NextKid(f).node = f.node /\ Engine!NextKid(f).i = f.i + 1
           /\ Engine!NextKid(f).isAny = f.isAny
<1>1. f.node \in Nodes /\ f.i \in Nat /\ f.isAny \in BOOLEAN
  BY DEF Frames
<1>2. f.i + 1 \in Nat
  BY <1>1
<1>3. /\ [f EXCEPT !.i = f.i + 1] \in Frames
      /\ [f EXCEPT !.i = f.i + 1].node = f.node /\ [f EXCEPT !.i = f.i + 1].i = f.i + 1
      /\ [f EXCEPT !.i = f.i + 1].isAny = f.isAny
  BY <1>1, <1>2, Zenon DEF Frames
<1> QED BY <1>3, Zenon DEF Engine!NextKid

\* All, Any and None have at least one child.
LEMMA LenFacts ==
    ASSUME NEW n \in Alls \cup Anys \cup Nones
    PROVE  n \in Nodes \ Conds /\ Len(n.kids) \in Nat /\ Len(n.kids) >= 1
<1>1. n \in Nodes /\ n \notin Conds
  BY NodeOps DEF Nodes
<1>2. Len(n.kids) \in Nat \ {0}
  BY <1>1, KidsOf DEF KidsIn
<1> QED BY <1>1, <1>2

\* All: what holds when the next child is called, and when it returns.
LEMMA AllMoves ==
    ASSUME NEW n \in Alls, NEW x \in RuleCtxs, NEW b \in BOOLEAN, NEW i \in Nat, NEW r,
           i >= 1, i <= 1 + Len(n.kids),
           i = 1 => Pre(n, x) /\ r = "none",
           i > 1 => r \in {"true", "false"} /\ Loop(n, i, b, x) /\ Post(n.kids[i - 1], r, x)
    PROVE  /\ i <= Len(n.kids) /\ r # "false" => Pre(n.kids[i], x) /\ Loop(n, i + 1, b, x)
           /\ ~(i <= Len(n.kids) /\ r # "false") /\ r # "false" => Post(n, "true", x)
           /\ r = "false" => Post(n, "false", x)
<1> DEFINE l == Len(n.kids)
<1>1. AllFits(n, b, x)
  BY AllsFit
<1>2. l \in Nat /\ l >= 1
  BY LenFacts
<1>3. /\ Pre(n, x) => Pre(n.kids[1], x) /\ Loop(n, 2, b, x)
      /\ \A j \in 2..l :
           Loop(n, j, b, x) /\ Post(n.kids[j - 1], "true", x) => Pre(n.kids[j], x) /\ Loop(n, j + 1, b, x)
      /\ Loop(n, l + 1, b, x) /\ Post(n.kids[l], "true", x) => Post(n, "true", x)
      /\ \A j \in 2..(l + 1) :
           Loop(n, j, b, x) /\ Post(n.kids[j - 1], "false", x) => Post(n, "false", x)
  BY <1>1 DEF AllFits
<1>4. i <= 1 + l
  OBVIOUS
<1> HIDE DEF l
<1>5. ASSUME i <= l, r # "false" PROVE Pre(n.kids[i], x) /\ Loop(n, i + 1, b, x)
  <2>1. CASE i = 1
    BY <1>3, <2>1
  <2>2. CASE i > 1
    <3>1. i \in 2..l /\ r = "true"
      BY <1>2, <1>5, <2>2
    <3> QED BY <1>3, <2>2, <3>1
  <2> QED BY <2>1, <2>2
<1>6. ASSUME ~(i <= l), r # "false" PROVE Post(n, "true", x)
  <2>1. i = l + 1 /\ i - 1 = l /\ i > 1
    BY <1>2, <1>4, <1>6
  <2>2. r = "true"
    BY <1>6, <2>1
  <2>3. Loop(n, l + 1, b, x) /\ Post(n.kids[l], "true", x)
    BY <2>1, <2>2
  <2> QED BY <1>3, <2>3
<1>7. ASSUME r = "false" PROVE Post(n, "false", x)
  <2>1. i > 1 /\ i \in 2..(l + 1)
    BY <1>2, <1>4, <1>7
  <2> QED BY <1>3, <1>7, <2>1
<1> QED BY <1>5, <1>6, <1>7 DEF l

\* None: the same.
LEMMA NoneMoves ==
    ASSUME NEW n \in Nones, NEW x \in RuleCtxs, NEW b \in BOOLEAN, NEW i \in Nat, NEW r,
           i >= 1, i <= 1 + Len(n.kids),
           i = 1 => Pre(n, x) /\ r = "none",
           i > 1 => r \in {"true", "false"} /\ Loop(n, i, b, x) /\ Post(n.kids[i - 1], r, x)
    PROVE  /\ i <= Len(n.kids) /\ r # "true" => Pre(n.kids[i], x) /\ Loop(n, i + 1, b, x)
           /\ ~(i <= Len(n.kids) /\ r # "true") /\ r # "true" => Post(n, "true", x)
           /\ r = "true" => Post(n, "false", x)
<1> DEFINE l == Len(n.kids)
<1>1. NoneFits(n, b, x)
  BY NonesFit
<1>2. l \in Nat /\ l >= 1
  BY LenFacts
<1>3. /\ Pre(n, x) => Pre(n.kids[1], x) /\ Loop(n, 2, b, x)
      /\ \A j \in 2..l :
           Loop(n, j, b, x) /\ Post(n.kids[j - 1], "false", x) => Pre(n.kids[j], x) /\ Loop(n, j + 1, b, x)
      /\ Loop(n, l + 1, b, x) /\ Post(n.kids[l], "false", x) => Post(n, "true", x)
      /\ \A j \in 2..(l + 1) :
           Loop(n, j, b, x) /\ Post(n.kids[j - 1], "true", x) => Post(n, "false", x)
  BY <1>1 DEF NoneFits
<1>4. i <= 1 + l
  OBVIOUS
<1> HIDE DEF l
<1>5. ASSUME i <= l, r # "true" PROVE Pre(n.kids[i], x) /\ Loop(n, i + 1, b, x)
  <2>1. CASE i = 1
    BY <1>3, <2>1
  <2>2. CASE i > 1
    <3>1. i \in 2..l /\ r = "false"
      BY <1>2, <1>5, <2>2
    <3> QED BY <1>3, <2>2, <3>1
  <2> QED BY <2>1, <2>2
<1>6. ASSUME ~(i <= l), r # "true" PROVE Post(n, "true", x)
  <2>1. i = l + 1 /\ i - 1 = l /\ i > 1
    BY <1>2, <1>4, <1>6
  <2>2. r = "false"
    BY <1>6, <2>1
  <2>3. Loop(n, l + 1, b, x) /\ Post(n.kids[l], "false", x)
    BY <2>1, <2>2
  <2> QED BY <1>3, <2>3
<1>7. ASSUME r = "true" PROVE Post(n, "false", x)
  <2>1. i > 1 /\ i \in 2..(l + 1)
    BY <1>2, <1>4, <1>7
  <2> QED BY <1>3, <1>7, <2>1
<1> QED BY <1>5, <1>6, <1>7 DEF l

\* c: what isAny is now.
LEMMA AnyMoves ==
    ASSUME NEW n \in Anys, NEW x \in RuleCtxs, NEW b \in BOOLEAN, NEW c \in BOOLEAN, NEW i \in Nat, NEW r,
           i >= 1, i <= 1 + Len(n.kids),
           r = "true" => c, r # "true" => (c <=> b),
           i = 1 => Pre(n, x) /\ r = "none" /\ ~b,
           i > 1 => r \in {"true", "false"} /\ Loop(n, i, b, x) /\ Post(n.kids[i - 1], r, x)
    PROVE  /\ i <= Len(n.kids) => Pre(n.kids[i], x) /\ Loop(n, i + 1, c, x)
           /\ ~(i <= Len(n.kids)) /\ c => Post(n, "true", x)
           /\ ~(i <= Len(n.kids)) /\ ~c => Post(n, "false", x)
<1> DEFINE l == Len(n.kids)
<1>1. AnyFits(n, b, c, x)
  BY AnysFit
<1>2. l \in Nat /\ l >= 1
  BY LenFacts
<1>3. /\ Pre(n, x) /\ ~b => Pre(n.kids[1], x) /\ Loop(n, 2, b, x)
      /\ \A j \in 2..l : Loop(n, j, b, x) =>
           /\ Post(n.kids[j - 1], "true", x) /\ c => Pre(n.kids[j], x) /\ Loop(n, j + 1, c, x)
           /\ Post(n.kids[j - 1], "false", x) => Pre(n.kids[j], x) /\ Loop(n, j + 1, b, x)
      /\ Loop(n, l + 1, b, x) =>
           /\ Post(n.kids[l], "true", x) => Post(n, "true", x)
           /\ Post(n.kids[l], "false", x) /\ b => Post(n, "true", x)
           /\ Post(n.kids[l], "false", x) /\ ~b => Post(n, "false", x)
  BY <1>1 DEF AnyFits
<1>4. i <= 1 + l
  OBVIOUS
<1>9. r # "true" => c = b
  OBVIOUS
<1> HIDE DEF l
<1>5. ASSUME i <= l PROVE Pre(n.kids[i], x) /\ Loop(n, i + 1, c, x)
  <2>1. CASE i = 1
    BY <1>3, <1>9, <2>1
  <2>2. CASE i > 1
    <3>1. i \in 2..l /\ r \in {"true", "false"}
      BY <1>2, <1>5, <2>2
    <3> QED BY <1>3, <1>9, <2>2, <3>1
  <2> QED BY <2>1, <2>2
<1>6. ASSUME ~(i <= l) PROVE (c => Post(n, "true", x)) /\ (~c => Post(n, "false", x))
  <2>1. i = l + 1 /\ i - 1 = l /\ i > 1
    BY <1>2, <1>4, <1>6
  <2>2. r \in {"true", "false"} /\ Loop(n, l + 1, b, x) /\ Post(n.kids[l], r, x)
    BY <2>1
  <2> QED BY <1>3, <2>2
<1> QED BY <1>5, <1>6 DEF l

\* What the inductive invariant says of the running function.
LEMMA RunningIs ==
    ASSUME IInv, NEW op, Engine!Running(op)
    PROVE  /\ pc = "eval" /\ stack # <<>> /\ stack[1].node.op = op /\ Engine!Top = stack[1]
           /\ stack[1] \in Frames /\ FrameOK(stack[1]) /\ TopInv(stack[1])
           /\ stack[1].node \in Nodes /\ stack[1].i \in Nat /\ stack[1].isAny \in BOOLEAN
           /\ ctx \in RuleCtxs /\ CtxInv(ctx)
<1>1. pc = "eval" /\ stack # <<>>
  BY DEF Engine!Running
<1>2. Engine!Top = stack[1]
  BY <1>1, TopFacts
<1>3. stack[1].node.op = op
  BY <1>2 DEF Engine!Running
<1> QED BY <1>1, <1>2, <1>3, TopFacts

\* The frame of a filter.
LEMMA FilterFrame ==
    ASSUME NEW f \in Frames, FrameOK(f), f.node.op \in {"all", "any", "none"}, TopInv(f)
    PROVE  /\ f.i >= 1 /\ f.i <= 1 + Len(f.node.kids)
           /\ f.i = 1 => Pre(f.node, ctx) /\ ret = "none" /\ ~f.isAny
           /\ f.i > 1 => ret \in {"true", "false"} /\ Loop(f.node, f.i, f.isAny, ctx)
                           /\ Post(f.node.kids[f.i - 1], ret, ctx)
  BY DEF FrameOK, TopInv

\* The filter on the top, its frame f, calls the next child.
LEMMA CallNext ==
    ASSUME IInv, pc = "eval", stack # <<>>, NEW f \in Frames, f.node = stack[1].node, f.i = stack[1].i,
           f.node.op \in {"all", "any", "none"}, f.i <= Len(f.node.kids), f.i >= 1,
           Pre(f.node.kids[f.i], ctx), Loop(f.node, f.i + 1, f.isAny, ctx),
           Engine!Call(Engine!NextKid(f), f.node.kids[f.i]),
           UNCHANGED <<ctx, catalogs, loaded, pc, matched, act, result>>
    PROVE  IInv'
<1> DEFINE g == Engine!NextKid(f)
           m == f.node.kids[f.i]
<1>1. g \in Frames /\ g.node = f.node /\ g.i = f.i + 1 /\ g.isAny = f.isAny
  BY NextKidIs
<1>2. stack' = <<Engine!Frame(m), g>> \o Tail(stack) /\ ret' = "none"
  BY DEF Engine!Call
<1> HIDE DEF g
<1>3. f.i \in Nat /\ g.i - 1 = f.i /\ g.i > 1
  BY <1>1 DEF Frames
<1>4. Len(f.node.kids) \in Nat
  <2>1. f.node \in Nodes
    BY DEF Frames
  <2> QED BY <2>1, NodeActions
<1>5. FrameOK(g)
  BY <1>1, <1>3, <1>4 DEF FrameOK
<1>6. m = g.node.kids[g.i - 1] /\ g.node = stack[1].node /\ (g.node.op = "rule" => g.i = 2)
  BY <1>1, <1>3
<1>7. Loop(g.node, g.i, g.isAny, ctx) /\ Pre(m, ctx)
  BY <1>1
<1> HIDE DEF m
<1> QED BY <1>1, <1>2, <1>3, <1>5, <1>6, <1>7, CallStep

\* The step AllCheck of the engine keeps the inductive invariant.
LEMMA AllCheckStep ==
    ASSUME IInv, Engine!AllCheck
    PROVE  IInv'
<1> DEFINE f == stack[1]
           n == f.node
<1>1. /\ pc = "eval" /\ stack # <<>> /\ n.op = "all" /\ Engine!Top = f
      /\ f \in Frames /\ FrameOK(f) /\ TopInv(f)
      /\ n \in Nodes /\ f.i \in Nat /\ f.isAny \in BOOLEAN /\ ctx \in RuleCtxs
  BY RunningIs DEF Engine!AllCheck
<1>2. n \in Alls
  BY <1>1, NodeOps
<1>3. /\ f.i >= 1 /\ f.i <= 1 + Len(n.kids)
      /\ f.i = 1 => Pre(n, ctx) /\ ret = "none"
      /\ f.i > 1 => ret \in {"true", "false"} /\ Loop(n, f.i, f.isAny, ctx) /\ Post(n.kids[f.i - 1], ret, ctx)
  BY <1>1, FilterFrame
<1>4. UNCHANGED <<ctx, catalogs, loaded, pc, matched, act, result>>
  BY DEF Engine!AllCheck
<1>5. CASE f.i <= Len(n.kids) /\ ret # "false"
  <2>1. Engine!Call(Engine!NextKid(f), n.kids[f.i])
    BY <1>1, <1>5 DEF Engine!AllCheck
  <2>2. Pre(n.kids[f.i], ctx) /\ Loop(n, f.i + 1, f.isAny, ctx)
    BY <1>1, <1>2, <1>3, <1>5, AllMoves
  <2> QED BY <1>1, <1>3, <1>4, <1>5, <2>1, <2>2, CallNext
<1>6. CASE ~(f.i <= Len(n.kids) /\ ret # "false")
  <2>1. stack' = Tail(stack) /\ ret' = (IF ret # "false" THEN "true" ELSE "false")
    BY <1>1, <1>6 DEF Engine!AllCheck, Engine!Return, Engine!Answered
  <2>2. Post(n, ret', ctx)
    BY <1>1, <1>2, <1>3, <1>6, <2>1, AllMoves
  <2> QED BY <1>1, <1>4, <2>1, <2>2, ReturnStep
<1> QED BY <1>5, <1>6

\* The step NoneCheck of the engine keeps the inductive invariant.
LEMMA NoneCheckStep ==
    ASSUME IInv, Engine!NoneCheck
    PROVE  IInv'
<1> DEFINE f == stack[1]
           n == f.node
<1>1. /\ pc = "eval" /\ stack # <<>> /\ n.op = "none" /\ Engine!Top = f
      /\ f \in Frames /\ FrameOK(f) /\ TopInv(f)
      /\ n \in Nodes /\ f.i \in Nat /\ f.isAny \in BOOLEAN /\ ctx \in RuleCtxs
  BY RunningIs DEF Engine!NoneCheck
<1>2. n \in Nones
  BY <1>1, NodeOps
<1>3. /\ f.i >= 1 /\ f.i <= 1 + Len(n.kids)
      /\ f.i = 1 => Pre(n, ctx) /\ ret = "none"
      /\ f.i > 1 => ret \in {"true", "false"} /\ Loop(n, f.i, f.isAny, ctx) /\ Post(n.kids[f.i - 1], ret, ctx)
  BY <1>1, FilterFrame
<1>4. UNCHANGED <<ctx, catalogs, loaded, pc, matched, act, result>>
  BY DEF Engine!NoneCheck
<1>5. CASE f.i <= Len(n.kids) /\ ret # "true"
  <2>1. Engine!Call(Engine!NextKid(f), n.kids[f.i])
    BY <1>1, <1>5 DEF Engine!NoneCheck
  <2>2. Pre(n.kids[f.i], ctx) /\ Loop(n, f.i + 1, f.isAny, ctx)
    BY <1>1, <1>2, <1>3, <1>5, NoneMoves
  <2> QED BY <1>1, <1>3, <1>4, <1>5, <2>1, <2>2, CallNext
<1>6. CASE ~(f.i <= Len(n.kids) /\ ret # "true")
  <2>1. stack' = Tail(stack) /\ ret' = (IF ret # "true" THEN "true" ELSE "false")
    BY <1>1, <1>6 DEF Engine!NoneCheck, Engine!Return, Engine!Answered
  <2>2. Post(n, ret', ctx)
    BY <1>1, <1>2, <1>3, <1>6, <2>1, NoneMoves
  <2> QED BY <1>1, <1>4, <2>1, <2>2, ReturnStep
<1> QED BY <1>5, <1>6

\* The step AnyCheck of the engine keeps the inductive invariant.
LEMMA AnyCheckStep ==
    ASSUME IInv, Engine!AnyCheck
    PROVE  IInv'
<1> DEFINE f == stack[1]
           n == f.node
           c == IF ret = "true" THEN TRUE ELSE f.isAny
           g == [f EXCEPT !.isAny = c]
<1>1. /\ pc = "eval" /\ stack # <<>> /\ n.op = "any" /\ Engine!Top = f
      /\ f \in Frames /\ FrameOK(f) /\ TopInv(f)
      /\ n \in Nodes /\ f.i \in Nat /\ f.isAny \in BOOLEAN /\ ctx \in RuleCtxs
  BY RunningIs DEF Engine!AnyCheck
<1>2. n \in Anys
  BY <1>1, NodeOps
<1>3. /\ f.i >= 1 /\ f.i <= 1 + Len(n.kids)
      /\ f.i = 1 => Pre(n, ctx) /\ ret = "none" /\ ~f.isAny
      /\ f.i > 1 => ret \in {"true", "false"} /\ Loop(n, f.i, f.isAny, ctx) /\ Post(n.kids[f.i - 1], ret, ctx)
  BY <1>1, FilterFrame
<1>4. UNCHANGED <<ctx, catalogs, loaded, pc, matched, act, result>>
  BY DEF Engine!AnyCheck
<1>5. c \in BOOLEAN /\ (ret = "true" => c) /\ (ret # "true" => (c <=> f.isAny))
  BY <1>1
<1>a. IF f.i <= Len(n.kids) THEN Engine!Call(Engine!NextKid(g), n.kids[f.i]) ELSE Engine!Return(g.isAny)
  BY <1>1, Zenon DEF Engine!AnyCheck
<1> HIDE DEF c
<1>6. g \in Frames /\ g.node = n /\ g.i = f.i /\ g.isAny = c
  BY <1>1, <1>5, Zenon DEF Frames
<1> HIDE DEF g
<1>7. CASE f.i <= Len(n.kids)
  <2>1. Engine!Call(Engine!NextKid(g), g.node.kids[g.i])
    BY <1>6, <1>7, <1>a
  <2>2. Pre(g.node.kids[g.i], ctx) /\ Loop(g.node, g.i + 1, g.isAny, ctx)
    <3>1. Pre(n.kids[f.i], ctx) /\ Loop(n, f.i + 1, c, ctx)
      BY <1>1, <1>2, <1>3, <1>5, <1>7, AnyMoves
    <3> QED BY <1>6, <3>1
  <2>3. g.node = stack[1].node /\ g.i = stack[1].i /\ g.node.op = "any" /\ g.i <= Len(g.node.kids) /\ g.i >= 1
    BY <1>1, <1>3, <1>6, <1>7
  <2> HIDE DEF n, f
  <2> QED BY <1>1, <1>4, <1>6, <2>1, <2>2, <2>3, CallNext
<1>8. CASE ~(f.i <= Len(n.kids))
  <2>1. stack' = Tail(stack) /\ ret' = (IF c THEN "true" ELSE "false")
    BY <1>6, <1>8, <1>a DEF Engine!Return, Engine!Answered
  <2>2. (c => Post(n, "true", ctx)) /\ (~c => Post(n, "false", ctx))
    BY <1>1, <1>2, <1>3, <1>5, <1>8, AnyMoves
  <2>3. Post(n, ret', ctx) /\ ret' \in {"true", "false"}
    BY <2>1, <2>2
  <2> QED BY <1>1, <1>4, <2>1, <2>3, ReturnStep
<1> QED BY <1>7, <1>8

\* The step RuleEval of the engine keeps the inductive invariant.
LEMMA RuleEvalStep ==
    ASSUME IInv, Engine!RuleEval
    PROVE  IInv'
<1> DEFINE f == stack[1]
           n == f.node
           g == Engine!NextKid(f)
<1>1. /\ pc = "eval" /\ stack # <<>> /\ n.op = "rule" /\ Engine!Top = f
      /\ f \in Frames /\ FrameOK(f) /\ TopInv(f)
      /\ n \in Nodes /\ f.i \in Nat /\ f.isAny \in BOOLEAN /\ ctx \in RuleCtxs
  BY RunningIs DEF Engine!RuleEval
<1>2. n \in Rules
  BY <1>1, NodeOps
<1>3. f.i = 1 /\ Pre(n, ctx)
  BY <1>1 DEF Engine!RuleEval, TopInv
<1>4. /\ stack' = <<Engine!Frame(n.kids[1]), g>> \o Tail(stack) /\ ret' = "none"
      /\ UNCHANGED <<ctx, catalogs, loaded, pc, matched, act, result>>
  BY <1>1 DEF Engine!RuleEval, Engine!Call
<1>5. g \in Frames /\ g.node = n /\ g.i = 2 /\ g.isAny = f.isAny
  BY <1>1, <1>3, NextKidIs
<1>6. Pre(n.kids[1], ctx) /\ Loop(n, 2, f.isAny, ctx)
  BY <1>1, <1>2, <1>3, RulesFit DEF RuleFits
<1> HIDE DEF g
<1>7. FrameOK(g) /\ g.i > 1
  <2>1. Len(n.actions) \in {0, 1}
    BY <1>1, NodeActions
  <2> QED BY <1>1, <1>5, <2>1 DEF FrameOK
<1>8. n.kids[1] = g.node.kids[g.i - 1] /\ Loop(g.node, g.i, g.isAny, ctx)
  BY <1>5, <1>6
<1> HIDE DEF n
<1>9. g.node = stack[1].node
  BY <1>5 DEF n
<1> QED BY <1>1, <1>4, <1>5, <1>6, <1>7, <1>8, <1>9, CallStep

\* A rule whose condition was checked.
LEMMA RuleTop ==
    ASSUME IInv, pc = "eval", stack # <<>>, stack[1].node.op = "rule", stack[1].i > 1
    PROVE  /\ stack[1].node \in Rules /\ Len(stack[1].node.actions) \in {0, 1}
           /\ stack[1].i \in {2, 3}
           /\ stack[1].i = 2 => /\ Loop(stack[1].node, 2, stack[1].isAny, ctx)
                                /\ Post(stack[1].node.kids[1], ret, ctx)
           /\ stack[1].i = 3 => /\ ret = "true" /\ Post(stack[1].node, "true", ctx)
                                /\ Len(stack[1].node.actions) = 1
<1> DEFINE f == stack[1]
           n == f.node
<1>1. /\ f \in Frames /\ FrameOK(f) /\ TopInv(f)
      /\ n \in Nodes /\ f.i \in Nat /\ f.isAny \in BOOLEAN
  BY TopFacts
<1>2. n \in Rules /\ Len(n.actions) \in {0, 1}
  BY <1>1, NodeOps, NodeActions
<1>3. f.i \in {2, 3} /\ (f.i = 3 => Len(n.actions) = 1)
  <2> DEFINE i == f.i
             l == Len(n.actions)
  <2>1. i \in Nat /\ i > 1 /\ i <= 2 + l /\ l \in {0, 1}
    BY <1>1, <1>2 DEF FrameOK
  <2> HIDE DEF i, l
  <2>2. i \in {2, 3} /\ (i = 3 => l = 1)
    BY <2>1
  <2> QED BY <2>2 DEF i, l
<1>4. f.i = 2 => Loop(n, 2, f.isAny, ctx) /\ Post(n.kids[1], ret, ctx)
  <2>1. 2 - 1 = 1
    OBVIOUS
  <2> QED BY <1>1, <2>1 DEF TopInv
<1>5. f.i = 3 => ret = "true" /\ Post(n, "true", ctx)
  BY <1>1 DEF TopInv
<1> QED BY <1>2, <1>3, <1>4, <1>5

\* The step RuleNotMatched of the engine keeps the inductive invariant.
LEMMA RuleNotMatchedStep ==
    ASSUME IInv, Engine!RuleNotMatched
    PROVE  IInv'
<1> DEFINE f == stack[1]
           n == f.node
<1>1. /\ pc = "eval" /\ stack # <<>> /\ n.op = "rule" /\ Engine!Top = f
      /\ f.isAny \in BOOLEAN /\ ctx \in RuleCtxs
  BY RunningIs DEF Engine!RuleNotMatched
<1>2. f.i > 1 /\ ret = "false"
  BY <1>1 DEF Engine!RuleNotMatched
<1>3. n \in Rules /\ Loop(n, 2, f.isAny, ctx) /\ Post(n.kids[1], "false", ctx)
  BY <1>1, <1>2, RuleTop
<1>4. Post(n, "false", ctx)
  BY <1>1, <1>3, RulesFit DEF RuleFits
<1>5. /\ stack' = Tail(stack) /\ ret' = "false"
      /\ UNCHANGED <<ctx, catalogs, loaded, pc, matched, act, result>>
  BY DEF Engine!RuleNotMatched, Engine!Return, Engine!Answered
<1> QED BY <1>1, <1>4, <1>5, ReturnStep

\* A step that changes the RuleCtx.
LEMMA CtxKept ==
    ASSUME IInv, pc = "eval", stack # <<>>, ctx' \in RuleCtxs,
           UNCHANGED <<catalogs, loaded, matched>>,
           \/ /\ Keeps(ctx, ctx') /\ (ctx.runs = <<>> \/ ctx'.asked = ctx.asked)
              /\ RequiredOnly(ctx) => RequiredOnly(ctx')
           \/ /\ Tested(ctx, ctx') /\ ctx.RepoName = "e2e-tests" /\ stack[1].node \in TestRuleSet
              /\ ctx'.runs = <<>> \/ OneGoodRun(ctx')
    PROVE  LoopsKept /\ MatchInv' /\ CtxInv(ctx') /\ Same(ctx, ctx')
<1>1. StackInv /\ MatchInv /\ CtxInv(ctx) /\ ctx \in RuleCtxs /\ loaded # <<>>
  BY TopFacts
<1>2. CASE /\ Keeps(ctx, ctx') /\ (ctx.runs = <<>> \/ ctx'.asked = ctx.asked)
           /\ RequiredOnly(ctx) => RequiredOnly(ctx')
  <2>1. RequiredOnly(ctx')
    BY <1>1, <1>2 DEF CtxInv
  <2>2. LoopsKept
    BY <1>1, <1>2, KeptLoops
  <2>3. MatchInv'
    BY <1>1, <1>2, KeepsMatch
  <2>4. CtxInv(ctx')
    BY <1>1, <1>2, <2>1, KeepsCtxInv
  <2> QED BY <1>2, <2>2, <2>3, <2>4 DEF Keeps
<1>3. CASE /\ Tested(ctx, ctx') /\ ctx.RepoName = "e2e-tests" /\ stack[1].node \in TestRuleSet
           /\ ctx'.runs = <<>> \/ OneGoodRun(ctx')
  <2>2. LoopsKept
    BY <1>1, <1>3, TestedLoops
  <2>3. MatchInv'
    BY <1>1, <1>3, TestedMatch
  <2>4. CtxInv(ctx')
    BY <1>1, <1>3, TestedCtxInv
  <2> QED BY <1>3, <2>2, <2>3, <2>4 DEF Tested
<1> QED BY <1>2, <1>3

\* The catalog stays, and a workflow runs tests only on a prepared system.
StepOK(x, y) ==
    /\ y.catalog = x.catalog
    /\ x.catalog = "ci" /\ y.runs # x.runs => Prepared(x)

\* The step RuleApply of the engine keeps the inductive invariant.
LEMMA RuleApplyStep ==
    ASSUME IInv, Engine!RuleApply
    PROVE  IInv' /\ StepOK(ctx, ctx')
<1> DEFINE f == stack[1]
           n == f.node
<1>1. /\ pc = "eval" /\ stack # <<>> /\ n.op = "rule" /\ Engine!Top = f /\ f \in Frames
      /\ f.isAny \in BOOLEAN /\ ctx \in RuleCtxs /\ f.i \in Nat /\ CtxInv(ctx)
  BY RunningIs DEF Engine!RuleApply
<1>2. f.i > 1 /\ ret = "true"
  BY <1>1 DEF Engine!RuleApply
<1>3. /\ n \in Rules /\ Len(n.actions) \in {0, 1} /\ f.i \in {2, 3}
      /\ f.i = 2 => Loop(n, 2, f.isAny, ctx) /\ Post(n.kids[1], "true", ctx)
      /\ f.i = 3 => Post(n, "true", ctx) /\ Len(n.actions) = 1
  BY <1>1, <1>2, RuleTop
<1>4. StackInv /\ ret \in {"none", "true", "false"}
  BY <1>1, TopFacts
<1>u. UNCHANGED <<catalogs, loaded, matched, act>>
  BY DEF Engine!RuleApply
<1>5. CASE f.i - 1 <= Len(n.actions)
  <2>1. f.i = 2 /\ Len(n.actions) = 1
    <3> DEFINE i == f.i
               l == Len(n.actions)
    <3>1. i \in {2, 3} /\ l \in {0, 1} /\ i - 1 <= l
      BY <1>3, <1>5
    <3> HIDE DEF i, l
    <3>2. i = 2 /\ l = 1
      BY <3>1
    <3> QED BY <3>2 DEF i, l
  <2>2. Loop(n, 2, f.isAny, ctx) /\ Post(n.kids[1], "true", ctx)
    BY <1>3, <2>1
  <2>3. n.actions # <<>>
    <3>1. n \in Nodes
      BY <1>3 DEF Nodes
    <3>2. n.actions = <<>> <=> Len(n.actions) = 0
      BY <3>1, NodeActions, Zenon
    <3> HIDE DEF n
    <3> QED BY <2>1, <3>2
  <2>4. PICK o \in ExecuteCI(n.actions[1], ctx) :
            /\ ctx' = o.ctx
            /\ \/ o.err /\ Engine!Finish("error") /\ UNCHANGED stack
               \/ /\ ~o.err
                  /\ stack' = <<Engine!NextKid(f)>> \o Tail(stack)
                  /\ UNCHANGED <<pc, result>>
            /\ UNCHANGED ret
    <3>1. f.i - 1 = 1
      BY <2>1
    <3> QED BY <1>1, <1>5, <3>1 DEF Engine!RuleApply
  <2>5. /\ ctx' \in RuleCtxs
        /\ \/ /\ Keeps(ctx, ctx') /\ (ctx.runs = <<>> \/ ctx'.asked = ctx.asked)
              /\ RequiredOnly(ctx) => RequiredOnly(ctx')
           \/ /\ Tested(ctx, ctx') /\ ctx.RepoName = "e2e-tests" /\ stack[1].node \in TestRuleSet
              /\ ctx'.runs = <<>> \/ OneGoodRun(ctx')
        /\ ~o.err => Post(n, "true", ctx')
        /\ StepOK(ctx, ctx')
    <3>1. CASE n \in TestRuleSet
      <4>1. TestActionOK(n, ctx, o)
        BY <1>1, <2>2, <3>1, TestRulesOK
      <4> QED BY <2>4, <3>1, <4>1 DEF TestActionOK, StepOK, Tested, Same
    <3>2. CASE n \notin TestRuleSet
      <4>1. ctx.catalog = "ci" <=> ctx.RepoName \in AllRepos
        BY <1>1 DEF CtxInv
      <4>2. ActionOK(n, ctx, o)
        BY <1>1, <1>3, <2>2, <2>3, <3>2, <4>1, RuleActionsOK
      <4> QED BY <2>4, <4>2 DEF ActionOK, StepOK, Keeps, Same
    <3> QED BY <3>1, <3>2
  <2>6. LoopsKept /\ MatchInv' /\ CtxInv(ctx') /\ Same(ctx, ctx')
    BY <1>1, <1>u, <2>5, CtxKept
  <2>7. CASE o.err
    <3>1. pc' = "done" /\ result' = "error" /\ stack' = stack /\ ret' = ret
      BY <2>4, <2>7 DEF Engine!Finish
    <3>2. StackInv'
      BY <1>4, <3>1, StackDone
    <3> QED BY <1>1, <1>4, <1>u, <2>5, <2>6, <3>1, <3>2, EvalStep
  <2>8. CASE ~o.err
    <3> DEFINE g == Engine!NextKid(f)
    <3>1. stack' = <<g>> \o Tail(stack) /\ pc' = pc /\ result' = result /\ ret' = ret
      BY <2>4, <2>8
    <3>2. g \in Frames /\ g.node = n /\ g.i = 3
      BY <1>1, <2>1, NextKidIs
    <3> HIDE DEF g
    <3>3. FrameOK(g) /\ g.i > 2 /\ g.node.op = "rule" /\ g.node = stack[1].node
      BY <1>1, <2>1, <3>2 DEF FrameOK
    <3>4. Post(g.node, "true", ctx')
      BY <2>5, <2>8, <3>2
    <3>5. StackInv'
      BY <1>1, <1>2, <1>4, <1>u, <2>6, <3>1, <3>2, <3>3, <3>4, StackApply
    <3> QED BY <1>1, <1>4, <1>u, <2>5, <2>6, <3>1, <3>5, EvalStep
  <2> QED BY <2>5, <2>7, <2>8
<1>6. CASE ~(f.i - 1 <= Len(n.actions))
  <2>1. stack' = Tail(stack) /\ ret' = "true" /\ UNCHANGED <<ctx, pc, result>>
    BY <1>1, <1>6 DEF Engine!RuleApply, Engine!Return, Engine!Answered
  <2>2. Post(n, "true", ctx)
    <3>1. CASE f.i = 3
      BY <1>3, <3>1
    <3>2. CASE f.i = 2
      <4>1. Len(n.actions) = 0
        BY <1>3, <1>6, <3>2
      <4>2. n.actions = <<>>
        <5>1. n \in Nodes
          BY <1>3 DEF Nodes
        <5> QED BY <4>1, <5>1, NodeActions
      <4> QED BY <1>1, <1>3, <3>2, <4>2, RulesFit DEF RuleFits
    <3> QED BY <1>3, <3>1, <3>2
  <2>3. StepOK(ctx, ctx')
    BY <2>1 DEF StepOK
  <2> QED BY <1>1, <1>u, <2>1, <2>2, <2>3, ReturnStep
<1> QED BY <1>5, <1>6

\* The step ConditionFuncCheck of the engine keeps the inductive invariant.
LEMMA ConditionFuncCheckStep ==
    ASSUME IInv, Engine!ConditionFuncCheck
    PROVE  IInv' /\ StepOK(ctx, ctx')
<1> DEFINE f == stack[1]
           n == f.node
<1>1. /\ pc = "eval" /\ stack # <<>> /\ n.op = "cond" /\ Engine!Top = f
      /\ n \in Nodes /\ f \in Frames /\ FrameOK(f) /\ TopInv(f) /\ ctx \in RuleCtxs
  BY RunningIs DEF Engine!ConditionFuncCheck
<1>2. n \in Conds
  BY <1>1, NodeOps
<1>3. n.name \in CondNames /\ n = ConditionFunc(n.name)
  BY <1>2, CondIs
<1>4. Pre(n, ctx)
  BY <1>1 DEF FrameOK, TopInv
<1>5. StackInv /\ ret \in {"none", "true", "false"}
  BY <1>1, TopFacts
<1>u. UNCHANGED <<catalogs, loaded, matched, act>>
  BY DEF Engine!ConditionFuncCheck
<1>6. PICK o \in CheckCI(n.name, ctx) :
          /\ ctx' = o.ctx
          /\ \/ o.err /\ Engine!Finish("error") /\ UNCHANGED <<stack, ret>>
             \/ ~o.err /\ Engine!Return(o.ok) /\ UNCHANGED <<pc, result>>
  BY <1>1 DEF Engine!ConditionFuncCheck
<1>7. CheckOK(n.name, ctx, o)
  BY <1>1, <1>3, <1>4, ConditionsOK
<1>8. /\ ctx' \in RuleCtxs /\ Untouched(ctx, ctx') /\ (ctx.runs = <<>> \/ ctx'.asked = ctx.asked)
      /\ ~o.err /\ o.ok => Post(n, "true", ctx')
      /\ ~o.err /\ ~o.ok => Post(n, "false", ctx')
  BY <1>3, <1>6, <1>7 DEF CheckOK
<1>9. Keeps(ctx, ctx') /\ (RequiredOnly(ctx) => RequiredOnly(ctx'))
  BY <1>8, UntouchedKeeps
<1>13. StepOK(ctx, ctx')
  BY <1>9 DEF StepOK, Keeps, Same
<1>10. LoopsKept /\ MatchInv' /\ CtxInv(ctx') /\ Same(ctx, ctx')
  BY <1>1, <1>u, <1>8, <1>9, CtxKept
<1>11. CASE o.err /\ Engine!Finish("error") /\ UNCHANGED <<stack, ret>>
  <2>1. pc' = "done" /\ result' = "error" /\ stack' = stack /\ ret' = ret
    BY <1>11 DEF Engine!Finish
  <2>2. StackInv'
    BY <1>5, <2>1, StackDone
  <2> QED BY <1>1, <1>5, <1>u, <1>8, <1>10, <2>1, <2>2, <1>13, EvalStep
<1>12. CASE ~o.err /\ Engine!Return(o.ok) /\ UNCHANGED <<pc, result>>
  <2>1. /\ stack' = Tail(stack) /\ ret' = (IF o.ok THEN "true" ELSE "false")
        /\ pc' = pc /\ result' = result
    BY <1>12 DEF Engine!Return, Engine!Answered
  <2>2. Post(n, ret', ctx') /\ ret' \in {"true", "false"}
    BY <1>8, <1>12, <2>1
  <2>3. StackInv'
    BY <1>1, <1>5, <1>u, <1>10, <2>1, <2>2, StackReturn
  <2> QED BY <1>1, <1>5, <1>u, <1>8, <1>10, <2>1, <2>2, <2>3, <1>13, EvalStep
<1> QED BY <1>6, <1>11, <1>12

-----------------------------------------------------------------------------
(* The catalogs.                                                           *)

\* The filter and the name of the rules of the catalogs.
LEMMA TopRules ==
    /\ NonTestFilesRule.kids[1] = NonTestAll /\ NonTestFilesRule.name = "NonTestFiles"
    /\ NonTestFilesRuleWithReleasePipelines.kids[1] = PipelinesAll
    /\ NonTestFilesRuleWithReleasePipelines.name = "NonTestFilesWithReleasePipelines"
    /\ TestFilesOnlyRule.kids[1] = FilesAll /\ TestFilesOnlyRule.name = "TestFilesOnly"
    /\ InfraDeploymentsDefaultRule.kids[1] = DefaultNone
    /\ InfraDeploymentsDefaultRule.actions = <<"ExecuteInfraDeploymentsDefaultTestAction">>
    /\ InfraDeploymentsDefaultRule.name = "InfraDeploymentsDefault"
    /\ InfraDeploymentsComponentsRule.kids[1] = ComponentsAny
    /\ InfraDeploymentsComponentsRule.actions = <<"AddKonfluxLabel", "ExecuteTestAction">>
    /\ InfraDeploymentsComponentsRule.name = "InfraDeploymentsComponents"
    /\ E2ERepoCIRuleChain.kids[1] = E2EAll /\ E2ERepoCIRuleChain.actions = <<>>
    /\ E2ERepoCIRuleChain.name = "E2ERepoCI"
    /\ ReleaseServiceCatalogCIPairedRule.kids[1] = PairedAll
    /\ ReleaseServiceCatalogCIPairedRule.actions = <<"ExecuteReleaseCatalogPairedAction">>
    /\ ReleaseServiceCatalogCIPairedRule.name = "ReleaseServiceCatalogPaired"
    /\ ReleaseServiceCatalogCIRule.kids[1] = UnpairedAll
    /\ ReleaseServiceCatalogCIRule.actions = <<"ExecuteReleaseCatalogAction">>
    /\ ReleaseServiceCatalogCIRule.name = "ReleaseServiceCatalog"
    /\ \A repo \in Services : /\ ServiceRule(repo).kids[1] = ServiceAll(repo)
                              /\ ServiceRule(repo).actions = <<"ExecuteTestAction">>
                              /\ ServiceRule(repo).name = repo
<1>1. \A n, k, a : Rule(n, k, a).kids[1] = k /\ Rule(n, k, a).actions = a /\ Rule(n, k, a).name = n
  BY DEF Rule
<1> QED BY <1>1, TestRuleShapes, InfraRuleShapes, CIRuleShapes

\* The catalogs by name.
LEMMA CatalogsAre ==
    /\ CatalogOf("e2e-repo") =
         <<NonTestFilesRule, NonTestFilesRuleWithReleasePipelines, TestFilesOnlyRule>>
    /\ CatalogOf("infra-deployments") = <<InfraDeploymentsDefaultRule, InfraDeploymentsComponentsRule>>
    /\ CatalogOf("e2e-tests") = <<E2ERepoCIRuleChain>>
    /\ CatalogOf("release-service-catalog") =
         <<ReleaseServiceCatalogCIPairedRule, ReleaseServiceCatalogCIRule>>
    /\ \A repo \in Services : CatalogOf(repo) = <<ServiceRule(repo)>>
<1>1. CatalogOf("e2e-repo") =
         <<NonTestFilesRule, NonTestFilesRuleWithReleasePipelines, TestFilesOnlyRule>>
  BY Zenon DEF CatalogOf, E2ETestRulesCatalog
<1>2. CatalogOf("infra-deployments") = <<InfraDeploymentsDefaultRule, InfraDeploymentsComponentsRule>>
  BY Zenon DEF CatalogOf, InfraDeploymentsRulesCatalog
<1>3. /\ CatalogOf("e2e-tests") = <<E2ERepoCIRuleChain>>
      /\ CatalogOf("release-service-catalog") =
           <<ReleaseServiceCatalogCIPairedRule, ReleaseServiceCatalogCIRule>>
  BY Zenon DEF CatalogOf
<1>4. CatalogOf("release-service") = <<ServiceRule("release-service")>>
  BY BootOfIs, Zenon DEF CatalogOf, ServiceRule
<1>5. ASSUME NEW repo \in Services \ {"release-service"} PROVE CatalogOf(repo) = <<ServiceRule(repo)>>
  <2>1. repo \notin {"e2e-repo", "infra-deployments", "e2e-tests", "release-service", "release-service-catalog"}
    BY <1>5 DEF Services, AllRepos
  <2>2. CatalogOf(repo) = <<ServiceCIRule(repo, BootstrapClusterWithSprayProxyRuleChain)>>
    BY <2>1, Zenon DEF CatalogOf
  <2>3. BootOf(repo) = BootstrapClusterWithSprayProxyRuleChain
    BY <1>5, BootOfIs
  <2> QED BY <2>2, <2>3, Zenon DEF ServiceRule
<1> QED BY <1>1, <1>2, <1>3, <1>4, <1>5

\* Rest by cases.
LEMMA RestIs ==
    /\ Rest("e2e-repo") = {<<NonTestFilesRule, NonTestFilesRuleWithReleasePipelines, TestFilesOnlyRule>>,
                           <<NonTestFilesRuleWithReleasePipelines, TestFilesOnlyRule>>,
                           <<TestFilesOnlyRule>>}
    /\ Rest("infra-deployments") = {<<InfraDeploymentsDefaultRule, InfraDeploymentsComponentsRule>>,
                                    <<InfraDeploymentsComponentsRule>>}
    /\ Rest("e2e-tests") = {<<E2ERepoCIRuleChain>>}
    /\ Rest("release-service-catalog") =
         {<<ReleaseServiceCatalogCIPairedRule, ReleaseServiceCatalogCIRule>>, <<ReleaseServiceCatalogCIRule>>}
    /\ \A repo \in Services : Rest(repo) = {<<ServiceRule(repo)>>}
<1>1. Rest("e2e-repo") = {<<NonTestFilesRule, NonTestFilesRuleWithReleasePipelines, TestFilesOnlyRule>>,
                           <<NonTestFilesRuleWithReleasePipelines, TestFilesOnlyRule>>,
                           <<TestFilesOnlyRule>>}
  BY Zenon DEF Rest, E2ETestRulesCatalog
<1>2. Rest("infra-deployments") = {<<InfraDeploymentsDefaultRule, InfraDeploymentsComponentsRule>>,
                                    <<InfraDeploymentsComponentsRule>>}
  BY Zenon DEF Rest, InfraDeploymentsRulesCatalog
<1>3. Rest("e2e-tests") = {<<E2ERepoCIRuleChain>>}
  BY CatalogsAre, Zenon DEF Rest
<1>4. Rest("release-service-catalog") =
         {<<ReleaseServiceCatalogCIPairedRule, ReleaseServiceCatalogCIRule>>, <<ReleaseServiceCatalogCIRule>>}
  BY CatalogsAre, Zenon DEF Rest
<1>5. ASSUME NEW repo \in Services PROVE Rest(repo) = {<<ServiceRule(repo)>>}
  <2>1. repo \notin {"e2e-repo", "infra-deployments", "release-service-catalog"}
    BY DEF Services, AllRepos
  <2>2. Rest(repo) = {CatalogOf(repo)}
    BY <2>1, Zenon DEF Rest
  <2> QED BY <2>2, CatalogsAre
<1> QED BY <1>1, <1>2, <1>3, <1>4, <1>5

\* The repository whose workflow a rule of that name is.
RepoOf(name) ==
    IF name = "E2ERepoCI" THEN "e2e-tests"
    ELSE IF name \in {"ReleaseServiceCatalogPaired", "ReleaseServiceCatalog"} THEN "release-service-catalog"
    ELSE name

\* The rules of a workflow belong to its repository.
LEMMA RestRepo ==
    ASSUME NEW c \in AllRepos, NEW l \in Rest(c)
    PROVE  RepoOf(l[1].name) = c /\ l # <<>> /\ l[1] = Head(l)
<1>1. CASE c = "e2e-tests"
  <2>1. l = <<E2ERepoCIRuleChain>>
    BY <1>1, RestIs
  <2> QED BY <1>1, <2>1, TopRules DEF RepoOf
<1>2. CASE c = "release-service-catalog"
  <2>1. l = <<ReleaseServiceCatalogCIPairedRule, ReleaseServiceCatalogCIRule>>
          \/ l = <<ReleaseServiceCatalogCIRule>>
    BY <1>2, RestIs
  <2> QED BY <1>2, <2>1, TopRules DEF RepoOf
<1>3. CASE c \in Services
  <2>1. l = <<ServiceRule(c)>> /\ ServiceRule(c).name = c
    BY <1>3, RestIs, TopRules
  <2>2. c \notin {"E2ERepoCI", "ReleaseServiceCatalogPaired", "ReleaseServiceCatalog"}
    BY DEF AllRepos
  <2> QED BY <2>1, <2>2 DEF RepoOf
<1> QED BY <1>1, <1>2, <1>3 DEF Services

\* A catalog that was just loaded.
LEMMA CatalogInRest ==
    ASSUME NEW c \in AllRepos \cup {"e2e-repo", "infra-deployments"}
    PROVE  CatalogOf(c) \in Rest(c) /\ CatalogOf(c) # <<>>
<1>1. c \in Services \/ c \in {"e2e-tests", "release-service-catalog", "e2e-repo", "infra-deployments"}
  BY DEF Services
<1>2. CASE c \in Services
  BY <1>2, CatalogsAre, RestIs
<1>3. CASE c \in {"e2e-tests", "release-service-catalog", "e2e-repo", "infra-deployments"}
  BY <1>3, CatalogsAre, RestIs
<1> QED BY <1>1, <1>2, <1>3

\* Two workflows share no rule.
LEMMA RestApart ==
    ASSUME NEW c \in AllRepos, NEW d \in AllRepos, c # d, NEW l \in Rest(c)
    PROVE  l \notin Rest(d) /\ l # CatalogOf(d)
  BY RestRepo, CatalogInRest

\* Head and Tail of short sequences.
LEMMA Tails ==
    /\ \A a : Head(<<a>>) = a /\ Tail(<<a>>) = <<>> /\ <<a>> # <<>> /\ Len(<<a>>) = 1
    /\ \A a, b : Head(<<a, b>>) = a /\ Tail(<<a, b>>) = <<b>> /\ <<a, b>> # <<>> /\ Len(<<a, b>>) = 2
    /\ \A a, b, c : /\ Head(<<a, b, c>>) = a /\ Tail(<<a, b, c>>) = <<b, c>> /\ <<a, b, c>> # <<>>
                    /\ Len(<<a, b, c>>) = 3
<1>1. ASSUME NEW a
      PROVE  Head(<<a>>) = a /\ Tail(<<a>>) = <<>> /\ <<a>> # <<>> /\ Len(<<a>>) = 1
  OBVIOUS
<1>2. ASSUME NEW a, NEW b
      PROVE  Head(<<a, b>>) = a /\ Tail(<<a, b>>) = <<b>> /\ <<a, b>> # <<>> /\ Len(<<a, b>>) = 2
  OBVIOUS
<1>3. ASSUME NEW a, NEW b, NEW c
      PROVE  /\ Head(<<a, b, c>>) = a /\ Tail(<<a, b, c>>) = <<b, c>> /\ <<a, b, c>> # <<>>
             /\ Len(<<a, b, c>>) = 3
  OBVIOUS
<1> QED BY <1>1, <1>2, <1>3

\* The filter of a loaded rule is a node, and the rest is again one of Rest.
LEMMA RestHead ==
    ASSUME NEW c \in AllRepos \cup {"e2e-repo", "infra-deployments"}, NEW l \in Rest(c)
    PROVE  /\ l # <<>> /\ Head(l).kids[1] \in Nodes
           /\ Tail(l) = <<>> \/ Tail(l) \in Rest(c)
<1>1. c \in Services \/ c \in {"e2e-tests", "release-service-catalog", "e2e-repo", "infra-deployments"}
  BY DEF Services
<1>n. /\ {NonTestAll, PipelinesAll, FilesAll, E2EAll, PairedAll, UnpairedAll, DefaultNone, ComponentsAny} \subseteq Nodes
      /\ \A repo \in Services : ServiceAll(repo) \in Nodes
  BY DEF Nodes, Alls, Nones, Anys
<1>2. CASE c \in Services
  <2>1. l = <<ServiceRule(c)>>
    BY <1>2, RestIs
  <2> QED BY <1>2, <1>n, <2>1, TopRules
<1>3. CASE c = "e2e-tests"
  <2>1. l = <<E2ERepoCIRuleChain>>
    BY <1>3, RestIs
  <2> QED BY <1>n, <2>1, TopRules
<1>4. CASE c = "release-service-catalog"
  <2>1. l = <<ReleaseServiceCatalogCIPairedRule, ReleaseServiceCatalogCIRule>>
          \/ l = <<ReleaseServiceCatalogCIRule>>
    BY <1>4, RestIs
  <2>2. CASE l = <<ReleaseServiceCatalogCIPairedRule, ReleaseServiceCatalogCIRule>>
    <3>1. Head(l) = ReleaseServiceCatalogCIPairedRule /\ Tail(l) = <<ReleaseServiceCatalogCIRule>> /\ l # <<>>
      BY <2>2, Tails
    <3>2. Head(l).kids[1] \in Nodes
      BY <1>n, <3>1, TopRules
    <3>3. <<ReleaseServiceCatalogCIRule>> \in Rest(c)
      BY <1>4, RestIs
    <3> QED BY <3>1, <3>2, <3>3
  <2>3. CASE l = <<ReleaseServiceCatalogCIRule>>
    <3>1. Head(l) = ReleaseServiceCatalogCIRule /\ Tail(l) = <<>> /\ l # <<>>
      BY <2>3, Tails
    <3>2. Head(l).kids[1] \in Nodes
      BY <1>n, <3>1, TopRules
    <3> QED BY <3>1, <3>2
  <2> QED BY <2>1, <2>2, <2>3
<1>5. CASE c = "e2e-repo"
  <2>1. \/ l = <<NonTestFilesRule, NonTestFilesRuleWithReleasePipelines, TestFilesOnlyRule>>
        \/ l = <<NonTestFilesRuleWithReleasePipelines, TestFilesOnlyRule>>
        \/ l = <<TestFilesOnlyRule>>
    BY <1>5, RestIs
  <2>2. CASE l = <<NonTestFilesRule, NonTestFilesRuleWithReleasePipelines, TestFilesOnlyRule>>
    <3>1. Head(l) = NonTestFilesRule /\ Tail(l) = <<NonTestFilesRuleWithReleasePipelines, TestFilesOnlyRule>> /\ l # <<>>
      BY <2>2, Tails
    <3>2. Head(l).kids[1] \in Nodes
      BY <1>n, <3>1, TopRules
    <3>3. <<NonTestFilesRuleWithReleasePipelines, TestFilesOnlyRule>> \in Rest(c)
      BY <1>5, RestIs
    <3> QED BY <3>1, <3>2, <3>3
  <2>3. CASE l = <<NonTestFilesRuleWithReleasePipelines, TestFilesOnlyRule>>
    <3>1. Head(l) = NonTestFilesRuleWithReleasePipelines /\ Tail(l) = <<TestFilesOnlyRule>> /\ l # <<>>
      BY <2>3, Tails
    <3>2. Head(l).kids[1] \in Nodes
      BY <1>n, <3>1, TopRules
    <3>3. <<TestFilesOnlyRule>> \in Rest(c)
      BY <1>5, RestIs
    <3> QED BY <3>1, <3>2, <3>3
  <2>4. CASE l = <<TestFilesOnlyRule>>
    <3>1. Head(l) = TestFilesOnlyRule /\ Tail(l) = <<>> /\ l # <<>>
      BY <2>4, Tails
    <3>2. Head(l).kids[1] \in Nodes
      BY <1>n, <3>1, TopRules
    <3> QED BY <3>1, <3>2
  <2> QED BY <2>1, <2>2, <2>3, <2>4
<1>6. CASE c = "infra-deployments"
  <2>1. \/ l = <<InfraDeploymentsDefaultRule, InfraDeploymentsComponentsRule>>
        \/ l = <<InfraDeploymentsComponentsRule>>
    BY <1>6, RestIs
  <2>2. CASE l = <<InfraDeploymentsDefaultRule, InfraDeploymentsComponentsRule>>
    <3>1. Head(l) = InfraDeploymentsDefaultRule /\ Tail(l) = <<InfraDeploymentsComponentsRule>> /\ l # <<>>
      BY <2>2, Tails
    <3>2. Head(l).kids[1] \in Nodes
      BY <1>n, <3>1, TopRules
    <3>3. <<InfraDeploymentsComponentsRule>> \in Rest(c)
      BY <1>6, RestIs
    <3> QED BY <3>1, <3>2, <3>3
  <2>3. CASE l = <<InfraDeploymentsComponentsRule>>
    <3>1. Head(l) = InfraDeploymentsComponentsRule /\ Tail(l) = <<>> /\ l # <<>>
      BY <2>3, Tails
    <3>2. Head(l).kids[1] \in Nodes
      BY <1>n, <3>1, TopRules
    <3> QED BY <3>1, <3>2
  <2> QED BY <2>1, <2>2, <2>3
<1> QED BY <1>1, <1>2, <1>3, <1>4, <1>5, <1>6

\* What the inductive invariant says between two rules.
LEMMA LoadFacts ==
    ASSUME IInv, pc = "load"
    PROVE  /\ stack = <<>> /\ result # "nil" /\ ctx \in RuleCtxs /\ CtxInv(ctx) /\ MatchInv /\ act = 1
           /\ catalogs \subseteq CatalogNames(ctx)
           /\ CatalogNames(ctx) \subseteq AllRepos \cup {"e2e-repo", "infra-deployments"}
           /\ OwnName(ctx) \in CatalogNames(ctx)
           /\ loaded # <<>> => \E c \in CatalogNames(ctx) \ catalogs : loaded \in Rest(c)
<1>1. stack = <<>>
  BY DEF IInv, StackInv
<1>2. result # "nil"
  BY DEF IInv, NilInv
<1>3. /\ ctx \in RuleCtxs /\ CtxInv(ctx) /\ MatchInv /\ act = 1 /\ catalogs \subseteq CatalogNames(ctx)
      /\ loaded # <<>> => \E c \in CatalogNames(ctx) \ catalogs : loaded \in Rest(c)
  BY DEF IInv, TypeOK, LoadInv
<1>4. /\ OwnName(ctx) \in AllRepos \cup {"e2e-repo", "infra-deployments"}
      /\ ctx.catalog = "ci" => OwnName(ctx) \in AllRepos
      /\ ctx.catalog # "ci" => OwnName(ctx) = ctx.catalog
  BY <1>3, OwnIs
<1> QED BY <1>1, <1>2, <1>3, <1>4 DEF CatalogNames

\* The step LoadCatalog of the engine keeps the inductive invariant.
LEMMA LoadCatalogStep ==
    ASSUME IInv, Engine!LoadCatalog
    PROVE  IInv'
<1> DEFINE own == OwnName(ctx)
<1>1. /\ pc = "load" /\ loaded = <<>>
      /\ UNCHANGED <<ctx, pc, stack, ret, matched, act, result>>
  BY DEF Engine!LoadCatalog
<1>2. PICK c \in catalogs : loaded' = CatalogOf(c) /\ catalogs' = catalogs \ {c}
  BY DEF Engine!LoadCatalog
<1>3. /\ stack = <<>> /\ MatchInv /\ catalogs \subseteq CatalogNames(ctx) /\ ctx \in RuleCtxs /\ CtxInv(ctx)
      /\ CatalogNames(ctx) \subseteq AllRepos \cup {"e2e-repo", "infra-deployments"}
      /\ own \in CatalogNames(ctx) /\ act = 1
  BY <1>1, LoadFacts
<1>4. c \in CatalogNames(ctx) /\ c \in AllRepos \cup {"e2e-repo", "infra-deployments"}
  BY <1>2, <1>3
<1>5. loaded' \in Rest(c) /\ loaded' # <<>>
  BY <1>2, <1>4, CatalogInRest
<1>6. TypeOK'
  BY <1>1, <1>2 DEF IInv, TypeOK
<1>7. StackInv'
  BY <1>1, <1>3 DEF IInv, StackInv
<1>8. MatchInv'
  <2>1. OwnName(ctx') = own
    BY <1>1
  <2>2. CASE c = own
    <3>1. matched = <<>>
      BY <1>2, <1>3, <2>2 DEF MatchInv, Matching
    <3>2. loaded' = CatalogOf(own)
      BY <1>2, <2>2
    <3> HIDE DEF own
    <3> QED BY <1>1, <2>1, <3>1, <3>2 DEF MatchInv, Matching
  <2>3. CASE c # own
    <3>1. c \in AllRepos /\ own \in AllRepos
      BY <1>3, <1>4, <2>3 DEF CatalogNames
    <3>2. loaded' # CatalogOf(own) /\ (own = "release-service-catalog" => loaded' # <<ReleaseServiceCatalogCIRule>>)
      <4>1. loaded' \notin Rest(own) /\ loaded' # CatalogOf(own)
        BY <1>5, <2>3, <3>1, RestApart
      <4> QED BY <4>1, RestIs
    <3>3. loaded # CatalogOf(own) /\ loaded # <<ReleaseServiceCatalogCIRule>>
      BY <1>1, <3>1, CatalogInRest
    <3>4. own \in catalogs' <=> own \in catalogs
      BY <1>2, <2>3
    <3>5. own \notin {"e2e-repo", "infra-deployments"}
      BY <3>1 DEF AllRepos
    <3>6. own = "release-service-catalog" =>
            (CatalogMatching(ctx, loaded', matched) <=> CatalogMatching(ctx, loaded, matched))
      BY <3>2, <3>3 DEF CatalogMatching
    <3> HIDE DEF own
    <3>7. Matching(ctx, catalogs, loaded, matched)
      BY <1>3 DEF MatchInv
    <3>8. Matching(ctx, catalogs', loaded', matched)
      BY <3>2, <3>3, <3>4, <3>5, <3>6, <3>7 DEF Matching, own
    <3> QED BY <1>1, <3>8 DEF MatchInv
  <2> QED BY <2>2, <2>3
<1>9. LoadInv'
  <2>1. CatalogNames(ctx') = CatalogNames(ctx) /\ catalogs' \subseteq CatalogNames(ctx)
    BY <1>1, <1>2, <1>3
  <2>2. \E d \in CatalogNames(ctx') \ catalogs' : loaded' \in Rest(d)
    BY <1>2, <1>4, <1>5, <2>1
  <2> QED BY <1>1, <1>3, <1>8, <2>1, <2>2 DEF IInv, LoadInv
<1>10. ApplyInv' /\ CtxInv(ctx)' /\ NilInv'
  BY <1>1 DEF IInv, ApplyInv, CtxInv, NilInv
<1> QED BY <1>6, <1>7, <1>8, <1>9, <1>10 DEF IInv

\* In the catalog e2e-repo no rule is applied while the catalog is evaluated.
LEMMA PreviewStage ==
    ASSUME NEW x, x.catalog = "e2e-repo"
    PROVE  \A i, j : Stage(i, x) <=> Stage(j, x)
  BY DEF Stage

\* What the condition of a rule finds.
LEMMA RulePre ==
    ASSUME NEW x \in RuleCtxs, NEW c \in CatalogNames(x), NEW l \in Rest(c), CtxInv(x),
           x.catalog = "ci" => Workflow(x),
           x.catalog = "e2e-repo" => Stage(0, x),
           x.catalog = "infra-deployments" => Infra(x)
    PROVE  Pre(Head(l).kids[1], x)
<1>0. x.catalog \in {"ci", "e2e-repo", "infra-deployments"}
  BY Zenon DEF RuleCtxs
<1>1. CASE x.catalog = "e2e-repo"
  <2>1. c = "e2e-repo" /\ Stage(0, x) /\ Stage(1, x) /\ Stage(2, x)
    BY <1>1, PreviewStage DEF CatalogNames
  <2>2. \/ l = <<NonTestFilesRule, NonTestFilesRuleWithReleasePipelines, TestFilesOnlyRule>>
        \/ l = <<NonTestFilesRuleWithReleasePipelines, TestFilesOnlyRule>>
        \/ l = <<TestFilesOnlyRule>>
    BY <2>1, RestIs
  <2>3. Head(l) \in {NonTestFilesRule, NonTestFilesRuleWithReleasePipelines, TestFilesOnlyRule}
    BY <2>2, Tails
  <2>4. Head(l).kids[1] \in {NonTestAll, PipelinesAll, FilesAll}
    BY <2>3, TopRules
  <2> QED BY <2>1, <2>4, NonTestAllIs, PipelinesAllIs, FilesAllIs
<1>2. CASE x.catalog = "infra-deployments"
  <2>1. c = "infra-deployments" /\ Infra(x)
    BY <1>2 DEF CatalogNames
  <2>2. \/ l = <<InfraDeploymentsDefaultRule, InfraDeploymentsComponentsRule>>
        \/ l = <<InfraDeploymentsComponentsRule>>
    BY <2>1, RestIs
  <2>3. Head(l) \in {InfraDeploymentsDefaultRule, InfraDeploymentsComponentsRule}
    BY <2>2, Tails
  <2>4. Head(l).kids[1] \in {DefaultNone, ComponentsAny}
    BY <2>3, TopRules
  <2> QED BY <2>1, <2>4, DefaultNoneIs, ComponentsAnyIs
<1>3. CASE x.catalog = "ci"
  <2>1. c \in AllRepos /\ Workflow(x)
    BY <1>3 DEF CatalogNames
  <2>2. CASE c \in Services
    <3>1. l = <<ServiceRule(c)>>
      BY <2>2, RestIs
    <3>2. Head(l).kids[1] = ServiceAll(c)
      BY <2>2, <3>1, Tails, TopRules
    <3> QED BY <2>1, <2>2, <3>2, ServiceAllIs
  <2>3. CASE c = "e2e-tests"
    <3>1. l = <<E2ERepoCIRuleChain>>
      BY <2>3, RestIs
    <3>2. Head(l).kids[1] = E2EAll
      BY <3>1, Tails, TopRules
    <3> QED BY <2>1, <3>2, E2EAllIs
  <2>4. CASE c = "release-service-catalog"
    <3>1. l = <<ReleaseServiceCatalogCIPairedRule, ReleaseServiceCatalogCIRule>>
            \/ l = <<ReleaseServiceCatalogCIRule>>
      BY <2>4, RestIs
    <3>2. Head(l) \in {ReleaseServiceCatalogCIPairedRule, ReleaseServiceCatalogCIRule}
      BY <3>1, Tails
    <3>3. Head(l).kids[1] \in {PairedAll, UnpairedAll}
      BY <3>2, TopRules
    <3> QED BY <2>1, <3>3, PairedAllIs, UnpairedAllIs
  <2> QED BY <2>1, <2>2, <2>3, <2>4 DEF Services
<1> QED BY <1>0, <1>1, <1>2, <1>3

\* The step EvalRule of the engine keeps the inductive invariant.
LEMMA EvalRuleStep ==
    ASSUME IInv, Engine!EvalRule
    PROVE  IInv'
<1> DEFINE m == Head(loaded).kids[1]
           f == Engine!Frame(m)
<1>1. /\ pc = "load" /\ loaded # <<>> /\ pc' = "eval" /\ stack' = <<f>> /\ ret' = "none"
      /\ UNCHANGED <<ctx, catalogs, loaded, matched, act, result>>
  BY DEF Engine!EvalRule
<1>2. PICK c \in CatalogNames(ctx) \ catalogs : loaded \in Rest(c)
  BY <1>1, LoadFacts
<1>3. /\ MatchInv /\ catalogs \subseteq CatalogNames(ctx) /\ ctx \in RuleCtxs /\ CtxInv(ctx)
      /\ CatalogNames(ctx) \subseteq AllRepos \cup {"e2e-repo", "infra-deployments"} /\ act = 1 /\ result # "nil"
  BY <1>1, LoadFacts
<1>4. m \in Nodes
  BY <1>2, <1>3, RestHead
<1>5. Pre(m, ctx)
  <2>1. /\ ctx.catalog = "ci" => Workflow(ctx)
        /\ ctx.catalog = "e2e-repo" => Stage(0, ctx)
        /\ ctx.catalog = "infra-deployments" => Infra(ctx)
    BY <1>1 DEF IInv, LoadInv
  <2> QED BY <1>2, <1>3, <2>1, RulePre
<1> HIDE DEF m
<1>6. f \in Frames /\ FrameOK(f) /\ f.node = m /\ f.i = 1 /\ f.isAny = FALSE
  BY <1>4, FrameIs
<1> HIDE DEF f
<1>7. stack' \in Seq(Frames) /\ Len(stack') = 1 /\ stack'[1] = f /\ stack' # <<>>
  BY <1>1, <1>6
<1>8. \A k \in 1..Len(stack') : FrameOK(stack'[k])
  BY <1>6, <1>7
<1>9. StackInv'
  <2>1. Pre(stack'[1].node, ctx') /\ stack'[1].i = 1
    BY <1>1, <1>5, <1>6, <1>7
  <2>2. ~stack'[1].isAny
    BY <1>6, <1>7, Zenon
  <2>3. ~(stack'[1].i > 1) /\ ~(stack'[1].i > 2)
    BY <2>1, FirstCall, Zenon
  <2>4. TopInv(stack[1])'
    BY <1>1, <2>1, <2>2, <2>3, Zenon DEF TopInv
  <2>5. stack'[Len(stack')].node = Head(loaded').kids[1]
    BY <1>1, <1>6, <1>7 DEF m
  <2>6. \A k \in 2..Len(stack') : FALSE
    BY <1>7
  <2> QED BY <1>1, <1>7, <1>8, <2>4, <2>5, <2>6 DEF StackInv
<1>10. TypeOK'
  <2>1. \A k \in 1..Len(stack') :
          stack'[k].i \in 1..(1 + Len(stack'[k].node.kids) + Len(stack'[k].node.actions))
    BY <1>7, <1>8, FramesType
  <2> QED BY <1>1, <2>1 DEF IInv, TypeOK
<1>11. LoadInv'
  <2>1. MatchInv'
    BY <1>1, <1>3 DEF MatchInv
  <2> QED BY <1>1, <1>2, <1>3, <2>1 DEF LoadInv
<1>12. ApplyInv' /\ CtxInv(ctx)' /\ NilInv'
  BY <1>1, <1>3 DEF ApplyInv, CtxInv, NilInv
<1> QED BY <1>9, <1>10, <1>11, <1>12 DEF IInv

\* E2EMatched by cases.
LEMMA E2EMatchedIs ==
    ASSUME NEW x
    PROVE  /\ H1(x) => \A j \in {1, 2, 3} : E2EMatched(j, x) = <<NonTestFilesRule>>
           /\ ~H1(x) => E2EMatched(1, x) = <<>>
           /\ ~H1(x) /\ H2(x) => \A j \in {2, 3} : E2EMatched(j, x) = <<NonTestFilesRuleWithReleasePipelines>>
           /\ ~H1(x) /\ ~H2(x) => E2EMatched(2, x) = <<>>
           /\ ~H1(x) /\ ~H2(x) /\ H3(x) => E2EMatched(3, x) = <<TestFilesOnlyRule>>
           /\ ~H1(x) /\ ~H2(x) /\ ~H3(x) => E2EMatched(3, x) = <<>>
<1>1. /\ 1 >= 1 /\ 2 >= 1 /\ 3 >= 1 /\ ~(1 >= 2) /\ 2 >= 2 /\ 3 >= 2 /\ ~(1 >= 3) /\ ~(2 >= 3) /\ 3 >= 3
  OBVIOUS
<1> QED BY <1>1 DEF E2EMatched

\* InfraMatched by cases.
LEMMA InfraMatchedIs ==
    ASSUME NEW x
    PROVE  /\ ~Component(x) /\ ~Empty(x) =>
                \A j \in {1, 2} : InfraMatched(j, x) = <<InfraDeploymentsDefaultRule>>
           /\ ~(~Component(x) /\ ~Empty(x)) => InfraMatched(1, x) = <<>>
           /\ Component(x) => InfraMatched(2, x) = <<InfraDeploymentsComponentsRule>>
           /\ ~Component(x) /\ Empty(x) => InfraMatched(2, x) = <<>>
<1>1. 1 >= 1 /\ 2 >= 1 /\ ~(1 >= 2) /\ 2 >= 2
  OBVIOUS
<1> QED BY <1>1 DEF InfraMatched

\* Append to short sequences.
LEMMA Appends ==
    /\ \A a : Append(<<>>, a) = <<a>>
    /\ \A a, b : Append(<<a>>, b) = <<a, b>>
<1>1. ASSUME NEW a PROVE Append(<<>>, a) = <<a>>
  OBVIOUS
<1>2. ASSUME NEW a, NEW b PROVE Append(<<a>>, b) = <<a, b>>
  <2> DEFINE s == Append(<<a>>, b)
             t == <<a, b>>
  <2>1. <<a>> \in Seq({a, b}) /\ Len(<<a>>) = 1 /\ <<a>>[1] = a
    OBVIOUS
  <2>2. s \in Seq({a, b}) /\ Len(s) = 2 /\ s[1] = a /\ s[2] = b
    BY <2>1
  <2>3. t \in Seq({a, b}) /\ Len(t) = 2 /\ t[1] = a /\ t[2] = b
    OBVIOUS
  <2> HIDE DEF s, t
  <2>4. \A k \in 1..Len(s) : s[k] = t[k]
    BY <2>2, <2>3
  <2>5. s = t
    BY <2>2, <2>3, <2>4, SeqEqual
  <2> QED BY <2>5 DEF s, t
<1> QED BY <1>1, <1>2

\* What is known of the RuleCtx between two rules of a catalog.
Between(x) ==
    /\ x.catalog = "ci" => Workflow(x)
    /\ x.catalog = "e2e-repo" => Stage(0, x)
    /\ x.catalog = "infra-deployments" => Infra(x)

\* What the inductive invariant says when the filter of a rule returned.
LEMMA EvaluatedIs ==
    ASSUME IInv, Engine!Evaluated
    PROVE  /\ pc = "eval" /\ stack = <<>> /\ ret \in {"true", "false"} /\ loaded' = Tail(loaded)
           /\ Post(Head(loaded).kids[1], ret, ctx)
           /\ UNCHANGED <<ctx, catalogs, stack, ret, act>>
           /\ ctx \in RuleCtxs /\ CtxInv(ctx) /\ MatchInv /\ result # "nil"
           /\ \E c \in CatalogNames(ctx) \ catalogs : loaded \in Rest(c)
           /\ Head(loaded).actions # <<>> =>
                /\ matched' = IF ret = "true" THEN Append(matched, Head(loaded)) ELSE matched
                /\ pc' = "load" /\ result' = result
           /\ Head(loaded).actions = <<>> =>
                /\ matched' = matched
                /\ ret = "true" => pc' = "done" /\ result' = "nil"
                /\ ret # "true" => pc' = "load" /\ result' = result
<1>1. pc = "eval" /\ stack = <<>> /\ loaded' = Tail(loaded) /\ UNCHANGED <<ctx, catalogs, stack, ret, act>>
  BY DEF Engine!Evaluated
<1>2. ret \in {"true", "false"} /\ Post(Head(loaded).kids[1], ret, ctx)
  BY <1>1 DEF IInv, StackInv
<1>3. /\ ctx \in RuleCtxs /\ CtxInv(ctx) /\ MatchInv /\ result # "nil"
      /\ \E c \in CatalogNames(ctx) \ catalogs : loaded \in Rest(c)
  BY <1>1 DEF IInv, TypeOK, NilInv, LoadInv
<1> QED BY <1>1, <1>2, <1>3 DEF Engine!Evaluated, Engine!Finish

\* The rules of the catalog go on.
LEMMA LoadAgain ==
    ASSUME IInv, Engine!Evaluated, pc' = "load", result' = result, MatchInv', Between(ctx)
    PROVE  IInv'
<1>1. /\ pc = "eval" /\ stack = <<>> /\ loaded' = Tail(loaded) /\ UNCHANGED <<ctx, catalogs, stack, ret, act>>
      /\ result # "nil"
  BY EvaluatedIs
<1>2. PICK c \in CatalogNames(ctx) \ catalogs : loaded \in Rest(c)
  BY EvaluatedIs
<1>3. c \in AllRepos \cup {"e2e-repo", "infra-deployments"}
  <2>1. ctx.catalog \in {"ci", "e2e-repo", "infra-deployments"}
    BY EvaluatedIs, Zenon DEF RuleCtxs
  <2> QED BY <1>2, <2>1 DEF CatalogNames
<1>4. loaded' = <<>> \/ loaded' \in Rest(c)
  BY <1>1, <1>2, <1>3, RestHead
<1>5. TypeOK'
  BY <1>1 DEF IInv, TypeOK
<1>6. StackInv'
  BY <1>1 DEF IInv, StackInv
<1>7. LoadInv'
  <2>1. catalogs \subseteq CatalogNames(ctx) /\ act = 1
    BY <1>1 DEF IInv, LoadInv
  <2> QED BY <1>1, <1>2, <1>4, <2>1 DEF LoadInv, Between
<1>8. ApplyInv' /\ CtxInv(ctx)' /\ NilInv'
  BY <1>1 DEF IInv, ApplyInv, CtxInv, NilInv
<1> QED BY <1>5, <1>6, <1>7, <1>8 DEF IInv

\* Matching for the catalog e2e-repo.
LEMMA PreviewMatchingIs ==
    ASSUME NEW x, OwnName(x) = "e2e-repo", NEW cs, "e2e-repo" \notin cs, NEW l, NEW m
    PROVE  Matching(x, cs, l, m) <=> IF l = CatalogOf("e2e-repo") THEN m = <<>> ELSE PreviewMatching(x, l, m)
<1>1. "e2e-repo" \notin Services \cup {"infra-deployments", "e2e-tests", "release-service-catalog"}
  BY DEF Services, AllRepos
<1> QED BY <1>1 DEF Matching

\* Matching for the catalog infra-deployments.
LEMMA InfraMatchingIs ==
    ASSUME NEW x, OwnName(x) = "infra-deployments", NEW cs, "infra-deployments" \notin cs, NEW l, NEW m
    PROVE  Matching(x, cs, l, m) <=>
             IF l = CatalogOf("infra-deployments") THEN m = <<>> ELSE InfraMatching(x, l, m)
<1>1. "infra-deployments" \notin Services \cup {"e2e-repo", "e2e-tests", "release-service-catalog"}
  BY DEF Services, AllRepos
<1> QED BY <1>1 DEF Matching

\* Evaluated keeps the invariant in the preview.
LEMMA PreviewEvaluated ==
    ASSUME IInv, Engine!Evaluated, ctx.catalog = "e2e-repo"
    PROVE  IInv'
<1>1. /\ ret \in {"true", "false"} /\ loaded' = Tail(loaded) /\ UNCHANGED <<ctx, catalogs>>
      /\ Post(Head(loaded).kids[1], ret, ctx) /\ MatchInv
      /\ "e2e-repo" \notin catalogs /\ loaded \in Rest("e2e-repo")
  BY EvaluatedIs DEF CatalogNames
<1>2. OwnName(ctx) = "e2e-repo" /\ OwnName(ctx') = "e2e-repo" /\ "e2e-repo" \notin Services
  BY <1>1 DEF OwnName, Services, AllRepos
<1>3. \/ loaded = <<NonTestFilesRule, NonTestFilesRuleWithReleasePipelines, TestFilesOnlyRule>>
      \/ loaded = <<NonTestFilesRuleWithReleasePipelines, TestFilesOnlyRule>>
      \/ loaded = <<TestFilesOnlyRule>>
  BY <1>1, RestIs
<1>4. Len(CatalogOf("e2e-repo")) = 3
  BY CatalogsAre, Tails
<1>5. CASE loaded = <<NonTestFilesRule, NonTestFilesRuleWithReleasePipelines, TestFilesOnlyRule>>
  <2>1. /\ Head(loaded) = NonTestFilesRule /\ Len(loaded') = 2 /\ loaded' # <<>>
        /\ NonTestFilesRule.actions # <<>>
    BY <1>1, <1>5, Tails, RuleKids
  <2>2. Stage(0, ctx) /\ (ret = "true" <=> H1(ctx))
    BY <1>1, <2>1, TopRules, NonTestAllIs
  <2>3. matched = <<>>
    BY <1>1, <1>2, <1>5, CatalogsAre, PreviewMatchingIs DEF MatchInv
  <2>4. matched' = E2EMatched(1, ctx') /\ pc' = "load" /\ result' = result
    BY <1>1, <2>1, <2>2, <2>3, EvaluatedIs, E2EMatchedIs, Appends
  <2>5. MatchInv'
    <3>1. PreviewMatching(ctx', loaded', matched')
      BY <1>1, <2>1, <2>4 DEF PreviewMatching
    <3>2. loaded' # CatalogOf("e2e-repo")
      BY <1>4, <2>1
    <3>3. Matching(ctx', catalogs', loaded', matched')
      BY <1>1, <1>2, <3>1, <3>2, PreviewMatchingIs
    <3> QED BY <3>3 DEF MatchInv
  <2> QED BY <2>2, <2>4, <2>5, LoadAgain DEF Between
<1>6. CASE loaded = <<NonTestFilesRuleWithReleasePipelines, TestFilesOnlyRule>>
  <2>1. /\ Head(loaded) = NonTestFilesRuleWithReleasePipelines /\ Len(loaded') = 1 /\ loaded' # <<>>
        /\ Len(loaded) = 2 /\ NonTestFilesRuleWithReleasePipelines.actions # <<>>
    BY <1>1, <1>6, Tails, RuleKids
  <2>2. Stage(0, ctx) /\ (ret = "true" <=> H2(ctx))
    BY <1>1, <2>1, TopRules, PipelinesAllIs, PreviewStage
  <2>3. matched = E2EMatched(1, ctx)
    <3>1. loaded # CatalogOf("e2e-repo")
      BY <1>4, <2>1
    <3>2. PreviewMatching(ctx, loaded, matched)
      BY <1>1, <1>2, <3>1, PreviewMatchingIs DEF MatchInv
    <3> QED BY <2>1, <3>2 DEF PreviewMatching
  <2>4. matched' = E2EMatched(2, ctx') /\ pc' = "load" /\ result' = result
    <3>1. ~(H1(ctx) /\ H2(ctx))
      BY DEF H1, H2
    <3> QED BY <1>1, <2>1, <2>2, <2>3, <3>1, EvaluatedIs, E2EMatchedIs, Appends
  <2>5. MatchInv'
    <3>1. PreviewMatching(ctx', loaded', matched')
      BY <1>1, <2>1, <2>4 DEF PreviewMatching
    <3>2. loaded' # CatalogOf("e2e-repo")
      BY <1>4, <2>1
    <3>3. Matching(ctx', catalogs', loaded', matched')
      BY <1>1, <1>2, <3>1, <3>2, PreviewMatchingIs
    <3> QED BY <3>3 DEF MatchInv
  <2> QED BY <2>2, <2>4, <2>5, LoadAgain DEF Between
<1>7. CASE loaded = <<TestFilesOnlyRule>>
  <2>1. /\ Head(loaded) = TestFilesOnlyRule /\ loaded' = <<>> /\ Len(loaded') = 0
        /\ Len(loaded) = 1 /\ TestFilesOnlyRule.actions # <<>>
    BY <1>1, <1>7, Tails, RuleKids
  <2>2. Stage(0, ctx) /\ (ret = "true" <=> H3(ctx)) /\ (H3(ctx) => SpecsFocused(ctx))
    BY <1>1, <2>1, TopRules, FilesAllIs, PreviewStage
  <2>3. matched = E2EMatched(2, ctx)
    <3>1. loaded # CatalogOf("e2e-repo")
      BY <1>4, <2>1
    <3>2. PreviewMatching(ctx, loaded, matched)
      BY <1>1, <1>2, <3>1, PreviewMatchingIs DEF MatchInv
    <3> QED BY <2>1, <3>2 DEF PreviewMatching
  <2>4. matched' = E2EMatched(3, ctx') /\ pc' = "load" /\ result' = result
    <3>1. ~(H1(ctx) /\ H3(ctx)) /\ ~(H2(ctx) /\ H3(ctx))
      BY DEF H1, H2, H3
    <3> QED BY <1>1, <2>1, <2>2, <2>3, <3>1, EvaluatedIs, E2EMatchedIs, Appends
  <2>5. MatchInv'
    <3>1. PreviewMatching(ctx', loaded', matched')
      BY <1>1, <2>1, <2>2, <2>4 DEF PreviewMatching
    <3>2. loaded' # CatalogOf("e2e-repo")
      BY <1>4, <2>1
    <3>3. Matching(ctx', catalogs', loaded', matched')
      BY <1>1, <1>2, <3>1, <3>2, PreviewMatchingIs
    <3> QED BY <3>3 DEF MatchInv
  <2> QED BY <2>2, <2>4, <2>5, LoadAgain DEF Between
<1> QED BY <1>3, <1>5, <1>6, <1>7

\* It does for infra-deployments.
LEMMA InfraEvaluated ==
    ASSUME IInv, Engine!Evaluated, ctx.catalog = "infra-deployments"
    PROVE  IInv'
<1>1. /\ ret \in {"true", "false"} /\ loaded' = Tail(loaded) /\ UNCHANGED <<ctx, catalogs>>
      /\ Post(Head(loaded).kids[1], ret, ctx) /\ MatchInv
      /\ "infra-deployments" \notin catalogs /\ loaded \in Rest("infra-deployments")
  BY EvaluatedIs DEF CatalogNames
<1>2. /\ OwnName(ctx) = "infra-deployments" /\ OwnName(ctx') = "infra-deployments"
      /\ "infra-deployments" \notin Services
  BY <1>1 DEF OwnName, Services, AllRepos
<1>3. \/ loaded = <<InfraDeploymentsDefaultRule, InfraDeploymentsComponentsRule>>
      \/ loaded = <<InfraDeploymentsComponentsRule>>
  BY <1>1, RestIs
<1>4. Len(CatalogOf("infra-deployments")) = 2
  BY CatalogsAre, Tails
<1>5. CASE loaded = <<InfraDeploymentsDefaultRule, InfraDeploymentsComponentsRule>>
  <2>1. /\ Head(loaded) = InfraDeploymentsDefaultRule /\ Len(loaded') = 1 /\ loaded' # <<>>
        /\ InfraDeploymentsDefaultRule.actions # <<>>
    BY <1>1, <1>5, Tails, TopRules
  <2>2. Infra(ctx) /\ (ret = "true" <=> ~Component(ctx) /\ ~Empty(ctx))
    BY <1>1, <2>1, TopRules, DefaultNoneIs
  <2>3. matched = <<>>
    BY <1>1, <1>2, <1>5, CatalogsAre, InfraMatchingIs DEF MatchInv
  <2>4. matched' = InfraMatched(1, ctx') /\ pc' = "load" /\ result' = result
    BY <1>1, <2>1, <2>2, <2>3, EvaluatedIs, InfraMatchedIs, Appends
  <2>5. MatchInv'
    <3>1. InfraMatching(ctx', loaded', matched')
      BY <1>1, <2>1, <2>4 DEF InfraMatching
    <3>2. loaded' # CatalogOf("infra-deployments")
      BY <1>4, <2>1
    <3>3. Matching(ctx', catalogs', loaded', matched')
      BY <1>1, <1>2, <3>1, <3>2, InfraMatchingIs
    <3> QED BY <3>3 DEF MatchInv
  <2> QED BY <2>2, <2>4, <2>5, LoadAgain DEF Between
<1>6. CASE loaded = <<InfraDeploymentsComponentsRule>>
  <2>1. /\ Head(loaded) = InfraDeploymentsComponentsRule /\ loaded' = <<>> /\ Len(loaded') = 0
        /\ Len(loaded) = 1 /\ InfraDeploymentsComponentsRule.actions # <<>>
    BY <1>1, <1>6, Tails, TopRules
  <2>2. /\ Infra(ctx) /\ (ret = "true" <=> Component(ctx)) /\ Labels(ctx) \subseteq ctx.LabelFilter.only
    BY <1>1, <2>1, TopRules, ComponentsAnyIs
  <2>3. matched = InfraMatched(1, ctx)
    <3>1. loaded # CatalogOf("infra-deployments")
      BY <1>4, <2>1
    <3>2. InfraMatching(ctx, loaded, matched)
      BY <1>1, <1>2, <3>1, InfraMatchingIs DEF MatchInv
    <3> QED BY <2>1, <3>2 DEF InfraMatching
  <2>4. matched' = InfraMatched(2, ctx') /\ pc' = "load" /\ result' = result
    BY <1>1, <2>1, <2>2, <2>3, EvaluatedIs, InfraMatchedIs, Appends
  <2>5. MatchInv'
    <3>1. InfraMatching(ctx', loaded', matched')
      BY <1>1, <2>1, <2>2, <2>4 DEF InfraMatching
    <3>2. loaded' # CatalogOf("infra-deployments")
      BY <1>4, <2>1
    <3>3. Matching(ctx', catalogs', loaded', matched')
      BY <1>1, <1>2, <3>1, <3>2, InfraMatchingIs
    <3> QED BY <3>3 DEF MatchInv
  <2> QED BY <2>2, <2>4, <2>5, LoadAgain DEF Between
<1> QED BY <1>3, <1>5, <1>6

\* Rules of other catalogs come and go.
LEMMA OtherCatalog ==
    ASSUME NEW x, OwnName(x) \in AllRepos, NEW cs, NEW ds, OwnName(x) \in cs <=> OwnName(x) \in ds,
           NEW l, l \notin Rest(OwnName(x)), NEW k, k \notin Rest(OwnName(x)), NEW m
    PROVE  Matching(x, cs, l, m) => Matching(x, ds, k, m)
<1> DEFINE own == OwnName(x)
<1>1. own \in AllRepos /\ l \notin Rest(own) /\ k \notin Rest(own) /\ (own \in cs <=> own \in ds)
  OBVIOUS
<1> HIDE DEF own
<1>2. own \notin {"e2e-repo", "infra-deployments"}
  BY <1>1 DEF AllRepos
<1>3. l # CatalogOf(own) /\ k # CatalogOf(own)
  BY <1>1, CatalogInRest
<1>4. own = "release-service-catalog" => (CatalogMatching(x, l, m) <=> CatalogMatching(x, k, m))
  <2>1. own = "release-service-catalog" =>
          l # <<ReleaseServiceCatalogCIRule>> /\ k # <<ReleaseServiceCatalogCIRule>>
    BY <1>1, RestIs
  <2> QED BY <2>1 DEF CatalogMatching
<1> QED BY <1>1, <1>2, <1>3, <1>4 DEF Matching, own

\* In CI the rule that was evaluated is one of a repository.
LEMMA OwnWorkflow ==
    ASSUME IInv, Engine!Evaluated, ctx.catalog = "ci"
    PROVE  /\ OwnName(ctx) = ctx.RepoName /\ ctx.RepoName \in AllRepos
           /\ \E c \in AllRepos \ catalogs : loaded \in Rest(c)
<1>1. ctx \in RuleCtxs /\ CtxInv(ctx) /\ \E c \in CatalogNames(ctx) \ catalogs : loaded \in Rest(c)
  BY EvaluatedIs
<1> QED BY <1>1, OwnIs DEF CatalogNames

\* It does in CI for a rule of another repository: such a rule never matches.
LEMMA OtherEvaluated ==
    ASSUME IInv, Engine!Evaluated, ctx.catalog = "ci",
           NEW c \in AllRepos \ catalogs, loaded \in Rest(c), c # ctx.RepoName
    PROVE  IInv'
<1> DEFINE own == ctx.RepoName
<1>1. /\ ret \in {"true", "false"} /\ loaded' = Tail(loaded) /\ UNCHANGED <<ctx, catalogs>>
      /\ Post(Head(loaded).kids[1], ret, ctx) /\ MatchInv
  BY EvaluatedIs
<1>2. OwnName(ctx) = own /\ own \in AllRepos /\ c # own
  BY OwnWorkflow
<1>3. ret = "false" /\ Workflow(ctx) /\ pc' = "load" /\ result' = result /\ matched' = matched
  <2>1. CASE c \in Services
    <3>1. loaded = <<ServiceRule(c)>>
      BY <2>1, RestIs
    <3>2. Head(loaded) = ServiceRule(c) /\ Head(loaded).kids[1] = ServiceAll(c) /\ Head(loaded).actions # <<>>
      BY <2>1, <3>1, Tails, TopRules
    <3>3. Workflow(ctx) /\ ret # "true"
      BY <1>1, <1>2, <2>1, <3>2, ServiceAllIs
    <3> QED BY <1>1, <3>2, <3>3, EvaluatedIs
  <2>2. CASE c = "e2e-tests"
    <3>1. loaded = <<E2ERepoCIRuleChain>>
      BY <2>2, RestIs
    <3>2. Head(loaded).kids[1] = E2EAll /\ Head(loaded).actions = <<>>
      BY <3>1, Tails, TopRules
    <3>3. Workflow(ctx) /\ ret # "true"
      BY <1>1, <1>2, <2>2, <3>2, E2EAllIs
    <3> QED BY <1>1, <3>2, <3>3, EvaluatedIs
  <2>3. CASE c = "release-service-catalog"
    <3>1. loaded = <<ReleaseServiceCatalogCIPairedRule, ReleaseServiceCatalogCIRule>>
            \/ loaded = <<ReleaseServiceCatalogCIRule>>
      BY <2>3, RestIs
    <3>2. Head(loaded) \in {ReleaseServiceCatalogCIPairedRule, ReleaseServiceCatalogCIRule}
      BY <3>1, Tails
    <3>3. Head(loaded).kids[1] \in {PairedAll, UnpairedAll} /\ Head(loaded).actions # <<>>
      BY <3>2, TopRules, Tails
    <3>4. Workflow(ctx) /\ ret # "true"
      BY <1>1, <1>2, <2>3, <3>3, PairedAllIs, UnpairedAllIs
    <3> QED BY <1>1, <3>3, <3>4, EvaluatedIs
  <2> QED BY <2>1, <2>2, <2>3 DEF Services
<1>4. MatchInv'
  <2>1. loaded \notin Rest(own)
    BY <1>2, RestApart
  <2>2. loaded' \notin Rest(own)
    <3>1. Tail(loaded) = <<>> \/ Tail(loaded) \in Rest(c)
      BY RestHead
    <3>2. CASE Tail(loaded) = <<>>
      BY <1>1, <1>2, <3>2, RestRepo
    <3>3. CASE Tail(loaded) \in Rest(c)
      BY <1>1, <1>2, <3>3, RestApart
    <3> QED BY <3>1, <3>2, <3>3
  <2>3. Matching(ctx, catalogs, loaded', matched)
    BY <1>1, <1>2, <2>1, <2>2, OtherCatalog DEF MatchInv
  <2> QED BY <1>1, <1>3, <2>3 DEF MatchInv
<1> QED BY <1>3, <1>4, LoadAgain DEF Between

\* It does for the rule of the service under test.
LEMMA ServiceEvaluated ==
    ASSUME IInv, Engine!Evaluated, ctx.catalog = "ci", ctx.RepoName \in Services,
           ctx.RepoName \notin catalogs, loaded \in Rest(ctx.RepoName)
    PROVE  IInv'
<1> DEFINE own == ctx.RepoName
<1>1. /\ ret \in {"true", "false"} /\ loaded' = Tail(loaded) /\ UNCHANGED <<ctx, catalogs>>
      /\ Post(Head(loaded).kids[1], ret, ctx) /\ MatchInv
  BY EvaluatedIs
<1>2. OwnName(ctx) = own /\ own \in Services /\ own \notin catalogs
  BY OwnWorkflow
<1>3. loaded = <<ServiceRule(own)>> /\ loaded = CatalogOf(own)
  BY <1>2, RestIs, CatalogsAre
<1>4. /\ Head(loaded) = ServiceRule(own) /\ Head(loaded).kids[1] = ServiceAll(own)
      /\ Head(loaded).actions # <<>> /\ loaded' = <<>> /\ loaded' # CatalogOf(own)
  BY <1>1, <1>2, <1>3, Tails, TopRules
<1>5. Workflow(ctx) /\ IF ret = "true" THEN Ready(ctx) ELSE ~Stable(ctx)
  BY <1>1, <1>2, <1>4, ServiceAllIs DEF Ready
<1>6. matched = <<>>
  BY <1>2, <1>3 , <1>1 DEF MatchInv, Matching
<1>7. pc' = "load" /\ result' = result /\ matched' = IF ret = "true" THEN <<ServiceRule(own)>> ELSE <<>>
  BY <1>4, <1>6, EvaluatedIs, Appends
<1>8. ServiceMatching(ctx, own, matched')
  BY <1>5, <1>7 DEF ServiceMatching
<1>9. own \notin {"e2e-repo", "infra-deployments", "e2e-tests", "release-service-catalog"}
  BY <1>2 DEF Services, AllRepos
<1> HIDE DEF own
<1>10. Matching(ctx, catalogs, loaded', matched')
  BY <1>2, <1>4, <1>8, <1>9 DEF Matching
<1>11. MatchInv'
  BY <1>1, <1>10 DEF MatchInv
<1> QED BY <1>5, <1>7, <1>11, LoadAgain DEF Between

\* It does for the two rules of release-service-catalog.
LEMMA CatalogEvaluated ==
    ASSUME IInv, Engine!Evaluated, ctx.catalog = "ci", ctx.RepoName = "release-service-catalog",
           ctx.RepoName \notin catalogs, loaded \in Rest(ctx.RepoName)
    PROVE  IInv'
<1> DEFINE own == "release-service-catalog"
           P == ReleaseServiceCatalogCIPairedRule
           U == ReleaseServiceCatalogCIRule
<1>1. /\ ret \in {"true", "false"} /\ loaded' = Tail(loaded) /\ UNCHANGED <<ctx, catalogs>>
      /\ Post(Head(loaded).kids[1], ret, ctx) /\ MatchInv
  BY EvaluatedIs
<1>2. /\ OwnName(ctx) = own /\ own \notin catalogs /\ ctx.RepoName = own
      /\ own \notin Services \cup {"e2e-repo", "infra-deployments", "e2e-tests"}
  BY OwnWorkflow DEF Services
<1>3. CatalogOf(own) = <<P, U>> /\ (loaded = <<P, U>> \/ loaded = <<U>>) /\ <<P, U>> # <<U>>
  BY <1>2, CatalogsAre, RestIs, Tails
<1>p. P.kids[1] = PairedAll /\ P.actions # <<>> /\ U.kids[1] = UnpairedAll /\ U.actions # <<>>
  BY TopRules, Tails
<1> HIDE DEF P, U
<1>4. ASSUME NEW l, l # <<P, U>> PROVE \A m : Matching(ctx, catalogs, l, m) <=> CatalogMatching(ctx, l, m)
  BY <1>2, <1>3, <1>4 DEF Matching
<1>5. CASE loaded = <<P, U>>
  <2>1. Head(loaded) = P /\ loaded' = <<U>>
    BY <1>1, <1>5, Tails
  <2>2. /\ Workflow(ctx)
        /\ IF ret = "true" THEN Ready(ctx) /\ Paired(ctx) ELSE ~Stable(ctx) \/ NotPaired(ctx)
    BY <1>1, <1>2, <1>p, <2>1, PairedAllIs DEF Ready
  <2>3. matched = <<>>
    BY <1>1, <1>2, <1>3, <1>5 DEF MatchInv, Matching
  <2>4. pc' = "load" /\ result' = result /\ matched' = IF ret = "true" THEN <<P>> ELSE <<>>
    BY <1>p, <2>1, <2>3, EvaluatedIs, Appends
  <2>5. CatalogMatching(ctx, loaded', matched')
    BY <2>1, <2>2, <2>4 DEF CatalogMatching, P, U
  <2>6. Matching(ctx, catalogs, loaded', matched')
    BY <1>3, <1>4, <2>1, <2>5
  <2>7. MatchInv'
    BY <1>1, <2>6 DEF MatchInv
  <2> QED BY <2>2, <2>4, <2>7, LoadAgain DEF Between
<1>6. CASE loaded = <<U>>
  <2>1. Head(loaded) = U /\ loaded' = <<>> /\ <<>> # <<U>> /\ <<>> # <<P, U>>
    BY <1>1, <1>6, Tails
  <2>2. /\ Workflow(ctx)
        /\ IF ret = "true" THEN Ready(ctx) /\ NotPaired(ctx) ELSE ~Stable(ctx) \/ Paired(ctx)
    BY <1>1, <1>2, <1>p, <2>1, UnpairedAllIs DEF Ready
  <2>3. CatalogMatching(ctx, loaded, matched)
    BY <1>1, <1>3, <1>4, <1>6 DEF MatchInv
  <2>4. /\ pc' = "load" /\ result' = result
        /\ matched' = IF ret = "true" THEN Append(matched, U) ELSE matched
    BY <1>p, <2>1, EvaluatedIs
  <2>5. Paired(ctx) /\ NotPaired(ctx) => ~Stable(ctx)
    BY DEF Paired, NotPaired, Stable
  <2>6. \/ matched = <<P>> /\ Ready(ctx) /\ Paired(ctx)
        \/ matched = <<>> /\ (~Stable(ctx) \/ NotPaired(ctx))
    BY <1>6, <2>3 DEF CatalogMatching, P, U
  <2>7. \/ matched' = <<P>> /\ Ready(ctx) /\ Paired(ctx)
        \/ matched' = <<U>> /\ Ready(ctx) /\ NotPaired(ctx)
        \/ matched' = <<P, U>> /\ Ready(ctx) /\ ~Stable(ctx)
        \/ matched' = <<>> /\ ~Stable(ctx)
    <3>1. Append(<<P>>, U) = <<P, U>> /\ Append(<<>>, U) = <<U>>
      BY Appends
    <3>2. CASE ret = "true" /\ matched = <<P>>
      BY <2>2, <2>4, <2>5, <2>6, <3>1, <3>2
    <3>3. CASE ret = "true" /\ matched = <<>>
      BY <2>2, <2>4, <3>1, <3>3
    <3>4. CASE ret # "true" /\ matched = <<P>> /\ Ready(ctx) /\ Paired(ctx)
      BY <2>4, <3>4
    <3>5. CASE ret # "true" /\ matched = <<>> /\ (~Stable(ctx) \/ NotPaired(ctx))
      BY <2>2, <2>4, <2>5, <3>5
    <3> QED BY <2>6, <3>2, <3>3, <3>4, <3>5
  <2>8. CatalogMatching(ctx, loaded', matched')
    BY <2>1, <2>7 DEF CatalogMatching, P, U
  <2>9. Matching(ctx, catalogs, loaded', matched')
    BY <1>4, <2>1, <2>8
  <2>10. MatchInv'
    BY <1>1, <2>9 DEF MatchInv
  <2> QED BY <2>2, <2>4, <2>10, LoadAgain DEF Between
<1> QED BY <1>3, <1>5, <1>6

\* It does for the rule of this repository, which ran its tests while evaluated.
LEMMA E2EEvaluated ==
    ASSUME IInv, Engine!Evaluated, ctx.catalog = "ci", ctx.RepoName = "e2e-tests",
           ctx.RepoName \notin catalogs, loaded \in Rest(ctx.RepoName)
    PROVE  IInv'
<1> DEFINE own == "e2e-tests"
<1>1. /\ ret \in {"true", "false"} /\ loaded' = Tail(loaded) /\ UNCHANGED <<ctx, catalogs, stack, ret, act>>
      /\ Post(Head(loaded).kids[1], ret, ctx) /\ MatchInv /\ stack = <<>>
  BY EvaluatedIs
<1>2. /\ OwnName(ctx) = own /\ own \notin catalogs /\ ctx.RepoName = own
      /\ own \notin Services \cup {"e2e-repo", "infra-deployments", "release-service-catalog"}
  BY OwnWorkflow DEF Services
<1>3. loaded = <<E2ERepoCIRuleChain>> /\ loaded = CatalogOf(own)
  BY <1>2, RestIs, CatalogsAre
<1>4. /\ Head(loaded).kids[1] = E2EAll /\ Head(loaded).actions = <<>>
      /\ loaded' = <<>> /\ loaded' # CatalogOf(own)
  BY <1>1, <1>3, Tails, TopRules
<1>5. matched = <<>> /\ matched' = matched
  BY <1>1, <1>2, <1>3, <1>4, EvaluatedIs DEF MatchInv, Matching
<1>6. CASE ret = "false"
  <2>1. Workflow(ctx) /\ (~Stable(ctx) \/ ctx.skipBootstrap)
    BY <1>1, <1>2, <1>4, <1>6, E2EAllIs
  <2>2. pc' = "load" /\ result' = result
    BY <1>4, <1>6, EvaluatedIs
  <2>3. Matching(ctx, catalogs, loaded', matched')
    BY <1>2, <1>4, <1>5, <2>1 DEF Matching
  <2>4. MatchInv'
    BY <1>1, <2>3 DEF MatchInv
  <2> QED BY <2>1, <2>2, <2>4, LoadAgain DEF Between
<1>7. CASE ret = "true"
  <2>1. Stage(3, ctx)
    BY <1>1, <1>4, <1>7, E2EAllIs
  <2>2. pc' = "done" /\ result' = "nil"
    BY <1>4, <1>7, EvaluatedIs
  <2>3. ctx.runs # <<>>
    <3>1. 3 >= 1 /\ 3 >= 2 /\ 3 >= 3
      OBVIOUS
    <3>2. OneGoodRun(ctx)
      BY <2>1, <3>1, ExactlyOneHolds DEF Stage
    <3> QED BY <3>2 DEF OneGoodRun
  <2>4. TypeOK'
    BY <1>1, <2>2 DEF IInv, TypeOK
  <2>5. StackInv'
    BY <1>1, <2>2 DEF IInv, StackInv
  <2>6. LoadInv' /\ ApplyInv'
    BY <2>2 DEF LoadInv, ApplyInv
  <2>7. NilInv'
    BY <1>1, <2>2, <2>3 DEF NilInv
  <2>8. CtxInv(ctx)'
    BY <1>1 DEF IInv
  <2> QED BY <2>4, <2>5, <2>6, <2>7, <2>8 DEF IInv
<1> QED BY <1>1, <1>6, <1>7

\* Evaluated keeps the inductive invariant.
LEMMA EvaluatedStep ==
    ASSUME IInv, Engine!Evaluated
    PROVE  IInv'
<1>1. ctx.catalog \in {"ci", "e2e-repo", "infra-deployments"}
  BY EvaluatedIs, Zenon DEF RuleCtxs
<1>2. CASE ctx.catalog = "ci"
  <2>1. PICK c \in AllRepos \ catalogs : loaded \in Rest(c)
    BY <1>2, OwnWorkflow
  <2>2. ctx.RepoName \in AllRepos
    BY <1>2, OwnWorkflow
  <2>3. CASE c # ctx.RepoName
    BY <1>2, <2>1, <2>3, OtherEvaluated
  <2>4. CASE c = ctx.RepoName /\ c \in Services
    BY <1>2, <2>1, <2>4, ServiceEvaluated
  <2>5. CASE c = ctx.RepoName /\ c = "release-service-catalog"
    BY <1>2, <2>1, <2>5, CatalogEvaluated
  <2>6. CASE c = ctx.RepoName /\ c = "e2e-tests"
    BY <1>2, <2>1, <2>6, E2EEvaluated
  <2> QED BY <2>1, <2>2, <2>3, <2>4, <2>5, <2>6 DEF Services
<1> QED BY <1>1, <1>2, PreviewEvaluated, InfraEvaluated

\* A sequence with an element is not empty.
LEMMA MatchedNot ==
    /\ \A a : <<a>> # <<>>
    /\ \A a, b : <<a, b>> # <<>>
  BY Tails

\* What matched when all catalogs were evaluated.
LEMMA AllMatched ==
    ASSUME NEW x \in RuleCtxs, CtxInv(x), NEW m, Matching(x, {}, <<>>, m)
    PROVE  /\ x.catalog = "e2e-repo" => m = E2EMatched(3, x) /\ (H3(x) => SpecsFocused(x))
           /\ x.catalog = "infra-deployments" =>
                m = InfraMatched(2, x) /\ Labels(x) \subseteq x.LabelFilter.only
           /\ x.RepoName = "e2e-tests" => m = <<>> /\ (~Stable(x) \/ x.skipBootstrap)
           /\ x.RepoName \in Services => ServiceMatching(x, x.RepoName, m)
           /\ x.RepoName = "release-service-catalog" => CatalogMatching(x, <<>>, m)
           /\ x.catalog = "ci" => x.RepoName \in AllRepos
<1> DEFINE own == OwnName(x)
<1>1. /\ own \in AllRepos \cup {"e2e-repo", "infra-deployments"}
      /\ x.catalog = "ci" => own = x.RepoName /\ x.RepoName \in AllRepos
      /\ x.catalog # "ci" => own = x.catalog
      /\ x.catalog = "ci" <=> x.RepoName \in AllRepos
  BY OwnIs DEF CtxInv
<1> HIDE DEF own
<1>2. <<>> # CatalogOf(own)
  BY <1>1, CatalogInRest
<1>3. /\ own = "e2e-repo" => PreviewMatching(x, <<>>, m)
      /\ own = "infra-deployments" => InfraMatching(x, <<>>, m)
      /\ own = "e2e-tests" => m = <<>> /\ (~Stable(x) \/ x.skipBootstrap)
      /\ own \in Services => ServiceMatching(x, own, m)
      /\ own = "release-service-catalog" => CatalogMatching(x, <<>>, m)
  BY <1>2 DEF Matching, own
<1>4. Services \subseteq AllRepos /\ "e2e-tests" \in AllRepos /\ "release-service-catalog" \in AllRepos
  BY DEF Services, AllRepos
<1>5. x.catalog = "e2e-repo" => m = E2EMatched(3, x) /\ (H3(x) => SpecsFocused(x))
  BY <1>1, <1>3 DEF PreviewMatching
<1>6. x.catalog = "infra-deployments" => m = InfraMatched(2, x) /\ Labels(x) \subseteq x.LabelFilter.only
  BY <1>1, <1>3 DEF InfraMatching
<1> QED BY <1>1, <1>3, <1>4, <1>5, <1>6

\* When no rule matched there is nothing to test, or GitHub changed its mind.
LEMMA NothingMatched ==
    ASSUME NEW x \in RuleCtxs, CtxInv(x), Matching(x, {}, <<>>, <<>>)
    PROVE  /\ x.catalog # "e2e-repo"
           /\ x.catalog = "infra-deployments" => Empty(x)
           /\ x.catalog = "ci" => ~Stable(x) \/ (x.RepoName = "e2e-tests" /\ x.skipBootstrap)
<1>1. x.catalog # "e2e-repo"
  <2>1. E2EMatched(3, x) # <<>>
    BY ExactlyOneHolds, E2EMatchedIs, MatchedNot
  <2> QED BY <2>1, AllMatched
<1>2. x.catalog = "infra-deployments" => Empty(x)
  <2>1. ~Empty(x) => InfraMatched(2, x) # <<>>
    BY InfraMatchedIs, MatchedNot
  <2> QED BY <2>1, AllMatched
<1>3. x.catalog = "ci" => ~Stable(x) \/ (x.RepoName = "e2e-tests" /\ x.skipBootstrap)
  <2>1. <<>> # <<ReleaseServiceCatalogCIRule>>
    BY MatchedNot
  <2>2. x.RepoName \in Services => ~Stable(x)
    BY AllMatched, MatchedNot DEF ServiceMatching
  <2>3. x.RepoName = "release-service-catalog" => ~Stable(x)
    <3>1. CatalogMatching(x, <<>>, <<>>) => ~Stable(x)
      BY <2>1, MatchedNot DEF CatalogMatching
    <3> QED BY <3>1, AllMatched
  <2> QED BY <2>2, <2>3, AllMatched DEF Services
<1> QED BY <1>1, <1>2, <1>3

\* Otherwise the matched rules can be applied.
LEMMA SomethingMatched ==
    ASSUME NEW x \in RuleCtxs, CtxInv(x), NEW m, m # <<>>, Matching(x, {}, <<>>, m), Between(x)
    PROVE  /\ x.catalog = "e2e-repo" => PreviewApplied(x, m, 1)
           /\ x.catalog = "infra-deployments" => InfraApplied(x, m, 1)
           /\ x.catalog = "ci" => WorkflowApplied(x, m, 1)
<1>1. ASSUME x.catalog = "e2e-repo" PROVE PreviewApplied(x, m, 1)
  <2>1. x.runs = <<>> /\ x.LabelFilter = NoFilter
    BY <1>1 DEF Between, Stage
  <2>2. m = E2EMatched(3, x) /\ (H3(x) => SpecsFocused(x))
    BY <1>1, AllMatched
  <2> QED BY <2>1, <2>2 DEF PreviewApplied
<1>2. ASSUME x.catalog = "infra-deployments" PROVE InfraApplied(x, m, 1)
  <2>1. /\ x.runs = <<>> /\ x.LabelFilter.before = {} /\ x.LabelFilter.not = {}
        /\ x.LabelFilter.only \subseteq Labels(x)
    BY <1>2 DEF Between, Infra
  <2>2. m = InfraMatched(2, x) /\ Labels(x) \subseteq x.LabelFilter.only
    BY <1>2, AllMatched
  <2>3. x.LabelFilter.only = Labels(x)
    BY <2>1, <2>2
  <2>4. x.LabelFilter = Filter(Labels(x), {})
    BY <2>1, <2>3, FilterIs
  <2> QED BY <2>1, <2>2, <2>4 DEF InfraApplied
<1>3. ASSUME x.catalog = "ci" PROVE WorkflowApplied(x, m, 1)
  <2>1. x.runs = <<>> /\ x.FocusFiles = {}
    BY <1>3 DEF Between, Workflow
  <2>2. Ready(x) /\ Applicable(x, m)
    <3>1. CASE x.RepoName \in Services
      BY <3>1, AllMatched DEF ServiceMatching, Applicable
    <3>2. CASE x.RepoName = "release-service-catalog"
      <4>1. <<>> # <<ReleaseServiceCatalogCIRule>>
        BY MatchedNot
      <4> QED BY <3>2, <4>1, AllMatched DEF CatalogMatching, Applicable
    <3>3. CASE x.RepoName = "e2e-tests"
      BY <3>3, AllMatched
    <3> QED BY <1>3, <3>1, <3>2, <3>3, AllMatched DEF Services
  <2> QED BY <2>1, <2>2 DEF WorkflowApplied, Ready
<1> QED BY <1>1, <1>2, <1>3

\* The step AllEvaluated of the engine keeps the inductive invariant.
LEMMA AllEvaluatedStep ==
    ASSUME IInv, Engine!AllEvaluated
    PROVE  IInv'
<1>1. /\ pc = "load" /\ loaded = <<>> /\ catalogs = {}
      /\ UNCHANGED <<ctx, catalogs, loaded, stack, ret, matched, act>>
      /\ matched = <<>> => pc' = "done" /\ result' = "nil"
      /\ matched # <<>> => pc' = "apply" /\ result' = result
  BY DEF Engine!AllEvaluated, Engine!Finish
<1>2. stack = <<>> /\ result # "nil" /\ ctx \in RuleCtxs /\ CtxInv(ctx) /\ act = 1
  BY <1>1, LoadFacts
<1>3. Matching(ctx, {}, <<>>, matched)
  BY <1>1, LoadFacts DEF MatchInv
<1>4. pc' \in {"done", "apply"} /\ result' \in {"nil", result}
  BY <1>1
<1>5. Between(ctx)
  BY <1>1 DEF IInv, LoadInv, Between
<1>6. TypeOK'
  BY <1>1, <1>4 DEF IInv, TypeOK
<1>7. StackInv'
  BY <1>1, <1>2, <1>4 DEF IInv, StackInv
<1>8. LoadInv'
  BY <1>4 DEF LoadInv
<1>9. ApplyInv'
  <2>1. CASE matched = <<>>
    BY <1>1, <2>1 DEF ApplyInv
  <2>2. CASE matched # <<>>
    <3>1. /\ ctx.catalog = "e2e-repo" => PreviewApplied(ctx, matched, 1)
          /\ ctx.catalog = "infra-deployments" => InfraApplied(ctx, matched, 1)
          /\ ctx.catalog = "ci" => WorkflowApplied(ctx, matched, 1)
      BY <1>2, <1>3, <1>5, <2>2, SomethingMatched
    <3> QED BY <1>1, <1>2, <3>1 DEF ApplyInv
  <2> QED BY <2>1, <2>2
<1>10. NilInv'
  <2>1. CASE matched = <<>>
    <3>1. /\ ctx.catalog # "e2e-repo"
          /\ ctx.catalog = "infra-deployments" => Empty(ctx)
          /\ ctx.catalog = "ci" => ~Stable(ctx) \/ (ctx.RepoName = "e2e-tests" /\ ctx.skipBootstrap)
      BY <1>2, <1>3, <2>1, NothingMatched
    <3> QED BY <1>1, <2>1, <3>1 DEF NilInv
  <2>2. CASE matched # <<>>
    BY <1>1, <1>2, <2>2 DEF NilInv
  <2> QED BY <2>1, <2>2
<1>11. CtxInv(ctx)'
  BY <1>1, <1>2
<1> QED BY <1>6, <1>7, <1>8, <1>9, <1>10, <1>11 DEF IInv

-----------------------------------------------------------------------------
(* The matched rules are applied.                                          *)

\* Append of the first run.
LEMMA FirstRun ==
    ASSUME NEW run
    PROVE  Append(<<>>, run) = <<run>> /\ Len(<<run>>) = 1 /\ <<run>>[1] = run /\ <<run>> # <<>>
  OBVIOUS

\* What survives a run of the tests.
LEMMA TestedCtx ==
    ASSUME NEW x, NEW y, Tested(x, y), CtxInv(x)
    PROVE  /\ y.catalog = x.catalog /\ y.RepoName = x.RepoName /\ y.DiffFiles = x.DiffFiles
           /\ (Stable(y) <=> Stable(x)) /\ (Paired(y) <=> Paired(x)) /\ (NotPaired(y) <=> NotPaired(x))
           /\ \A j : E2EMatched(j, y) = E2EMatched(j, x) /\ InfraMatched(j, y) = InfraMatched(j, x)
           /\ (Component(y) <=> Component(x)) /\ Labels(y) = Labels(x)
           /\ y.runs = <<>> => CtxInv(y)
           /\ y.catalog = "e2e-repo" /\ SelectedRun(y) => CtxInv(y)
           /\ y.catalog = "infra-deployments" /\ InfraRun(y) => CtxInv(y)
           /\ y.RepoName \in AllRepos \ {"e2e-tests"} /\ (Stable(y) => WorkflowRun(y)) => CtxInv(y)
<1>1. /\ y.catalog = x.catalog /\ y.RepoName = x.RepoName /\ y.DiffFiles = x.DiffFiles /\ y.change = x.change
      /\ y.asked = x.asked /\ y.rehearse = x.rehearse
  BY DEF Tested, Same
<1>2. (Stable(y) <=> Stable(x)) /\ (Paired(y) <=> Paired(x)) /\ (NotPaired(y) <=> NotPaired(x))
  BY <1>1, SameStable
<1>3. /\ (H1(y) <=> H1(x)) /\ (H2(y) <=> H2(x)) /\ (H3(y) <=> H3(x))
      /\ (Component(y) <=> Component(x)) /\ (Empty(y) <=> Empty(x)) /\ Labels(y) = Labels(x)
  BY <1>1, SameFacts
<1>4. RequiredOnly(y)
  BY TestedSame DEF CtxInv
<1>5. \A j : E2EMatched(j, y) = E2EMatched(j, x) /\ InfraMatched(j, y) = InfraMatched(j, x)
  BY <1>3 DEF E2EMatched, InfraMatched
<1>6. /\ y.catalog # "ci" => y.DiffFiles = y.change
      /\ y.catalog = "infra-deployments" => y.change \subseteq InfraFiles
      /\ y.catalog = "ci" <=> y.RepoName \in AllRepos
  BY <1>1 DEF CtxInv
<1>7. "e2e-tests" \in AllRepos
  BY DEF AllRepos
<1> QED BY <1>1, <1>2, <1>3, <1>4, <1>5, <1>6, <1>7 DEF CtxInv

\* The action of the rule that matched runs the tests that the change selects.
LEMMA PreviewExecutes ==
    ASSUME NEW x \in RuleCtxs, CtxInv(x), x.catalog = "e2e-repo", NEW m, PreviewApplied(x, m, 1),
           NEW o \in ExecuteCI(Head(m).actions[1], x)
    PROVE  /\ o.ctx \in RuleCtxs /\ CtxInv(o.ctx) /\ o.err \in BOOLEAN /\ o.ctx.catalog = x.catalog
           /\ ~o.err => PreviewApplied(o.ctx, m, 2)
<1> DEFINE y == o.ctx
<1>1. /\ m = E2EMatched(3, x) /\ x.runs = <<>> /\ x.LabelFilter = NoFilter
      /\ H3(x) => SpecsFocused(x)
  BY DEF PreviewApplied
<1>2. x.DiffFiles = x.change
  BY DEF CtxInv
<1>3. \E run : /\ y \in RuleCtxs /\ o.err \in BOOLEAN /\ Tested(x, y)
               /\ (y.runs = x.runs /\ o.err) \/ y.runs = Append(x.runs, run)
               /\ Shared(x) \/ Empty(x) \/ GoodRun(run, x)
  <2>1. CASE H1(x)
    <3>1. Head(m) = NonTestFilesRule
      BY <1>1, <2>1, E2EMatchedIs, Tails
    <3>2. Head(m).actions[1] = "ExecuteDefaultTestAction"
      BY <3>1, RuleKids
    <3>3. o \in ExecuteTestAction([x EXCEPT !.LabelFilter = Filter({}, Upgrades \cup {"release-pipelines"})])
      BY <3>2, ExecuteCIIs DEF ExecuteDefaultTestAction
    <3>4. Filter({}, Upgrades \cup {"release-pipelines"}) \in Filters
      BY LabelFacts
    <3> DEFINE run == [focus |-> x.FocusFiles, filter |-> Filter({}, Upgrades \cup {"release-pipelines"})]
    <3>5. /\ y \in RuleCtxs /\ o.err \in BOOLEAN /\ Tested(x, y)
          /\ (y.runs = x.runs /\ o.err) \/ y.runs = Append(x.runs, run)
      BY <3>3, <3>4, LabelledTestIs
    <3> HIDE DEF run, y
    <3> QED BY <2>1, <3>5 DEF H1
  <2>2. CASE H2(x)
    <3>1. Head(m) = NonTestFilesRuleWithReleasePipelines
      BY <1>1, <2>2, ExactlyOneHolds, E2EMatchedIs, Tails
    <3>2. Head(m).actions[1] = "ExecuteAllTestsExceptUpgradeTestSuite"
      BY <3>1, RuleKids
    <3>3. o \in ExecuteTestAction([x EXCEPT !.LabelFilter = Filter({}, Upgrades)])
      BY <3>2, ExecuteCIIs DEF ExecuteAllTestsExceptUpgradeTestSuite
    <3>4. Filter({}, Upgrades) \in Filters
      BY LabelFacts
    <3> DEFINE run == [focus |-> x.FocusFiles, filter |-> Filter({}, Upgrades)]
    <3>5. /\ y \in RuleCtxs /\ o.err \in BOOLEAN /\ Tested(x, y)
          /\ (y.runs = x.runs /\ o.err) \/ y.runs = Append(x.runs, run)
      BY <3>3, <3>4, LabelledTestIs
    <3> HIDE DEF run, y
    <3> QED BY <2>2, <3>5 DEF H2
  <2>3. CASE H3(x)
    <3>1. Head(m) = TestFilesOnlyRule
      BY <1>1, <2>3, ExactlyOneHolds, E2EMatchedIs, Tails
    <3>2. Head(m).actions[1] = "ExecuteTestAction"
      BY <3>1, RuleKids
    <3>3. o \in ExecuteTestAction(x)
      BY <3>2, ExecuteCIIs
    <3>4. TestOutcome(x, o)
      BY <3>3, TestActionIs
    <3>5. RunOf(x) = [focus |-> x.FocusFiles, filter |-> NoFilter]
      BY <1>1 DEF RunOf
    <3>6. GoodRun(RunOf(x), x)
      BY <1>1, <1>2, <2>3, <3>5, H3Run
    <3> QED BY <3>4, <3>6 DEF TestOutcome
  <2> QED BY <2>1, <2>2, <2>3, ExactlyOneHolds
<1>4. PICK run : /\ y \in RuleCtxs /\ o.err \in BOOLEAN /\ Tested(x, y)
                 /\ (y.runs = x.runs /\ o.err) \/ y.runs = Append(x.runs, run)
                 /\ Shared(x) \/ Empty(x) \/ GoodRun(run, x)
  BY <1>3
<1> HIDE DEF y
<1>5. /\ y.catalog = x.catalog /\ m = E2EMatched(3, y) /\ y.DiffFiles = x.DiffFiles
      /\ y.runs = <<>> \/ SelectedRun(y) => CtxInv(y)
  BY <1>1, <1>4, TestedCtx
<1>6. ~o.err \/ y.runs # <<>> => SelectedRun(y)
  <2>1. SUFFICES ASSUME ~o.err \/ y.runs # <<>> PROVE SelectedRun(y)
    OBVIOUS
  <2>a. y.runs = Append(<<>>, run)
    BY <1>1, <1>4, <2>1
  <2>2. Len(y.runs) = 1 /\ y.runs[1] = run
    BY <2>a, FirstRun
  <2>3. ASSUME ~Changed(y, SharedFiles), NEW f \in y.DiffFiles \cap SpecFiles
        PROVE  Selects(run, f, IF f \in ReleasePipelines THEN {"release-pipelines"} ELSE {})
    <3>1. ~Shared(x) /\ ~Empty(x) /\ f \in x.change \cap SpecFiles
      BY <1>2, <1>5, <2>3, ChangedIs DEF Changed
    <3> QED BY <1>4, <3>1 DEF GoodRun
  <2> QED BY <2>2, <2>3 DEF SelectedRun
<1> QED BY <1>4, <1>5, <1>6 DEF PreviewApplied, y

\* A component of infra-deployments changes only with a file.
LEMMA ComponentChanged ==
    ASSUME NEW x, Component(x)
    PROVE  x.DiffFiles # {}
<1>1. SUFFICES ASSUME x.DiffFiles = {} PROVE FALSE
  OBVIOUS
<1>2. PICK c \in InfraConditions : InfraHolds(c, x)
  BY DEF Component
<1>3. CASE c = "components/build-service"
  <2>1. Cardinality({}) > Cardinality({})
    BY <1>1, <1>2, <1>3, InfraHoldsIs
  <2> QED BY <2>1, FS_EmptySet
<1>4. CASE c # "components/build-service"
  BY <1>1, <1>2, <1>4, InfraHoldsIs
<1> QED BY <1>3, <1>4

\* The actions for infra-deployments run the suites of the changed components.
LEMMA InfraExecutes ==
    ASSUME NEW x \in RuleCtxs, CtxInv(x), x.catalog = "infra-deployments",
           NEW m, NEW a \in Nat \ {0}, InfraApplied(x, m, a), a <= Len(Head(m).actions),
           NEW o \in ExecuteCI(Head(m).actions[a], x)
    PROVE  /\ o.ctx \in RuleCtxs /\ CtxInv(o.ctx) /\ o.err \in BOOLEAN /\ o.ctx.catalog = x.catalog
           /\ ~o.err => InfraApplied(o.ctx, m, a + 1)
<1> DEFINE y == o.ctx
<1>1. m = InfraMatched(2, x) /\ m # <<>>
  BY DEF InfraApplied
<1>2. CASE Component(x) /\ a = 1
  <2>1. Head(m).actions[a] = "AddKonfluxLabel"
    BY <1>1, <1>2, InfraMatchedIs, TopRules, Tails
  <2>e. ExecuteCI("AddKonfluxLabel", x) = {Succeeds(AddLabelToLabelFilter(x, "konflux"))}
    BY ExecuteCIIs, Zenon
  <2>2. o = Succeeds(AddLabelToLabelFilter(x, "konflux"))
    BY <2>1, <2>e
  <2>3. y = AddLabelToLabelFilter(x, "konflux") /\ o.err = FALSE
    BY <2>2, SucceedsIs
  <2>4. x.runs = <<>> /\ x.LabelFilter = Filter(Labels(x), {})
    BY <1>2 DEF InfraApplied
  <2>5. ~Contains(x.LabelFilter.only, "konflux")
    <3>1. x.LabelFilter.only = Labels(x)
      BY <2>4, LabelFacts
    <3>2. "konflux" \notin Labels(x)
      BY LabelsDistinct DEF Labels
    <3> QED BY <3>1, <3>2 DEF Contains
  <2>6. "konflux" \in FilterLabels
    BY DEF FilterLabels
  <2>7. /\ y \in RuleCtxs /\ Relabelled(x, y)
        /\ y.LabelFilter = Filter(x.LabelFilter.only \cup {"konflux"}, x.LabelFilter.not)
    <3>1. x.LabelFilter.before = {}
      BY <2>4, LabelFacts
    <3> QED BY <2>3, <2>5, <2>6, <3>1, LabelAdded
  <2> HIDE DEF y
  <2>8. y.LabelFilter = Filter({"konflux"} \cup Labels(x), {})
    <3>1. x.LabelFilter.only = Labels(x) /\ x.LabelFilter.not = {}
      BY <2>4, LabelFacts
    <3>2. Labels(x) \cup {"konflux"} = {"konflux"} \cup Labels(x)
      OBVIOUS
    <3> QED BY <2>7, <3>1, <3>2
  <2>9. Tested(x, y) /\ y.runs = <<>>
    BY <2>4, <2>7 DEF Relabelled, Tested
  <2>10. /\ y.catalog = x.catalog /\ m = InfraMatched(2, y) /\ Component(y) /\ Labels(y) = Labels(x)
         /\ CtxInv(y)
    BY <1>1, <1>2, <2>9, TestedCtx
  <2>11. InfraApplied(y, m, 2)
    BY <1>1, <2>8, <2>9, <2>10 DEF InfraApplied
  <2>12. a + 1 = 2
    BY <1>2
  <2> QED BY <2>3, <2>7, <2>10, <2>11, <2>12, Zenon DEF y
<1>3. CASE ~(Component(x) /\ a = 1)
  <2>1. \E run : /\ y \in RuleCtxs /\ o.err \in BOOLEAN /\ Tested(x, y) /\ x.runs = <<>>
                 /\ (y.runs = x.runs /\ o.err) \/ y.runs = Append(x.runs, run)
                 /\ run.filter = Filter({"konflux"} \cup Labels(x), {})
                 /\ x.DiffFiles # {}
                 /\ a = IF Component(x) THEN 2 ELSE 1
    <3>1. CASE Component(x)
      <4>1. Head(m).actions = <<"AddKonfluxLabel", "ExecuteTestAction">>
        BY <1>1, <3>1, InfraMatchedIs, TopRules, Tails
      <4>2. a = 2
        BY <1>3, <3>1, <4>1, Tails
      <4>e. ExecuteCI("ExecuteTestAction", x) = ExecuteTestAction(x)
        BY ExecuteCIIs, Zenon
      <4>3. o \in ExecuteTestAction(x)
        BY <4>1, <4>2, <4>e
      <4>4. TestOutcome(x, o)
        BY <4>3, TestActionIs
      <4>5. x.runs = <<>> /\ RunOf(x).filter = Filter({"konflux"} \cup Labels(x), {})
        BY <3>1, <4>2 DEF InfraApplied, RunOf
      <4> QED BY <3>1, <4>2, <4>4, <4>5, ComponentChanged DEF TestOutcome
    <3>2. CASE ~Component(x)
      <4>1. Head(m).actions = <<"ExecuteInfraDeploymentsDefaultTestAction">> /\ ~Empty(x)
        BY <1>1, <3>2, InfraMatchedIs, TopRules, Tails
      <4>2. a = 1
        BY <4>1, Tails
      <4>e. ExecuteCI("ExecuteInfraDeploymentsDefaultTestAction", x) =
              ExecuteTestAction([x EXCEPT !.LabelFilter = Filter({"konflux"}, {})])
        BY ExecuteCIIs, Zenon
      <4>3. o \in ExecuteTestAction([x EXCEPT !.LabelFilter = Filter({"konflux"}, {})])
        <5>1. Head(m).actions[a] = "ExecuteInfraDeploymentsDefaultTestAction"
          BY <4>1, <4>2
        <5> QED BY <4>e, <5>1, Zenon
      <4>4. Filter({"konflux"}, {}) \in Filters
        <5>1. {"konflux"} \in SUBSET FilterLabels /\ {} \in SUBSET FilterLabels
          BY DEF FilterLabels
        <5> QED BY <5>1, FilterType
      <4>5. Labels(x) = {} /\ {"konflux"} \cup Labels(x) = {"konflux"}
        BY <3>2 DEF Labels, Component
      <4>6. x.runs = <<>>
        BY <4>2 DEF InfraApplied
      <4>7. x.DiffFiles # {}
        BY <4>1, E2EHoldsIs DEF Empty
      <4>8. DEFINE run == [focus |-> x.FocusFiles, filter |-> Filter({"konflux"}, {})]
      <4>9. run.filter = Filter({"konflux"} \cup Labels(x), {})
        BY <4>5
      <4>10. /\ y \in RuleCtxs /\ o.err \in BOOLEAN /\ Tested(x, y)
             /\ (y.runs = x.runs /\ o.err) \/ y.runs = Append(x.runs, run)
        BY <4>3, <4>4, LabelledTestIs
      <4> HIDE DEF run, y
      <4> QED BY <3>2, <4>2, <4>6, <4>7, <4>9, <4>10
    <3> QED BY <3>1, <3>2
  <2>2. PICK run : /\ y \in RuleCtxs /\ o.err \in BOOLEAN /\ Tested(x, y) /\ x.runs = <<>>
                   /\ (y.runs = x.runs /\ o.err) \/ y.runs = Append(x.runs, run)
                   /\ run.filter = Filter({"konflux"} \cup Labels(x), {})
                   /\ x.DiffFiles # {}
                   /\ a = IF Component(x) THEN 2 ELSE 1
    BY <2>1
  <2> HIDE DEF y
  <2>3. /\ y.catalog = x.catalog /\ m = InfraMatched(2, y) /\ (Component(y) <=> Component(x))
        /\ Labels(y) = Labels(x) /\ y.DiffFiles = x.DiffFiles
        /\ y.runs = <<>> \/ InfraRun(y) => CtxInv(y)
    BY <1>1, <2>2, TestedCtx
  <2>4. ~o.err \/ y.runs # <<>> => InfraRun(y)
    <3>1. SUFFICES ASSUME ~o.err \/ y.runs # <<>> PROVE InfraRun(y)
      OBVIOUS
    <3>2. y.runs = Append(<<>>, run)
      BY <2>2, <3>1
    <3>3. Len(y.runs) = 1 /\ y.runs[1] = run
      BY <3>2, FirstRun
    <3> QED BY <2>2, <2>3, <3>3 DEF InfraRun
  <2>5. InfraRun(y) => InfraApplied(y, m, a + 1)
    <3>1. a + 1 = IF Component(y) THEN 3 ELSE 2
      BY <2>2, <2>3
    <3> QED BY <1>1, <2>3, <3>1 DEF InfraApplied
  <2> QED BY <2>2, <2>3, <2>4, <2>5 DEF y
<1> QED BY <1>2, <1>3

\* The action of a workflow runs the suite of its repository.
LEMMA WorkflowExecutes ==
    ASSUME NEW x \in RuleCtxs, CtxInv(x), x.catalog = "ci", NEW m, WorkflowApplied(x, m, 1),
           NEW o \in ExecuteCI(Head(m).actions[1], x)
    PROVE  /\ o.ctx \in RuleCtxs /\ CtxInv(o.ctx) /\ o.err \in BOOLEAN /\ o.ctx.catalog = x.catalog
           /\ ~o.err => WorkflowApplied(o.ctx, m, 2)
<1> DEFINE y == o.ctx
           P == ReleaseServiceCatalogCIPairedRule
           U == ReleaseServiceCatalogCIRule
<1>1. /\ Prepared(x) /\ x.FocusFiles = {} /\ Applicable(x, m)
      /\ Stable(x) => x.runs = <<>> /\ Settled(x)
  BY DEF WorkflowApplied
<1>a. Services \subseteq AllRepos \ {"e2e-tests", "release-service-catalog"}
  BY DEF Services
<1>r. x.RepoName \in AllRepos \ {"e2e-tests"}
  BY <1>1, <1>a DEF Applicable, AllRepos
<1>2. \E f : /\ y \in RuleCtxs /\ o.err \in BOOLEAN /\ Tested(x, y)
             /\ (y.runs = x.runs /\ o.err)
                  \/ y.runs = Append(x.runs, [focus |-> {}, filter |-> f])
             /\ Stable(x) /\ x.RepoName = "release-service-catalog" => CatalogRun(f, x)
             /\ Stable(x) /\ x.RepoName # "release-service-catalog" => f = Filter({x.RepoName}, {})
  <2>1. CASE x.RepoName \in Services /\ m = <<ServiceRule(x.RepoName)>>
    <3>1. Head(m).actions[1] = "ExecuteTestAction"
      BY <2>1, TopRules, Tails
    <3>2. TestOutcome(x, o)
      <4>1. o \in ExecuteTestAction(x)
        BY <3>1, ExecuteCIIs, Zenon
      <4> QED BY <4>1, TestActionIs, Zenon
    <3>3. RunOf(x) = [focus |-> {}, filter |-> x.LabelFilter]
      BY <1>1 DEF RunOf
    <3>4. Stable(x) => x.LabelFilter = Filter({x.RepoName}, {})
      BY <1>1, <1>a, <2>1 DEF Settled
    <3>5. x.RepoName # "release-service-catalog"
      BY <1>a, <2>1
    <3> QED BY <3>2, <3>3, <3>4, <3>5 DEF TestOutcome
  <2>2. CASE x.RepoName = "release-service-catalog" /\ (m = <<P>> \/ m = <<P, U>>)
    <3>1. Head(m) = P
      BY <2>2, Tails
    <3>2. Head(m).actions[1] = "ExecuteReleaseCatalogPairedAction"
      BY <3>1, TopRules
    <3>3. o \in ExecuteTestAction([x EXCEPT !.LabelFilter.not = @ \cup Slow])
      BY <3>2, ExecuteCIIs DEF ExecuteReleaseCatalogPairedAction
    <3> DEFINE s == x.LabelFilter.not \cup Slow
               f == [x.LabelFilter EXCEPT !.not = s]
    <3>a. x.LabelFilter \in Filters /\ s \in SUBSET FilterLabels
      <4>1. Slow \in SUBSET FilterLabels
        BY DEF FilterLabels
      <4> QED BY <4>1, FilterIs
    <3>5. [x EXCEPT !.LabelFilter.not = @ \cup Slow] = [x EXCEPT !.LabelFilter = f]
      BY Zenon
    <3> HIDE DEF s
    <3>4. f \in Filters /\ f.not = s /\ [f EXCEPT !.not = {}] = [x.LabelFilter EXCEPT !.not = {}]
      BY <3>a, FilterExcept, Zenon
    <3> HIDE DEF f
    <3>6. Stable(x) => CatalogRun(f, x)
      <4>1. SUFFICES ASSUME Stable(x) PROVE CatalogRun(f, x)
        OBVIOUS
      <4>2. x.LabelFilter \in CatalogFilters
        BY <1>1, <2>2, <4>1 DEF Settled
      <4>3. [f EXCEPT !.not = {}] \in CatalogFilters /\ f.not = Slow
        BY <3>4, <4>2, CatalogFilterIs DEF s
      <4>4. Paired(x)
        <5>1. <<P>> # <<U>> /\ <<P, U>> # <<U>> /\ <<P, U>> # <<P>>
          <6>1. P.name # U.name
            BY TopRules
          <6>2. P # U
            BY <6>1
          <6> HIDE DEF P, U
          <6> QED BY <6>2, Tails
        <5>2. x.RepoName \notin Services
          BY <1>a, <2>2
        <5> QED BY <1>1, <2>2, <4>1, <5>1, <5>2 DEF Applicable
      <4> QED BY <4>3, <4>4 DEF CatalogRun
    <3>7. /\ o.ctx \in RuleCtxs /\ o.err \in BOOLEAN /\ Tested(x, o.ctx)
          /\ \/ o.ctx.runs = x.runs /\ o.err
             \/ o.ctx.runs = Append(x.runs, [focus |-> x.FocusFiles, filter |-> f])
      BY <3>3, <3>4, <3>5, LabelledTestIs
    <3> QED BY <1>1, <2>2, <3>6, <3>7
  <2>3. CASE x.RepoName = "release-service-catalog" /\ m = <<U>>
    <3>1. Head(m).actions[1] = "ExecuteReleaseCatalogAction"
      BY <2>3, TopRules, Tails
    <3>2. TestOutcome(x, o)
      <4>1. o \in ExecuteTestAction(x)
        BY <3>1, ExecuteCIIs, Zenon
      <4> QED BY <4>1, TestActionIs, Zenon
    <3>3. RunOf(x) = [focus |-> {}, filter |-> x.LabelFilter]
      BY <1>1 DEF RunOf
    <3>4. Stable(x) => CatalogRun(x.LabelFilter, x)
      <4>1. SUFFICES ASSUME Stable(x) PROVE CatalogRun(x.LabelFilter, x)
        OBVIOUS
      <4>2. x.LabelFilter \in CatalogFilters
        BY <1>1, <2>3, <4>1 DEF Settled
      <4>3. NotPaired(x)
        <5>1. P.name # U.name
          BY TopRules
        <5>2. P # U
          BY <5>1
        <5>3. <<P>> # <<U>> /\ <<P, U>> # <<U>>
          <6> HIDE DEF P, U
          <6> QED BY <5>2, Tails
        <5>4. x.RepoName \notin Services
          BY <1>a, <2>3
        <5> QED BY <1>1, <2>3, <4>1, <5>3, <5>4 DEF Applicable
      <4>4. ~Paired(x)
        BY <4>1, <4>3 DEF Paired, NotPaired, Stable
      <4> QED BY <4>2, <4>4, CatalogFilterIs DEF CatalogRun
    <3> QED BY <2>3, <3>2, <3>3, <3>4 DEF TestOutcome
  <2> QED BY <1>1, <2>1, <2>2, <2>3 DEF Applicable
<1>3. PICK f : /\ y \in RuleCtxs /\ o.err \in BOOLEAN /\ Tested(x, y)
               /\ (y.runs = x.runs /\ o.err)
                    \/ y.runs = Append(x.runs, [focus |-> {}, filter |-> f])
               /\ Stable(x) /\ x.RepoName = "release-service-catalog" => CatalogRun(f, x)
               /\ Stable(x) /\ x.RepoName # "release-service-catalog" => f = Filter({x.RepoName}, {})
  BY <1>2
<1> HIDE DEF y, P, U
<1>4. /\ y.catalog = x.catalog /\ y.RepoName = x.RepoName
      /\ (Stable(y) <=> Stable(x)) /\ (Paired(y) <=> Paired(x)) /\ (NotPaired(y) <=> NotPaired(x))
      /\ y.runs = <<>> \/ (Stable(y) => WorkflowRun(y)) => CtxInv(y)
  BY <1>r, <1>3, TestedCtx
<1>5. Prepared(y) /\ y.FocusFiles = {} /\ Applicable(y, m)
  <2>1. Prepared(y)
    BY <1>1, <1>3, TestedSame
  <2>2. y.FocusFiles = {}
    BY <1>1, <1>3 DEF Tested
  <2>3. Applicable(y, m)
    BY <1>1, <1>4 DEF Applicable
  <2> QED BY <2>1, <2>2, <2>3
<1>6. (~o.err \/ y.runs # <<>>) /\ Stable(y) => WorkflowRun(y)
  <2>1. SUFFICES ASSUME ~o.err \/ y.runs # <<>>, Stable(y) PROVE WorkflowRun(y)
    OBVIOUS
  <2> DEFINE run == [focus |-> {}, filter |-> f]
  <2>2. run.filter = f /\ run.focus = {}
    OBVIOUS
  <2>3. y.runs = Append(<<>>, run)
    BY <1>1, <1>3, <1>4, <2>1
  <2> HIDE DEF run
  <2>4. Len(y.runs) = 1 /\ y.runs[1] = run
    BY <2>3, FirstRun
  <2>5. y.RepoName = "release-service-catalog" => CatalogRun(f, y)
    BY <1>3, <1>4, <2>1 DEF CatalogRun
  <2>6. y.RepoName \in Services => f = Filter({y.RepoName}, {})
    BY <1>3, <1>4, <1>a, <2>1
  <2> QED BY <2>2, <2>4, <2>5, <2>6 DEF WorkflowRun
<1>7. ~o.err => WorkflowApplied(y, m, 2)
  BY <1>5, <1>6 DEF WorkflowApplied
<1> QED BY <1>3, <1>4, <1>6, <1>7 DEF y

\* What the inductive invariant says while the matched rules are applied.
LEMMA ApplyFacts ==
    ASSUME IInv, pc = "apply"
    PROVE  /\ stack = <<>> /\ result # "nil" /\ ctx \in RuleCtxs /\ CtxInv(ctx) /\ act \in Nat \ {0}
           /\ ctx.catalog \in {"ci", "e2e-repo", "infra-deployments"}
           /\ ctx.catalog = "e2e-repo" => PreviewApplied(ctx, matched, act)
           /\ ctx.catalog = "infra-deployments" => InfraApplied(ctx, matched, act)
           /\ ctx.catalog = "ci" => WorkflowApplied(ctx, matched, act)
<1>1. ctx \in RuleCtxs
  BY DEF IInv, TypeOK
<1>2. ctx.catalog \in {"ci", "e2e-repo", "infra-deployments"}
  BY <1>1, Zenon DEF RuleCtxs
<1> QED BY <1>1, <1>2 DEF IInv, TypeOK, StackInv, ApplyInv, NilInv

\* A rule that matched has one action, and no rule follows it if GitHub is stable.
LEMMA OneAction ==
    /\ \A x : Len(Head(E2EMatched(3, x)).actions) = 1 /\ Tail(E2EMatched(3, x)) = <<>>
    /\ \A x, m : Applicable(x, m) =>
         /\ Len(Head(m).actions) = 1
         /\ Tail(m) = <<>> \/ (Tail(m) = <<ReleaseServiceCatalogCIRule>> /\ ~Stable(x)
                                 /\ x.RepoName = "release-service-catalog")
<1>1. ASSUME NEW x
      PROVE  Len(Head(E2EMatched(3, x)).actions) = 1 /\ Tail(E2EMatched(3, x)) = <<>>
  <2>1. \/ E2EMatched(3, x) = <<NonTestFilesRule>>
        \/ E2EMatched(3, x) = <<NonTestFilesRuleWithReleasePipelines>>
        \/ E2EMatched(3, x) = <<TestFilesOnlyRule>>
    BY ExactlyOneHolds, E2EMatchedIs
  <2>2. /\ Len(NonTestFilesRule.actions) = 1 /\ Len(NonTestFilesRuleWithReleasePipelines.actions) = 1
        /\ Len(TestFilesOnlyRule.actions) = 1
    BY RuleKids, Tails
  <2> QED BY <2>1, <2>2, Tails
<1>2. ASSUME NEW x, NEW m, Applicable(x, m)
      PROVE  /\ Len(Head(m).actions) = 1
             /\ Tail(m) = <<>> \/ (Tail(m) = <<ReleaseServiceCatalogCIRule>> /\ ~Stable(x)
                                     /\ x.RepoName = "release-service-catalog")
  <2>1. CASE x.RepoName \in Services /\ m = <<ServiceRule(x.RepoName)>>
    BY <2>1, TopRules, Tails
  <2>2. CASE m = <<ReleaseServiceCatalogCIPairedRule>>
    BY <2>2, TopRules, Tails
  <2>3. CASE m = <<ReleaseServiceCatalogCIRule>>
    BY <2>3, TopRules, Tails
  <2>4. CASE /\ m = <<ReleaseServiceCatalogCIPairedRule, ReleaseServiceCatalogCIRule>> /\ ~Stable(x)
             /\ x.RepoName = "release-service-catalog"
    BY <2>4, TopRules, Tails
  <2> QED BY <1>2, <2>1, <2>2, <2>3, <2>4 DEF Applicable
<1> QED BY <1>1, <1>2

\* The step ExecuteAction of the engine keeps the inductive invariant.
LEMMA ExecuteActionStep ==
    ASSUME IInv, Engine!ExecuteAction
    PROVE  IInv' /\ StepOK(ctx, ctx')
<1>1. /\ pc = "apply" /\ act <= Len(Head(matched).actions)
      /\ UNCHANGED <<catalogs, loaded, stack, ret, matched>>
  BY DEF Engine!ExecuteAction
<1>2. PICK o \in ExecuteCI(Head(matched).actions[act], ctx) :
        /\ ctx' = o.ctx
        /\ \/ o.err /\ Engine!Finish("error") /\ UNCHANGED act
           \/ ~o.err /\ act' = act + 1 /\ UNCHANGED <<pc, result>>
  BY DEF Engine!ExecuteAction
<1>3. /\ stack = <<>> /\ result # "nil" /\ ctx \in RuleCtxs /\ CtxInv(ctx) /\ act \in Nat \ {0}
      /\ ctx.catalog \in {"ci", "e2e-repo", "infra-deployments"}
      /\ ctx.catalog = "e2e-repo" => PreviewApplied(ctx, matched, act)
      /\ ctx.catalog = "infra-deployments" => InfraApplied(ctx, matched, act)
      /\ ctx.catalog = "ci" => WorkflowApplied(ctx, matched, act)
  BY <1>1, ApplyFacts
<1>4. /\ o.ctx \in RuleCtxs /\ CtxInv(o.ctx) /\ o.err \in BOOLEAN /\ o.ctx.catalog = ctx.catalog
      /\ ~o.err => /\ ctx.catalog = "e2e-repo" => PreviewApplied(o.ctx, matched, act + 1)
                   /\ ctx.catalog = "infra-deployments" => InfraApplied(o.ctx, matched, act + 1)
                   /\ ctx.catalog = "ci" => WorkflowApplied(o.ctx, matched, act + 1)
  <2>1. CASE ctx.catalog = "e2e-repo"
    <3>1. act <= 1
      BY <1>1, <1>3, <2>1, OneAction DEF PreviewApplied
    <3>2. act = 1 /\ act + 1 = 2
      BY <1>3, <3>1
    <3> QED BY <1>2, <1>3, <2>1, <3>2, PreviewExecutes
  <2>2. CASE ctx.catalog = "infra-deployments"
    BY <1>1, <1>2, <1>3, <2>2, InfraExecutes
  <2>3. CASE ctx.catalog = "ci"
    <3>1. act <= 1
      BY <1>1, <1>3, <2>3, OneAction DEF WorkflowApplied
    <3>2. act = 1 /\ act + 1 = 2
      BY <1>3, <3>1
    <3> QED BY <1>2, <1>3, <2>3, <3>2, WorkflowExecutes
  <2> QED BY <1>3, <2>1, <2>2, <2>3
<1>5. /\ ctx' \in RuleCtxs /\ CtxInv(ctx') /\ ctx'.catalog = ctx.catalog
      /\ act' \in Nat \ {0} /\ pc' \in {"apply", "done"} /\ result' # "nil"
      /\ result' \in {result, "error"} /\ (pc' = "apply" => ~o.err /\ act' = act + 1)
  BY <1>1, <1>2, <1>3, <1>4 DEF Engine!Finish
<1>6. TypeOK'
  BY <1>1, <1>5 DEF IInv, TypeOK
<1>7. StackInv'
  BY <1>1, <1>3, <1>5 DEF IInv, StackInv
<1>8. LoadInv' /\ NilInv'
  BY <1>5 DEF LoadInv, NilInv
<1>9. ApplyInv'
  BY <1>1, <1>2, <1>4, <1>5 DEF ApplyInv
<1>10. StepOK(ctx, ctx')
  BY <1>3, <1>5 DEF StepOK, WorkflowApplied
<1> QED BY <1>5, <1>6, <1>7, <1>8, <1>9, <1>10 DEF IInv

\* The step RuleDone of the engine keeps the inductive invariant.
LEMMA RuleDoneStep ==
    ASSUME IInv, Engine!RuleDone
    PROVE  IInv'
<1>1. /\ pc = "apply" /\ act > Len(Head(matched).actions) /\ act' = 1 /\ matched' = Tail(matched)
      /\ UNCHANGED <<ctx, catalogs, loaded, stack, ret>>
      /\ \/ pc' = "done" /\ result' = "nil"
         \/ pc' = "apply" /\ result' = result /\ Tail(matched) # <<>>
  BY DEF Engine!RuleDone, Engine!Finish
<1> DEFINE n == Len(Head(matched).actions)
<1>n. act > n
  BY <1>1
<1> HIDE DEF n
<1>2. /\ stack = <<>> /\ result # "nil" /\ ctx \in RuleCtxs /\ CtxInv(ctx) /\ act \in Nat \ {0}
      /\ ctx.catalog \in {"ci", "e2e-repo", "infra-deployments"}
      /\ ctx.catalog = "e2e-repo" => PreviewApplied(ctx, matched, act)
      /\ ctx.catalog = "infra-deployments" => InfraApplied(ctx, matched, act)
      /\ ctx.catalog = "ci" => WorkflowApplied(ctx, matched, act)
  BY <1>1, ApplyFacts
<1>3. ctx.catalog = "e2e-repo" => ctx.runs # <<>> /\ Tail(matched) = <<>>
  <2>1. SUFFICES ASSUME ctx.catalog = "e2e-repo" PROVE ctx.runs # <<>> /\ Tail(matched) = <<>>
    OBVIOUS
  <2>2. matched = E2EMatched(3, ctx) /\ act \in {1, 2} /\ (act = 2 => SelectedRun(ctx))
    BY <1>2, <2>1 DEF PreviewApplied
  <2>3. Len(Head(matched).actions) = 1 /\ Tail(matched) = <<>>
    BY <2>2, OneAction
  <2>4. SelectedRun(ctx)
    BY <1>1, <2>2, <2>3
  <2> QED BY <2>3, <2>4 DEF SelectedRun
<1>4. ctx.catalog = "infra-deployments" => ctx.runs # <<>> /\ Tail(matched) = <<>>
  <2>1. SUFFICES ASSUME ctx.catalog = "infra-deployments" PROVE ctx.runs # <<>> /\ Tail(matched) = <<>>
    OBVIOUS
  <2>2. InfraApplied(ctx, matched, act)
    BY <1>2, <2>1
  <2>3. CASE Component(ctx)
    <3>1. matched = <<InfraDeploymentsComponentsRule>>
      BY <2>2, <2>3, InfraMatchedIs DEF InfraApplied
    <3>a. Head(matched) = InfraDeploymentsComponentsRule /\ Tail(matched) = <<>>
      BY <3>1, Tails
    <3>2. Len(Head(matched).actions) = 2 /\ Tail(matched) = <<>>
      BY <3>a, TopRules, Tails
    <3>3. act \in {1, 2, 3} /\ (act = 3 => InfraRun(ctx))
      BY <2>2, <2>3 DEF InfraApplied
    <3>b. n = 2
      BY <3>2 DEF n
    <3>4. InfraRun(ctx)
      BY <1>n, <3>3, <3>b
    <3> QED BY <3>2, <3>4 DEF InfraRun
  <2>4. CASE ~Component(ctx)
    <3>1. matched = <<InfraDeploymentsDefaultRule>>
      BY <2>2, <2>4, InfraMatchedIs DEF InfraApplied
    <3>2. Len(Head(matched).actions) = 1 /\ Tail(matched) = <<>>
      BY <3>1, TopRules, Tails
    <3>3. act \in {1, 2} /\ (act = 2 => InfraRun(ctx))
      BY <2>2, <2>4 DEF InfraApplied
    <3>b. n = 1
      BY <3>2 DEF n
    <3>4. InfraRun(ctx)
      BY <1>n, <3>3, <3>b
    <3> QED BY <3>2, <3>4 DEF InfraRun
  <2> QED BY <2>3, <2>4
<1>5. ctx.catalog = "ci" =>
        /\ ctx.runs # <<>> \/ ~Stable(ctx)
        /\ Tail(matched) # <<>> => WorkflowApplied(ctx, Tail(matched), 1)
  <2>1. SUFFICES ASSUME ctx.catalog = "ci"
                 PROVE  /\ ctx.runs # <<>> \/ ~Stable(ctx)
                        /\ Tail(matched) # <<>> => WorkflowApplied(ctx, Tail(matched), 1)
    OBVIOUS
  <2>2. /\ Prepared(ctx) /\ ctx.FocusFiles = {} /\ Applicable(ctx, matched) /\ act \in {1, 2}
        /\ Stable(ctx) /\ act = 2 => WorkflowRun(ctx)
    BY <1>2, <2>1 DEF WorkflowApplied
  <2>3. /\ Len(Head(matched).actions) = 1
        /\ Tail(matched) = <<>> \/ (Tail(matched) = <<ReleaseServiceCatalogCIRule>> /\ ~Stable(ctx)
                                      /\ ctx.RepoName = "release-service-catalog")
    BY <2>2, OneAction
  <2>a. n = 1
    BY <2>3 DEF n
  <2>4. act = 2
    BY <1>n, <2>2, <2>a
  <2>5. ctx.runs # <<>> \/ ~Stable(ctx)
    BY <2>2, <2>4 DEF WorkflowRun
  <2>6. Tail(matched) # <<>> => WorkflowApplied(ctx, Tail(matched), 1)
    BY <2>2, <2>3 DEF WorkflowApplied, Applicable
  <2> QED BY <2>5, <2>6
<1>6. TypeOK'
  <2>1. /\ pc' \in {"done", "apply"} /\ result' \in {"nil", result} /\ (pc' = "apply" => matched' # <<>>)
        /\ act' \in Nat \ {0}
    BY <1>1
  <2> QED BY <1>1, <2>1 DEF IInv, TypeOK
<1>7. StackInv'
  BY <1>1, <1>2 DEF IInv, StackInv
<1>8. LoadInv'
  BY <1>1 DEF LoadInv
<1>9. NilInv'
  BY <1>1, <1>2, <1>3, <1>4, <1>5 DEF NilInv
<1>10. ApplyInv'
  BY <1>1, <1>2, <1>3, <1>4, <1>5 DEF ApplyInv
<1>11. CtxInv(ctx)'
  BY <1>1, <1>2
<1> QED BY <1>6, <1>7, <1>8, <1>9, <1>10, <1>11 DEF IInv

-----------------------------------------------------------------------------
(* The specifications.                                                     *)

\* A step that leaves the RuleCtx alone starts no test.
LEMMA OtherStep ==
    ASSUME ctx' = ctx
    PROVE  StepOK(ctx, ctx')
  BY DEF StepOK

\* Every action keeps the inductive invariant.
LEMMA NextStep ==
    ASSUME IInv, [Next]_vars
    PROVE  IInv' /\ StepOK(ctx, ctx')
<1>1. CASE Engine!ConditionFuncCheck
  BY <1>1, ConditionFuncCheckStep
<1>2. CASE Engine!AnyCheck
  <2>1. ctx' = ctx
    BY <1>2 DEF Engine!AnyCheck
  <2> QED BY <1>2, <2>1, AnyCheckStep, OtherStep
<1>3. CASE Engine!AllCheck
  <2>1. ctx' = ctx
    BY <1>3 DEF Engine!AllCheck
  <2> QED BY <1>3, <2>1, AllCheckStep, OtherStep
<1>4. CASE Engine!NoneCheck
  <2>1. ctx' = ctx
    BY <1>4 DEF Engine!NoneCheck
  <2> QED BY <1>4, <2>1, NoneCheckStep, OtherStep
<1>5. CASE Engine!RuleEval
  <2>1. ctx' = ctx
    BY <1>5 DEF Engine!RuleEval
  <2> QED BY <1>5, <2>1, RuleEvalStep, OtherStep
<1>6. CASE Engine!RuleNotMatched
  <2>1. ctx' = ctx
    BY <1>6 DEF Engine!RuleNotMatched
  <2> QED BY <1>6, <2>1, RuleNotMatchedStep, OtherStep
<1>7. CASE Engine!RuleApply
  BY <1>7, RuleApplyStep
<1>8. CASE Engine!LoadCatalog
  <2>1. ctx' = ctx
    BY <1>8 DEF Engine!LoadCatalog
  <2> QED BY <1>8, <2>1, LoadCatalogStep, OtherStep
<1>9. CASE Engine!EvalRule
  <2>1. ctx' = ctx
    BY <1>9 DEF Engine!EvalRule
  <2> QED BY <1>9, <2>1, EvalRuleStep, OtherStep
<1>10. CASE Engine!Evaluated
  <2>1. ctx' = ctx
    BY <1>10 DEF Engine!Evaluated
  <2> QED BY <1>10, <2>1, EvaluatedStep, OtherStep
<1>11. CASE Engine!AllEvaluated
  <2>1. ctx' = ctx
    BY <1>11 DEF Engine!AllEvaluated
  <2> QED BY <1>11, <2>1, AllEvaluatedStep, OtherStep
<1>12. CASE Engine!ExecuteAction
  BY <1>12, ExecuteActionStep
<1>13. CASE Engine!RuleDone
  <2>1. ctx' = ctx
    BY <1>13 DEF Engine!RuleDone
  <2> QED BY <1>13, <2>1, RuleDoneStep, OtherStep
<1>14. CASE UNCHANGED vars
  <2>1. UNCHANGED <<ctx, catalogs, loaded, pc, stack, ret, matched, act, result>>
    BY <1>14 DEF vars
  <2>2. TypeOK'
    BY <2>1 DEF IInv, TypeOK
  <2>3. StackInv'
    BY <2>1 DEF IInv, StackInv, TopInv, WaitInv
  <2>4. LoadInv' /\ ApplyInv' /\ NilInv' /\ CtxInv(ctx)'
    BY <2>1 DEF IInv, LoadInv, MatchInv, ApplyInv, NilInv
  <2> QED BY <2>1, <2>2, <2>3, <2>4, OtherStep DEF IInv
<1>15. Next <=> \/ Engine!ConditionFuncCheck \/ Engine!AnyCheck \/ Engine!AllCheck \/ Engine!NoneCheck
                \/ Engine!RuleEval \/ Engine!RuleNotMatched \/ Engine!RuleApply \/ Engine!LoadCatalog
                \/ Engine!EvalRule \/ Engine!Evaluated \/ Engine!AllEvaluated \/ Engine!ExecuteAction
                \/ Engine!RuleDone
  BY DEF Next, Engine!Next
<1> QED BY <1>1, <1>2, <1>3, <1>4, <1>5, <1>6, <1>7, <1>8, <1>9, <1>10, <1>11, <1>12, <1>13, <1>14, <1>15

\* Arguments of NewRuleCtx.
NewArgs(catalog, repo, change) ==
    /\ catalog \in {"ci", "e2e-repo", "infra-deployments"}
    /\ repo \in AllRepos \cup {"infra-deployments", ""}
    /\ change \in SUBSET (E2EFiles \cup InfraFiles)

\* What NewRuleCtx makes of its arguments.
New(x, catalog, repo, change) ==
    /\ x \in RuleCtxs
    /\ x.catalog = catalog /\ x.RepoName = repo /\ x.change = change /\ x.DiffFiles = {}
    /\ x.FocusFiles = {} /\ x.LabelFilter = NoFilter /\ x.runs = <<>>
    /\ x.RequiresMultiPlatformTests = FALSE /\ x.RequiresSprayProxyRegistering = FALSE

\* A new RuleCtx has the fields of its type, and no test was run with it.
LEMMA NewRuleCtxIs ==
    ASSUME NEW catalog, NEW repo, NEW change, NewArgs(catalog, repo, change)
    PROVE  New(NewRuleCtx(catalog, repo, change), catalog, repo, change)
<1> DEFINE x == NewRuleCtx(catalog, repo, change)
<1>1. NoFilter \in Filters
  BY LabelFacts
<1>2. <<>> \in Seq([focus : SUBSET E2EFiles, filter : Filters])
  BY EmptySeq
<1>3. x \in RuleCtxs
  <2>1. /\ FALSE \in BOOLEAN /\ 0 \in Nat /\ "none" \in AllRepos \cup {"none"}
        /\ {} \in SUBSET (E2EFiles \cup InfraFiles) /\ {} \in SUBSET E2EFiles
        /\ {} \in SUBSET ({"release-service", "infra-deployments"} \X BOOLEAN)
    OBVIOUS
  <2> QED BY <1>1, <1>2, <2>1, Zenon DEF RuleCtxs, NewRuleCtx, NewArgs
<1>4. /\ x.catalog = catalog /\ x.RepoName = repo /\ x.change = change /\ x.DiffFiles = {}
      /\ x.FocusFiles = {} /\ x.LabelFilter = NoFilter /\ x.runs = <<>>
      /\ x.RequiresMultiPlatformTests = FALSE /\ x.RequiresSprayProxyRegistering = FALSE
  BY Zenon DEF NewRuleCtx
<1> HIDE DEF x
<1>5. New(x, catalog, repo, change)
  BY <1>3, <1>4 DEF New
<1> QED BY <1>5, Zenon DEF x

\* A RuleCtx that RunRules or RunRulesOfCategory may be called with.
Fresh(x) ==
    /\ x \in RuleCtxs
    /\ x.runs = <<>> /\ x.FocusFiles = {} /\ x.LabelFilter = NoFilter
    /\ x.RequiresMultiPlatformTests = FALSE /\ x.RequiresSprayProxyRegistering = FALSE
    /\ x.catalog # "ci" => x.DiffFiles = x.change
    /\ x.catalog = "infra-deployments" => x.change \subseteq InfraFiles
    /\ x.catalog = "ci" <=> x.RepoName \in AllRepos

\* The engine starts with a new RuleCtx in the inductive invariant.
LEMMA FreshStart ==
    ASSUME NEW x, Fresh(x), NEW cs \in SUBSET CatalogNames(x), OwnName(x) \in cs, Engine!StartWith(x, cs)
    PROVE  IInv
<1>1. /\ ctx = x /\ catalogs = cs /\ loaded = <<>> /\ pc = "load" /\ stack = <<>> /\ ret = "none"
      /\ matched = <<>> /\ act = 1 /\ result = "none"
  BY DEF Engine!StartWith
<1>2. x.catalog \in {"ci", "e2e-repo", "infra-deployments"}
  BY Zenon DEF Fresh, RuleCtxs
<1>3. CtxInv(x)
  <2>1. ~x.RequiresMultiPlatformTests /\ ~x.RequiresSprayProxyRegistering
    BY Zenon DEF Fresh
  <2>2. RequiredOnly(x)
    BY <2>1, Zenon DEF RequiredOnly
  <2> QED BY <2>2 DEF Fresh, CtxInv
<1>4. TypeOK
  <2>1. cs \subseteq AllRepos \cup {"e2e-repo", "infra-deployments"}
    BY <1>2 DEF CatalogNames
  <2> QED BY <1>1, <2>1 DEF TypeOK, Fresh
<1>5. StackInv
  BY <1>1 DEF StackInv
<1>6. LoadInv
  <2>1. Matching(x, cs, <<>>, <<>>)
    BY DEF Matching
  <2>2. x.catalog = "ci" => Workflow(x)
    BY DEF Workflow, Fresh
  <2>3. x.catalog = "e2e-repo" => Stage(0, x)
    BY DEF Stage, Fresh
  <2>4. x.catalog = "infra-deployments" => Infra(x)
    <3>1. NoFilter.before = {} /\ NoFilter.only = {} /\ NoFilter.not = {}
      BY LabelFacts
    <3> QED BY <3>1 DEF Infra, Fresh
  <2> QED BY <1>1, <2>1, <2>2, <2>3, <2>4 DEF LoadInv, MatchInv
<1>7. ApplyInv /\ NilInv
  BY <1>1 DEF ApplyInv, NilInv
<1> QED BY <1>1, <1>3, <1>4, <1>5, <1>6, <1>7 DEF IInv

\* RunRules does.
LEMMA SelectionStarts ==
    ASSUME SelectionInit
    PROVE  IInv /\ ctx.catalog \in {"e2e-repo", "infra-deployments"}
<1>1. PICK catalog \in DOMAIN MaxDiff, dryRun \in BOOLEAN : \E diff \in Diffs(catalog) :
        Engine!StartWith(SelectionCtx(catalog, dryRun, diff), {catalog})
  BY Zenon DEF SelectionInit
<1>2. PICK diff \in Diffs(catalog) : Engine!StartWith(SelectionCtx(catalog, dryRun, diff), {catalog})
  BY <1>1
<1> DEFINE repo == IF catalog = "e2e-repo" THEN "" ELSE catalog
           y == NewRuleCtx(catalog, repo, diff)
           x == [y EXCEPT !.DryRun = dryRun, !.DiffFiles = diff]
<1>3. catalog \in {"e2e-repo", "infra-deployments"}
  BY MaxDiffAssumption
<1>4. diff \in SUBSET (E2EFiles \cup InfraFiles) /\ (catalog = "infra-deployments" => diff \subseteq InfraFiles)
  BY DEF Diffs, Files
<1>5. repo \in {"infra-deployments", ""} /\ repo \notin AllRepos
  BY <1>3 DEF AllRepos
<1>6. SelectionCtx(catalog, dryRun, diff) = x
  BY Zenon DEF SelectionCtx
<1> HIDE DEF repo
<1>7. /\ y \in RuleCtxs
      /\ y.catalog = catalog /\ y.RepoName = repo /\ y.change = diff
      /\ y.FocusFiles = {} /\ y.LabelFilter = NoFilter /\ y.runs = <<>>
      /\ y.RequiresMultiPlatformTests = FALSE /\ y.RequiresSprayProxyRegistering = FALSE
  <2>1. NewArgs(catalog, repo, diff)
    BY <1>3, <1>4, <1>5 DEF NewArgs
  <2>2. New(y, catalog, repo, diff)
    BY <2>1, NewRuleCtxIs, Zenon
  <2> HIDE DEF y
  <2> QED BY <2>2 DEF New
<1> HIDE DEF y
<1>8. /\ x \in RuleCtxs
      /\ x.catalog = catalog /\ x.RepoName = repo /\ x.change = diff /\ x.DiffFiles = diff
      /\ x.FocusFiles = {} /\ x.LabelFilter = NoFilter /\ x.runs = <<>>
      /\ x.RequiresMultiPlatformTests = FALSE /\ x.RequiresSprayProxyRegistering = FALSE
  <2>1. x \in RuleCtxs
    BY <1>4, <1>7, ZenonT(30) DEF RuleCtxs
  <2>2. x.DiffFiles = diff
    BY <1>7, Zenon DEF RuleCtxs
  <2>3. /\ x.catalog = y.catalog /\ x.RepoName = y.RepoName /\ x.change = y.change
        /\ x.FocusFiles = y.FocusFiles /\ x.LabelFilter = y.LabelFilter /\ x.runs = y.runs
    BY <1>7, Zenon DEF RuleCtxs
  <2>4. /\ x.RequiresMultiPlatformTests = y.RequiresMultiPlatformTests
        /\ x.RequiresSprayProxyRegistering = y.RequiresSprayProxyRegistering
    BY <1>7, Zenon DEF RuleCtxs
  <2> HIDE DEF x
  <2> QED BY <1>7, <2>1, <2>2, <2>3, <2>4
<1> HIDE DEF x
<1>9. Fresh(x)
  BY <1>3, <1>4, <1>5, <1>8 DEF Fresh
<1>10. CatalogNames(x) = {catalog} /\ OwnName(x) = catalog
  BY <1>3, <1>8 DEF CatalogNames, OwnName
<1>11. Engine!StartWith(x, {catalog})
  BY <1>2, <1>6
<1>12. IInv
  BY <1>9, <1>10, <1>11, FreshStart
<1> QED BY <1>3, <1>8, <1>11, <1>12 DEF Engine!StartWith

\* RunRulesOfCategory does.
LEMMA JobStarts ==
    ASSUME Init
    PROVE  IInv /\ ctx.catalog = "ci"
<1>1. PICK job \in Jobs, rehearse \in BOOLEAN : \E change \in Changes(job) :
        Engine!StartWith(RuleCtx(job, rehearse, change), job.catalogs)
  BY Zenon DEF Init
<1>2. PICK change \in Changes(job) : Engine!StartWith(RuleCtx(job, rehearse, change), job.catalogs)
  BY <1>1
<1> DEFINE repo == job.repo
           skip == job.skipBootstrap
           y == NewRuleCtx("ci", repo, change)
           x == [y EXCEPT !.rehearse = rehearse, !.skipBootstrap = skip]
<1>3. repo \in AllRepos /\ skip \in BOOLEAN /\ job.catalogs \in SUBSET AllRepos /\ repo \in job.catalogs
  BY JobsAssumption
<1>4. change \in SUBSET (E2EFiles \cup InfraFiles)
  BY DEF Changes
<1>6. RuleCtx(job, rehearse, change) = x
  BY Zenon DEF RuleCtx
<1> HIDE DEF repo, skip
<1>7. /\ y \in RuleCtxs
      /\ y.catalog = "ci" /\ y.RepoName = repo
      /\ y.FocusFiles = {} /\ y.LabelFilter = NoFilter /\ y.runs = <<>>
      /\ y.RequiresMultiPlatformTests = FALSE /\ y.RequiresSprayProxyRegistering = FALSE
  <2>1. NewArgs("ci", repo, change)
    BY <1>3, <1>4 DEF NewArgs
  <2>2. New(y, "ci", repo, change)
    BY <2>1, NewRuleCtxIs, Zenon
  <2> HIDE DEF y
  <2> QED BY <2>2 DEF New
<1> HIDE DEF y
<1>8. /\ x \in RuleCtxs
      /\ x.catalog = "ci" /\ x.RepoName = repo
      /\ x.FocusFiles = {} /\ x.LabelFilter = NoFilter /\ x.runs = <<>>
      /\ x.RequiresMultiPlatformTests = FALSE /\ x.RequiresSprayProxyRegistering = FALSE
  <2>1. x \in RuleCtxs
    BY <1>3, <1>7, ZenonT(30) DEF RuleCtxs
  <2>3. /\ x.catalog = y.catalog /\ x.RepoName = y.RepoName
        /\ x.FocusFiles = y.FocusFiles /\ x.LabelFilter = y.LabelFilter /\ x.runs = y.runs
    BY <1>7, Zenon DEF RuleCtxs
  <2>4. /\ x.RequiresMultiPlatformTests = y.RequiresMultiPlatformTests
        /\ x.RequiresSprayProxyRegistering = y.RequiresSprayProxyRegistering
    BY <1>7, Zenon DEF RuleCtxs
  <2> HIDE DEF x
  <2> QED BY <1>7, <2>1, <2>3, <2>4
<1> HIDE DEF x
<1>9. Fresh(x)
  BY <1>3, <1>8 DEF Fresh
<1>10. CatalogNames(x) = AllRepos /\ OwnName(x) = repo
  BY <1>8 DEF CatalogNames, OwnName
<1>11. Engine!StartWith(x, job.catalogs)
  BY <1>2, <1>6
<1>12. IInv
  BY <1>3, <1>9, <1>10, <1>11, FreshStart DEF repo
<1> QED BY <1>8, <1>11, <1>12 DEF Engine!StartWith

\* The specification is the one of TestSelection.
Preview == ctx.catalog \in {"e2e-repo", "infra-deployments"}

\* Tests are run once, if there is something to test.
LEMMA OneTestRun ==
    ASSUME IInv, Preview
    PROVE  ExactlyOneTestRun
<1> DEFINE k == Len(ctx.runs)
           nothing == ctx.catalog = "infra-deployments" /\ ctx.DiffFiles = {}
<1>1. ctx.runs \in Seq([focus : SUBSET E2EFiles, filter : Filters])
  BY Zenon DEF IInv, TypeOK, RuleCtxs
<1>2. k \in Nat /\ (ctx.runs = <<>> <=> k = 0)
  BY <1>1, EmptySeq
<1>3. ctx.runs # <<>> => k = 1 /\ ~nothing
  BY DEF IInv, Preview, CtxInv, SelectedRun, InfraRun
<1>4. result = "nil" /\ ~nothing => ctx.runs # <<>>
  <2>1. Empty(ctx) <=> ctx.DiffFiles = {}
    BY E2EHoldsIs DEF Empty
  <2> QED BY <2>1 DEF IInv, Preview, NilInv
<1>5. ExactlyOneTestRun <=> /\ k <= (IF nothing THEN 0 ELSE 1)
                            /\ result = "nil" /\ ~nothing => k = 1
  BY DEF ExactlyOneTestRun
<1> HIDE DEF k, nothing
<1>6. k <= (IF nothing THEN 0 ELSE 1) /\ (result = "nil" /\ ~nothing => k = 1)
  BY <1>2, <1>3, <1>4
<1> QED BY <1>5, <1>6

\* The changed spec files are selected.
LEMMA TestsSelected ==
    ASSUME IInv, Preview
    PROVE  ChangedTestsSelected
<1>1. ctx.runs \in Seq([focus : SUBSET E2EFiles, filter : Filters])
  BY Zenon DEF IInv, TypeOK, RuleCtxs
<1> SUFFICES ASSUME Len(ctx.runs) = 1, ~Changed(ctx, SharedFiles)
             PROVE  \A f \in ctx.DiffFiles \cap SpecFiles :
                      Selects(LastRun, f, IF f \in ReleasePipelines THEN {"release-pipelines"} ELSE {})
  BY DEF ChangedTestsSelected, SpecFiles
<1>2. ctx.runs # <<>> /\ LastRun = ctx.runs[1]
  <2>1. ctx.runs # <<>>
    BY EmptySeq
  <2>2. LastRun = ctx.runs[1]
    BY Zenon DEF LastRun
  <2> QED BY <2>1, <2>2
<1>3. CASE ctx.catalog = "e2e-repo"
  BY <1>2, <1>3 DEF IInv, CtxInv, SelectedRun
<1>4. CASE ctx.catalog = "infra-deployments"
  <2>1. ctx.DiffFiles \subseteq InfraFiles
    BY <1>4 DEF IInv, CtxInv
  <2>2. InfraFiles \cap SpecFiles = {}
    BY DEF InfraFiles, InfraComponents, BuildConfig, BuildConfigOther, SpecFiles, ReleaseTests,
           ReleasePipelines, DemoTests, IntegrationTests, EcFiles
  <2> QED BY <2>1, <2>2
<1> QED BY <1>3, <1>4 DEF Preview

\* The label filter names the suites of the changed components.
LEMMA ComponentsTested ==
    ASSUME IInv, Preview
    PROVE  ChangedComponentsTested
<1>1. ctx.runs \in Seq([focus : SUBSET E2EFiles, filter : Filters])
  BY Zenon DEF IInv, TypeOK, RuleCtxs
<1> SUFFICES ASSUME ctx.catalog = "infra-deployments", Len(ctx.runs) = 1
             PROVE  LastRun.filter = Filter({"konflux"} \cup Labels(ctx), {})
  BY DEF ChangedComponentsTested, Labels
<1>2. ctx.runs # <<>> /\ LastRun = ctx.runs[1]
  BY <1>1, EmptySeq DEF LastRun
<1> QED BY <1>2 DEF IInv, CtxInv, InfraRun

\* StablePairing of CIRules, as a predicate of the RuleCtx.
LEMMA StableIs ==
    StablePairing <=> Stable(ctx)
  BY DEF StablePairing, Stable, Asked

\* The tests of one workflow are run.
LEMMA OneWorkflow ==
    ASSUME IInv, ctx.catalog = "ci"
    PROVE  OneWorkflowPerJob
<1> DEFINE k == Len(ctx.runs)
           skipped == ctx.RepoName = "e2e-tests" /\ ctx.skipBootstrap
<1> SUFFICES ASSUME Stable(ctx)
             PROVE  k <= 1 /\ (result = "nil" /\ ~skipped => k = 1)
  BY StableIs DEF OneWorkflowPerJob
<1>1. ctx.runs \in Seq([focus : SUBSET E2EFiles, filter : Filters])
  BY Zenon DEF IInv, TypeOK, RuleCtxs
<1>2. k \in Nat /\ (ctx.runs = <<>> <=> k = 0)
  BY <1>1, EmptySeq
<1>3. ctx.runs # <<>> => k = 1
  BY DEF IInv, CtxInv, OneGoodRun, WorkflowRun
<1>4. result = "nil" /\ ~skipped => ctx.runs # <<>>
  BY DEF IInv, NilInv
<1> HIDE DEF k, skipped
<1> QED BY <1>2, <1>3, <1>4

\* A job runs the suite of its repository.
LEMMA OwnSuite ==
    ASSUME IInv, ctx.catalog = "ci"
    PROVE  RunsOwnSuite
<1> DEFINE Own(i) ==
             LET filter == ctx.runs[i].filter
                 paired == <<"release-service", TRUE>> \in ctx.asked
             IN CASE ctx.RepoName = "e2e-tests" ->
                       filter.before = {} /\ filter.only = {} /\ filter.not \cap Slow = {}
                  [] ctx.RepoName = "release-service-catalog" ->
                       /\ [filter EXCEPT !.not = {}] \in CatalogFilters
                       /\ filter.not = IF paired /\ ~ctx.rehearse THEN Slow ELSE {}
                  [] OTHER -> filter = Filter({ctx.RepoName}, {}) /\ ctx.runs[i].focus = {}
<1>1. ctx.runs \in Seq([focus : SUBSET E2EFiles, filter : Filters])
  BY Zenon DEF IInv, TypeOK, RuleCtxs
<1>2. ctx.RepoName \in AllRepos
  BY DEF IInv, CtxInv
<1>3. ASSUME Stable(ctx), NEW i \in 1..Len(ctx.runs)
      PROVE  Own(i)
  <2>1. ctx.runs # <<>>
    BY <1>1, <1>3, EmptySeq
  <2>2. Len(ctx.runs) = 1 => i = 1
    BY <1>3
  <2>3. CASE ctx.RepoName = "e2e-tests"
    <3>1. OneGoodRun(ctx)
      BY <2>1, <2>3 DEF IInv, CtxInv
    <3>2. /\ ctx.runs[i].filter.before = {} /\ ctx.runs[i].filter.only = {}
          /\ ctx.runs[i].filter.not \cap Slow = {}
      BY <2>2, <3>1 DEF OneGoodRun, GoodRun
    <3> QED BY <2>3, <3>2, Zenon
  <2>4. CASE ctx.RepoName = "release-service-catalog"
    <3>1. WorkflowRun(ctx)
      BY <1>2, <1>3, <2>1, <2>4 DEF IInv, CtxInv
    <3>2. Paired(ctx) <=> <<"release-service", TRUE>> \in ctx.asked /\ ~ctx.rehearse
      BY DEF Paired, Asked
    <3>3. CatalogRun(ctx.runs[i].filter, ctx)
      BY <2>2, <2>4, <3>1 DEF WorkflowRun
    <3>4. /\ [ctx.runs[i].filter EXCEPT !.not = {}] \in CatalogFilters
          /\ ctx.runs[i].filter.not =
               IF <<"release-service", TRUE>> \in ctx.asked /\ ~ctx.rehearse THEN Slow ELSE {}
      BY <3>2, <3>3 DEF CatalogRun
    <3>5. ctx.RepoName # "e2e-tests"
      BY <2>4
    <3> QED BY <2>4, <3>4, <3>5, Zenon
  <2>5. CASE ctx.RepoName \in Services
    <3>1. WorkflowRun(ctx)
      BY <1>2, <1>3, <2>1, <2>5 DEF IInv, CtxInv, Services
    <3>2. ctx.runs[i].filter = Filter({ctx.RepoName}, {}) /\ ctx.runs[i].focus = {}
      BY <2>2, <2>5, <3>1 DEF WorkflowRun
    <3>3. ctx.RepoName # "e2e-tests" /\ ctx.RepoName # "release-service-catalog"
      BY <2>5 DEF Services
    <3> QED BY <3>2, <3>3, Zenon
  <2> QED BY <1>2, <2>3, <2>4, <2>5 DEF Services
<1>4. RunsOwnSuite <=> (StablePairing => \A i \in 1..Len(ctx.runs) : Own(i))
  BY Zenon DEF RunsOwnSuite
<1> HIDE DEF Own
<1> QED BY <1>3, <1>4, StableIs

\* The tests that the change of this repository affects are run.
LEMMA AffectedSelected ==
    ASSUME IInv, ctx.catalog = "ci"
    PROVE  AffectedTestsSelected
<1>1. ctx.runs \in Seq([focus : SUBSET E2EFiles, filter : Filters])
  BY Zenon DEF IInv, TypeOK, RuleCtxs
<1>2. ASSUME ctx.RepoName = "e2e-tests", NEW i \in 1..Len(ctx.runs)
      PROVE  GoodRun(ctx.runs[i], ctx)
  <2>1. ctx.runs # <<>>
    BY <1>1, <1>2, EmptySeq
  <2>2. OneGoodRun(ctx)
    BY <1>2, <2>1 DEF IInv, CtxInv
  <2>3. i = 1
    BY <1>2, <2>2 DEF OneGoodRun
  <2> QED BY <2>2, <2>3 DEF OneGoodRun
<1> QED BY <1>2, Zenon DEF AffectedTestsSelected, GoodRun, SpecFiles

\* A step that runs tests finds a prepared cluster.
LEMMA PreparedStep ==
    ASSUME IInv, ctx.catalog = "ci", StepOK(ctx, ctx'), Len(ctx'.runs) > Len(ctx.runs)
    PROVE  /\ ctx.ginkgo
           /\ ctx.skipBootstrap \/
                /\ ctx.installs > 0
                /\ ctx.RequiresSprayProxyRegistering => ctx.registered \/ ctx.skipPac
                /\ ctx.RequiresMultiPlatformTests => ctx.multiPlatform
           /\ ctx.RepoName \notin {"e2e-tests", "release-service-catalog"} =>
                ctx.imageOf = ctx.RepoName
<1>1. ctx'.runs # ctx.runs
  <2>1. ctx.runs \in Seq([focus : SUBSET E2EFiles, filter : Filters])
    BY Zenon DEF IInv, TypeOK, RuleCtxs
  <2>2. Len(ctx.runs) \in Nat
    BY <2>1
  <2> QED BY <2>2
<1>2. Prepared(ctx)
  BY <1>1 DEF StepOK
<1>3. ctx.RepoName \in AllRepos /\ RequiredOnly(ctx)
  BY DEF IInv, CtxInv
<1>4. ASSUME ~ctx.skipBootstrap
      PROVE  /\ ctx.installs > 0
             /\ ctx.RequiresSprayProxyRegistering => ctx.registered \/ ctx.skipPac
             /\ ctx.RequiresMultiPlatformTests => ctx.multiPlatform
  <2>1. Booted(BootOf(ctx.RepoName).name, ctx)
    BY <1>2, <1>4 DEF Prepared
  <2>2. ctx.installs > 0
    BY <2>1 DEF Booted
  <2>3. ctx.RequiresSprayProxyRegistering => Reachable(ctx)
    <3>1. ctx.RequiresSprayProxyRegistering => ctx.RepoName \notin {"release-service", "release-service-catalog"}
      BY <1>3 DEF RequiredOnly
    <3>2. ctx.RepoName \notin {"release-service", "release-service-catalog"}
            => BootOf(ctx.RepoName).name # "InstallKonflux"
      BY <1>3, BootNames DEF Services
    <3> QED BY <2>1, <3>1, <3>2 DEF Booted
  <2>4. ctx.RequiresMultiPlatformTests => ctx.multiPlatform
    BY <1>3, <2>1, BootNames DEF Booted, RequiredOnly
  <2> QED BY <2>2, <2>3, <2>4 DEF Reachable
<1> QED BY <1>2, <1>4 DEF Prepared

-----------------------------------------------------------------------------
(* Theorems.                                                               *)

\* The inductive invariant of TestSelection.
SelectionInv == IInv /\ Preview

\* The inductive invariant of CIRules.
JobInv == IInv /\ ctx.catalog = "ci"

\* The inductive invariant holds during RunRules.
LEMMA SelectionInvHolds == SelectionSpec => []SelectionInv
<1>1. SelectionInit => SelectionInv
  BY SelectionStarts DEF SelectionInv, Preview
<1>2. SelectionInv /\ [Next]_vars => SelectionInv'
  BY NextStep DEF SelectionInv, Preview, StepOK
<1> QED BY <1>1, <1>2, PTL DEF SelectionSpec

\* It holds during RunRulesOfCategory.
LEMMA JobInvHolds == Spec => []JobInv
<1>1. Init => JobInv
  BY JobStarts DEF JobInv
<1>2. JobInv /\ [Next]_vars => JobInv'
  BY NextStep DEF JobInv, StepOK
<1> QED BY <1>1, <1>2, PTL DEF Spec

\* Type correctness of RunRules(rctx, "tests", catalog): the RuleCtx, the call stack
\* of the nested Check calls and the loop of the engine keep their types, whatever
\* files changed.
THEOREM SelectionTypeCorrect == SelectionSpec => []TypeOK
<1>1. SelectionInv => TypeOK
  BY DEF SelectionInv, IInv
<1> QED BY <1>1, SelectionInvHolds, PTL

\* For every change, RunRules starts ginkgo at most once and, when it returns nil,
\* exactly once (never for an empty change to infra-deployments): exactly one rule
\* of the catalog applies, although the conditions change the RuleCtx that the
\* following ones read.
THEOREM SelectionRunsOnce == SelectionSpec => []ExactlyOneTestRun
<1>1. SelectionInv => ExactlyOneTestRun
  BY OneTestRun DEF SelectionInv
<1> QED BY <1>1, SelectionInvHolds, PTL

\* For every change of test files only, the ginkgo run of RunRules selects each
\* changed spec file of the release, demo, integration and enterprise contract
\* suites: no mapping rule of rulesengine/repos drops the focus of another.
THEOREM SelectionFindsTests == SelectionSpec => []ChangedTestsSelected
<1>1. SelectionInv => ChangedTestsSelected
  BY TestsSelected DEF SelectionInv
<1> QED BY <1>1, SelectionInvHolds, PTL

\* For every change to infra-deployments, the label filter of the run has the labels
\* of exactly the changed components and konflux, also where the label of one
\* component contains that of another.
THEOREM SelectionFindsComponents == SelectionSpec => []ChangedComponentsTested
<1>1. SelectionInv => ChangedComponentsTested
  BY ComponentsTested DEF SelectionInv
<1> QED BY <1>1, SelectionInvHolds, PTL

\* Type correctness of RunRulesOfCategory("ci", rctx), for every set of jobs.
THEOREM JobTypeCorrect == Spec => []TypeOK
<1>1. JobInv => TypeOK
  BY DEF JobInv, IInv
<1> QED BY <1>1, JobInvHolds, PTL

\* For every set of jobs, and whatever order the map of catalogs yields the
\* workflows in: a job runs the tests of one workflow, once, unless GitHub answered
\* the pairing question in two ways; if RunRulesOfCategory returns nil they were
\* run, but for this repository with SKIP_BOOTSTRAP.
THEOREM JobRunsOneWorkflow == Spec => []OneWorkflowPerJob
<1>1. JobInv => OneWorkflowPerJob
  BY OneWorkflow DEF JobInv
<1> QED BY <1>1, JobInvHolds, PTL

\* For every set of jobs: the label filter of the run is that of the repository
\* under test, no setting of another repository, whose rules are evaluated on the
\* same RuleCtx, reaches it; a paired release-service-catalog job, and only that,
\* excludes the slow tests.
THEOREM JobRunsOwnSuite == Spec => []RunsOwnSuite
<1>1. JobInv => RunsOwnSuite
  BY OwnSuite DEF JobInv
<1> QED BY <1>1, JobInvHolds, PTL

\* For every set of jobs and every change to this repository: shared code runs all
\* suites, and every changed spec file is selected.
THEOREM JobRunsAffectedTests == Spec => []AffectedTestsSelected
<1>1. JobInv => AffectedTestsSelected
  BY AffectedSelected DEF JobInv
<1> QED BY <1>1, JobInvHolds, PTL

\* For every set of jobs: no step of the engine starts ginkgo before ginkgo is
\* installed, the workflow has bootstrapped the cluster as far as it asks for (or
\* SKIP_BOOTSTRAP is set) and the image of the service is deployed.
THEOREM JobPreparesCluster == Spec => TestsOnPreparedCluster
<1>1. JobInv /\ [Next]_vars =>
        [Len(ctx'.runs) > Len(ctx.runs) =>
           /\ ctx.ginkgo
           /\ ctx.skipBootstrap \/
                /\ ctx.installs > 0
                /\ ctx.RequiresSprayProxyRegistering => ctx.registered \/ ctx.skipPac
                /\ ctx.RequiresMultiPlatformTests => ctx.multiPlatform
           /\ ctx.RepoName \notin {"e2e-tests", "release-service-catalog"} =>
                ctx.imageOf = ctx.RepoName]_vars
  <2> SUFFICES ASSUME JobInv, [Next]_vars, Len(ctx'.runs) > Len(ctx.runs)
               PROVE  /\ ctx.ginkgo
                      /\ ctx.skipBootstrap \/
                           /\ ctx.installs > 0
                           /\ ctx.RequiresSprayProxyRegistering => ctx.registered \/ ctx.skipPac
                           /\ ctx.RequiresMultiPlatformTests => ctx.multiPlatform
                      /\ ctx.RepoName \notin {"e2e-tests", "release-service-catalog"} =>
                           ctx.imageOf = ctx.RepoName
    OBVIOUS
  <2>1. StepOK(ctx, ctx')
    BY NextStep DEF JobInv
  <2> QED BY <2>1, PreparedStep DEF JobInv
<1> QED BY <1>1, JobInvHolds, PTL DEF Spec, TestsOnPreparedCluster
=============================================================================
