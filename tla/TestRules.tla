----------------------------- MODULE TestRules -----------------------------
(***************************************************************************)
(* The test selection rules of magefiles/rulesengine/repos: e2e_repo.go    *)
(* for pull requests to this repository and infra_deployments.go for pull  *)
(* requests to infra-deployments.  A changed file is a representative of   *)
(* the paths the conditions tell apart; a file in E2EFiles stands for all  *)
(* the paths that match the same globs.                                    *)
(*                                                                         *)
(* The RuleCtx is a record with at least the fields DryRun, DiffFiles,     *)
(* FocusFiles, LabelFilter and runs, the ginkgo runs made so far.          *)
(***************************************************************************)
EXTENDS RuleTrees, FiniteSets

\* A ginkgo label filter: "a,b" selects specs with one of the labels in only
\* (all specs if there is none), "!a && !b" excludes the labels in not.  && binds
\* tighter than ||: in "a||b||c && !d" the exclusion is one of the last
\* alternative only, {c}; the labels before it, {a, b}, select regardless of it.
Filter(only, not) == [before |-> {}, only |-> only, not |-> not]

NoFilter == Filter({}, {})

\* ginkgo runs the specs of a file with these labels.
Selects(run, file, labels) ==
    /\ run.focus = {} \/ file \in run.focus
    /\ \/ run.filter.before \cap labels # {}
       \/ /\ run.filter.only = {} \/ run.filter.only \cap labels # {}
          /\ run.filter.not \cap labels = {}

\* ExecuteTestAction: GINKGO_PROCS may be no number; then ginkgo runs the
\* tests, in ginkgo's own dry-run mode if rctx.DryRun, and they may fail.
ExecuteTestAction(x) ==
    LET ran == [x EXCEPT !.runs = Append(@, [focus |-> x.FocusFiles,
                                             filter |-> x.LabelFilter])]
    IN {Succeeds(ran), Fails(ran)} \cup (IF x.DryRun THEN {} ELSE {Fails(x)})

-----------------------------------------------------------------------------
(* e2e_repo.go: paths.                                                     *)

SharedFiles == {"pkg/a.go", "magefiles/a.go", "cmd/a.go", ".tekton/a.yaml"}

BuildFiles ==      \* tests/build/*.go
    {"build/build_templates.go", "build/pac_build.go", "build/const.go",
     "build/build_templates_scenarios.go", "build/source_build.go"}

ReleaseHelpers == {"release/releaseLib.go"}                \* tests/release/*.go
ReleasePipelines == {"release/pipelines/fbc_release.go"}   \* tests/release/pipelines/**/*.go
ReleaseTests == ReleasePipelines \cup {"release/service/happy_path.go"}  \* tests/release/*/*.go

DemoTests == {"konflux-demo/konflux-demo.go"}              \* tests/*-demo/*-demo.go
DemoFiles == DemoTests \cup {"konflux-demo/const.go"}      \* tests/*-demo/*.go
DemoConfigs == {"konflux-demo/config/types.go"}            \* tests/*-demo/*/*

IntegrationTests == {"integration-service/integration.go"}
IntegrationConsts == {"integration-service/const.go"}
IntegrationFiles == IntegrationTests \cup IntegrationConsts  \* tests/integration-*/*.go

EcFiles == {"enterprise-contract/contract.go"}             \* tests/enterprise-*/*.go

\* Files no condition mentions.
OtherFiles == {"tests/upgrade/a.go", "docs/a.md"}

E2EFiles == SharedFiles \cup BuildFiles \cup ReleaseHelpers \cup ReleaseTests
            \cup DemoFiles \cup DemoConfigs \cup IntegrationFiles \cup EcFiles
            \cup OtherFiles

Changed(x, files) == x.DiffFiles \cap files # {}

\* The ConditionFuncs of e2e_repo.go.
E2EConditions ==
    {"CheckNoFilesChanged", "CheckSharedFilesChanged",
     "CheckReleasePipelinesTestsChanged", "BuildTestsOnly", "BuildTemplateDependents",
     "BuildConst", "ReleaseTests", "ReleaseHelpersOnly", "DemoFiles", "DemoConfigsOnly",
     "IntegrationConst", "IntegrationFiles", "EcFiles"}

E2EHolds(c, x) ==
    CASE c = "CheckNoFilesChanged" -> x.DiffFiles = {}
      [] c = "CheckSharedFilesChanged" -> Changed(x, SharedFiles)
      [] c = "CheckReleasePipelinesTestsChanged" -> Changed(x, ReleasePipelines)
      [] c = "BuildTestsOnly" ->
            ~Changed(x, {"build/build_templates_scenarios.go", "build/const.go",
                         "build/source_build.go"})
      [] c = "BuildTemplateDependents" ->
            Changed(x, {"build/build_templates_scenarios.go", "build/source_build.go"})
      [] c = "BuildConst" -> Changed(x, {"build/const.go"})
      [] c = "ReleaseTests" -> Changed(x, ReleaseTests)
      [] c = "ReleaseHelpersOnly" -> Changed(x, ReleaseHelpers) /\ ~Changed(x, ReleaseTests)
      [] c = "DemoFiles" -> Changed(x, DemoFiles)
      [] c = "DemoConfigsOnly" -> ~Changed(x, DemoFiles) /\ Changed(x, DemoConfigs)
      [] c = "IntegrationConst" -> Changed(x, IntegrationConsts)
      [] c = "IntegrationFiles" -> Changed(x, IntegrationFiles)
      [] c = "EcFiles" -> Changed(x, EcFiles)

\* The ActionFuncs that map changed files to focus files: what they add.
\* The ones that read the checkout with filepath.Glob add all files there.
MappedFiles(a, x) ==
    CASE a = "MapBuildTests" -> x.DiffFiles \cap BuildFiles
      [] a = "MapBuildTemplates" -> {"build/build_templates.go"}
      [] a = "MapChangedBuildTests" ->
            x.DiffFiles \cap {"build/build_templates.go", "build/pac_build.go"}
      [] a = "MapReleaseTests" -> x.DiffFiles \cap ReleaseTests
      [] a = "MapAllReleaseTests" -> ReleaseTests
      [] a = "MapDemoTests" -> x.DiffFiles \cap DemoTests
      [] a = "MapAllDemoTests" -> DemoTests
      [] a = "MapIntegrationTests" -> x.DiffFiles \cap IntegrationTests
      [] a = "MapAllIntegrationTests" -> IntegrationTests
      [] a = "MapEcTests" -> x.DiffFiles \cap EcFiles

Mappings ==
    {"MapBuildTests", "MapBuildTemplates", "MapChangedBuildTests", "MapReleaseTests",
     "MapAllReleaseTests", "MapDemoTests", "MapAllDemoTests", "MapIntegrationTests",
     "MapAllIntegrationTests", "MapEcTests"}

Upgrades == {"upgrade", "disaster-recovery"}

ExecuteDefaultTestAction(x) ==
    ExecuteTestAction([x EXCEPT !.LabelFilter = Filter({}, Upgrades \cup {"release-pipelines"})])

ExecuteAllTestsExceptUpgradeTestSuite(x) ==
    ExecuteTestAction([x EXCEPT !.LabelFilter = Filter({}, Upgrades)])

-----------------------------------------------------------------------------
(* e2e_repo.go: rules.                                                     *)

\* Mutant: the empty change is forgotten.
NonTestFilesRuleNoEmpty ==
    Rule("NonTestFiles",
         All("NonTestFiles",
             <<ConditionFunc("CheckSharedFilesChanged"),
               None("NonTestFiles", <<ConditionFunc("CheckReleasePipelinesTestsChanged")>>)>>),
         <<"ExecuteDefaultTestAction">>)

\* CheckPkgFilesChanged, CheckMageFilesChanged, CheckCmdFilesChanged and
\* CheckTektonFilesChanged always come together: one condition stands for them.
NonTestFilesRule ==
    Rule("NonTestFiles",
         All("NonTestFiles",
             <<Any("NonTestFiles", <<ConditionFunc("CheckSharedFilesChanged"),
                                     ConditionFunc("CheckNoFilesChanged")>>),
               None("NonTestFiles", <<ConditionFunc("CheckReleasePipelinesTestsChanged")>>)>>),
         <<"ExecuteDefaultTestAction">>)

ReleaseTestHelperFilesChangeOnlyRule ==
    Rule("ReleaseTestHelperFilesChangeOnly", ConditionFunc("ReleaseHelpersOnly"),
         <<"MapAllReleaseTests">>)

NonTestFilesRuleWithReleasePipelines ==
    Rule("NonTestFilesWithReleasePipelines",
         All("NonTestFilesWithReleasePipelines",
             <<Any("NonTestFilesWithReleasePipelines",
                   <<ConditionFunc("CheckSharedFilesChanged"),
                     ReleaseTestHelperFilesChangeOnlyRule>>),
               ConditionFunc("CheckReleasePipelinesTestsChanged")>>),
         <<"ExecuteAllTestsExceptUpgradeTestSuite">>)

BuildORBuildTemplatesTestFileChangeOnlyRule ==
    Rule("BuildTests", ConditionFunc("BuildTestsOnly"), <<"MapBuildTests">>)

BuildTemplateDependentFileChangeRule ==
    Rule("BuildTemplateDependents", ConditionFunc("BuildTemplateDependents"),
         <<"MapBuildTemplates">>)

BuildNonTestFileChangeRule ==
    Rule("BuildConst", ConditionFunc("BuildConst"), <<"MapChangedBuildTests">>)

ReleaseTestTestFilesChangeRule ==
    Rule("ReleaseTests", ConditionFunc("ReleaseTests"), <<"MapReleaseTests">>)

KonfluxDemoTestFileChangedRule ==
    Rule("DemoTests", ConditionFunc("DemoFiles"), <<"MapDemoTests">>)

KonfluxDemoConfigsFileOnlyChangeRule ==
    Rule("DemoConfigs", ConditionFunc("DemoConfigsOnly"), <<"MapAllDemoTests">>)

IntegrationTestsFileChangeRule ==
    Rule("IntegrationTests", ConditionFunc("IntegrationFiles"), <<"MapIntegrationTests">>)

IntegrationTestsConstFileChangeRule ==
    Rule("IntegrationConst", ConditionFunc("IntegrationConst"), <<"MapAllIntegrationTests">>)

EcTestFileChangeRule == Rule("EcTests", ConditionFunc("EcFiles"), <<"MapEcTests">>)

\* Mutant: a suite is left out.
TestFilesOnlyRuleNoEc ==
    Rule("TestFilesOnly",
         All("TestFilesOnly",
             <<None("TestFilesOnly", <<ConditionFunc("CheckSharedFilesChanged"),
                                       ConditionFunc("CheckNoFilesChanged")>>),
               Any("TestFilesOnly",
                   <<BuildORBuildTemplatesTestFileChangeOnlyRule,
                     BuildTemplateDependentFileChangeRule,
                     BuildNonTestFileChangeRule,
                     KonfluxDemoConfigsFileOnlyChangeRule,
                     KonfluxDemoTestFileChangedRule,
                     ReleaseTestTestFilesChangeRule,
                     IntegrationTestsConstFileChangeRule,
                     IntegrationTestsFileChangeRule>>)>>),
         <<"ExecuteTestAction">>)

TestFilesOnlyRule ==
    Rule("TestFilesOnly",
         All("TestFilesOnly",
             <<None("TestFilesOnly", <<ConditionFunc("CheckSharedFilesChanged"),
                                       ConditionFunc("CheckNoFilesChanged")>>),
               Any("TestFilesOnly",
                   <<BuildORBuildTemplatesTestFileChangeOnlyRule,
                     BuildTemplateDependentFileChangeRule,
                     BuildNonTestFileChangeRule,
                     KonfluxDemoConfigsFileOnlyChangeRule,
                     KonfluxDemoTestFileChangedRule,
                     ReleaseTestTestFilesChangeRule,
                     IntegrationTestsConstFileChangeRule,
                     IntegrationTestsFileChangeRule,
                     EcTestFileChangeRule>>)>>),
         <<"ExecuteTestAction">>)

E2ETestRulesCatalog ==
    <<NonTestFilesRule, NonTestFilesRuleWithReleasePipelines, TestFilesOnlyRule>>

-----------------------------------------------------------------------------
(* infra_deployments.go.  A file is named after its component.             *)

BuildConfig == "components/build-service/base/build-pipeline-config/build-pipeline-config.yaml"
BuildConfigOther == "components/build-service/base/build-pipeline-config/kustomization.yaml"

InfraComponents ==
    {"components/integration", "components/image-controller",
     "components/multi-platform-controller", "components/build-service",
     "components/release", "components/enterprise-contract",
     "components/jvm-build-service", "components/pipeline-service"}

InfraFiles == InfraComponents \cup {BuildConfig, BuildConfigOther, "argo-cd-apps"}

InfraConditions == InfraComponents \cup {"build-pipeline-config"}

\* The label each component-change rule adds.
LabelOf(c) ==
    CASE c = "components/integration" -> "integration-service"
      [] c = "components/image-controller" -> "image-controller"
      [] c = "components/multi-platform-controller" -> "multi-platform"
      [] c = "build-pipeline-config" -> "build-templates"
      [] c = "components/build-service" -> "build-service"
      [] c = "components/release" -> "release-service"
      [] c = "components/enterprise-contract" -> "ec"
      [] c = "components/jvm-build-service" -> "jvm-build-service"
      [] c = "components/pipeline-service" -> "pipeline-service"

\* The build-service rule compares the number of files changed in its
\* directory with the number changed in build-pipeline-config.
InfraHolds(c, x) ==
    LET config == {BuildConfig, BuildConfigOther}
    IN CASE c = "build-pipeline-config" -> BuildConfig \in x.DiffFiles
         [] c = "components/build-service" ->
              Cardinality(x.DiffFiles \cap (config \cup {c}))
                > Cardinality(x.DiffFiles \cap config)
         [] OTHER -> c \in x.DiffFiles

\* AddLabelToLabelFilter: the label is left out if the filter contains it as
\* a substring, and of the labels only build-service is part of another one.
Contains(only, label) ==
    label \in only \/ (label = "build-service" /\ "jvm-build-service" \in only)

AddLabelToLabelFilter(x, label) ==
    IF Contains(x.LabelFilter.only, label) THEN x
    ELSE [x EXCEPT !.LabelFilter.only = @ \cup {label}]

ComponentChangeRule(c) == Rule(c, ConditionFunc(c), <<c>>)

InfraDeploymentsDefaultRule ==
    Rule("InfraDeploymentsDefault",
         None("InfraDeploymentsDefault",
             <<ComponentChangeRule("components/integration"),
               ComponentChangeRule("components/image-controller"),
               ComponentChangeRule("components/multi-platform-controller"),
               ComponentChangeRule("build-pipeline-config"),
               ComponentChangeRule("components/build-service"),
               ComponentChangeRule("components/release"),
               ComponentChangeRule("components/enterprise-contract"),
               ComponentChangeRule("components/jvm-build-service"),
               ComponentChangeRule("components/pipeline-service"),
               ConditionFunc("CheckNoFilesChanged")>>),
         <<"ExecuteInfraDeploymentsDefaultTestAction">>)

\* Mutant: jvm-build-service is looked at first.
InfraDeploymentsComponentsRuleJvmFirst ==
    Rule("InfraDeploymentsComponents",
         Any("InfraDeploymentsComponents",
             <<ComponentChangeRule("components/jvm-build-service"),
               ComponentChangeRule("components/integration"),
               ComponentChangeRule("components/image-controller"),
               ComponentChangeRule("components/multi-platform-controller"),
               ComponentChangeRule("build-pipeline-config"),
               ComponentChangeRule("components/build-service"),
               ComponentChangeRule("components/release"),
               ComponentChangeRule("components/enterprise-contract"),
               ComponentChangeRule("components/pipeline-service")>>),
         <<"AddKonfluxLabel", "ExecuteTestAction">>)

InfraDeploymentsComponentsRule ==
    Rule("InfraDeploymentsComponents",
         Any("InfraDeploymentsComponents",
             <<ComponentChangeRule("components/integration"),
               ComponentChangeRule("components/image-controller"),
               ComponentChangeRule("components/multi-platform-controller"),
               ComponentChangeRule("build-pipeline-config"),
               ComponentChangeRule("components/build-service"),
               ComponentChangeRule("components/release"),
               ComponentChangeRule("components/enterprise-contract"),
               ComponentChangeRule("components/pipeline-service"),
               ComponentChangeRule("components/jvm-build-service")>>),
         <<"AddKonfluxLabel", "ExecuteTestAction">>)

InfraDeploymentsRulesCatalog ==
    <<InfraDeploymentsDefaultRule, InfraDeploymentsComponentsRule>>

-----------------------------------------------------------------------------
(* The outcomes of the ConditionFuncs and ActionFuncs above.               *)

CheckTests(c, x) ==
    IF c \in E2EConditions THEN {Answer(E2EHolds(c, x), x)}
                           ELSE {Answer(InfraHolds(c, x), x)}

\* dedupeAppendFiles: a set of focus files.
ExecuteTests(a, x) ==
    CASE a \in Mappings ->
            {Succeeds([x EXCEPT !.FocusFiles = @ \cup MappedFiles(a, x)])}
      [] a \in InfraConditions -> {Succeeds(AddLabelToLabelFilter(x, LabelOf(a)))}
      [] a = "AddKonfluxLabel" -> {Succeeds(AddLabelToLabelFilter(x, "konflux"))}
      [] a = "ExecuteTestAction" -> ExecuteTestAction(x)
      [] a = "ExecuteDefaultTestAction" -> ExecuteDefaultTestAction(x)
      [] a = "ExecuteAllTestsExceptUpgradeTestSuite" ->
            ExecuteAllTestsExceptUpgradeTestSuite(x)
      [] a = "ExecuteInfraDeploymentsDefaultTestAction" ->
            ExecuteTestAction([x EXCEPT !.LabelFilter = Filter({"konflux"}, {})])
=============================================================================
