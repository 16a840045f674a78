# konflux-ci/e2e-tests: TLA+ models

This directory holds TLA+ models of the parts of `konflux-ci/e2e-tests` that
decide something: when a test waits, gives up or tries again, which tests a CI
job runs and on what cluster, and what the cleanup jobs delete. The modules are
checked with TLC on small instances (`*.cfg`), and their safety properties are
proved with TLAPS for every value of the constants (`*Proofs.tla`, section 5). `PROJECT.json` lists the runs, the source
lines every definition stands for, the mutants, the hazards and the theorems.

## 1. Inventory

The repository is a test harness. It has no server of its own: its programs are
the mage targets (`magefiles/`), which a CI job runs once and in order, and the
ginkgo processes (`tests/`), which run in parallel and drive a Konflux cluster
through clients (`pkg/clients`). What is hard about it is that the cluster, the
git providers, Quay and other jobs act between any two of its requests, that its
waits have several nested deadlines, and that almost every request may fail.

| Component | State | Operations | Hard behaviour | What makes it correct |
|---|---|---|---|---|
| Component pipeline wait, `pkg/clients/has/components.go` | the attempt, the copy of the PipelineRun, the sha and event filter, two deadlines | poll, decide, remove finalizer, delete, retrigger (GitHub, GitLab, Forgejo, annotation), await the new run | deleted runs stay listed, stale copies, timeout against late success, event type changes, foreign pushes | judges fresh runs only, stays in its budget, deletes only what it may, success is real, returns |
| Rule engine, `magefiles/rulesengine/types.go` | the RuleCtx, the matched rules, the Go call stack | RunRules, RunRulesOfCategory, Check of Any/All/None/Rule, run, dryRun | conditions have side effects; map order; errors half-way | every job gets the effects of one workflow |
| Test selection rules, `rulesengine/repos/e2e_repo.go`, `infra_deployments.go` | changed files, focus files, label filter | rules of two catalogs | the rules overlap and change the context they test | one ginkgo run that covers the change |
| CI workflow rules, `rulesengine/repos/*.go` | environment, cluster preparation, pairing answers | rules of six repositories | GitHub is asked several times; steps fail | tests only on a prepared cluster, own suite only |
| Quay tag cleanup, `magefiles/utils.go` | listed tags, ten workers, errors | list pages, delete tags in parallel | pages shift, pushes, failed pages and deletions | each tag handled once, young tags kept, ends |
| Cleanups, `magefiles/magefile.go`, `magefiles/utils.go` | the repositories, webhooks and robots of an account | list, filter by name and age, delete one by one | somebody else deletes too; an error warns, stops or is collected | nil means that all is deleted; what a dead suite left goes |
| Mage targets, `magefiles/magefile.go` | environment, global variables, RuleCtx, clone of infra-deployments | CI.TestE2E, Bootstrap, Local targets, SprayProxy registration and cleanup | a bootstrap is repeated on what the first attempt left; GitHub's answers change | the cluster runs what the environment names; no Pipelines-as-Code tests without registration |
| Installation and upgrade, `magefiles/installation`, `magefiles/upgrade` | ClusterVersion, Argo CD Applications, the preview branch | install, poll operators, merge, upgrade OpenShift | status lags behind, substring comparison, a loop without timeout | success means the new version; ready means all were; ends |
| Test namespaces, `pkg/clients/common/namespace.go` | a namespace, its labels, service account, role binding | get, create, relabel, wait, delete | parallel ginkgo processes use the same name, others edit the labels | no label lost, usable when the call returns, gone when deleted |
| Integration, release and Tekton clients, `pkg/clients/integration`, `release`, `tekton` | PipelineRuns, Snapshots, Releases found by labels | nested waits, creation of runs and releases, deletion with finalizers | inner waits longer than outer ones, several runs match | what was released is what was tested; deleted means gone |
| Git clients, `pkg/clients/git`, `github`, `gitlab`, `forgejo`, and the transport, `pkg/utils/retry_transport.go` | a fork, its branch, pull request, check run, webhooks | fork, branch, open, check, merge or close, delete | answers are lost and requests repeated, imports are slow, cleanups run beside | a fork that was returned is usable, a reported merge happened |
| Sandbox users, `pkg/sandbox`, framework on stage, `pkg/framework` | UserSignups, Spaces, Keycloak accounts, kubeconfig files | register, ban, deactivate, delete, attempts of the framework | users and files are shared, tokens expire, updates conflict | a user that was returned can log in; a deactivation happened; calls end |
| HAS client (rest), disaster recovery suite, utilities, test suites | - | single requests, string handling, assertions | - | - |

How they interact: a CI job (`CI.TestE2E`) calls the rule engine; the rules of
the repository under test install the cluster and start ginkgo with focus files
and a label filter; the suites call the clients; the build suites wait for
PipelineRuns with `WaitForComponentPipelineToBeFinished`, which deletes and
triggers runs while Pipelines-as-Code (PaC), Tekton, the pruner, controllers and
other pushes change the same objects. The integration and release suites follow
a component further, from Snapshot to Release. The cleanup jobs run beside the
test jobs and share Quay, SprayProxy and the git providers with them.

## 2. Plan

Done in this order, most important first:

1. `PipelineRuns`, `ComponentPipeline`, `BoundedRetry`: the wait and its promise.
2. `ComponentPipelineProofs`: type correctness, safety and refinement.
3. `QuayTags`: the parallel tag cleanup.
4. `RuleTrees`, `RuleEngine`, `TestRules`, `MageEngine`, `TestSelection`, `CIRules`:
   the rule engine, the selection of tests and the CI workflows.
5. `TestNamespace`, `TestNamespaceProofs`: parallel calls for one namespace.

6. `CIJob`: the mage targets around the rules, the installation, SprayProxy.
7. `ClusterUpgrade`: the upgrade and disaster recovery workflows.
8. `Cleanups`, `GitRepositories`: the periodic cleanups, composed with a suite
   that works on the same account through the retrying transport.
9. `ReleaseFlow`: the waits from a build to a release.
10. `SandboxUsers`: parallel users.

11. `QuayTagsProofs`, `ClusterProofs` (of `CIJob` and `ClusterUpgrade`),
    `GitRepositoriesProofs`, `ReleaseFlowProofs`, `SandboxUsersProofs`: every safety property that the runs
    of these modules check, and `NotCreatedIsTrue` in `ComponentPipelineProofs`.

12. `RuleProofs`: every property of `TestSelection` and `CIRules`.

Left: the proof about the rules is for the catalogs of the repository. A lemma
about the engine alone that is worth stating for every tree of rules is that Check
of a filter leaves the call stack below it as it was; it is an induction over
trees, for which the provers have no rule.

## 3. The modules

### PipelineRuns and ComponentPipeline

`PipelineRuns` is the cluster as the clients see it: the PipelineRun objects of
one Component (`plr`, by name in the order List returns them), the triggers for
which PaC or the build service has not created a run yet (`pending`) and the
commits of the branch. All of it is external; it is modelled from how the code
uses it. Runs are created, finish, lose a controller's finalizer, are pruned,
get the finalizer of the test suite, and others push to the branch. A deleted
run with finalizers stays listed as `terminating`.

`ComponentPipeline` is the wait. Every request is one action, so the cluster
moves between any two of them:

| Action | Code in `components.go` |
|---|---|
| `PollNothing`, `PollRun`, `PollTimeout` | the closure of `PollUntilContextTimeout` (218-260) and its timeout |
| `Decide` | 262-272: give up, panic on the nil run, or go on |
| `RemoveFinalizer`, `DeleteRun` | 273-277, with the merge patch of `pkg/clients/tekton/pipelineruns.go` |
| `CommitFile`, `GetFileMetaData`, `AnnotateComponent`, `RetriggerError` | `RetriggerComponentPipelineRun` up to 562 |
| `AwaitNewRun`, `AwaitDeadline` | its poll for the new run and its deadline (566-588); `attempts++` and the cleared event filter of the caller |
| `Tick` | the timers |

Time is the phase of the timers: before the 5 minute deadline (`early`), after
it (`late`), after the 30 minutes (`over`). The poll interval is far below the
25 minutes between the deadlines, so a poll always happens in between.

`BoundedRetry` is the abstract promise of a retry loop: attempts one after the
other, at most a given number, and a final outcome.

### QuayTags

`cleanupQuayTags`: the pager (`ListPage`, `ListPageError`), the workers that take
every n-th tag (`HandleTag`), the join and the result. The number of workers is a
parameter (10 in the code). Others push and remove tags meanwhile, so pages
shift. `repushed` remembers the tags that were pushed after they were listed and
were not deleted since. A worker's errors are appended to its copy of the slice:
`workerErrors`.
A repository has at most one tag of a name (`NamesAssumption`), so a deletion
(`Without`) takes one entry out of the list.

### RuleTrees, RuleEngine, TestRules, MageEngine, TestSelection, CIRules

`RuleTrees` has the constructors of conditions and rules. The filters of the code
(Any, All, None) have no name; here each carries the name of the rule it is written
in, which the engine never looks at and the proofs refer to. `RuleEngine` is the
interpreter: Check of a filter calls Check of its children and Check of a Rule
also applies it, so the Go call stack is a variable and one step is one iteration
of the loop on its top. It is parameterised by what the named functions do
(`Check`, `Execute`) and by the rules of a catalog. `TestRules` has the rules and
functions of `e2e_repo.go` and `infra_deployments.go` as data; the files are kinds
of files the rules tell apart. A label filter is an alternative of labels with
excluded labels; since && binds tighter than || in ginkgo and the code puts no
parentheses, the labels in front of the last alternative (`before`), which the
exclusions do not reach, are kept apart from it (`only`, `not`).
`MageEngine` adds the functions and rules of the category `ci`, and is the engine
with all catalogs: the context (`NewRuleCtx`) also holds the environment, what is
installed, and what GitHub answered. `CatalogFilters` are the filters that
release-service-catalog's rule makes of the changed pipelines or of the job name;
`TestCases` are the labels they consist of. `TestSelection` runs the category `tests` on
it, `CIRules` the category `ci`. `IsPRPairingRequired` may answer differently each
time, every preparing step may fail, and the catalogs come in any order, as the
engine keeps them in a map.

### TestNamespace

Several ginkgo processes call `CreateTestNamespace` and, if their suite did not
fail, `DeleteNamespace` for one name. Each request to the API server is a step of
the process (`pc` names the next one); `copy` is its local variable `ns`. The
namespace object has a uid, a resourceVersion, a phase and labels, which are
`right`, `wrong` or absent per key. `clock` gives versions and uids. Any request
may fail and any poll may be over time. External: the namespace becomes active,
gets its service account, terminates, and somebody else edits labels. `upstream`
is the `TEST_ENVIRONMENT` of the job. A process that finds all labels in place
takes the early return; `long` are those that did not.

### CIJob

One job: its target (`TestE2E`, `Bootstrap`, or a local one), what its
environment says of it (`job`), and the state its steps share: the environment
variables (`env`), the two global flags, the installation controller's copy of
them (`ctl`), the clone, what the cluster runs and the e2e secret. One action per
step of the target; `EnvDefault` to `EnvCatalog` are the branches of
`setRequiredEnvVars`. `BootstrapCluster` is retried by `retry`: `BootstrapFails`
leaves everything as it is and begins anew. `Pairing` is what
`isPRPairingRequired` may answer, each time. `registered`, `alive` and `listing` are
SprayProxy's servers and the cleanup, which runs for all jobs; a job that is
killed never reaches `UnregisterSprayproxy`.

### ClusterUpgrade

`PerformUpgrade` from the channel to the poll of the conditions, and
`CheckOperatorsReady`, `MergePRInRemote` and the tests of the two workflows. A
version is a pair of numbers; `ContainsFull` and `ContainsMinor` say what
`strings.Contains` finds in its decimal form. External: the cluster version
operator changes its offers, which are always newer versions (`Newer`), starts and finishes an update some time after the
trigger, and only then reports it; Applications get out of sync, degrade and
recover. `steady` remembers the Applications that did not change since the List.

### Cleanups and GitRepositories

`Cleanups` is what the periodic cleanups have in common (`StartCleanup`,
`DeleteItem`, `DeleteGoneItem`, `DeleteItemFails`, `NextKind`, `EndCleanup`) with
what tells them apart as data: the kinds of things of an account, the `Policy`
for errors, and who finds what (`FindsItem`). `GitRepositories` extends it with a
suite on the same account. Every request is an action: the provider accepts or
refuses it (`Accepts`, `Served`: external), or the answer is lost, served or not,
and `RoundTrip` repeats a 5xx. The actions carry the names of the three clients'
functions; where the clients differ (GitLab only marks a project, Forgejo adopts
what is there, GitHub closes a pull request with its branch) there is an action
for each.

### ReleaseFlow

A suite in the order the integration and release suites have: build, annotation,
Snapshot, integration runs of all scenarios, finalizers, Release, its run, one
more pipeline; or the deletion of all runs. `runs` are all PipelineRuns ever
created, with what their labels say. Every wait is an action that is enabled when
its poll would succeed, and `TimesOut`. Only the wait for the annotation has a
clock, since there the limits are nested (`PollAnnotation`, `LookupFinds`,
`LookupTimesOut`, `Tick`). Konflux goes on between any two polls: a second build,
another Snapshot, scenarios that are added, reruns, pruning.

### SandboxUsers

Each suite has an operation and a user; `pc` is the next request. External: the
toolchain names and completes UserSignups, makes Spaces and removes what is
deleted, and admin tokens expire. `fresh` are the suites whose copy has the newest
resourceVersion, so an Update by another one is a conflict. `file` says whose token
each kubeconfig file holds: one file per user, or the one in
`USER_KUBE_CONFIG_PATH`.

## 4. What is checked

| Run | Instance | What it shows |
|---|---|---|
| `component_pipeline_incoming` | 2 runs, 1 retry, `Always`, GitLab, event `incoming`, foreign commits up to 3 in all | `AttemptJudgesFreshRun`, `SuccessIsReal`, `RetriggerBudget`, `NotCreatedIsTrue`, `Termination`, and that the wait implements `BoundedRetry` |
| `component_pipeline_simple` | a simple build, retriggered by annotation, 3 runs, 2 retries, no `Always` | `DeletesOnlyFlakedRuns` although the verdict is by a copy |
| `quay_tags` | 4 tags, 2 workers, pages of 2, one failed request, two pushes, one removal | no tag is handled twice, none is left out, old tags are gone when nil is returned, young ones stay unless they were pushed after they were listed, the cleanup ends |
| `test_selection` | up to 3 kinds of files of this repository, all sets of components of infra-deployments | exactly one ginkgo run, which selects what changed |
| `ci_workflows` | all repositories, all catalogs in any order, `SKIP_BOOTSTRAP` on and off; a slow and another test case of release-service-catalog; this repository's workflow with changes of up to 2 kinds of files | one workflow per job, own suite, affected tests selected, tests only on a prepared cluster |
| `test_namespaces` | 2 processes, a required and another label, one foreign edit, upstream and not | foreign labels are kept, required ones are in place, what the environment needs is there, a deletion that is reported happened, every call returns |
| `ci_jobs` | 16 jobs: OpenShift CI, Konflux CI, local; component, catalog, rehearsal and nightly jobs; two attempts; one other cluster, one lost request | the cluster runs what the environment names after any attempt (nightly jobs and jobs of e2e-tests have nothing under test that could be deployed), Pipelines-as-Code tests need an answered registration, only registered catalogs are asked for, dead hosts leave SprayProxy |
| `cluster_upgrade` | versions 4.14.3, 4.14.15, 4.15.1, 4.15.10, 2 changes of the offers; 2 Applications that become unready twice | a reported upgrade is one, no Application is overlooked, the workflows end |
| `git_repositories` | a fork and another thing, 3 providers and Quay, 2 faults, 1 repetition by the transport | forks are ready, a reported merge or close happened, nil of a cleanup means deleted, forks of failed suites go |
| `release_flow` | 2 builds, 1 scenario, 1 test, 1 release, 1 failed deletion; outer limit 1, inner limit 2 | the nested wait is bounded, what was released was tested, deleted runs go |
| `sandbox_users` | 2 suites, 2 users, 2 attempts | users can log in, deactivations happened, calls end |
| `v_never_panics` | - | violated: a run that was seen and is gone at the timeout leaves a nil pointer that is dereferenced |

Bounds. Two runs are a first run and its replacement, three add the replacement
of that; the retries are enough for an attempt that is neither the first nor the
last. Three commits are the first one, the retrigger's and a foreign one, which
may come before, after or between the two requests of a GitLab retrigger. Two
workers and four tags, with room for one that is pushed meanwhile, give workers
with different numbers of tags on full and partly filled pages; two pushes shift
the pages by so much that a young tag is listed behind an old one. Two processes
suffice for every race of two calls for a namespace, deletion and creation anew
included; the proofs cover more. The rules compare changes by a handful of
predicates on kinds of files, so three kinds reach every pair of rules that
interact and a bystander. `retry` is called with two attempts in the code too. The
four versions have one that begins with another (4.15.1, 4.15.10) and one that
contains the desired minor version without having it (4.14.15). Two faults let a
repeated request be lost again or a cleanup fail beside a suite; the outer limit
is below the inner one, as 5 minutes are below 20. A second build is what
another push yields: enough for a wait to pick the wrong one. Two suites make
every race of two calls for one user.

Fairness. `ComponentPipeline`: the poll loops run on client timers, so the wait's
steps and the clock are weakly fair; nothing is assumed of PaC, Tekton, the
pruner or others. `QuayTags`: the pager and the workers are goroutines that the
scheduler runs; finitely many requests fail (`MaxErrors`), which the code needs:
it has no bound on failing pages. `TestNamespace`, `SandboxUsers`: requests are
answered and every poll has a timeout, so each process's next step is weakly
fair; nothing is assumed of the cluster. `CIJob`: the job's steps, and the cleanup,
which is a periodic job. `ClusterUpgrade`: the steps, and the timeouts of
`PerformUpgrade`; `CheckOperatorsReady` has none, so `UpgradesEnd` asks there that
the Applications stay ready from some time on. `GitRepositories`: the suite and its
timeouts, ageing and the steps of a running cleanup are weakly fair; the start of
each periodic cleanup is strongly fair, since another one may be running whenever
it is due. `ReleaseFlow` and the rules have safety properties only.

Every property of a passing run has a mutant: a definition that stands for code
is replaced by a plausible slip (an operator marked `Mutant` beside it), and TLC
must report the property. Each module has a type invariant `TypeOK`, which holds
on the same instances and is not among the listed properties.

### Disagreements with documents and comments

These were met while modelling; the models have what the code does.

- `WaitForComponentPipelineToBeFinished` (`components.go:200`) works "by deleting the
  original PLR and creating a new one in case the PLR fails": with
  `RetryOptions.Always` it deletes a run that is still going after 30 minutes, and
  that may have succeeded before the DELETE. For simple builds the retrigger
  returns no sha, so the next attempt may judge the deleted run (`components.go:283`
  says the sha is sufficient); freshness is therefore claimed for PaC builds.
- `cleanupQuayTags` (`utils.go:286`): the workers append errors of `DeleteTag` to
  their copy of the slice, so they are never reported (`utils.go:306`). A tag
  pushed again after the listing is deleted though it is young; `YoungTagsKept`
  says that this happens to no other tag, and once per push.
- `ExecuteReleaseCatalogPairedAction` appends the exclusions of slow test cases
  without parentheses (`release_service_catalog.go:119`) to a filter that may be
  `a||b` (line 59), so they bind to the last alternative only: a paired job still
  runs the slow cases in front of it, and one whose only case is slow runs no
  spec. `BuildLabelFilter` (`build_service.go:74`) does wrap such a filter. The model
  has the filter as ginkgo reads it, and `RunsOwnSuite` states it so.
- `NonTestFilesRule` (`e2e_repo.go:16`) "Runs all suites when any non test files are
  modified": `Check` of a Rule applies it (`types.go:129`), so for a change of
  shared code and of a release helper the focus files set by another rule restrict
  the preview to the release tests. A change of `tests/build/const.go` alone, or
  of documentation, selects every suite.
- "Execute the full workflow for e2e-tests repo in CI" (`e2e_repo.go:316`): with
  `SKIP_BOOTSTRAP=true` the chain is false (`common.go:346`), no test runs and the
  rules return nil.
- Two different answers of GitHub make `Any{&P, None{&P}}` false, or make both
  release-service-catalog workflows match (`StablePairing`);
  `Any{None{&InstallKonfluxRule}, &InstallKonfluxRule}` installs Konflux twice. Of a
  renamed file only the old name is kept (`util.go:447`).
- `CreateTestNamespace` returns at once when it finds the labels in place, though
  the caller that created the namespace still waits for the service account
  (`ReadyWhenReturned` excludes it), and does not tolerate that another process
  created the namespace first (`namespace.go:133`), as it does for the role binding.
- `RunPipelineWithRetry` ("upto 3 retries", `tekton/pipelineruns.go:68`) never
  retries: it looks at the object Create returned, which has no status.
- `PerformUpgrade` compares versions by `strings.Contains`: 4.15 is found in 4.14.15
  (`upgrade.go:198`), and with `ToLatestAvailable` oc may pick another version than
  the one named. `UpgradeTestsWorkflow` neither creates nor verifies a workload,
  as the comment of `Local.TestUpgrade` says it does.
- `CheckOperatorsReady` refreshes Deployments instead of Applications and may return
  before Argo CD noticed the merge; `strings.Contains("main", ref)` in
  `MergePRInRemote` is never true for a full ref, so its last branch is taken.
- A Konflux CI job of infra-deployments deploys main, since only OpenShift CI's
  JOB_SPEC is parsed; an existing e2e secret is never refreshed;
  `setInstallationEnvironments` overwrites the catalog jobs' Quay organisation;
  `SKIP_PAC_TESTS` is never reset by a later attempt that registers; `sendRequest`
  of SprayProxy ignores the HTTP status, so a refused registration is an answer.
- `RunE2ETests` asks for a catalog release-service-catalog of the category tests
  that does not exist (`magefile.go:378`); `CatalogsAreRegistered` shows that `TestE2E`
  never gets there.
- `CleanupGitLabRepos` deletes by a bare name and finds nothing; `DeleteWebhooks`
  deletes only the first match; a webhook that somebody else deleted ends the
  cleanup with an error.
- After a lost answer a repeated branch, pull request or merge is refused, and the
  call fails although it was done; a repeated DELETE at GitHub or GitLab is an
  error although the repository is gone. `GetCheckRunConclusion` loses the id of
  the check run after an error.
- `IsIntegrationPipelinerunCancelled` is always true; `WaitForAllIntegrationPipelinesToBeFinished`
  skips an expected scenario that is not there when it lists; `GetSnapshot` with
  two names matches either; a run without finalizers cannot be patched by the JSON
  patch that removes them, so the deletion of all runs times out on it.
- `ForkRepository` of Forgejo takes a repository it finds after a conflict for the
  migrated one (`forgejo/git.go:285`), though its import may still be running
  (`ForksAreReady` asks only that it is there).
- An Update that conflicts is not tried again when a simple build is retriggered:
  the error is wrapped without `%w` (`components.go:554`), so the run is deleted and
  none takes its place.
- `KeycloakUserExists` asks for a name that contains the user's (`keycloak.go:210`),
  so another user may pass for him; the token request finds that out too.
- `RegisterKeycloakUser`'s errors are never reported (`sandbox.go:206`), the user's
  token request finds them out; a UserSignup that exists is adopted in any state;
  a Get that fails right after the Create ends the wait (`sandbox.go:325`);
  `RegisterDeactivatedSandboxUser` looks for the compliant name, which may differ;
  with `USER_KUBE_CONFIG_PATH` all users overwrite one file.

## 5. What is proved

All theorems are checked by `tlapm` down to the last leaf. The argument is the same
in every proof module: an inductive invariant (`IInv`, `UpgradeInv`), a conjunction
of named parts, holds initially, every action preserves it (one lemma or step per
action), and it implies the property. TLC checked each one
on the instance of the module's run before it was proved. The assumptions are the
ASSUMEs named in the modules; TLC evaluates them in every run. None bounds a
number or a set: runs, jobs, tags, workers, users, versions and faults are any.

`ComponentPipelineProofs`, for every set of runs, number of retries, provider,
event type and number of foreign commits:

- `TypeCorrect`: the types.
- `WithinBudget`: at most `Retries` PipelineRuns are deleted.
- `OnlyFlakedRunsDeleted`: without `Always`, only runs that failed for one of the
  two known reasons.
- `FreshRuns`, `SuccessesAreReal` (for PaC builds): no attempt judges a run the
  wait deleted; a success is a run that succeeded, with the sha asked for.
- `RefinesBoundedRetry`: the wait implements `BoundedRetry`.
- `NotCreatedVerdicts`: after a retrigger the wait does not report that no run was
  created while the run of its commit is listed. `QuestionInv` says that from the
  second attempt on the wait asks for any event type, so the sha alone decides.

The assumptions are those named in the modules: retries are a natural number, the
caller's filters are the sha and event of the first run or empty, `Nil` is no
PipelineRun, run names are naturals.

The inductive invariant `IInv` adds to the properties what relates the copy of the
last poll to the cluster. `CopyIsOfRun`: a copy that shows a finished run shows
its final phase, since a finished run does not change its phase (lemma
`StepAdvances`); that is why a stale verdict is still true at the DELETE.
`CommitOrder`: no sha is ahead of the branch. `RetiredOlder`: every deleted run is
of a commit before the one the wait asks for, since the retrigger makes, or
GitLab reports, a newer commit; a poll by sha therefore cannot hit a deleted run.
`BudgetInv` counts a deletion per finished attempt and one more once the DELETE of
the current one is done. Each part has its own preservation lemma.

`TestNamespaceProofs`, for every set of processes and labels and number of edits:
`NoLostLabels`, `LabelsInPlace`, `Ready` and `DeletionsAreReal` (the four safety
properties of the run) and `TypeCorrect`. The assumptions: required and other
keys are disjoint, `Nil` is no namespace object, the bound on edits is a natural
number. `IInv` adds `CopyInv`: versions and uids come from a clock, and a copy that
is about to be sent equals the cluster's object if it has its version, so an
Update that the API server accepts writes back the labels of others unchanged;
and a new uid is larger than all those remembered, so nothing that was
established for a namespace is claimed of its successor. `LabelInv` extends the
label property to the states inside the call, `PathInv` tells the early return
from the rest.

`QuayTagsProofs`, for every number of workers, page size, list of tags and number of
failed pages, pushes and removals:

- `WorkersShareTheList`: no entry is handled twice, and all are when it returns.
- `NilMeansClean`: after nil, without failed deletions and other deleters, no old tag
  is left.
- `OnlyOldTagsGo`: a step of the cleanup deletes a young tag only if it was pushed
  after it was listed, and only once per push.

Assumed: workers and pages are not empty, a repository has a name once. `StrideInv`:
every entry was handled or is ahead of exactly one worker, that is at a distance
that the number of workers divides; the lemmas `Spread`, `Apart` and `Stride` have
the arithmetic of remainders. `ListedInv`: while no page failed and nobody removes,
every old tag in front of the next page is listed. It survives a push because the
pushed tag is young and all others move towards the end or stay (`PushedTag`); a
removal would move tags over the page boundary, which is why the property excludes
it. `ClearedInv` and `AgeInv` relate the ages in the list to the tags that are
there when a worker comes to them: a tag that is listed as old is old or was pushed
since, wherever the pages shifted and however often it is listed.

`ClusterProofs`, for every set of jobs, other clusters and lost requests:
`BootstrapsDeliver`, `PacTestsAreRegistered` and `CatalogsExist`. Assumed: jobs have
the fields of the model, the own cluster is none of the others. `EnvInv` says what
the environment variables name once `setRequiredEnvVars` is through, `StageInv`
follows them into the controller, the clone and the cluster, across a failed
attempt that begins anew; `PathInv` says which targets and repositories reach a
step.

`ClusterProofs`, for any versions, offers and Applications of `ClusterUpgrade`:
`UpgradesAreReal` and `ChecksAreSound`. Assumed: versions are pairs of natural
numbers. `CVInv`: offers are newer than the version before the upgrade, and the
status is of that version until the operator reports the new one. The status of
before the trigger cannot pass for a completed update because the decimal form
of an older version does not contain that of a newer one that was picked (lemma
`OldVersionDiffers`); a downgrade would break this. `PassInv` counts what a pass has
read.

`GitRepositoriesProofs`, for any things of an account, faults and repetitions:
`ForksStayReady`, `SettledStaysReal` and `NilMeansAllDeleted` (of `Cleanups`). Assumed:
the fork is one of the things, `Nil` is neither a thing nor a list of kinds.
`ForkInv`: a fork is young while its suite runs, so no cleanup lists it, and it has
its content from the end of `ForkRepository` to the deletion. `PrInv`: how far the pull
request and the check run are at each call. `CleanupInv`: a running cleanup has an
error to report, or what it listed and passed is gone. The lemmas `SuiteIInv`,
`MoveIInv` and `PrServedIInv` have what the many requests of the suite share.

`ReleaseFlowProofs`, for any numbers of builds, scenarios, tests, releases and faults
and any limits: `AnnotationWaitsEnd`, `ReleasesAreTested` and `DeletedAreGone`.
Assumed: the limits are natural numbers, `Nil` is none, the expected scenarios are
scenarios. `ClockInv`: the outer wait was within its limit when the poll began.
`SnapshotInv`, `TestInv` and `ReleaseInv` are what a suite has seen by each stage; they
stay true because of `Kept`, what is never taken back of a PipelineRun (its kind and
labels, a success, a deletion), which every step satisfies.
`GoneInv`: of the listed runs, those that were passed are gone or terminating.

`SandboxUsersProofs`, for any numbers of suites, users and attempts: `UsersAreUsable`
and `DeactivationsAreReal`. Assumed: the shared file is no user's, there is an
attempt. `KeycloakInv`: behind the token request the user has an account, though no
error of the registration was reported. `FileInv`: a written file holds a token of a
suite that writes to it. `FreshInv`: a copy with the newest version is of an object
that is there, so an Update that is accepted deactivates it, and a suite that
registers the same user does not replace it.

`RuleProofs`, for every change, of any number of kinds of files, and every set of
jobs, of test cases of release pipelines and of registered catalogs (assumed: the jobs have the fields of the model and
the catalog of their own repository is registered):

- `SelectionRunsOnce`, `SelectionFindsTests`, `SelectionFindsComponents`: RunRules
  starts ginkgo once, and the run covers the change.
- `JobRunsOneWorkflow`, `JobRunsOwnSuite`, `JobRunsAffectedTests`,
  `JobPreparesCluster` (an action property): RunRulesOfCategory runs the tests of
  one workflow, of its own repository, that the change asks for, on the cluster that
  this workflow prepared.
- `SelectionTypeCorrect`, `JobTypeCorrect`.

The conditions change the RuleCtx that the later ones read, and a rule that is a
condition is applied while it is evaluated, so nothing can be said of a rule without
saying where in which tree it is checked. The argument is that of a proof of a
recursive program. Each node of the trees (`Nodes`) has three assertions on
the RuleCtx: `Pre` when its Check is called, `Loop` while the i-th child is checked,
`Post` when it returned, with the answer. The parts of the invariant:

- `StackInv`: for the function on top of the stack `Pre`, or `Loop` and `Post` of the
  child that just returned; for every function that waits, `Loop`, and the frame
  above it is of its child.
- `LoadInv`: what is left of the loaded catalog (`Rest`), and which rules matched so
  far (`Matching`): none of another repository, and of the own catalog the one whose
  condition holds. `H1`, `H2` and `H3` are the conditions of the three rules for this
  repository, which exclude each other and cover every change (`ExactlyOneHolds`).
- `ApplyInv`: what the action that comes next finds in the RuleCtx.
- `CtxInv`: what is always true of the RuleCtx, the runs so far included. `NilInv`: what a
  nil result means.

That the assertions of a node fit those of its children is shown per kind of filter
(`AllsFit`, `AnysFit`, `NonesFit`, `RulesFit`). That they survive what happens further up
the stack is `Keeps`: every condition and every action that runs no test changes the
RuleCtx only in ways no waiting function relies on (`ConditionsOK`, `RuleActionsOK`,
`KeepsLoop`): the focus and the labels only grow, a bootstrap is not undone, answers
of GitHub are not forgotten, and settings are written by the rule of the own
repository only. The three rules that run tests within the evaluation, those of the
workflow of this repository, get an argument of their own (`TestActionOK`,
`TestedLoops`): `Stage` says which of them was applied, and that there is one run then.
With these, each step of the engine preserves the invariant by the general lemmas
(`AllCheckStep` to `RuleDoneStep`), whatever the node. When GitHub gives two answers
(`~Stable`) the invariant still says which rules may be applied, since the cluster has
to be prepared then too.

Only model-checked:

- Liveness: `Termination` (three modules), `DeadHostsLeave`, `UpgradesEnd`,
  `LeakedForksGone`, `CallsEnd`. Fairness and ENABLED are out of the prover's reach.
- The violated `NeverPanics`.

## 6. What is not modelled

- The rest of the HAS client (Components and Applications), creation of scenarios,
  Snapshots, release plans, policies, secrets and service accounts: single
  requests with at most one poll, without state that another part shares.
- Reading and writing of files in repositories (the commit of the retrigger is in
  `ComponentPipeline`).
- Generators of test specs and rule texts, the demo catalog `rule_demo.go`,
  `PrepareBranchRule`, uploads of bundles and reports: no state, or not part of
  the CI workflows.
- The test suites and the disaster recovery suite: sequences of assertions. The
  order in which they call the clients is modelled where it matters
  (`ReleaseFlow`, `GitRepositories`, `TestNamespace`).
- The construction of clients in the framework, string and file utilities, logs,
  artifacts and messages.
